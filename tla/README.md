# Verification of mmo_server

TLA+ specifications of the concurrent core of the server (`server_core/`), the TLC
models that check them on small instances, and TLAPS proofs, for instances of every
size, of most of their safety properties. Paths below are relative to the repository
root.

## 1. The system

The server is a library of two layers. Layer 1 (`server_core/infrastructure`) holds
independent components; Layer 2 (`server_core/runtime`) runs the world in ticks.
There is no persistence and no distribution: what makes the code hard is threads.

| Component | State it keeps | Operations | Talks to |
|---|---|---|---|
| MPMCQueue (`lockfree_queue`) | ring of slots with a sequence number each, head and tail counters | Enqueue, Dequeue, any number of threads | used by JobDispatch |
| MPSCQueue (`lockfree_queue`) | the same ring, consumer position owned by one thread | Enqueue (many), Dequeue (one), ApproxSize | inbound queue of NetServer |
| TaskGraph | immutable table of nodes by phase, child lists, parent counts | none | read by JobDispatch |
| JobDispatch, WorkerPool, TaskRegistry | run flags, current phase, dependency counters, ready queue, active-task counter, phase epoch, worker threads | Initialize, ExecutePhase, Shutdown; worker loop | MPMCQueue, TaskGraph, task functions |
| RuntimePipelineExecutor | executor state, position in the list of phases | Initialize, ExecutePipeline, Shutdown | JobDispatch |
| TimerQueue | heap of tasks, set of cancelled ids, id and sequence counters | Schedule, Cancel (any thread), Tick (runtime thread) | callbacks |
| TickScheduler | scheduler state, context (mode, tick id), stop flag, next tick time | Initialize, RunOneTick, RunUntilStopped, Shutdown | TimerQueue; the pipeline hook is empty |
| NetServer, TcpConnection | connection table, per-connection send queue and write flag, inbound queue, io_context and its thread | Start, Stop, Send, PollPacket; accept, read and write handlers | asio, MPSCQueue, PacketCodec |
| PacketCodec | none (works on a byte buffer) | Encode, Decode | NetServer |
| EventBus | handler lists, copy-on-write snapshots, id counter | Subscribe, Unsubscribe, Publish, Clear | handlers, which may call it back |
| FixedBlockPool (`memory_pool`) | storage, stack of free indices, a flag per block | Allocate, Deallocate, Owns | none |
| packet (PacketBuffer, PacketWriter, PacketView, PacketReader) | bytes, a write cursor, a read cursor | WriteBytes, WriteString, Reset, Resize, Clear; SubView; ReadBytes, ReadString | memory only |
| serialization (BinaryWriter, BinaryReader, StringSerializer) | none of its own | Write and Read of values and strings | packet |
| ConfigSystem | key-value map, loaded flag | Load, Get | config sources and parsers |
| logger | level, sinks | Log | sinks |
| RuntimeContext, RuntimePhase, RuntimePipeline | plain data | none | read by Layer 2 |

### What is hard, and what correctness means there

* **Queues.** Producers and consumers of different laps meet in one slot, and the
  element itself is plain memory. Correct means: a slot has one owner, elements come
  out in claim order, the bound holds, nobody spins for ever. Positions wrap, and full,
  free and stale are told apart by the sign of a wrapped difference.
* **Dispatch.** The main thread seeds a phase while workers already complete its
  tasks, release successors and count down; the barrier is an atomic counter plus an
  epoch to sleep on. Correct means: every task runs once, in its phase, after its
  parents; the barrier opens when the phase is over, and it does open.
* **Timers.** The lock is released between popping a task, checking for cancellation
  and running the callback. Correct means: once, when due, in order, and not after a
  cancellation.
* **Scheduler.** Ticks can overrun their interval, and a callback can stop the loop
  in the middle of a tick.
* **Network.** `StartWriteLoop` runs on senders' threads and on the IO thread; a write
  may fail, and Stop may come, while others send. Correct means: one write at a
  time, accepted packets on the wire in order, none stranded, nothing left after Stop;
  frames decoded wherever TCP cuts the stream.
* **Event bus.** Publishers walk a snapshot while other threads and the handlers
  themselves change the topology.
* **Block pool.** Sequential, but its clients may return anything: the free list must
  not lose a block or get one twice.
* **Wire format.** Sequential, but two layers with different failure rules share one
  cursor: writes that fail half-way, buffers that are reused, lengths that lie. Correct
  means: the bytes are those of the fields that were written, they read back, and no
  cursor leaves its buffer.

`PROJECT.json` lists the hazards with their lines and the properties aimed at them;
sections 4.5 and 6 have those that only a convention of the callers keeps away.

## 2. Modules

```
BoundedFifo  <-- refinement --  MPMCQueue      MPMCQueueProofs
BoundedQueue <-- refinement --  MPSCQueue      MPSCQueueProofs
TaskGraph  <--  JobDispatch  <--  RuntimePipelineExecutor  -- refinement -->  PhaseSchedule
                                               RuntimePipelineProofs
TimerQueue <--  TickScheduler                  TickSchedulerProofs
PacketCodec <-- NetServer                      NetServerProofs
EventBus                                       EventBusProofs
FixedBlockPool                                 FixedBlockPoolProofs
Packet <-- Serialization                       SerializationProofs
```

A `*Proofs` module extends the module it is named after (section 5).

`MC*` modules only give the constants of an instance; MCMPMCQueue also lets each
producer enqueue its own name only, since the queue never looks at an element. Definitions marked
`\* Mutant:` are wrong variants of the definition after them. They are part of no
specification and exist to show that the properties can tell the difference.

**MPMCQueue** models `MPMCQueue.hpp` with one action for every atomic access:
load of the position, load of the slot's sequence with its three-way test, the CAS
(which as a weak CAS may fail spuriously), the plain access to the storage, the
release store. `log` is a history variable: the elements in the order their positions
were claimed. **BoundedFifo** is the promise: a sequence of accepted elements and the
number taken. The linearization points are the two successful CASes.

**MPSCQueue** models `MPSCQueue.hpp` in the same way, with two differences. Positions and
sequence numbers have the code's finite width: arithmetic is modulo `Width` and the test
is the signed difference `Diff`, so the queue runs for ever and its counters wrap again
and again. And the consumer moves the element out, gives the slot back and only then
moves `m_dequeuePos`; an observer may take `ApproxSize` at any point. What the queue holds
is read off the slots (`Contents`), with no history, and **BoundedQueue** is the promise:
a FIFO of at most Capacity elements and the element last handed out. The linearization
points are the CAS of Enqueue and the move out of the slot.

**TaskGraph** is the immutable graph, with what its documentation guarantees (sorted
by phase, no edge back to an earlier phase or listed twice, acyclic) as an assumption.
The nodes of a phase are the `count` nodes behind the first `begin` ones, as
`phaseRanges` delimits them.
**JobDispatch** has the main thread and the workers, each with a program counter; a
worker's local copies (task, the phase it loaded, children left to release) are its
record. The counters are unsigned and wrap at `Modulus`. The ready queue is the
bounded FIFO that MPMCQueue implements. A failed Enqueue behaves as in a release
build: the task is dropped and still counted. **RuntimePipelineExecutor** extends it
with the executor's life cycle: it calls ExecutePhase for one phase after another,
takes the error path when the owner of the dispatcher has shut it down, and can be
constructed again over the same dispatcher. **PhaseSchedule** is the promise of a
tick.

**TimerQueue** splits Schedule into its four steps (id, deadline, sequence number,
push under the lock) and DispatchExpired into its two critical sections and the
callback. **TickScheduler** extends it: its Tick is a part of RunOneTick.

**NetServer** has the senders, the IO thread with one handler at a time and the
runtime thread. asio is external: while the io_context runs a write or a read may complete
with success or failure, now, later or (the code sets no timeout) never, and after `stop()`
no handler runs. A write that was outstanding when its socket was closed may still complete
with success, since its completion may have been queued before (`late`); the same holds of
a read. Nothing in the
code calls `restart()`, so a server started again after Stop serves nobody; the model
keeps that. Outbound packets are numbers. Inbound, every peer sends the packets of
`PayloadLengths`, and a read delivers any number of the bytes that follow.

**PacketCodec** is Encode and Decode. A byte is known by the packet it was encoded for
and its place in the frame; a length is read correctly where a header begins, and
HeaderSize bytes from any other place give any length. Decode is the set of its possible
results: success, the packet, and what is left in the receive buffer.

**EventBus** names a subscription by its order of creation, so that the re-use of ids
after Clear stays visible. A handler may subscribe, unsubscribe and clear from inside
a Publish.

**FixedBlockPool** keeps the free list as a sequence and addresses as distances from the
storage, so that `Owns`, the alignment test and the index computation are the code's.
`holders` and `misused` are history: who was handed a block, and whether somebody has
returned a block that was not his. Nothing about the pool depends on its size, so its
properties are proved (section 5) and have no run.

**Packet** has one buffer, the writer that borrows it and a reader over a view of it. The
operations are functions from a stream or a reader to the next one, as the code's are on
their object: `WriteBytes` grows the buffer and moves the cursor, `WriteString` puts only the
cursor back when the characters do not fit, `Reset` and `Resize` leave the other side as it
is, `ReadString` restores its place. A length is converted to `PrefixSize` bytes, truncated
and little endian, and back. **Serialization** adds BinaryWriter and BinaryReader on the same
cursors with StringSerializer's own rules (a maximal length, no roll-back, an empty field may
be read) and the next-state relation over both layers. `fields` is history: what was
written with success since the last Reset; `torn` says that the code itself has let the bytes
and the fields come apart, by a string that failed behind its length or by a buffer cut off
below the cursor.

## 3. Runs

### Passing

| Run | Instance | Distinct states |
|---|---|---|
| `queue` | 2 producers, 2 consumers, capacity 2, 3 positions | 106,283 |
| `mpsc` | 2 producers, 2 values, capacity 2, positions modulo 8, no bound on calls | 573,182 |
| `pipeline_cross` | 2 workers, 4 tasks in 3 phases, 2 ticks, 2 executors, a complete and an incomplete registry | 262,078 |
| `pipeline_intra` | 2 workers, 4 tasks, edges inside a phase, 1 tick, a ready queue of 16 | 178,391 |
| `scheduler` | 2 calling threads, 2 timers, delays 0 and 1, interval 1, clock up to 2 | 651,805 |
| `net` | 2 senders, 1 connection, 2 sends, a stream of 13 bytes with 5 packets, the last one oversized, a send queue of 1 and an inbound queue of 2 | 708,555 |
| `eventbus` | 2 threads, 2 event types, 3 subscriptions | 2,040,000 (with symmetry) |
| `wire` | packets of 5 bytes, prefixes of 2, 3 fields a message, strings up to and past every limit | 718,591 |

* `queue`: the inductive invariant of the proofs (`IInv`), no two threads own one slot
  (`ExclusiveSlots`), a consumer leaves with the element of its position
  (`DeliversInOrder`), the refinement (`ImplementsFifo`); no Enqueue spins for ever
  (`EnqueueReturns`), and what was claimed is taken (`EventuallyTaken`). Three positions
  over two slots make the ring wrap and fill; larger instances are the business of the
  proofs.
* `mpsc`: every step is a step of the bounded queue, however often the positions wrap
  (`ImplementsQueue`); Enqueue returns false only when every slot is taken, by a waiting
  element or by the one the consumer is moving out (`RefusesOnlyWhenFull`); `ApproxSize`
  is at most Capacity + 1 and, as the signed number it wraps from, no further below zero
  than the positions claimed during that call (`SizeEstimate`; see also 4.5); the consumer is
  never stuck behind a claim (`KeepsDelivering`). `Width` is 8, four times the capacity. `MaxLag` bounds how many claims go by while a thread
  sleeps between its load and its use: with 64 bits the differences are exact unless 2^63
  go by, and `WidthAssumption` is that condition at the width of the instance.
* `pipeline_cross`: with edges only between phases the dispatcher does what it
  promises. The barrier opens on an empty queue with no task in hand
  (`BarrierComplete`), the ready queue has room with exactly one
  slot per task (`ReadyQueueHasRoom`), Shutdown leaves nothing
  (`ShutdownLeavesNothing`), every task runs once, in its phase, after its parents
  (`FollowsSchedule`), and ticks and shutdowns end (`TickEnds`, `ShutdownEnds`). Two
  workers are enough for every pairwise race, two ticks for counters left over from
  the tick before, two executors for state left over from the session before.
* `pipeline_intra`: with edges inside a phase the dispatcher enqueues tasks twice (see
  4.1), yet the counter stays exact modulo its width (`Accounting`). The queue has 16 cells
  for 4 tasks, so that no duplicate is refused: a refused task is counted and never
  completes. With one cell per node this happens (4.1).
* `scheduler`: the tick loop and the timer queue together. A timer fires once and when due
  (`FiresOnceWhenDue`), in the order of the Schedule calls of all threads
  (`FifoAcrossCallers`), and not if cancelled while still in the heap (`CancelInTime`). A
  tick fires everything that is due at its time, unless it is cancelled, also when a
  callback of that tick calls Shutdown (`TickFiresDue`). Ticks are never early
  (`TicksNotEarly`), and a stop ends the loop, from inside a callback too
  (`StopEndsLoop`). Two timers with equal or different deadlines cover every comparison
  of the heap; the clock reaches far enough for a tick to overrun by an interval.
* `net`: one writer per connection, in agreement with the flag (`OneWriter`); the wire
  is a prefix of what was accepted (`WireInOrder`), also when a write fails while others
  send; no packet waits with nobody responsible for it (`NothingStranded`); packets are
  decoded in order, nothing invented and nothing left in the buffer, up to the first
  oversized one (`DecodesTheStream`), and polled in order and once (`ReceiveInOrder`); Stop
  leaves nothing even when it meets a handler at work
  (`StopLeavesNothing`); accepted packets are written to a peer that goes on receiving
  (`AcceptedIsWritten`). Two sends by two threads fill the send queue, refuse a packet and meet every step of a write in
  flight; the stream has packets with and without a payload and a header of two bytes, so
  that a cut inside a header happens; four packets within the limit and room for two in the
  inbound queue, so that two wait together and one is dropped while a later one finds room.
  Connections share no send state and no receive buffer, so one is enough for these properties.
* `eventbus`: a permanent subscriber misses no event, an ended one stays quiet, the
  order is that of registration, the snapshot is current when no mutator is at work.
* `wire`: the bytes up to the cursor are those of the fields written with success
  (`WireFormat`); a reader that asks for them in order gets them back, whichever layer wrote
  and whichever layer reads each (`RoundTrip`); on any bytes and with any calls the cursor
  stays in the view (`ReadsWithin`); a failed read of PacketReader leaves the variable and
  the cursor, and a string refused by StringSerializer is the old one or empty
  (`FailedReadLeavesNoTrace`); its cursor is the subject of 4.4. The strings are chosen
  for the limits: one that fits, one that fits only an empty packet, one that no packet
  holds, one that `MaxStringLength` forbids, one whose length is truncated to zero. Three fields are enough
  to fail in front of, inside and behind a field that succeeded, and to write over an
  earlier, longer message.

Deadlock is checked except in the pipeline and scheduler runs, where a component that
has been shut down, or has used up the bound on ticks or time, may rest.

### Fairness

Every thread inside a call keeps running: weak fairness per thread, which any
preemptive scheduler gives. Task functions, handlers and callbacks return. Which calls
are made is up to the application and never assumed, except that consumers poll
(`WorkerLoop` does) and that the runtime thread keeps ticking. Strong fairness is used
once: a weak CAS whose comparison holds again and again does not fail spuriously for ever.
The clock advances.

No fairness is assumed of the network. `NetServer.cpp` sets no write timeout and
`TcpConnection.cpp:44` names peers that refuse to receive, so an async_write may stay
outstanding for ever. `AcceptedIsWritten` says so itself: it is about a connection whose
writes do not stay outstanding (`PeerReceives`).

## 4. Disagreements between code and documents

### 4.1 Edges inside a phase (`v_dependency_order`)

`SeedReadyQueue` (`JobDispatch.cpp:88`) tests `remainingDependencies == 0` while
workers already release successors of what it has just enqueued. A child in the same
phase is then enqueued by a worker (`:125`) and again by the seeding loop. Each
completion of the duplicate decrements its successors once more, so a join task is
released by one parent counted twice: it runs before its second parent, against rule 4
of `docs/Layer2/JobDispatch/behavior.md`. The same root gives, on other graphs: a
task that runs twice in a tick, a barrier that opens with a duplicate still queued, its
execution in the next phase, a task id left in the queue for the session after Shutdown,
and a ready queue that overflows although it has a slot for every node: with 1 -> 2, 3, 4 in
one phase and 4 slots, duplicates of the children fill the queue, the task that is refused
is counted all the same, and in a release build the phase never ends.

### 4.2 Counting after enqueueing (`v_barrier_complete`)

`ReleaseSuccessors` counts a child after it has enqueued it (`JobDispatch.cpp:129`).
Another worker can complete the child first and take the counter from 1 to 0 in the
middle of the phase; `WaitForPhaseCompletion` returns although the parent has another child
to release. No duplicate is involved here: the instance puts the parent behind its
children in the node table. Seeding counts late as well, which is harmless, since the
thread that seeds is the one that waits.

### 4.3 Cancelled timers (`v_cancelled_never_fires`)

`Cancel` returns true for a timer the dispatcher has popped and checked, and the
callback runs all the same. What does hold is `CancelInTime`.

### 4.4 Refused strings (`v_rollback_safe`)

`StringSerializer::Deserialize` has consumed the length when it refuses a string, because it
is too long (`StringSerializer.cpp:44`) or because its characters are not there (`:58`), and
the reader's next call starts inside the refused field. `PacketReader::ReadString` does
restore its place. `docs/Layer1/Serialization/behavior.md:73` lists
"deserialize_is_rollback_safe" without a further word.

### 4.5 Seen while modelling, without a run of its own

* After a tick that overran, `WaitNextTick` adds the interval to the old deadline, so
  the following ticks start back to back until the schedule is caught up;
  `docs/Layer2/TickScheduler/TickScheduler_CPP_Design.md:309` says that V1 explicitly
  forbids catch-up.
* `Send` starts `async_write` on the caller's thread without a strand, while a handler
  on the IO thread may be closing the same socket.
* A first `ExecutePhase` for a phase other than Input would run tasks without their
  dependencies, because only Input builds the run-time state
  (`docs/Layer2/JobDispatch/interface_contract.md:91` lists that under Initialize). The
  executor, the only caller, never does so.
* `EventBus::Clear` sets the id counter back to 1 (`EventBus.cpp:118`), so a token from
  before Clear has the id of a later subscription and would end that one.
  `docs/Layer1/EventBus/internal_design.md:61` says that each subscription receives a
  unique handle. `EventBus.tla` names subscriptions by creation and keeps the re-use.
* `PacketCodec::Decode` clears the buffer on an oversized length "and waits for the
  disconnect" (`PacketCodec.cpp:54`), but no caller disconnects: what follows of the
  refused payload is read as headers.
* A block returned a second time after the pool has given it to another client passes
  every test of `Deallocate` (`FixedBlockPool.cpp:81`) and is handed out once more while in
  use; `docs/Layer1/MemoryPool/behavior.md:29` has "double_free_is_rejected". The free list
  stays exact.
* `Cancel` of an unknown or already fired id stays in `cancelledTimers_` for ever.
* `StringSerializer::Serialize` leaves a length without characters in the packet when these
  do not fit (`StringSerializer.cpp:31`), where `PacketWriter::WriteString` rolls back.
* A field of no bytes can be written and read by the binary layer but not read by
  `PacketReader::ReadBytes` (`PacketReader.cpp:16`).
* `MPSCQueue::ApproxSize` does not clamp its difference, as `MPMCQueue::ApproxSize` does: it
  can exceed the capacity, and wraps to almost 2^64 when a call is overtaken between its two
  loads. The comments there call the interface completely safe (`MPSCQueue.hpp:129`) and the
  difference wrap-safe (`:136`). `SizeEstimate` is what does hold.
* `ConfigSystem::Load` clears the map in its exception handler after the lock is gone
  (`ConfigSystem.cpp:44`), and `Get` hands out references without a lock that Clear
  invalidates.
* A restarted NetServer reports that it runs and serves nobody (`NetServer.cpp:89`).
* `FixedBlockPool` multiplies block size and count without an overflow check
  (`FixedBlockPool.cpp:26`), and EventBus keeps an entry for every ended subscription until
  Clear.
* `Logger` protects neither its sinks nor its level, and a sink that throws keeps the
  later ones from the record.
* `docs/Layer1/Logger/behavior.md:50` has Fatal records flush; `Logger::Log` never flushes.

## 5. Proofs

`MPMCQueueProofs` proves, for any number of producers and consumers, any values, any
capacity of at least two and any number of calls:

| Theorem | Statement |
|---|---|
| `TypeCorrect` | `Spec => []TypeOK` |
| `InductiveInvariant` | `Spec => []IInv` |
| `MutualExclusion` | `Spec => []ExclusiveSlots` |
| `InOrderDelivery` | `Spec => []DeliversInOrder` |
| `CapacityRespected` | `Spec => []Bounded` |
| `QueueImplementsFifo` | `Spec => ImplementsFifo` |

Assumptions: the capacity is a natural number of at least 2 (the class has a
static_assert), producers and consumers are disjoint sets of threads (a thread that does
both is two threads that take turns), and there is a value. `MaxTickets` bounds TLC's
search; the theorems hold whatever its value.

None of the properties is inductive. A slot says nothing about its owner by itself: the
protocol works because the slot's sequence number, the two counters and the claims in
flight agree. `IInv` is the type together with `SlotProtocol`, which states that agreement:

* every position from head to tail-1 is claimed (sequence p) or published (sequence
  p+1, and then the storage holds element p) - `FilledWindow`;
* every position from tail to head+Capacity-1 is free (sequence p) or still being read
  by the consumer of the lap before (sequence p+1-Capacity) - `FreeWindow`;
* a thread that owns a position finds its slot in the state it left it, and a thread
  about to CAS on the current counter has a valid sequence - `ProducerClaims`,
  `ConsumerClaims`;
* two producers, or two consumers, never own one position - `UniqueClaims`.

Two facts about `pos & (Capacity - 1)` carry the proof: positions of one slot are at
least Capacity apart (`SlotsApart`), and Capacity positions later the slot is the same
(`SlotPeriodic`). The windows are together Capacity long, so a slot occurs in them once;
a step that changes one slot leaves every other position of the windows alone. There is
one lemma per action that touches a shared variable, one (`LocalStep`) for all steps
that change only the thread itself. Exclusion, order and bound follow from the
invariant; the refinement follows because the successful CAS is the only step that
changes the abstract state, and `FreeWindow` and `FilledWindow` give the abstract guard.

`MPSCQueueProofs` is about counters that wrap, for any number of producers, every capacity
of at least 2 and every width: `CountersTrackPositions` (`Spec => []QueueInv`),
`QueueImplementsBoundedQueue` (`Spec => ImplementsQueue`), `RefusalsAreJustified`
(`Spec => RefusesOnlyWhenFull`) and `EstimateIsBounded` (`Spec => []SizeEstimate`).
Assumptions (`WidthAssumption`): the width is a multiple of twice the capacity, as powers of
two are, and nobody sleeps while half of all positions go by, which in the code takes 2^63
operations. The invariant says that there are true positions, natural numbers that never
wrap, behind `m_enqueuePos`, `m_dequeuePos` and the `pos` of every producer (`Tracks`), and
states the protocol on those: the ring holds Capacity positions from the first one not given
back, each slot shows whether its position is published (`Protocol`), a claimed position has
one owner (`Claims`), a producer about to CAS on the current position has a free slot
(`Behind`). All differences the code takes are below half the width, where the signed wrapped
difference is the true one (`DiffWrap`), and the width is a whole number of laps, so that the
slot can be computed from the counter (`SlotWrap`).

`FixedBlockPoolProofs` has two theorems, for every positive number and size of blocks and
every set of clients, under the hypothesis `PoolAssumption` (what the constructor checks, and
that the product of the two fits the machine word). `FreeListIsExact`
(`Spec => []FreeListExact`): whatever clients return, the free list is a permutation of the
blocks that are not allocated. `OwnReturnsKeepOneHolder` (`Spec => []OneHolder`): a block
has one holder at a time as long as clients return only what they hold; after a double free
of a block that was allocated again it need not (4.5). The inductive invariant is the type
together with both: an index pushed by Deallocate is allocated and therefore not in the
list, and the index popped by Allocate occurs only at the back. `IndexInRange` is the
arithmetic fact behind it: an address that `Owns` accepts divides to an index of the pool.

### The dispatcher

`RuntimePipelineProofs` is about the executor over the dispatcher, for every number of
workers, phases and tasks. Its theorems have one hypothesis, `Crossing`: every edge of the
graph leads to a later phase. That is what separates the graphs on which the dispatcher
keeps its promises from those of 4.1 and 4.2, where it does not; the graph of
`pipeline_cross` is one of the former.

| Theorem | Statement, under `Crossing` |
|---|---|
| `PipelineInvariant` | `PipelineSpec => []PipelineInv` |
| `CounterIsExact` | `PipelineSpec => []Accounting` |
| `BarrierIsComplete` | `PipelineSpec => []BarrierComplete` |
| `EnqueueNeverFails` | `PipelineSpec => []ReadyQueueHasRoom` |
| `ShutdownIsClean` | `PipelineSpec => []ShutdownLeavesNothing` |
| `PipelineImplementsSchedule` | `PipelineSpec => FollowsSchedule` |

Assumptions: `GraphAssumption` (what the graph's builder guarantees), finitely many
workers, a queue with a cell per node and fewer nodes than a 32-bit counter can count
(`DispatchAssumption`; 256 nodes in the code).

The barrier is a counter, so its correctness needs to know what the counter counts, and
that needs to know where every task is. `PipelineInv` follows the tasks of the phase from
the nodes still to be seeded, through the queue and a worker's hands, to the record of what
has run: every task is at exactly one of these places (`Unseeded`, `Queued`, `Held`,
`Apart`, `Ran`), the counter is the number of tasks in the queue and in hands up to the one
add that lags behind its Enqueue (`Balance`, with the state in which the unsigned counter
is one below zero), these never exceed the nodes of the graph (`Room`), and a dependency
counter is the number of parents that have not yet counted it down (`CountedDown`, with
`Pending` as the set of those parents). A count of zero behind the seeding loop then means
an empty queue and empty hands, hence a phase that has run; and a node of the phase has
no pending parent, hence is seeded at the first look. The refinement follows: ExecuteTask is
the schedule's `Run`, the call of a phase its `BeginTick` or `NextPhase`.

### Timers and the scheduler

`TickSchedulerProofs`, for any number of threads, timers and ticks, any delays and any
positive interval: `TimerQueueInvariant`; `SchedulerImplementsTimerQueue`
(`SchedulerSpec => TimerSpec`), which carries what is proved of the queue over to the
scheduler; and from these `TimersFireOnceWhenDue` (`FiresOnceWhenDue`), `TimersFifo`
(`FifoAcrossCallers`), `TimersCancelInTime` (`CancelInTime`); and `FixedStep`
(`TicksNotEarly`). An id is at one place at a time: with the thread that schedules it, in
the heap, in the runtime thread's hands between the two critical sections, or fired
(`CallerPlace`, `HeapPlace`, `HandPlace`, `FiredPlace`). A cancellation acknowledged in the
heap stays in `cancelledTimers_` until the id is dropped (`CancelRecorded`), and sequence
numbers follow the order of the calls (`SequenceOrder`). `FixedStep` rests on the fact that
the next tick time is the anchor plus the ticks so far times the interval, at least.

### The network

`NetServerProofs`, for any number of sending threads, connections and packets and any
positive capacities: `NetServerInvariant`, and from it `SingleWriter` (`OneWriter`),
`WireKeepsOrder` (`WireInOrder`), `NoLostWakeUp` (`NothingStranded`) and `StopIsComplete`
(`StopLeavesNothing`). `writeInProgress_` is a token: a thread between TryBeginWrite and
EndWrite has it, then the async_write it started, then the handler that completes it
(`Exclusive`). Whoever has it pops the queue, so as long as no write has failed what was
accepted is the wire, the packet in flight and the queue, in this order (`Intact`); a failed
write loses its packet, and its handler closes the socket before it gives the token back
(`Lost`). `Woken` is the invariant behind the missing wake-up: somebody looks at the queue
after every push. `Closing` and `Stopping` follow the teardown.

The receiving side, for every sequence of payload sizes, header size and size limit:
`ReceiveInvariant`, `StreamIsDecoded` (`DecodesTheStream`) and `PollsInOrder`
(`ReceiveInOrder`). A connection is in sync (`InSync`) when packets 1 to d were decoded and
its buffer holds the stream from the first byte of packet d + 1 to the last byte that
arrived; a read is outstanding only while packet d + 1 is incomplete. `DecodeInStep` is what
Decode does then: it finds packet d + 1, waits, or meets a packet above `MaxPacketSize` and
clears the buffer. From then on (`OutOfSync`) frames are cut anywhere, but from bytes of
later packets only (`DecodeAfter`), so nothing that is decoded is taken for a packet before
the oversized one. What the stream is made of (`StreamFacts`) follows from the recursion
of `StreamOf` by induction over the number of packets (`Induction`). The strengthened
invariant was first checked with TLC on two connections.

### The event bus

`EventBusProofs`, for any number of threads, event types and subscriptions:
`EventBusInvariant`, `PublishDelivers` (`DeliversToPermanent`), `UnsubscribedStaysQuiet`
(`QuietAfterUnsubscribe`), `HandlersInOrder` (`RegistrationOrder`), `SnapshotIsCurrent`
(`SnapshotCurrent`). The invariant says what the handler lists and the snapshots contain
(every registered subscription, in the order of creation, and between mutators exactly the
active ones), what the holder of the write lock has done so far, and how far every
publisher is through its snapshot. The loop of RebuildSnapshot is a recursive function; its
properties (`KeptFacts`) are proved by induction, in the form that a set of counterexamples
that is not empty would have a least member (`LeastNatural`).

### The wire format

`SerializationProofs`, for every packet size, prefix size and set of values:
`PacketBounds`, `WritesWithinCapacity` (no sequence of writes, resets and resizes takes
buffer or cursor past the packet size), `WireHoldsMessage` (`WireFormat`),
`ReadsWhatWasWritten` (`RoundTrip`), `ReadersStayWithin` (`ReadsWithin`) and the action
property `FailedReadsGiveNothing` (`FailedReadLeavesNoTrace`: nothing half-read reaches the
caller; where BinaryReader's cursor is after a failure is not part of it).
Nothing is assumed of the bytes that are read; of the limits,
that a length prefix fits a packet and that `MaxStringLength` lies between the packet size
and the range of the prefix (`PacketAssumption`, `LimitsAssumption`), as in the code.

`WireFormat` needs an invariant (`WireInv`, theorem `WireInvariant`) that speaks of single
bytes: unless the message is torn, the buffer begins with the encoding of the fields and the
cursor stands behind it (`Holds`). Each writer is described once, for whatever the buffer
holds before the call (`Adds`: afterwards it holds the same and the new bytes, or the call
failed and, if the cursor is back where it was, it holds the same); `WriteString` is
two such calls and a roll-back, `Serialize` two without one. That a field adds its own bytes
to the encoding (`EncodedFacts`) is a law of `FlattenSeq`, whose recursive function is shown
to exist and to unfold by induction over the number of fields (`FlatExists`, `FlatUnfolds`,
`FlattenAppend`).

`RoundTrip` rests on that and on two more arguments. `RoundInv` (theorem `RoundInvariant`):
a reader that asked for the fields in order has a view that begins with the encoding, and
stands behind the fields it asked for; what it finds there is the next field (`NextField`,
from `BeginsWithFirst`: the encoding of the first fields is where the encoding begins). And
a length is read as it was written (`LengthOfWritten`): the weights of its bytes are powers
of `ByteBase` (`WeightFacts`, by induction), a quotient of a quotient is a quotient
(`DivTwice`), and so two lengths below the modulus with the same bytes have the same
quotients from the highest byte down (`LengthBytesInjective`). That a string on the wire is
shorter than the modulus follows from the packet's limit.

### Only model-checked

* Liveness (`EnqueueReturns`, `EventuallyTaken`, `KeepsDelivering`, `TickEnds`,
  `ShutdownEnds`, `TickFiresDue`, `StopEndsLoop`, `AcceptedIsWritten`): it rests on ENABLED,
  which is out of the prover's reach.
* `Accounting` on graphs with edges inside a phase (`pipeline_intra`).

## 6. What is abstracted, and what is missing

* **Memory model.** Actions interleave sequentially consistently. The release and
  acquire pairs of the code are where the model has its steps; reorderings that weaker
  orders would allow are not explored.
* **The ready queue** of JobDispatch is an atomic FIFO that refuses when it is full.
  `MPMCQueue::Enqueue` also refuses while the consumer of the lap before has not released
  the slot (`MPMCQueue.hpp:85`). On graphs whose edges leave their phase that cannot matter:
  such a consumer is a worker inside Dequeue with a task of the current phase, the phase does
  not end without it, and a phase that enqueues each task once does not come round to that
  slot again in a queue with a cell per node. The runs with edges inside a phase do not fill
  their 16 cells once.
* **Positions** of MPMCQueue are naturals: they would wrap after 2^64 calls. Those of
  MPSCQueue wrap.
* **Data.** Packets, values, events and tasks are opaque. Logging, names, thread
  pinning and return codes nobody reads are left out.
* **Type invariants** are stated where the proofs need them, in MPMCQueue and in the
  `*Proofs` modules.
* **Not modelled:** ConfigSystem reads files and text once, before any other thread runs;
  its two races (`PROJECT.json`, hazards) need callers that its documents rule out and the
  repository does not have. The logger formats and writes; its level and its sinks are set
  up before use. PacketHeader and PacketFlags are declared and used by no code.

## 7. Plan

Done: the queues, dispatch and pipeline, timers and scheduler, network with framing, event
bus, block pool, packet and serialization, each with its runs; the safety properties of
all of them proved, except as listed at the end of section 5: liveness, and `Accounting` on
graphs with edges inside a phase.
