------------------------------ MODULE NetServer ----------------------------
(***************************************************************************)
(* infrastructure/Net: NetServer.cpp with TcpConnection.cpp.               *)
(*                                                                         *)
(* Senders call Send from any thread; the IO thread runs the completion    *)
(* handlers of the io_context one at a time; the runtime thread calls      *)
(* Start, Stop and PollPacket.  Every atomic access, every critical        *)
(* section and every socket operation is a step of its own, because        *)
(* StartWriteLoop runs on the sender's thread and on the IO thread alike.  *)
(*                                                                         *)
(* External, modelled from its use: while the io_context runs, asio may    *)
(* complete any operation it was given, with success or with an error.  An *)
(* operation that is outstanding when the socket is closed may have        *)
(* succeeded before, with its handler still queued; one that is started on *)
(* a closed socket fails.  After stop() no handler runs.                   *)
(* An outbound packet is a number: what Send encodes is of no concern to   *)
(* it.  Inbound, peers send the packets of PacketCodec's Stream, and TCP   *)
(* cuts them at any byte.                                                  *)
(***************************************************************************)
EXTENDS PacketCodec, FiniteSets

CONSTANTS
    Senders,           \* threads that call Send
    IO,                \* the IO thread
    MaxConnections,    \* bound: connections accepted
    MaxSends,          \* bound: calls of Send that find a connection
    SendCapacity,      \* kMaxPendingSendPackets
    InboundCapacity    \* kInboundQueueCapacity

ASSUME CapacityAssumption ==
    /\ MaxConnections \in Nat
    /\ SendCapacity \in Nat \ {0}
    /\ InboundCapacity \in Nat \ {0}
    /\ IO \notin Senders

Ids == 1 .. MaxConnections
Threads == Senders \cup {IO}

VARIABLES
    running,       \* running_
    ioStopped,     \* ioContext.stopped(): nothing ever calls restart()
    main,          \* the runtime thread: "idle" or where it is in Stop
    nextId,        \* nextConnectionId
    table,         \* the keys of connections
    conn,          \* the TcpConnection objects, alive as long as referenced;
                   \* late: the async_writes that close() found outstanding
    thread,        \* what each thread executes
    reading,       \* connections with an outstanding async_read_some
    inbound,       \* inboundQueue
    sends,         \* calls of Send that found their connection
    accepted,      \* history: packets EnqueueSend accepted, per connection
    wire,          \* history: packets written to the socket
    receiveBuffer, \* receiveBuffer_ of every connection
    arrived,       \* history: bytes received, per connection
    decoded,       \* history: packets decoded, per connection
    polled         \* history: packets PollPacket returned

connVars == <<conn, accepted, wire>>
streamVars == <<receiveBuffer, arrived, decoded>>
receiveVars == <<reading, inbound, streamVars, polled>>
lifeVars == <<running, ioStopped, main>>
vars == <<lifeVars, nextId, table, connVars, thread, receiveVars, sends>>

NoConnection == 0
NoPacket == 0
IdleThread == [pc |-> "idle", id |-> NoConnection, packet |-> NoPacket]

\* TcpConnection::TcpConnection
NewConnection ==
    [connected |-> TRUE, open |-> TRUE, sendQueue |-> << >>,
     writeInProgress |-> FALSE, outstanding |-> {}, late |-> {}]

Init ==
    /\ running = FALSE
    /\ ioStopped = FALSE
    /\ main = "idle"
    /\ nextId = 1
    /\ table = {}
    /\ conn = [c \in Ids |-> NewConnection]
    /\ thread = [t \in Threads |-> IdleThread]
    /\ reading = {}
    /\ inbound = << >>
    /\ sends = 0
    /\ accepted = [c \in Ids |-> << >>]
    /\ wire = [c \in Ids |-> << >>]
    /\ receiveBuffer = [c \in Ids |-> << >>]
    /\ arrived = [c \in Ids |-> 0]
    /\ decoded = [c \in Ids |-> << >>]
    /\ polled = << >>

At(t, pc) == thread[t].pc = pc
Goto(t, pc) == thread' = [thread EXCEPT ![t].pc = pc]
Idle(t) == thread' = [thread EXCEPT ![t] = IdleThread]
Mine(t) == conn[thread[t].id]

----------------------------------------------------------------------------
(* Send(packet)                                                            *)

\* connections.find under connectionMutex
SendFind(s, c) ==
    /\ At(s, "idle")
    /\ sends < MaxSends
    /\ c \in table
    /\ sends' = sends + 1
    /\ thread' = [thread EXCEPT ![s] = [pc |-> "check", id |-> c,
                                        packet |-> sends + 1]]
    /\ UNCHANGED <<lifeVars, nextId, table, connVars, receiveVars>>

\* EnqueueSend: connected_.load
SendCheck(s) ==
    /\ At(s, "check")
    /\ IF Mine(s).connected THEN Goto(s, "push") ELSE Idle(s)
    /\ UNCHANGED <<lifeVars, nextId, table, connVars, receiveVars, sends>>

\* EnqueueSend: the critical section under sendMutex, with back pressure
SendPush(s) ==
    /\ At(s, "push")
    /\ LET c == thread[s].id
           p == thread[s].packet
       IN IF Len(conn[c].sendQueue) >= SendCapacity
          THEN Idle(s) /\ UNCHANGED <<conn, accepted>>
          ELSE /\ conn' = [conn EXCEPT ![c].sendQueue = Append(@, p)]
               /\ accepted' = [accepted EXCEPT ![c] = Append(@, p)]
               /\ Goto(s, "begin")
    /\ UNCHANGED <<lifeVars, nextId, table, wire, receiveVars, sends>>

----------------------------------------------------------------------------
(* StartWriteLoop(connection), on any thread                               *)

\* Mutant: writeInProgress_ is set without looking at its old value.
BeginWriteBlindly(t) ==
    /\ At(t, "begin")
    /\ conn' = [conn EXCEPT ![thread[t].id].writeInProgress = TRUE]
    /\ Goto(t, "pop")
    /\ UNCHANGED <<lifeVars, nextId, table, accepted, wire, receiveVars, sends>>

\* TryBeginWrite
BeginWrite(t) ==
    /\ At(t, "begin")
    /\ IF Mine(t).writeInProgress
       THEN Idle(t) /\ UNCHANGED conn
       ELSE /\ conn' = [conn EXCEPT ![thread[t].id].writeInProgress = TRUE]
            /\ Goto(t, "pop")
    /\ UNCHANGED <<lifeVars, nextId, table, accepted, wire, receiveVars, sends>>

\* TryPopSend
PopSend(t) ==
    /\ At(t, "pop")
    /\ IF Mine(t).sendQueue = << >>
       THEN Goto(t, "end") /\ UNCHANGED conn
       ELSE /\ conn' = [conn EXCEPT ![thread[t].id].sendQueue = Tail(@)]
            /\ thread' = [thread EXCEPT ![t].pc = "write",
                                        ![t].packet = Head(Mine(t).sendQueue)]
    /\ UNCHANGED <<lifeVars, nextId, table, accepted, wire, receiveVars, sends>>

\* async_write starts; the call returns at once
AsyncWrite(t) ==
    /\ At(t, "write")
    /\ conn' = [conn EXCEPT ![thread[t].id].outstanding = @ \cup {thread[t].packet}]
    /\ Idle(t)
    /\ UNCHANGED <<lifeVars, nextId, table, accepted, wire, receiveVars, sends>>

\* The queue was empty: EndWrite
EndWrite(t) ==
    /\ At(t, "end")
    /\ conn' = [conn EXCEPT ![thread[t].id].writeInProgress = FALSE]
    /\ Goto(t, "pending")
    /\ UNCHANGED <<lifeVars, nextId, table, accepted, wire, receiveVars, sends>>

\* Mutant: the loop does not look at the queue again after EndWrite.
PendingDropped(t) ==
    /\ At(t, "pending")
    /\ Idle(t)
    /\ UNCHANGED <<lifeVars, nextId, table, connVars, receiveVars, sends>>

\* HasPendingSend: a packet pushed in between restarts the loop
Pending(t) ==
    /\ At(t, "pending")
    /\ IF Mine(t).sendQueue = << >> THEN Idle(t) ELSE Goto(t, "begin")
    /\ UNCHANGED <<lifeVars, nextId, table, connVars, receiveVars, sends>>

WriteLoop(t) ==
    \/ BeginWrite(t) \/ PopSend(t) \/ AsyncWrite(t) \/ EndWrite(t) \/ Pending(t)

SenderStep(s) == SendCheck(s) \/ SendPush(s) \/ WriteLoop(s)

----------------------------------------------------------------------------
(* Completion handlers, one at a time on the IO thread                     *)

HandlerStarts == At(IO, "idle") /\ ~ioStopped
IoBusy(pc, c, p) ==
    thread' = [thread EXCEPT ![IO] = [pc |-> pc, id |-> c, packet |-> p]]

\* async_accept: a new connection enters the table and starts reading
Accept ==
    /\ HandlerStarts
    /\ running
    /\ nextId \in Ids
    /\ nextId' = nextId + 1
    /\ table' = table \cup {nextId}
    /\ reading' = reading \cup {nextId}
    /\ UNCHANGED <<lifeVars, connVars, thread, inbound, streamVars, polled, sends>>

\* An async_write is no longer outstanding.
Completed(c, p) ==
    conn' = [conn EXCEPT ![c].outstanding = @ \ {p}, ![c].late = @ \ {p}]

\* async_write succeeded
WriteDone(c, p) ==
    /\ HandlerStarts
    /\ p \in conn[c].outstanding
    /\ conn[c].open \/ p \in conn[c].late
    /\ Completed(c, p)
    /\ wire' = [wire EXCEPT ![c] = Append(@, p)]
    /\ IoBusy("written", c, NoPacket)
    /\ UNCHANGED <<lifeVars, nextId, table, accepted, receiveVars, sends>>

\* ... EndWrite, then StartWriteLoop again
WriteDoneEnd ==
    /\ At(IO, "written")
    /\ conn' = [conn EXCEPT ![thread[IO].id].writeInProgress = FALSE]
    /\ Goto(IO, "begin")
    /\ UNCHANGED <<lifeVars, nextId, table, accepted, wire, receiveVars, sends>>

\* Mutant: the error code of the write is not looked at.
WriteFailsUnnoticed(c, p) ==
    /\ HandlerStarts
    /\ p \in conn[c].outstanding
    /\ Completed(c, p)
    /\ IoBusy("written", c, NoPacket)
    /\ UNCHANGED <<lifeVars, nextId, table, accepted, wire, receiveVars, sends>>

\* async_write failed
WriteFails(c, p) ==
    /\ HandlerStarts
    /\ p \in conn[c].outstanding
    /\ Completed(c, p)
    /\ IoBusy("disconnect", c, p)
    /\ UNCHANGED <<lifeVars, nextId, table, accepted, wire, receiveVars, sends>>

\* async_read_some failed (the peer closed, or the socket was closed)
ReadFails(c) ==
    /\ HandlerStarts
    /\ c \in reading
    /\ reading' = reading \ {c}
    /\ IoBusy("disconnect", c, NoPacket)
    /\ UNCHANGED <<lifeVars, nextId, table, connVars, inbound, streamVars, polled, sends>>

\* Disconnect: only the thread whose compare_exchange succeeds closes
Disconnect ==
    /\ At(IO, "disconnect")
    /\ conn' = [conn EXCEPT ![thread[IO].id].connected = FALSE]
    /\ Goto(IO, IF Mine(IO).connected THEN "close" ELSE "remove")
    /\ UNCHANGED <<lifeVars, nextId, table, accepted, wire, receiveVars, sends>>

\* socket_.shutdown, socket_.close
Close ==
    /\ At(IO, "close")
    /\ conn' = [conn EXCEPT ![thread[IO].id].open = FALSE,
                            ![thread[IO].id].late = Mine(IO).outstanding]
    /\ Goto(IO, "remove")
    /\ UNCHANGED <<lifeVars, nextId, table, accepted, wire, receiveVars, sends>>

\* RemoveConnection; the handler of a failed write still has to EndWrite
Remove ==
    /\ At(IO, "remove")
    /\ table' = table \ {thread[IO].id}
    /\ IF thread[IO].packet = NoPacket THEN Idle(IO) ELSE Goto(IO, "failed")
    /\ UNCHANGED <<lifeVars, nextId, connVars, receiveVars, sends>>

WriteFailsEnd ==
    /\ At(IO, "failed")
    /\ conn' = [conn EXCEPT ![thread[IO].id].writeInProgress = FALSE]
    /\ Idle(IO)
    /\ UNCHANGED <<lifeVars, nextId, table, accepted, wire, receiveVars, sends>>

\* async_read_some delivered the next n bytes
ReadChunk(c, n) ==
    /\ HandlerStarts
    /\ c \in reading
    /\ arrived[c] + n <= Len(Stream)
    /\ reading' = reading \ {c}
    /\ receiveBuffer' = [receiveBuffer EXCEPT
                            ![c] = @ \o SubSeq(Stream, arrived[c] + 1, arrived[c] + n)]
    /\ arrived' = [arrived EXCEPT ![c] = @ + n]
    /\ IoBusy("decode", c, NoPacket)
    /\ UNCHANGED <<lifeVars, nextId, table, connVars, inbound, decoded, polled, sends>>

\* One turn of the loop: a decoded packet is enqueued, or dropped when the
\* inbound queue is full
Receive ==
    /\ At(IO, "decode")
    /\ LET c == thread[IO].id
       IN \E r \in Decode(receiveBuffer[c]) :
            /\ r.ok
            /\ receiveBuffer' = [receiveBuffer EXCEPT ![c] = r.rest]
            /\ decoded' = [decoded EXCEPT ![c] = Append(@, r.number)]
            /\ inbound' = IF Len(inbound) < InboundCapacity
                          THEN Append(inbound, [connectionId |-> c, number |-> r.number])
                          ELSE inbound
    /\ UNCHANGED <<lifeVars, nextId, table, connVars, thread, reading, arrived, polled, sends>>

\* Decode returns false: StartReadLoop again.  On a socket that was closed
\* meanwhile the read fails, and its handler finds nothing left to disconnect
\* or to remove.
ReadAgain ==
    /\ At(IO, "decode")
    /\ LET c == thread[IO].id
       IN /\ \E r \in Decode(receiveBuffer[c]) :
                ~r.ok /\ receiveBuffer' = [receiveBuffer EXCEPT ![c] = r.rest]
          /\ reading' = IF conn[c].open THEN reading \cup {c} ELSE reading
    /\ Idle(IO)
    /\ UNCHANGED <<lifeVars, nextId, table, connVars, inbound, arrived, decoded, polled, sends>>

\* What the IO thread does without waiting for the network
HandlerStep ==
    \/ WriteDoneEnd \/ WriteLoop(IO)
    \/ Disconnect \/ Close \/ Remove \/ WriteFailsEnd
    \/ Receive \/ ReadAgain

\* The completion of a write
WriteCompletes ==
    \E c \in Ids : \E p \in conn[c].outstanding : WriteDone(c, p) \/ WriteFails(c, p)

\* The completion of a read
ReadCompletes ==
    \E c \in Ids : ReadFails(c) \/ \E n \in 1 .. Len(Stream) : ReadChunk(c, n)

----------------------------------------------------------------------------
(* The runtime thread                                                      *)

\* Start(port), when the port can be bound; the io_context is as the last
\* Stop left it
Start ==
    /\ main = "idle"
    /\ ~running
    /\ running' = TRUE
    /\ UNCHANGED <<ioStopped, main, nextId, table, connVars, thread, receiveVars, sends>>

\* PollPacket
PollPacket ==
    /\ main = "idle"
    /\ inbound # << >>
    /\ inbound' = Tail(inbound)
    /\ polled' = Append(polled, Head(inbound))
    /\ UNCHANGED <<lifeVars, nextId, table, connVars, thread, reading, streamVars, sends>>

\* Stop(): close the acceptor, stop the io_context
StopBegin ==
    /\ main = "idle"
    /\ running
    /\ running' = FALSE
    /\ ioStopped' = TRUE
    /\ main' = "join"
    /\ UNCHANGED <<nextId, table, connVars, thread, receiveVars, sends>>

\* Mutant: the IO thread is not waited for.
StopWithoutJoin ==
    /\ main = "join"
    /\ main' = "disconnect"
    /\ UNCHANGED <<running, ioStopped, nextId, table, connVars, thread, receiveVars, sends>>

\* ioThread.join(): run() returns when the handler it is in returns
StopJoin ==
    /\ main = "join"
    /\ At(IO, "idle")
    /\ main' = "disconnect"
    /\ UNCHANGED <<running, ioStopped, nextId, table, connVars, thread, receiveVars, sends>>

\* Disconnect every connection and clear the table
StopDisconnect ==
    /\ main = "disconnect"
    /\ conn' = [c \in Ids |-> IF c \in table
                              THEN [conn[c] EXCEPT !.connected = FALSE, !.open = FALSE]
                              ELSE conn[c]]
    /\ table' = {}
    /\ main' = "drain"
    /\ UNCHANGED <<running, ioStopped, nextId, accepted, wire, thread, receiveVars, sends>>

\* while (inboundQueue.Dequeue(temp))
StopDrain ==
    /\ main = "drain"
    /\ inbound' = << >>
    /\ main' = "idle"
    /\ UNCHANGED <<running, ioStopped, nextId, table, connVars, thread, reading, streamVars,
                   polled, sends>>

StopStep == StopJoin \/ StopDisconnect \/ StopDrain

----------------------------------------------------------------------------
Next ==
    \/ \E s \in Senders : SenderStep(s) \/ \E c \in Ids : SendFind(s, c)
    \/ Accept \/ WriteCompletes \/ ReadCompletes \/ HandlerStep
    \/ Start \/ PollPacket \/ StopBegin \/ StopStep

Spec == Init /\ [][Next]_vars

(* Threads inside a call or a handler run.  Nobody is obliged to connect,  *)
(* to send or to receive data, to poll or to stop: a write has no timeout, *)
(* and stays outstanding for as long as the peer does not read.            *)
FairSpec ==
    /\ Spec
    /\ \A s \in Senders : WF_vars(SenderStep(s))
    /\ WF_vars(HandlerStep)
    /\ WF_vars(StopStep)
----------------------------------------------------------------------------
\* The threads between TryBeginWrite and the end of their part of the write
Writers(c) == {t \in Threads : thread[t].id = c /\ thread[t].pc \in {"pop", "write", "end", "written"}}
Failing(c) == thread[IO].id = c /\ thread[IO].packet # NoPacket
                /\ thread[IO].pc \in {"disconnect", "close", "remove", "failed"}

(* A connection has one writer: a thread in StartWriteLoop, or one         *)
(* outstanding async_write, or a handler that has not ended it; and        *)
(* writeInProgress_ says so.  Two async_writes on one socket would mix     *)
(* the bytes of two packets.                                               *)
OneWriter ==
    \A c \in Ids :
        Cardinality(Writers(c)) + Cardinality(conn[c].outstanding)
            + (IF Failing(c) THEN 1 ELSE 0)
        = (IF conn[c].writeInProgress THEN 1 ELSE 0)

(* internal_design.md, "Packet ordering is preserved per connection": what *)
(* is on the wire is the beginning of what Send accepted, in the order of  *)
(* acceptance and without a gap, also when a write fails while other       *)
(* threads go on sending.                                                  *)
WireInOrder ==
    \A c \in Ids :
        /\ Len(wire[c]) <= Len(accepted[c])
        /\ wire[c] = SubSeq(accepted[c], 1, Len(wire[c]))

(* No lost wake-up: when no thread is in Send or in a handler of the       *)
(* connection and no write is outstanding, nothing waits in its queue.     *)
NothingStranded ==
    \A c \in Ids :
        /\ \A t \in Threads : thread[t].id # c
        /\ conn[c].outstanding = {}
        /\ conn[c].connected
        => conn[c].sendQueue = << >>

\* The packets before the first one that is larger than MaxPacketSize
Sound == {n \in Numbers : \A k \in 1 .. n : PayloadLengths[k] <= MaxPacketSize}

(* Received packets of one connection are polled in the order in which     *)
(* they were sent and at most once, whatever the inbound queue drops, as   *)
(* long as the peer keeps to the size limit.                               *)
ReceiveInOrder ==
    \A j, k \in 1 .. Len(polled) :
        /\ j < k
        /\ polled[j].connectionId = polled[k].connectionId
        /\ polled[k].number \in Sound
        => polled[j].number \in 1 .. polled[k].number - 1

(* Wherever TCP cuts the stream, the packets up to the first oversized one *)
(* are decoded in order, with nothing invented between them, and a packet  *)
(* is not left in the buffer once its last byte has arrived.               *)
DecodesTheStream ==
    \A c \in Ids :
        /\ \A n \in Sound : n <= Len(decoded[c]) => decoded[c][n] = n
        /\ c \in reading =>
            \A n \in Sound : Len(StreamOf[n]) <= arrived[c] => n <= Len(decoded[c])

(* When Stop has returned, every connection ever accepted is disconnected  *)
(* and closed, the table and the inbound queue are empty, and a handler    *)
(* that was running during Stop has left nothing behind.                   *)
StopLeavesNothing ==
    main = "idle" /\ ioStopped =>
        /\ table = {}
        /\ inbound = << >>
        /\ \A c \in 1 .. nextId - 1 : ~conn[c].connected /\ ~conn[c].open

\* The peer goes on receiving: no async_write stays outstanding for ever.
PeerReceives(c) == []<>(conn[c].outstanding = {})

(* A packet that Send accepted is written to a socket whose peer goes on   *)
(* receiving, unless the connection breaks or the server stops: the one    *)
(* who holds writeInProgress_ always passes it on to somebody who pops     *)
(* the queue again.                                                        *)
AcceptedIsWritten ==
    \A c \in Ids : PeerReceives(c) =>
        \A p \in 1 .. MaxSends :
            (\E k \in 1 .. Len(accepted[c]) : accepted[c][k] = p)
                ~> \/ \E k \in 1 .. Len(wire[c]) : wire[c][k] = p
                   \/ ~conn[c].connected
                   \/ ioStopped
============================================================================
