--------------------------- MODULE NetServerProofs --------------------------
(***************************************************************************)
(* NetServer for any number of sending threads, connections and packets,   *)
(* any payload sizes and any queue capacity: first the sending side and    *)
(* Stop, then the receiving side.                                          *)
(*                                                                         *)
(* writeInProgress_ is a token: a thread between TryBeginWrite and         *)
(* EndWrite holds it, then the async_write it started, then the handler    *)
(* that completes it.  Whoever holds the token may pop the queue, so the   *)
(* packets leave in the order in which they entered; a failed write loses  *)
(* its packet, but the socket is closed before the token is given back.    *)
(*                                                                         *)
(* Receiving, the buffer of a connection begins with the first byte of the *)
(* next packet, whatever TCP delivered at a time, until a packet is too    *)
(* large: then the buffer is cleared in the middle of a frame, and nothing *)
(* that is decoded afterwards is one of the earlier packets.               *)
(***************************************************************************)
EXTENDS NetServer, FiniteSetTheorems, SequenceTheorems, WellFoundedInduction, TLAPS

Packets == Nat \ {NoPacket}
SendPcs == {"idle", "check", "push", "begin", "pop", "write", "end", "pending"}
IoPcs == {"idle", "begin", "pop", "write", "end", "pending", "written", "disconnect",
          "close", "remove", "failed", "decode"}

Connection ==
    [connected : BOOLEAN, open : BOOLEAN, sendQueue : Seq(Packets),
     writeInProgress : BOOLEAN, outstanding : SUBSET Packets, late : SUBSET Packets]

Thread == [pc : SendPcs \cup IoPcs, id : 0 .. MaxConnections, packet : Nat]

TypeOK ==
    /\ running \in BOOLEAN /\ ioStopped \in BOOLEAN
    /\ main \in {"idle", "join", "disconnect", "drain"}
    /\ nextId \in 1 .. MaxConnections + 1
    /\ table \in SUBSET (1 .. nextId - 1)
    /\ reading \in SUBSET Ids
    /\ conn \in [Ids -> Connection]
    /\ thread \in [Threads -> Thread]
    /\ sends \in Nat
    /\ accepted \in [Ids -> Seq(Packets)]
    /\ wire \in [Ids -> Seq(Packets)]

\* What a thread may be doing, and with which packet.
Roles ==
    /\ \A t \in Threads : thread[t].pc = "idle" <=> thread[t].id = NoConnection
    /\ \A t \in Threads : thread[t].pc \in {"check", "push", "write"} =>
          thread[t].packet \in Packets
    /\ \A s \in Senders : thread[s].pc \in SendPcs
    /\ thread[IO].pc \in IoPcs
    /\ thread[IO].pc = "failed" => thread[IO].packet # NoPacket

----------------------------------------------------------------------------
(* The token of a connection                                               *)

Writing(t, c) ==
    thread[t].id = c /\ thread[t].pc \in {"pop", "write", "end", "written"}

Exclusive(c) ==
    /\ \A t, u \in Threads : Writing(t, c) /\ Writing(u, c) => t = u
    /\ \A p, q \in conn[c].outstanding : p = q
    /\ \A t \in Threads : Writing(t, c) => conn[c].outstanding = {} /\ ~Failing(c)
    /\ conn[c].outstanding # {} => ~Failing(c)
    /\ conn[c].late \subseteq conn[c].outstanding
    /\ conn[c].writeInProgress <=>
          (\E t \in Threads : Writing(t, c)) \/ conn[c].outstanding # {} \/ Failing(c)

----------------------------------------------------------------------------
(* The order of the packets                                                *)

Carrying(t, c) == thread[t].id = c /\ thread[t].pc = "write"
InFlight(c) == (\E t \in Threads : Carrying(t, c)) \/ conn[c].outstanding # {}

\* Nothing is lost: what was accepted is written, in flight or queued.
Intact(c) ==
    /\ ~InFlight(c) => accepted[c] = wire[c] \o conn[c].sendQueue
    /\ \A t \in Threads : Carrying(t, c) =>
          accepted[c] = Append(wire[c], thread[t].packet) \o conn[c].sendQueue
    /\ \A p \in conn[c].outstanding :
          accepted[c] = Append(wire[c], p) \o conn[c].sendQueue

\* A write failed, or may only fail: the socket is closed, with no success still
\* to be reported, or about to be.
Lost(c) ==
    \/ ~conn[c].open /\ conn[c].late = {}
    \/ Failing(c) /\ thread[IO].pc \in {"disconnect", "close"}

Ordered(c) ==
    /\ \E rest \in Seq(Packets) : accepted[c] = wire[c] \o rest
    /\ Lost(c) \/ Intact(c)

\* Somebody will look at a queue that is not empty.
Woken(c) ==
    conn[c].sendQueue # << >> /\ conn[c].connected =>
        \/ \E t \in Threads : thread[t].id = c /\
              thread[t].pc \in {"begin", "pop", "write", "end", "pending", "written"}
        \/ conn[c].outstanding # {}
        \/ Failing(c)

----------------------------------------------------------------------------
(* The end of connections and of the server                                *)

Closing ==
    /\ \A c \in Ids : ~conn[c].connected =>
          ~conn[c].open \/ (thread[IO].id = c /\ thread[IO].pc = "close")
    /\ \A c \in Ids : conn[c].connected => conn[c].open
    /\ thread[IO].pc = "close" => conn[thread[IO].id].open
    /\ thread[IO].pc \in {"close", "remove", "failed"} => ~conn[thread[IO].id].connected
    /\ thread[IO].pc \in {"remove", "failed"} => ~conn[thread[IO].id].open
    /\ \A c \in 1 .. nextId - 1 : c \notin table => ~conn[c].connected /\ ~conn[c].open

\* The IO thread has returned from run() for good.
Quiet == main \in {"disconnect", "drain"} \/ (main = "idle" /\ ioStopped)

Stopping ==
    /\ main # "idle" => ioStopped
    /\ Quiet => thread[IO].pc = "idle"
    /\ Quiet /\ main # "disconnect" => table = {}
    /\ Quiet /\ main = "idle" => inbound = << >>

NetInv ==
    /\ TypeOK /\ Roles /\ Closing /\ Stopping
    /\ \A c \in Ids : Exclusive(c) /\ Ordered(c) /\ Woken(c)

----------------------------------------------------------------------------
(* Sequences                                                               *)

\* The type of Append
LEMMA AppendType ==
    \A s \in Seq(Packets), x \in Packets : Append(s, x) \in Seq(Packets)
  OBVIOUS

\* To append to a concatenation is to append to its second part.
LEMMA AppendToRight ==
    \A s, t \in Seq(Packets), x \in Packets : Append(s \o t, x) = s \o Append(t, x)
  OBVIOUS

\* The head of the second part may move to the first.
LEMMA HeadToLeft ==
    \A s, t \in Seq(Packets) : t # << >> =>
        /\ Head(t) \in Packets /\ Tail(t) \in Seq(Packets)
        /\ s \o t = Append(s, Head(t)) \o Tail(t)
  OBVIOUS

\* The first part of a concatenation is a beginning of it.
LEMMA ConcatBegins ==
    \A s, t \in Seq(Packets) :
        Len(s) <= Len(s \o t) /\ s = SubSeq(s \o t, 1, Len(s))
  OBVIOUS

----------------------------------------------------------------------------
(* How a step may change the state                                         *)

\* In StartWriteLoop for the connection
Active(t, c) ==
    /\ thread[t].id = c
    /\ thread[t].pc \in {"begin", "pop", "write", "end", "pending", "written"}

\* A thread that is not idle works for a connection.
LEMMA BusyThread ==
    ASSUME TypeOK, Roles, NEW t \in Threads, thread[t].pc # "idle"
    PROVE  thread[t].id \in Ids
  BY CapacityAssumption DEF TypeOK, Roles, Thread, Ids, NoConnection

\* A thread moves on with the same connection and packet.
LEMMA GotoFacts ==
    ASSUME TypeOK, NEW t \in Threads, NEW pc \in SendPcs \cup IoPcs, Goto(t, pc)
    PROVE  /\ thread' \in [Threads -> Thread]
           /\ thread'[t].pc = pc /\ thread'[t].id = thread[t].id
           /\ thread'[t].packet = thread[t].packet
           /\ \A u \in Threads \ {t} : thread'[u] = thread[u]
  BY DEF TypeOK, Goto, Thread

\* A thread returns.
LEMMA IdleFacts ==
    ASSUME TypeOK, NEW t \in Threads, Idle(t)
    PROVE  /\ thread' \in [Threads -> Thread]
           /\ thread'[t].pc = "idle" /\ thread'[t].id = NoConnection
           /\ \A u \in Threads \ {t} : thread'[u] = thread[u]
<1>1. IdleThread \in Thread /\ IdleThread.pc = "idle" /\ IdleThread.id = NoConnection
  BY CapacityAssumption DEF IdleThread, Thread, NoConnection, NoPacket, SendPcs, IoPcs
<1> QED
  BY <1>1 DEF TypeOK, Idle

\* A handler starts on the IO thread.
LEMMA IoBusyFacts ==
    ASSUME TypeOK, NEW pc \in IoPcs, NEW c \in Ids, NEW p \in Nat, IoBusy(pc, c, p)
    PROVE  /\ thread' \in [Threads -> Thread]
           /\ thread'[IO].pc = pc /\ thread'[IO].id = c /\ thread'[IO].packet = p
           /\ \A u \in Threads \ {IO} : thread'[u] = thread[u]
  BY CapacityAssumption DEF TypeOK, IoBusy, Thread, Threads, Ids

\* The queue changes
LEMMA QueueUpdate ==
    ASSUME TypeOK, NEW c \in Ids, NEW x \in Seq(Packets),
           conn' = [conn EXCEPT ![c].sendQueue = x]
    PROVE  /\ conn' \in [Ids -> Connection]
           /\ conn'[c].sendQueue = x
           /\ \A d \in Ids : conn'[d].outstanding = conn[d].outstanding
           /\ \A d \in Ids : conn'[d].writeInProgress = conn[d].writeInProgress
           /\ \A d \in Ids : conn'[d].connected = conn[d].connected
           /\ \A d \in Ids : conn'[d].open = conn[d].open
           /\ \A d \in Ids : conn'[d].late = conn[d].late
           /\ \A d \in Ids \ {c} : conn'[d] = conn[d]
  BY DEF TypeOK, Connection

\* The outstanding writes change
LEMMA OutstandingUpdate ==
    ASSUME TypeOK, NEW c \in Ids, NEW x \in SUBSET Packets,
           conn' = [conn EXCEPT ![c].outstanding = x]
    PROVE  /\ conn' \in [Ids -> Connection]
           /\ conn'[c].outstanding = x
           /\ \A d \in Ids : conn'[d].sendQueue = conn[d].sendQueue
           /\ \A d \in Ids : conn'[d].writeInProgress = conn[d].writeInProgress
           /\ \A d \in Ids : conn'[d].connected = conn[d].connected
           /\ \A d \in Ids : conn'[d].open = conn[d].open
           /\ \A d \in Ids : conn'[d].late = conn[d].late
           /\ \A d \in Ids \ {c} : conn'[d] = conn[d]
  BY DEF TypeOK, Connection

\* A write is completed
LEMMA CompletedUpdate ==
    ASSUME TypeOK, NEW c \in Ids, Exclusive(c), NEW p \in conn[c].outstanding, Completed(c, p)
    PROVE  /\ conn' \in [Ids -> Connection]
           /\ conn'[c].outstanding = {} /\ conn'[c].late = {}
           /\ \A d \in Ids : conn'[d].sendQueue = conn[d].sendQueue
           /\ \A d \in Ids : conn'[d].writeInProgress = conn[d].writeInProgress
           /\ \A d \in Ids : conn'[d].connected = conn[d].connected
           /\ \A d \in Ids : conn'[d].open = conn[d].open
           /\ \A d \in Ids \ {c} : conn'[d] = conn[d]
<1>1. conn[c].outstanding \ {p} = {} /\ conn[c].late \ {p} = {}
  BY DEF Exclusive
<1>2. ASSUME NEW x \in SUBSET Packets, conn' = [conn EXCEPT ![c].outstanding = x, ![c].late = x]
      PROVE  /\ conn' \in [Ids -> Connection]
             /\ conn'[c].outstanding = x /\ conn'[c].late = x
             /\ \A d \in Ids : conn'[d].sendQueue = conn[d].sendQueue
             /\ \A d \in Ids : conn'[d].writeInProgress = conn[d].writeInProgress
             /\ \A d \in Ids : conn'[d].connected = conn[d].connected
             /\ \A d \in Ids : conn'[d].open = conn[d].open
             /\ \A d \in Ids \ {c} : conn'[d] = conn[d]
  BY <1>2 DEF TypeOK, Connection
<1>3. {} \in SUBSET Packets /\ conn' = [conn EXCEPT ![c].outstanding = {}, ![c].late = {}]
  BY <1>1 DEF Completed
<1> QED
  BY <1>2, <1>3

\* The token changes hands
LEMMA TokenUpdate ==
    ASSUME TypeOK, NEW c \in Ids, NEW x \in BOOLEAN,
           conn' = [conn EXCEPT ![c].writeInProgress = x]
    PROVE  /\ conn' \in [Ids -> Connection]
           /\ conn'[c].writeInProgress = x
           /\ \A d \in Ids : conn'[d].sendQueue = conn[d].sendQueue
           /\ \A d \in Ids : conn'[d].outstanding = conn[d].outstanding
           /\ \A d \in Ids : conn'[d].connected = conn[d].connected
           /\ \A d \in Ids : conn'[d].open = conn[d].open
           /\ \A d \in Ids : conn'[d].late = conn[d].late
           /\ \A d \in Ids \ {c} : conn'[d] = conn[d]
  BY DEF TypeOK, Connection

\* The connection is marked as disconnected
LEMMA ConnectedUpdate ==
    ASSUME TypeOK, NEW c \in Ids, NEW x \in BOOLEAN,
           conn' = [conn EXCEPT ![c].connected = x]
    PROVE  /\ conn' \in [Ids -> Connection]
           /\ conn'[c].connected = x
           /\ \A d \in Ids : conn'[d].sendQueue = conn[d].sendQueue
           /\ \A d \in Ids : conn'[d].outstanding = conn[d].outstanding
           /\ \A d \in Ids : conn'[d].writeInProgress = conn[d].writeInProgress
           /\ \A d \in Ids : conn'[d].open = conn[d].open
           /\ \A d \in Ids : conn'[d].late = conn[d].late
           /\ \A d \in Ids \ {c} : conn'[d] = conn[d]
  BY DEF TypeOK, Connection

\* The socket is closed
LEMMA OpenUpdate ==
    ASSUME TypeOK, NEW c \in Ids, NEW x \in SUBSET Packets,
           conn' = [conn EXCEPT ![c].open = FALSE, ![c].late = x]
    PROVE  /\ conn' \in [Ids -> Connection]
           /\ conn'[c].open = FALSE
           /\ conn'[c].late = x
           /\ \A d \in Ids : conn'[d].sendQueue = conn[d].sendQueue
           /\ \A d \in Ids : conn'[d].outstanding = conn[d].outstanding
           /\ \A d \in Ids : conn'[d].writeInProgress = conn[d].writeInProgress
           /\ \A d \in Ids : conn'[d].connected = conn[d].connected
           /\ \A d \in Ids \ {c} : conn'[d] = conn[d]
  BY DEF TypeOK, Connection

\* A step that moves no packet of the connection
LEMMA FrameOrdered ==
    ASSUME NEW c \in Ids, Ordered(c),
           conn'[c].sendQueue = conn[c].sendQueue,
           conn'[c].outstanding = conn[c].outstanding,
           accepted'[c] = accepted[c], wire'[c] = wire[c],
           \A t \in Threads : /\ Carrying(t, c)' <=> Carrying(t, c)
                              /\ Carrying(t, c) => thread'[t].packet = thread[t].packet,
           Lost(c) => Lost(c)'
    PROVE  Ordered(c)'
<1>1. InFlight(c)' <=> InFlight(c)
  BY DEF InFlight
<1>2. Intact(c) => Intact(c)'
  BY <1>1 DEF Intact
<1> QED
  BY <1>2 DEF Ordered

\* A connection whose queue, token and write loops a step leaves alone
LEMMA Frame ==
    ASSUME NEW c \in Ids, Exclusive(c), Ordered(c), Woken(c),
           conn'[c].sendQueue = conn[c].sendQueue,
           conn'[c].outstanding = conn[c].outstanding,
           conn'[c].late = conn[c].late \/ conn'[c].late \subseteq conn[c].outstanding,
           conn'[c].writeInProgress = conn[c].writeInProgress,
           conn'[c].connected => conn[c].connected,
           accepted'[c] = accepted[c], wire'[c] = wire[c],
           \A t \in Threads : Active(t, c) \/ Active(t, c)' => thread'[t] = thread[t],
           Failing(c)' <=> Failing(c),
           Lost(c) => Lost(c)'
    PROVE  Exclusive(c)' /\ Ordered(c)' /\ Woken(c)'
<1>1. \A t \in Threads : /\ Writing(t, c)' <=> Writing(t, c)
                         /\ Carrying(t, c)' <=> Carrying(t, c)
                         /\ Active(t, c)' <=> Active(t, c)
                         /\ Carrying(t, c) => thread'[t] = thread[t]
  BY DEF Writing, Carrying, Active
<1>2. Exclusive(c)'
  BY <1>1 DEF Exclusive
<1>3. Ordered(c)'
  BY <1>1, FrameOrdered
<1>4. Woken(c)'
  BY <1>1 DEF Woken, Active
<1> QED
  BY <1>2, <1>3, <1>4

\* A thread's step for one connection leaves the others alone.
LEMMA Others ==
    ASSUME NetInv, NEW t \in Threads, NEW c \in Ids,
           \A u \in Threads \ {t} : thread'[u] = thread[u],
           thread[t].id \in {c, NoConnection}, thread'[t].id \in {c, NoConnection},
           \A d \in Ids \ {c} : /\ conn'[d] = conn[d]
                                /\ accepted'[d] = accepted[d] /\ wire'[d] = wire[d]
    PROVE  \A d \in Ids \ {c} : Exclusive(d)' /\ Ordered(d)' /\ Woken(d)'
<1> SUFFICES ASSUME NEW d \in Ids, d # c
             PROVE  Exclusive(d)' /\ Ordered(d)' /\ Woken(d)'
  OBVIOUS
<1>1. d # NoConnection /\ IO \in Threads
  BY CapacityAssumption DEF Ids, NoConnection, Threads
<1>2. \A u \in Threads : Active(u, d) \/ Active(u, d)' => thread'[u] = thread[u]
  BY <1>1 DEF Active
<1>3. Failing(d)' <=> Failing(d)
  BY <1>1 DEF Failing
<1>4. Lost(d) => Lost(d)'
  BY <1>1, <1>3 DEF Lost, Failing
<1> QED
  BY <1>2, <1>3, <1>4, Frame DEF NetInv

\* No connection is closed or removed, and the IO thread is not about to.
LEMMA ClosingKept ==
    ASSUME TypeOK, Closing, nextId' = nextId, table' = table,
           \A c \in Ids : /\ conn'[c].connected = conn[c].connected
                          /\ conn'[c].open = conn[c].open,
           \/ thread'[IO] = thread[IO]
           \/ /\ thread[IO].pc # "close"
              /\ thread'[IO].pc \notin {"close", "remove", "failed"},
           thread[IO].pc # "idle" => thread[IO].id \in Ids
    PROVE  Closing'
<1>1. 1 .. nextId - 1 \subseteq Ids
  BY CapacityAssumption DEF TypeOK, Ids
<1> QED
  BY <1>1 DEF Closing

\* Nothing of the server's life changes: while Stop waits for no handler, none
\* runs.
LEMMA StoppingKept ==
    ASSUME Stopping, UNCHANGED lifeVars,
           ~Quiet \/ (UNCHANGED <<table, inbound>> /\ thread'[IO].pc = thread[IO].pc)
    PROVE  Stopping'
  BY DEF Stopping, Quiet, lifeVars

\* A handler runs only before Stop has joined its thread.
LEMMA HandlerRuns ==
    ASSUME Stopping, HandlerStarts \/ thread[IO].pc # "idle"
    PROVE  ~Quiet
  BY DEF Stopping, Quiet, HandlerStarts, At

----------------------------------------------------------------------------
(* The steps                                                               *)

\* The constructor
LEMMA InitInv == Init => NetInv
<1> SUFFICES ASSUME Init PROVE NetInv
  OBVIOUS
<1>1. NewConnection \in Connection /\ IdleThread \in Thread
  BY CapacityAssumption DEF NewConnection, Connection, IdleThread, Thread, SendPcs, IoPcs,
     NoConnection, NoPacket
<1>2. TypeOK
  <2>1. /\ conn \in [Ids -> Connection] /\ thread \in [Threads -> Thread]
        /\ accepted \in [Ids -> Seq(Packets)] /\ wire \in [Ids -> Seq(Packets)]
    BY <1>1 DEF Init
  <2>2. /\ running \in BOOLEAN /\ ioStopped \in BOOLEAN
        /\ main \in {"idle", "join", "disconnect", "drain"}
        /\ table \in SUBSET (1 .. nextId - 1) /\ reading \in SUBSET Ids
    BY DEF Init
  <2>3. nextId \in 1 .. MaxConnections + 1 /\ sends \in Nat
    BY CapacityAssumption DEF Init
  <2> QED
    BY <2>1, <2>2, <2>3 DEF TypeOK
<1>3. Roles
  BY CapacityAssumption DEF Init, Roles, IdleThread, SendPcs, IoPcs, Threads
<1>4. Closing /\ Stopping
  BY <1>2 DEF Init, Closing, Stopping, Quiet, NewConnection, IdleThread, Threads, TypeOK
<1>5. ASSUME NEW c \in Ids PROVE Exclusive(c) /\ Ordered(c) /\ Woken(c)
  <2>1. /\ conn[c].sendQueue = << >> /\ conn[c].outstanding = {} /\ conn[c].late = {}
        /\ ~conn[c].writeInProgress
        /\ accepted[c] = << >> /\ wire[c] = << >>
        /\ \A t \in Threads : thread[t].pc = "idle"
    BY DEF Init, NewConnection, IdleThread
  <2>2. IO \in Threads
    BY DEF Threads
  <2>3. << >> \in Seq(Packets) /\ << >> = << >> \o << >>
    OBVIOUS
  <2> QED
    BY <2>1, <2>2, <2>3 DEF Exclusive, Ordered, Woken, Intact, Writing, Carrying, InFlight, Failing
<1> QED
  BY <1>2, <1>3, <1>4, <1>5 DEF NetInv

\* Senders that find a connection, or find it closed or its queue full
LEMMA SendFindInv ==
    ASSUME NetInv, NEW s \in Senders, NEW c \in Ids, SendFind(s, c)
    PROVE  NetInv'
<1>1. /\ s \in Threads /\ s # IO /\ thread[s].pc = "idle"
      /\ UNCHANGED <<lifeVars, nextId, table, connVars, receiveVars>>
      /\ sends' = sends + 1
  BY CapacityAssumption DEF SendFind, At, Threads
<1>2. /\ thread' \in [Threads -> Thread]
      /\ thread'[s].pc = "check" /\ thread'[s].id = c /\ thread'[s].packet = sends + 1
      /\ \A u \in Threads \ {s} : thread'[u] = thread[u]
  BY <1>1 DEF NetInv, TypeOK, SendFind, Thread, Ids, SendPcs
<1>3. TypeOK' /\ Roles'
  <2>1. TypeOK'
    BY <1>1, <1>2 DEF NetInv, TypeOK, lifeVars, connVars, receiveVars
  <2>2. sends + 1 \in Packets /\ c # NoConnection
    BY CapacityAssumption DEF NetInv, TypeOK, Packets, NoPacket, Ids, NoConnection
  <2>3. Roles'
    BY <1>1, <1>2, <2>2 DEF NetInv, Roles, SendPcs, Threads
  <2> QED
    BY <2>1, <2>3
<1>4. Closing' /\ Stopping'
  BY <1>1, <1>2, StoppingKept DEF NetInv, Closing, connVars, receiveVars, Threads
<1>5. ASSUME NEW d \in Ids PROVE Exclusive(d)' /\ Ordered(d)' /\ Woken(d)'
  BY <1>1, <1>2, Frame DEF NetInv, connVars, Active, Failing, Lost, Threads
<1> QED
  BY <1>3, <1>4, <1>5 DEF NetInv

\* EnqueueSend leaves when the connection is closed.
LEMMA SendCheckInv ==
    ASSUME NetInv, NEW s \in Senders, SendCheck(s)
    PROVE  NetInv'
<1>1. /\ s \in Threads /\ s # IO /\ thread[s].pc = "check"
      /\ UNCHANGED <<lifeVars, nextId, table, connVars, receiveVars, sends>>
  BY CapacityAssumption DEF SendCheck, At, Threads
<1>2. /\ thread' \in [Threads -> Thread]
      /\ \/ /\ thread'[s].pc = "push" /\ thread'[s].id = thread[s].id
            /\ thread'[s].packet = thread[s].packet
         \/ thread'[s].pc = "idle" /\ thread'[s].id = NoConnection
      /\ \A u \in Threads \ {s} : thread'[u] = thread[u]
  BY <1>1, GotoFacts, IdleFacts DEF SendCheck, NetInv, SendPcs
<1>3. TypeOK'
  BY <1>1, <1>2 DEF NetInv, TypeOK, lifeVars, connVars, receiveVars
<1>4. Roles'
  BY <1>1, <1>2 DEF NetInv, Roles, SendPcs, Threads
<1>5. Closing' /\ Stopping'
  BY <1>1, <1>2, StoppingKept DEF NetInv, Closing, connVars, receiveVars, Threads
<1>6. ASSUME NEW d \in Ids PROVE Exclusive(d)' /\ Ordered(d)' /\ Woken(d)'
  BY <1>1, <1>2, Frame DEF NetInv, connVars, Active, Failing, Lost, Threads
<1> QED
  BY <1>3, <1>4, <1>5, <1>6 DEF NetInv

\* A packet enters at the end of the queue and of what was accepted.
LEMMA PushOwn ==
    ASSUME NEW c \in Ids, NEW s \in Senders, NEW p \in Packets, TypeOK, Roles,
           Exclusive(c), Ordered(c), Woken(c), s # IO, s \in Threads,
           thread[s].pc = "push", thread'[s].pc = "begin", thread'[s].id = c,
           \A u \in Threads \ {s} : thread'[u] = thread[u],
           conn'[c].sendQueue = Append(conn[c].sendQueue, p),
           conn'[c].outstanding = conn[c].outstanding,
           conn'[c].writeInProgress = conn[c].writeInProgress,
           conn'[c].open = conn[c].open, conn'[c].late = conn[c].late,
           accepted'[c] = Append(accepted[c], p), wire'[c] = wire[c]
    PROVE  Exclusive(c)' /\ Ordered(c)' /\ Woken(c)'
<1>1. IO \in Threads /\ thread'[IO] = thread[IO]
  BY DEF Threads
<1>2. \A t \in Threads : /\ Writing(t, c)' <=> Writing(t, c)
                         /\ Carrying(t, c)' <=> Carrying(t, c)
                         /\ Carrying(t, c) => thread'[t] = thread[t]
  BY DEF Writing, Carrying
<1>3. /\ Failing(c)' <=> Failing(c)
      /\ InFlight(c)' <=> InFlight(c)
      /\ Lost(c)' <=> Lost(c)
  BY <1>1, <1>2 DEF Failing, InFlight, Lost
<1>4. Exclusive(c)'
  BY <1>2, <1>3 DEF Exclusive
<1>5. Woken(c)'
  BY DEF Woken
<1>6. /\ wire[c] \in Seq(Packets) /\ conn[c].sendQueue \in Seq(Packets)
      /\ \A t \in Threads : Carrying(t, c) => thread[t].packet \in Packets
      /\ conn[c].outstanding \subseteq Packets
  BY DEF TypeOK, Connection, Roles, Carrying
<1>7. \A u \in Seq(Packets) : accepted[c] = u \o conn[c].sendQueue =>
         accepted'[c] = u \o conn'[c].sendQueue
  <2> SUFFICES ASSUME NEW u \in Seq(Packets), accepted[c] = u \o conn[c].sendQueue
               PROVE  accepted'[c] = u \o conn'[c].sendQueue
    OBVIOUS
  <2>1. Append(u \o conn[c].sendQueue, p) = u \o Append(conn[c].sendQueue, p)
    BY <1>6, AppendToRight, Zenon
  <2> QED
    BY <2>1, Zenon
<1>8. Intact(c) => Intact(c)'
  <2>1. \A x \in Packets : Append(wire[c], x) \in Seq(Packets)
    BY <1>6, AppendType
  <2> SUFFICES ASSUME Intact(c) PROVE Intact(c)'
    OBVIOUS
  <2>2. ~InFlight(c)' => accepted'[c] = wire'[c] \o conn'[c].sendQueue
    BY <1>3, <1>6, <1>7, Zenon DEF Intact
  <2>3. ASSUME NEW t \in Threads, Carrying(t, c)'
        PROVE  accepted'[c] = Append(wire'[c], thread'[t].packet) \o conn'[c].sendQueue
    <3>1. /\ thread'[t].packet \in Packets
          /\ accepted[c] = Append(wire[c], thread'[t].packet) \o conn[c].sendQueue
      BY <1>2, <1>6, <2>3, Zenon DEF Intact
    <3> QED
      BY <1>7, <2>1, <3>1, Zenon
  <2>4. ASSUME NEW x \in conn'[c].outstanding
        PROVE  accepted'[c] = Append(wire'[c], x) \o conn'[c].sendQueue
    <3>1. x \in Packets /\ accepted[c] = Append(wire[c], x) \o conn[c].sendQueue
      BY <1>6, <2>4, Zenon DEF Intact
    <3> QED
      BY <1>7, <2>1, <3>1, Zenon
  <2> QED
    BY <2>2, <2>3, <2>4, Zenon DEF Intact
<1>9. \E rest \in Seq(Packets) : accepted'[c] = wire[c] \o rest
  <2>1. PICK rest \in Seq(Packets) : accepted[c] = wire[c] \o rest
    BY DEF Ordered
  <2>2. Append(wire[c] \o rest, p) = wire[c] \o Append(rest, p)
    BY <1>6, AppendToRight, Zenon
  <2>3. accepted'[c] = wire[c] \o Append(rest, p)
    BY <2>1, <2>2, Zenon
  <2> QED
    BY <2>3, AppendType, Zenon
<1>10. Ordered(c)'
  BY <1>3, <1>8, <1>9, Zenon DEF Ordered
<1> QED
  BY <1>4, <1>5, <1>10

\* The critical section of EnqueueSend
LEMMA SendPushInv ==
    ASSUME NetInv, NEW s \in Senders, SendPush(s)
    PROVE  NetInv'
<1>1. /\ s \in Threads /\ s # IO /\ IO \in Threads /\ thread[s].pc = "push"
      /\ UNCHANGED <<lifeVars, nextId, table, wire, receiveVars, sends>>
  BY CapacityAssumption DEF SendPush, At, Threads
<1>2. PICK c \in Ids, p \in Packets : c = thread[s].id /\ p = thread[s].packet
  BY <1>1, BusyThread DEF NetInv, Roles
<1>3. CASE Len(conn[c].sendQueue) >= SendCapacity
  <2>1. Idle(s) /\ UNCHANGED <<conn, accepted>>
    BY <1>2, <1>3 DEF SendPush
  <2>2. /\ thread' \in [Threads -> Thread]
        /\ thread'[s].pc = "idle" /\ thread'[s].id = NoConnection
        /\ \A u \in Threads \ {s} : thread'[u] = thread[u]
    BY <1>1, <2>1, IdleFacts DEF NetInv
  <2>3. TypeOK'
    BY <1>1, <2>1, <2>2 DEF NetInv, TypeOK, lifeVars, receiveVars
  <2>4. Roles'
    BY <1>1, <2>2 DEF NetInv, Roles, SendPcs, Threads
  <2>5. Closing' /\ Stopping'
    BY <1>1, <2>1, <2>2, StoppingKept DEF NetInv, Closing, receiveVars
  <2>6. ASSUME NEW d \in Ids PROVE Exclusive(d)' /\ Ordered(d)' /\ Woken(d)'
    BY <1>1, <2>1, <2>2, Frame DEF NetInv, Active, Failing, Lost
  <2> QED
    BY <2>3, <2>4, <2>5, <2>6 DEF NetInv
<1>4. CASE ~(Len(conn[c].sendQueue) >= SendCapacity)
  <2>1. /\ conn' = [conn EXCEPT ![c].sendQueue = Append(conn[c].sendQueue, p)]
        /\ accepted' = [accepted EXCEPT ![c] = Append(accepted[c], p)]
        /\ Goto(s, "begin")
    BY <1>2, <1>4 DEF SendPush
  <2>2. /\ thread' \in [Threads -> Thread]
        /\ thread'[s].pc = "begin" /\ thread'[s].id = c
        /\ \A u \in Threads \ {s} : thread'[u] = thread[u]
    BY <1>1, <1>2, <2>1, GotoFacts DEF NetInv, SendPcs
  <2>3. /\ Append(conn[c].sendQueue, p) \in Seq(Packets)
        /\ Append(accepted[c], p) \in Seq(Packets)
    BY <1>2, AppendType DEF NetInv, TypeOK, Connection
  <2>4. /\ conn' \in [Ids -> Connection]
        /\ conn'[c].sendQueue = Append(conn[c].sendQueue, p)
        /\ conn'[c].outstanding = conn[c].outstanding
        /\ conn'[c].writeInProgress = conn[c].writeInProgress
        /\ \A d \in Ids : conn'[d].connected = conn[d].connected /\ conn'[d].open = conn[d].open
        /\ \A d \in Ids : conn'[d].late = conn[d].late
        /\ \A d \in Ids \ {c} : conn'[d] = conn[d]
    <3>1. PICK x \in Seq(Packets) : x = Append(conn[c].sendQueue, p)
      BY <2>3
    <3>2. TypeOK /\ conn' = [conn EXCEPT ![c].sendQueue = x]
      BY <2>1, <3>1 DEF NetInv
    <3>3. /\ conn' \in [Ids -> Connection] /\ conn'[c].sendQueue = x
          /\ \A d \in Ids : conn'[d].outstanding = conn[d].outstanding
          /\ \A d \in Ids : conn'[d].writeInProgress = conn[d].writeInProgress
          /\ \A d \in Ids : conn'[d].connected = conn[d].connected
          /\ \A d \in Ids : conn'[d].open = conn[d].open
          /\ \A d \in Ids : conn'[d].late = conn[d].late
          /\ \A d \in Ids \ {c} : conn'[d] = conn[d]
      BY <3>2, QueueUpdate
    <3> QED
      BY <3>1, <3>3
  <2>5. /\ accepted' \in [Ids -> Seq(Packets)]
        /\ accepted'[c] = Append(accepted[c], p)
        /\ \A d \in Ids \ {c} : accepted'[d] = accepted[d]
    BY <1>2, <2>1, <2>3 DEF NetInv, TypeOK
  <2>6. TypeOK'
    BY <1>1, <2>2, <2>4, <2>5 DEF NetInv, TypeOK, lifeVars, receiveVars
  <2>7. Roles'
    BY <1>1, <1>2, <2>2, CapacityAssumption
       DEF NetInv, Roles, SendPcs, Threads, Ids, NoConnection
  <2>8. Closing' /\ Stopping'
    BY <1>1, <2>2, <2>4, ClosingKept, StoppingKept, BusyThread DEF NetInv, receiveVars
  <2>9. Exclusive(c)' /\ Ordered(c)' /\ Woken(c)'
    BY <1>1, <1>2, <2>2, <2>4, <2>5, PushOwn DEF NetInv
  <2>10. \A d \in Ids \ {c} : Exclusive(d)' /\ Ordered(d)' /\ Woken(d)'
    BY <1>1, <1>2, <2>2, <2>4, <2>5, Others
  <2> QED
    BY <2>6, <2>7, <2>8, <2>9, <2>10 DEF NetInv
<1> QED
  BY <1>3, <1>4

----------------------------------------------------------------------------
(* StartWriteLoop                                                          *)

\* TryBeginWrite takes the token or leaves it to its holder.
LEMMA BeginWriteInv ==
    ASSUME NetInv, NEW t \in Threads, BeginWrite(t)
    PROVE  NetInv'
<1>1. /\ IO \in Threads /\ thread[t].pc = "begin"
      /\ UNCHANGED <<lifeVars, nextId, table, accepted, wire, receiveVars, sends>>
  BY DEF BeginWrite, At, Threads
<1>2. PICK c \in Ids : c = thread[t].id /\ c # NoConnection
  BY <1>1, BusyThread, CapacityAssumption DEF NetInv, Ids, NoConnection
<1>3. Stopping'
  BY <1>1, StoppingKept, HandlerRuns, GotoFacts, IdleFacts
     DEF NetInv, BeginWrite, receiveVars, SendPcs
<1>4. CASE conn[c].writeInProgress
  <2>1. Idle(t) /\ UNCHANGED conn
    BY <1>2, <1>4 DEF BeginWrite, Mine
  <2>2. /\ thread' \in [Threads -> Thread]
        /\ thread'[t].pc = "idle" /\ thread'[t].id = NoConnection
        /\ \A u \in Threads \ {t} : thread'[u] = thread[u]
    BY <2>1, IdleFacts DEF NetInv
  <2>3. TypeOK'
    BY <1>1, <2>1, <2>2 DEF NetInv, TypeOK, lifeVars, receiveVars
  <2>4. Roles'
    BY <1>1, <2>2 DEF NetInv, Roles, SendPcs, IoPcs, Threads
  <2>5. Closing'
    BY <1>1, <1>2, <2>1, <2>2, ClosingKept, BusyThread DEF NetInv
  <2>6. \A d \in Ids \ {c} : Exclusive(d)' /\ Ordered(d)' /\ Woken(d)'
    BY <1>1, <1>2, <2>1, <2>2, Others
  <2>7. /\ \A u \in Threads : /\ Writing(u, c)' <=> Writing(u, c)
                              /\ Carrying(u, c)' <=> Carrying(u, c)
                              /\ Carrying(u, c) => thread'[u] = thread[u]
        /\ Failing(c)' <=> Failing(c)
        /\ Lost(c)' <=> Lost(c)
    BY <1>1, <1>2, <2>1, <2>2 DEF Writing, Carrying, Failing, Lost
  <2>8. Exclusive(c)'
    BY <1>2, <2>1, <2>7 DEF NetInv, Exclusive
  <2>9. Ordered(c)'
    BY <1>1, <1>2, <2>1, <2>7, FrameOrdered DEF NetInv
  <2>10. Woken(c)'
    BY <1>2, <1>4, <2>1, <2>7, <2>8 DEF Exclusive, Woken, Writing
  <2> QED
    BY <1>3, <2>3, <2>4, <2>5, <2>6, <2>8, <2>9, <2>10 DEF NetInv
<1>5. CASE ~conn[c].writeInProgress
  <2>1. Goto(t, "pop") /\ conn' = [conn EXCEPT ![c].writeInProgress = TRUE]
    BY <1>2, <1>5 DEF BeginWrite, Mine
  <2>2. /\ thread' \in [Threads -> Thread]
        /\ thread'[t].pc = "pop" /\ thread'[t].id = c
        /\ \A u \in Threads \ {t} : thread'[u] = thread[u]
    BY <1>2, <2>1, GotoFacts DEF NetInv, SendPcs
  <2>3. /\ conn' \in [Ids -> Connection]
        /\ conn'[c].sendQueue = conn[c].sendQueue
        /\ conn'[c].outstanding = conn[c].outstanding
        /\ conn'[c].writeInProgress = TRUE
        /\ \A d \in Ids : conn'[d].connected = conn[d].connected /\ conn'[d].open = conn[d].open
        /\ \A d \in Ids : conn'[d].late = conn[d].late
        /\ \A d \in Ids \ {c} : conn'[d] = conn[d]
    BY <1>2, <2>1, TokenUpdate, ZenonT(30) DEF NetInv
  <2>4. TypeOK'
    BY <1>1, <2>2, <2>3 DEF NetInv, TypeOK, lifeVars, receiveVars
  <2>5. Roles'
    BY <1>1, <1>2, <2>2 DEF NetInv, Roles, SendPcs, IoPcs, Threads
  <2>6. Closing'
    BY <1>1, <1>2, <2>2, <2>3, ClosingKept, BusyThread DEF NetInv
  <2>7. \A d \in Ids \ {c} : Exclusive(d)' /\ Ordered(d)' /\ Woken(d)'
    BY <1>1, <1>2, <2>2, <2>3, Others
  <2>8. /\ \A u \in Threads : /\ Writing(u, c)' <=> u = t
                              /\ Carrying(u, c)' <=> Carrying(u, c)
                              /\ Carrying(u, c) => thread'[u] = thread[u]
        /\ ~Failing(c)' /\ ~Failing(c) /\ conn[c].outstanding = {} /\ conn[c].late = {}
        /\ Lost(c)' <=> Lost(c)
    BY <1>1, <1>2, <1>5, <2>2, <2>3 DEF NetInv, Exclusive, Writing, Carrying, Failing, Lost
  <2>9. Exclusive(c)'
    BY <2>3, <2>8 DEF Exclusive
  <2>10. Ordered(c)'
    BY <1>1, <1>2, <2>3, <2>8, FrameOrdered DEF NetInv
  <2>11. Woken(c)'
    BY <2>2 DEF Woken
  <2> QED
    BY <1>3, <2>4, <2>5, <2>6, <2>7, <2>9, <2>10, <2>11 DEF NetInv
<1> QED
  BY <1>4, <1>5

\* TryPopSend: the holder of the token takes the oldest packet.
LEMMA PopSendInv ==
    ASSUME NetInv, NEW t \in Threads, PopSend(t)
    PROVE  NetInv'
<1>1. /\ IO \in Threads /\ thread[t].pc = "pop"
      /\ UNCHANGED <<lifeVars, nextId, table, accepted, wire, receiveVars, sends>>
  BY DEF PopSend, At, Threads
<1>2. PICK c \in Ids : c = thread[t].id /\ c # NoConnection
  BY <1>1, BusyThread, CapacityAssumption DEF NetInv, Ids, NoConnection
<1>3. /\ Writing(t, c) /\ ~Failing(c) /\ conn[c].outstanding = {}
      /\ \A u \in Threads : Writing(u, c) => u = t
      /\ ~InFlight(c)
  BY <1>1, <1>2 DEF NetInv, Exclusive, Writing, Carrying, InFlight
<1>4. CASE conn[c].sendQueue = << >>
  <2>1. Goto(t, "end") /\ UNCHANGED conn
    BY <1>2, <1>4 DEF PopSend, Mine
  <2>2. /\ thread' \in [Threads -> Thread]
        /\ thread'[t].pc = "end" /\ thread'[t].id = c
        /\ \A u \in Threads \ {t} : thread'[u] = thread[u]
    BY <1>2, <2>1, GotoFacts DEF NetInv, SendPcs
  <2>3. TypeOK'
    BY <1>1, <2>1, <2>2 DEF NetInv, TypeOK, lifeVars, receiveVars
  <2>4. Roles'
    BY <1>1, <1>2, <2>2 DEF NetInv, Roles, SendPcs, IoPcs, Threads
  <2>5. Closing' /\ Stopping'
    BY <1>1, <1>2, <2>1, <2>2, ClosingKept, StoppingKept, HandlerRuns, BusyThread
       DEF NetInv, receiveVars
  <2>6. \A d \in Ids \ {c} : Exclusive(d)' /\ Ordered(d)' /\ Woken(d)'
    BY <1>1, <1>2, <2>1, <2>2, Others
  <2>7. /\ \A u \in Threads : /\ Writing(u, c)' <=> Writing(u, c)
                              /\ Carrying(u, c)' <=> Carrying(u, c)
                              /\ Carrying(u, c) => thread'[u] = thread[u]
        /\ Failing(c)' <=> Failing(c)
        /\ Lost(c)' <=> Lost(c)
    BY <1>1, <1>2, <2>1, <2>2 DEF Writing, Carrying, Failing, Lost
  <2>8. Exclusive(c)'
    BY <2>1, <2>7 DEF NetInv, Exclusive
  <2>9. Ordered(c)'
    BY <1>1, <2>1, <2>7, FrameOrdered DEF NetInv
  <2>10. Woken(c)'
    BY <1>4, <2>1 DEF Woken
  <2> QED
    BY <2>3, <2>4, <2>5, <2>6, <2>8, <2>9, <2>10 DEF NetInv
<1>5. CASE conn[c].sendQueue # << >>
  <2>1. PICK p, q : p = Head(conn[c].sendQueue) /\ q = Tail(conn[c].sendQueue)
    OBVIOUS
  <2>2. /\ conn' = [conn EXCEPT ![c].sendQueue = q]
        /\ thread' = [thread EXCEPT ![t].pc = "write", ![t].packet = p]
    BY <1>2, <1>5, <2>1 DEF PopSend, Mine
  <2>3. /\ p \in Packets /\ q \in Seq(Packets) /\ wire[c] \in Seq(Packets)
        /\ wire[c] \o conn[c].sendQueue = Append(wire[c], p) \o q
    <3>1. conn[c].sendQueue \in Seq(Packets) /\ wire[c] \in Seq(Packets)
      BY DEF NetInv, TypeOK, Connection
    <3> QED
      BY <1>5, <2>1, <3>1, HeadToLeft, Zenon
  <2>4. /\ thread' \in [Threads -> Thread]
        /\ thread'[t].pc = "write" /\ thread'[t].id = c /\ thread'[t].packet = p
        /\ \A u \in Threads \ {t} : thread'[u] = thread[u]
    BY <1>2, <2>2, <2>3 DEF NetInv, TypeOK, Thread, SendPcs, Packets
  <2>5. /\ conn' \in [Ids -> Connection]
        /\ conn'[c].sendQueue = q /\ conn'[c].outstanding = conn[c].outstanding
        /\ conn'[c].writeInProgress = conn[c].writeInProgress
        /\ \A d \in Ids : conn'[d].connected = conn[d].connected /\ conn'[d].open = conn[d].open
        /\ \A d \in Ids : conn'[d].late = conn[d].late
        /\ \A d \in Ids \ {c} : conn'[d] = conn[d]
    BY <2>2, <2>3, QueueUpdate DEF NetInv
  <2>6. TypeOK'
    BY <1>1, <2>4, <2>5 DEF NetInv, TypeOK, lifeVars, receiveVars
  <2>7. Roles'
    BY <1>1, <1>2, <2>3, <2>4 DEF NetInv, Roles, SendPcs, IoPcs, Threads
  <2>8. Closing' /\ Stopping'
    BY <1>1, <1>2, <2>4, <2>5, ClosingKept, StoppingKept, HandlerRuns, BusyThread
       DEF NetInv, receiveVars
  <2>9. \A d \in Ids \ {c} : Exclusive(d)' /\ Ordered(d)' /\ Woken(d)'
    BY <1>1, <1>2, <2>4, <2>5, Others
  <2>10. /\ \A u \in Threads : Writing(u, c)' <=> Writing(u, c)
         /\ \A u \in Threads : Carrying(u, c)' => u = t
         /\ Carrying(t, c)'
         /\ Failing(c)' <=> Failing(c)
         /\ Lost(c)' <=> Lost(c)
    BY <1>1, <1>2, <1>3, <2>4, <2>5 DEF Writing, Carrying, Failing, Lost
  <2>11. Exclusive(c)'
    BY <2>5, <2>10 DEF NetInv, Exclusive
  <2>12. Ordered(c)'
    <3>1. Intact(c) => accepted[c] = Append(wire[c], p) \o q
      BY <1>3, <2>3, Zenon DEF Intact
    <3>2. Intact(c) => Intact(c)'
      BY <1>1, <1>3, <2>4, <2>5, <2>10, <3>1 DEF Intact, InFlight
    <3> QED
      BY <1>1, <2>10, <3>2 DEF NetInv, Ordered
  <2>13. Woken(c)'
    BY <2>4 DEF Woken
  <2> QED
    BY <2>6, <2>7, <2>8, <2>9, <2>11, <2>12, <2>13 DEF NetInv
<1> QED
  BY <1>4, <1>5

\* The token passes from the thread to the write it starts.
LEMMA AsyncWriteInv ==
    ASSUME NetInv, NEW t \in Threads, AsyncWrite(t)
    PROVE  NetInv'
<1>1. /\ IO \in Threads /\ thread[t].pc = "write"
      /\ UNCHANGED <<lifeVars, nextId, table, accepted, wire, receiveVars, sends>>
      /\ Idle(t)
  BY DEF AsyncWrite, At, Threads
<1>2. PICK c \in Ids, p \in Packets : c = thread[t].id /\ c # NoConnection /\ p = thread[t].packet
  BY <1>1, BusyThread, CapacityAssumption DEF NetInv, Roles, Ids, NoConnection
<1>3. /\ Writing(t, c) /\ Carrying(t, c) /\ ~Failing(c) /\ conn[c].outstanding = {}
      /\ \A u \in Threads : Writing(u, c) => u = t
  BY <1>1, <1>2 DEF NetInv, Exclusive, Writing, Carrying
<1>4. {p} \in SUBSET Packets /\ conn' = [conn EXCEPT ![c].outstanding = {p}]
  BY <1>2, <1>3 DEF AsyncWrite
<1>5. /\ conn' \in [Ids -> Connection]
      /\ conn'[c].sendQueue = conn[c].sendQueue /\ conn'[c].outstanding = {p}
      /\ conn'[c].writeInProgress = conn[c].writeInProgress
      /\ \A d \in Ids : conn'[d].connected = conn[d].connected /\ conn'[d].open = conn[d].open
      /\ \A d \in Ids : conn'[d].late = conn[d].late
      /\ \A d \in Ids \ {c} : conn'[d] = conn[d]
  BY <1>4, OutstandingUpdate DEF NetInv
<1>6. /\ thread' \in [Threads -> Thread]
      /\ thread'[t].pc = "idle" /\ thread'[t].id = NoConnection
      /\ \A u \in Threads \ {t} : thread'[u] = thread[u]
  BY <1>1, IdleFacts DEF NetInv
<1>7. TypeOK'
  BY <1>1, <1>5, <1>6 DEF NetInv, TypeOK, lifeVars, receiveVars
<1>8. Roles'
  BY <1>1, <1>6 DEF NetInv, Roles, SendPcs, IoPcs, Threads
<1>9. Closing' /\ Stopping'
  BY <1>1, <1>2, <1>5, <1>6, ClosingKept, StoppingKept, HandlerRuns, BusyThread
     DEF NetInv, receiveVars
<1>10. \A d \in Ids \ {c} : Exclusive(d)' /\ Ordered(d)' /\ Woken(d)'
  BY <1>1, <1>2, <1>5, <1>6, Others
<1>11. /\ \A u \in Threads : ~Writing(u, c)' /\ ~Carrying(u, c)'
       /\ ~Failing(c)'
       /\ Lost(c)' <=> Lost(c)
  BY <1>1, <1>2, <1>3, <1>5, <1>6 DEF Writing, Carrying, Failing, Lost
<1>12. Exclusive(c)'
  BY <1>3, <1>5, <1>11 DEF NetInv, Exclusive
<1>13. Ordered(c)'
  <2>1. Intact(c) => accepted[c] = Append(wire[c], p) \o conn[c].sendQueue
    BY <1>2, <1>3 DEF Intact
  <2>2. Intact(c) => Intact(c)'
    BY <1>1, <1>5, <1>11, <2>1 DEF Intact, InFlight
  <2> QED
    BY <1>1, <1>11, <2>2 DEF NetInv, Ordered
<1>14. Woken(c)'
  BY <1>5 DEF Woken
<1> QED
  BY <1>7, <1>8, <1>9, <1>10, <1>12, <1>13, <1>14 DEF NetInv

\* A handler or a loop that found the queue empty gives the token back and goes
\* on to look at the queue.
LEMMA GiveBackInv ==
    ASSUME NetInv, NEW t \in Threads, NEW next \in {"pending", "begin"},
           thread[t].pc = IF next = "pending" THEN "end" ELSE "written",
           Goto(t, next), t = IO \/ next = "pending",
           conn' = [conn EXCEPT ![thread[t].id].writeInProgress = FALSE],
           UNCHANGED <<lifeVars, nextId, table, accepted, wire, receiveVars, sends>>
    PROVE  NetInv'
<1>1. IO \in Threads
  BY DEF Threads
<1>2. PICK c \in Ids : c = thread[t].id /\ c # NoConnection
  BY BusyThread, CapacityAssumption DEF NetInv, Ids, NoConnection
<1>3. /\ ~Failing(c) /\ conn[c].outstanding = {}
      /\ \A u \in Threads : Writing(u, c) => u = t
  BY <1>2 DEF NetInv, Exclusive, Writing
<1>4. /\ conn' \in [Ids -> Connection]
      /\ conn'[c].sendQueue = conn[c].sendQueue /\ conn'[c].outstanding = conn[c].outstanding
      /\ conn'[c].writeInProgress = FALSE
      /\ \A d \in Ids : conn'[d].connected = conn[d].connected /\ conn'[d].open = conn[d].open
      /\ \A d \in Ids : conn'[d].late = conn[d].late
      /\ \A d \in Ids \ {c} : conn'[d] = conn[d]
  BY <1>2, TokenUpdate DEF NetInv
<1>5. /\ thread' \in [Threads -> Thread]
      /\ thread'[t].pc = next /\ thread'[t].id = c
      /\ \A u \in Threads \ {t} : thread'[u] = thread[u]
  BY <1>2, GotoFacts DEF NetInv, SendPcs
<1>6. TypeOK'
  BY <1>4, <1>5 DEF NetInv, TypeOK, lifeVars, receiveVars
<1>7. Roles'
  BY <1>1, <1>2, <1>5 DEF NetInv, Roles, SendPcs, IoPcs, Threads
<1>8. Closing' /\ Stopping'
  BY <1>1, <1>2, <1>4, <1>5, ClosingKept, StoppingKept, HandlerRuns, BusyThread
     DEF NetInv, receiveVars
<1>9. \A d \in Ids \ {c} : Exclusive(d)' /\ Ordered(d)' /\ Woken(d)'
  BY <1>1, <1>2, <1>4, <1>5, Others
<1>10. /\ \A u \in Threads : /\ ~Writing(u, c)'
                             /\ ~Carrying(u, c)' /\ ~Carrying(u, c)
       /\ ~Failing(c)'
       /\ Lost(c)' <=> Lost(c)
  BY <1>1, <1>2, <1>3, <1>4, <1>5 DEF Writing, Carrying, Failing, Lost
<1>11. Exclusive(c)'
  BY <1>3, <1>4, <1>10 DEF NetInv, Exclusive
<1>12. Ordered(c)'
  BY <1>4, <1>10, FrameOrdered DEF NetInv
<1>13. Woken(c)'
  BY <1>5 DEF Woken
<1> QED
  BY <1>6, <1>7, <1>8, <1>9, <1>11, <1>12, <1>13 DEF NetInv

\* HasPendingSend: a loop that leaves has seen the queue empty.
LEMMA PendingInv ==
    ASSUME NetInv, NEW t \in Threads, Pending(t)
    PROVE  NetInv'
<1>1. /\ IO \in Threads /\ thread[t].pc = "pending"
      /\ UNCHANGED <<lifeVars, nextId, table, connVars, receiveVars, sends>>
  BY DEF Pending, At, Threads
<1>2. PICK c \in Ids : c = thread[t].id /\ c # NoConnection
  BY <1>1, BusyThread, CapacityAssumption DEF NetInv, Ids, NoConnection
<1>3. /\ thread' \in [Threads -> Thread]
      /\ \A u \in Threads \ {t} : thread'[u] = thread[u]
      /\ \/ /\ conn[c].sendQueue = << >>
            /\ thread'[t].pc = "idle" /\ thread'[t].id = NoConnection
         \/ thread'[t].pc = "begin" /\ thread'[t].id = c
  BY <1>2, GotoFacts, IdleFacts DEF NetInv, Pending, Mine, SendPcs
<1>4. TypeOK'
  BY <1>1, <1>3 DEF NetInv, TypeOK, lifeVars, connVars, receiveVars
<1>5. Roles'
  BY <1>1, <1>2, <1>3 DEF NetInv, Roles, SendPcs, IoPcs, Threads
<1>6. Closing' /\ Stopping'
  BY <1>1, <1>2, <1>3, ClosingKept, StoppingKept, HandlerRuns, BusyThread
     DEF NetInv, connVars, receiveVars
<1>7. \A d \in Ids \ {c} : Exclusive(d)' /\ Ordered(d)' /\ Woken(d)'
  BY <1>1, <1>2, <1>3, Others DEF connVars
<1>8. /\ \A u \in Threads : /\ Writing(u, c)' <=> Writing(u, c)
                            /\ Carrying(u, c)' <=> Carrying(u, c)
                            /\ Carrying(u, c) => thread'[u] = thread[u]
      /\ Failing(c)' <=> Failing(c)
      /\ Lost(c)' <=> Lost(c)
  BY <1>1, <1>2, <1>3 DEF Writing, Carrying, Failing, Lost, connVars
<1>9. Exclusive(c)'
  BY <1>1, <1>8 DEF NetInv, Exclusive, connVars
<1>10. Ordered(c)'
  BY <1>1, <1>8, FrameOrdered DEF NetInv, connVars
<1>11. Woken(c)'
  BY <1>1, <1>3 DEF Woken, connVars
<1> QED
  BY <1>4, <1>5, <1>6, <1>7, <1>9, <1>10, <1>11 DEF NetInv

\* StartWriteLoop on any thread
LEMMA WriteLoopInv ==
    ASSUME NetInv, NEW t \in Threads, WriteLoop(t)
    PROVE  NetInv'
<1>1. CASE EndWrite(t)
  BY <1>1, GiveBackInv DEF EndWrite, At
<1> QED
  BY <1>1, BeginWriteInv, PopSendInv, AsyncWriteInv, PendingInv DEF WriteLoop

----------------------------------------------------------------------------
(* Completion handlers                                                     *)

\* A completed write is the oldest packet not on the wire.
LEMMA WriteDoneInv ==
    ASSUME NetInv, NEW c \in Ids, NEW p \in conn[c].outstanding, WriteDone(c, p)
    PROVE  NetInv'
<1>1. /\ IO \in Threads /\ thread[IO].pc = "idle" /\ (conn[c].open \/ conn[c].late # {})
      /\ thread[IO].id = NoConnection
      /\ UNCHANGED <<lifeVars, nextId, table, accepted, receiveVars, sends>>
      /\ wire' = [wire EXCEPT ![c] = Append(wire[c], p)]
  BY DEF NetInv, Roles, WriteDone, HandlerStarts, At, Threads
<1>2. c # NoConnection /\ p \in Packets
  BY CapacityAssumption DEF NetInv, TypeOK, Connection, Ids, NoConnection
<1>3. /\ conn[c].outstanding = {p} /\ ~Failing(c) /\ conn[c].writeInProgress
      /\ \A u \in Threads : ~Writing(u, c)
  BY DEF NetInv, Exclusive
<1>4. Completed(c, p)
  BY DEF WriteDone
<1>5. /\ conn' \in [Ids -> Connection]
      /\ conn'[c].sendQueue = conn[c].sendQueue /\ conn'[c].outstanding = {}
      /\ conn'[c].late = {}
      /\ conn'[c].writeInProgress = conn[c].writeInProgress
      /\ \A d \in Ids : conn'[d].connected = conn[d].connected /\ conn'[d].open = conn[d].open
      /\ \A d \in Ids \ {c} : conn'[d] = conn[d]
  BY <1>4, CompletedUpdate DEF NetInv
<1>6. /\ thread' \in [Threads -> Thread]
      /\ thread'[IO].pc = "written" /\ thread'[IO].id = c
      /\ \A u \in Threads \ {IO} : thread'[u] = thread[u]
  BY IoBusyFacts DEF NetInv, WriteDone, IoPcs, NoPacket
<1>7. Append(wire[c], p) \in Seq(Packets)
  BY <1>2, AppendType DEF NetInv, TypeOK
<1>8. /\ wire' \in [Ids -> Seq(Packets)] /\ wire'[c] = Append(wire[c], p)
      /\ \A d \in Ids \ {c} : wire'[d] = wire[d]
  BY <1>1, <1>7 DEF NetInv, TypeOK
<1>9. TypeOK'
  BY <1>1, <1>5, <1>6, <1>8 DEF NetInv, TypeOK, lifeVars, receiveVars
<1>10. Roles'
  BY <1>1, <1>2, <1>6, CapacityAssumption DEF NetInv, Roles, SendPcs, IoPcs, Threads
<1>11. Closing' /\ Stopping'
  BY <1>1, <1>5, <1>6, ClosingKept, StoppingKept, HandlerRuns DEF NetInv, WriteDone
<1>12. \A d \in Ids \ {c} : Exclusive(d)' /\ Ordered(d)' /\ Woken(d)'
  BY <1>1, <1>5, <1>6, <1>8, Others
<1>13. /\ \A u \in Threads : (Writing(u, c)' <=> u = IO) /\ ~Carrying(u, c)'
       /\ ~Failing(c)' /\ ~Lost(c)
  BY <1>1, <1>3, <1>6 DEF Writing, Carrying, Failing, Lost
<1>14. Exclusive(c)'
  BY <1>1, <1>3, <1>5, <1>13 DEF Exclusive
<1>15. Ordered(c)'
  <2>1. accepted[c] = Append(wire[c], p) \o conn[c].sendQueue
    BY <1>13 DEF NetInv, Ordered, Intact
  <2>2. accepted'[c] = wire'[c] \o conn'[c].sendQueue
    BY <1>1, <1>5, <1>8, <2>1, Zenon
  <2>3. conn'[c].sendQueue \in Seq(Packets)
    BY <1>5 DEF Connection
  <2>4. Intact(c)'
    BY <1>5, <1>13, <2>2 DEF Intact
  <2> QED
    BY <2>2, <2>3, <2>4, Zenon DEF Ordered
<1>16. Woken(c)'
  BY <1>1, <1>6 DEF Woken
<1> QED
  BY <1>9, <1>10, <1>11, <1>12, <1>14, <1>15, <1>16 DEF NetInv

\* The packet of a failed write is lost: the handler must close the socket.
LEMMA WriteFailsInv ==
    ASSUME NetInv, NEW c \in Ids, NEW p \in conn[c].outstanding, WriteFails(c, p)
    PROVE  NetInv'
<1>1. /\ IO \in Threads /\ thread[IO].pc = "idle"
      /\ thread[IO].id = NoConnection
      /\ UNCHANGED <<lifeVars, nextId, table, accepted, wire, receiveVars, sends>>
  BY DEF NetInv, Roles, WriteFails, HandlerStarts, At, Threads
<1>2. c # NoConnection /\ p \in Packets /\ p \in Nat /\ p # NoPacket
  BY CapacityAssumption DEF NetInv, TypeOK, Connection, Ids, NoConnection, Packets
<1>3. /\ conn[c].outstanding = {p} /\ conn[c].writeInProgress
      /\ \A u \in Threads : ~Writing(u, c)
  BY DEF NetInv, Exclusive
<1>4. Completed(c, p)
  BY DEF WriteFails
<1>5. /\ conn' \in [Ids -> Connection]
      /\ conn'[c].sendQueue = conn[c].sendQueue /\ conn'[c].outstanding = {}
      /\ conn'[c].late = {}
      /\ conn'[c].writeInProgress = conn[c].writeInProgress
      /\ \A d \in Ids : conn'[d].connected = conn[d].connected /\ conn'[d].open = conn[d].open
      /\ \A d \in Ids \ {c} : conn'[d] = conn[d]
  BY <1>4, CompletedUpdate DEF NetInv
<1>6. /\ thread' \in [Threads -> Thread]
      /\ thread'[IO].pc = "disconnect" /\ thread'[IO].id = c /\ thread'[IO].packet = p
      /\ \A u \in Threads \ {IO} : thread'[u] = thread[u]
  BY <1>2, IoBusyFacts DEF NetInv, WriteFails, IoPcs
<1>7. TypeOK'
  BY <1>1, <1>5, <1>6 DEF NetInv, TypeOK, lifeVars, receiveVars
<1>8. Roles'
  BY <1>1, <1>2, <1>6, CapacityAssumption DEF NetInv, Roles, SendPcs, IoPcs, Threads
<1>9. Closing' /\ Stopping'
  BY <1>1, <1>5, <1>6, ClosingKept, StoppingKept, HandlerRuns DEF NetInv, WriteFails
<1>10. \A d \in Ids \ {c} : Exclusive(d)' /\ Ordered(d)' /\ Woken(d)'
  BY <1>1, <1>5, <1>6, Others
<1>11. /\ \A u \in Threads : ~Writing(u, c)'
       /\ Failing(c)' /\ Lost(c)'
  BY <1>1, <1>2, <1>3, <1>6 DEF Writing, Failing, Lost
<1>12. Exclusive(c)' /\ Woken(c)'
  BY <1>3, <1>5, <1>11 DEF Exclusive, Woken
<1>13. Ordered(c)'
  BY <1>1, <1>11 DEF NetInv, Ordered
<1> QED
  BY <1>7, <1>8, <1>9, <1>10, <1>12, <1>13 DEF NetInv

\* The handler of a failed write gives the token back: the socket is closed.
LEMMA WriteFailsEndInv ==
    ASSUME NetInv, WriteFailsEnd
    PROVE  NetInv'
<1>1. /\ IO \in Threads /\ thread[IO].pc = "failed" /\ Idle(IO)
      /\ UNCHANGED <<lifeVars, nextId, table, accepted, wire, receiveVars, sends>>
  BY DEF WriteFailsEnd, At, Threads
<1>2. PICK c \in Ids : c = thread[IO].id /\ c # NoConnection
  BY <1>1, BusyThread, CapacityAssumption DEF NetInv, Ids, NoConnection
<1>3. /\ Failing(c) /\ conn[c].outstanding = {} /\ conn[c].late = {}
      /\ ~conn[c].connected /\ ~conn[c].open
      /\ \A u \in Threads : ~Writing(u, c)
  BY <1>1, <1>2 DEF NetInv, Roles, Closing, Exclusive, Failing
<1>4. /\ conn' \in [Ids -> Connection]
      /\ conn'[c].sendQueue = conn[c].sendQueue /\ conn'[c].outstanding = conn[c].outstanding
      /\ conn'[c].writeInProgress = FALSE
      /\ \A d \in Ids : conn'[d].connected = conn[d].connected /\ conn'[d].open = conn[d].open
      /\ \A d \in Ids : conn'[d].late = conn[d].late
      /\ \A d \in Ids \ {c} : conn'[d] = conn[d]
  BY <1>2, TokenUpdate DEF NetInv, WriteFailsEnd
<1>5. /\ thread' \in [Threads -> Thread]
      /\ thread'[IO].pc = "idle" /\ thread'[IO].id = NoConnection
      /\ \A u \in Threads \ {IO} : thread'[u] = thread[u]
  BY <1>1, IdleFacts DEF NetInv
<1>6. TypeOK'
  BY <1>1, <1>4, <1>5 DEF NetInv, TypeOK, lifeVars, receiveVars
<1>7. Roles'
  BY <1>1, <1>5 DEF NetInv, Roles, SendPcs, IoPcs, Threads
<1>8. Closing' /\ Stopping'
  BY <1>1, <1>2, <1>4, <1>5, ClosingKept, StoppingKept, HandlerRuns DEF NetInv
<1>9. \A d \in Ids \ {c} : Exclusive(d)' /\ Ordered(d)' /\ Woken(d)'
  BY <1>1, <1>2, <1>4, <1>5, Others
<1>10. /\ \A u \in Threads : ~Writing(u, c)'
       /\ ~Failing(c)' /\ Lost(c)'
  BY <1>1, <1>2, <1>3, <1>4, <1>5 DEF Writing, Failing, Lost
<1>11. Exclusive(c)' /\ Woken(c)'
  BY <1>3, <1>4, <1>10 DEF Exclusive, Woken
<1>12. Ordered(c)'
  BY <1>1, <1>10 DEF NetInv, Ordered
<1> QED
  BY <1>6, <1>7, <1>8, <1>9, <1>11, <1>12 DEF NetInv

\* Disconnect, Close and RemoveConnection keep the token where it is and close
\* the socket before the connection leaves the table.
LEMMA DisconnectInv ==
    ASSUME NetInv, Disconnect \/ Close \/ Remove
    PROVE  NetInv'
<1>1. /\ IO \in Threads
      /\ UNCHANGED <<lifeVars, nextId, accepted, wire, receiveVars, sends>>
      /\ thread[IO].pc \in {"disconnect", "close", "remove"}
  BY DEF Disconnect, Close, Remove, At, Threads, connVars
<1>2. PICK c \in Ids : c = thread[IO].id /\ c # NoConnection
  BY <1>1, BusyThread, CapacityAssumption DEF NetInv, Ids, NoConnection
<1>3. /\ conn' \in [Ids -> Connection]
      /\ \A d \in Ids : /\ conn'[d].sendQueue = conn[d].sendQueue
                        /\ conn'[d].outstanding = conn[d].outstanding
                        /\ conn'[d].writeInProgress = conn[d].writeInProgress
                        /\ conn'[d].connected => conn[d].connected
                        /\ conn'[d].open => conn[d].open
                        /\ \/ conn'[d].late = conn[d].late
                           \/ conn'[d].late \subseteq conn[d].outstanding
      /\ \A d \in Ids \ {c} : conn'[d] = conn[d]
  <2>1. CASE Disconnect
    BY <1>2, <2>1, ConnectedUpdate DEF NetInv, Disconnect
  <2>2. CASE Close
    <3>1. conn[c].outstanding \in SUBSET Packets
      BY DEF NetInv, TypeOK, Connection
    <3>2. conn' = [conn EXCEPT ![c].open = FALSE, ![c].late = conn[c].outstanding]
      BY <1>2, <2>2 DEF Close, Mine
    <3> QED
      BY <3>1, <3>2, OpenUpdate DEF NetInv
  <2>3. CASE Remove
    BY <2>3 DEF NetInv, TypeOK, Remove, connVars
  <2> QED
    BY <2>1, <2>2, <2>3
<1>4. /\ thread' \in [Threads -> Thread]
      /\ \A u \in Threads \ {IO} : thread'[u] = thread[u]
  BY <1>1, GotoFacts, IdleFacts DEF NetInv, Disconnect, Close, Remove, IoPcs
<1>5. \/ /\ thread[IO].pc = "disconnect" /\ ~conn'[c].connected
         /\ conn'[c].open = conn[c].open /\ conn'[c].late = conn[c].late /\ table' = table
         /\ thread'[IO].pc = IF conn[c].connected THEN "close" ELSE "remove"
         /\ thread'[IO].id = c /\ thread'[IO].packet = thread[IO].packet
      \/ /\ thread[IO].pc = "close" /\ ~conn'[c].open /\ conn'[c].late = conn[c].outstanding
         /\ conn'[c].connected = conn[c].connected /\ table' = table
         /\ thread'[IO].pc = "remove"
         /\ thread'[IO].id = c /\ thread'[IO].packet = thread[IO].packet
      \/ /\ thread[IO].pc = "remove" /\ conn' = conn /\ table' = table \ {c}
         /\ \/ /\ thread[IO].packet = NoPacket
               /\ thread'[IO].pc = "idle" /\ thread'[IO].id = NoConnection
            \/ /\ thread[IO].packet # NoPacket
               /\ thread'[IO].pc = "failed"
               /\ thread'[IO].id = c /\ thread'[IO].packet = thread[IO].packet
  <2>1. CASE Disconnect
    <3>1. conn' = [conn EXCEPT ![c].connected = FALSE] /\ table' = table
      BY <1>2, <2>1 DEF Disconnect
    <3>2. ~conn'[c].connected /\ conn'[c].open = conn[c].open /\ conn'[c].late = conn[c].late
      BY <3>1, ConnectedUpdate DEF NetInv
    <3>3. /\ thread[IO].pc = "disconnect"
          /\ Goto(IO, IF conn[c].connected THEN "close" ELSE "remove")
      BY <1>2, <2>1 DEF Disconnect, At, Mine
    <3>4. /\ thread'[IO].pc = IF conn[c].connected THEN "close" ELSE "remove"
          /\ thread'[IO].id = c /\ thread'[IO].packet = thread[IO].packet
      BY <1>1, <1>2, <3>3, GotoFacts DEF NetInv, IoPcs
    <3> QED
      BY <3>1, <3>2, <3>3, <3>4
  <2>2. CASE Close
    <3>1. /\ conn' = [conn EXCEPT ![c].open = FALSE, ![c].late = conn[c].outstanding]
          /\ conn[c].outstanding \in SUBSET Packets /\ table' = table
      BY <1>2, <2>2 DEF Close, Mine, NetInv, TypeOK, Connection
    <3>2. /\ ~conn'[c].open /\ conn'[c].late = conn[c].outstanding
          /\ conn'[c].connected = conn[c].connected
      BY <3>1, OpenUpdate DEF NetInv
    <3>3. thread[IO].pc = "close" /\ Goto(IO, "remove")
      BY <2>2 DEF Close, At
    <3>4. /\ thread'[IO].pc = "remove"
          /\ thread'[IO].id = c /\ thread'[IO].packet = thread[IO].packet
      BY <1>1, <1>2, <3>3, GotoFacts DEF NetInv, IoPcs
    <3> QED
      BY <3>1, <3>2, <3>3, <3>4
  <2>3. CASE Remove
    BY <1>1, <1>2, <2>3, GotoFacts, IdleFacts DEF NetInv, Remove, At, IoPcs, connVars
  <2> QED
    BY <2>1, <2>2, <2>3
<1>6. TypeOK'
  <2>1. table' \in SUBSET (1 .. nextId - 1)
    BY <1>5 DEF NetInv, TypeOK
  <2> QED
    BY <1>1, <1>3, <1>4, <2>1 DEF NetInv, TypeOK, lifeVars, receiveVars
<1>7. Roles'
  BY <1>1, <1>2, <1>4, <1>5 DEF NetInv, Roles, SendPcs, IoPcs, Threads
<1>8. Stopping'
  BY <1>1, StoppingKept, HandlerRuns DEF NetInv
<1>9. Closing'
  <2>1. 1 .. nextId - 1 \subseteq Ids
    BY CapacityAssumption DEF NetInv, TypeOK, Ids
  <2> QED
    BY <1>1, <1>2, <1>3, <1>5, <2>1 DEF NetInv, Closing
<1>10. ASSUME NEW d \in Ids PROVE Exclusive(d)' /\ Ordered(d)' /\ Woken(d)'
  <2>1. d # NoConnection
    BY CapacityAssumption DEF Ids, NoConnection
  <2>2. \A t \in Threads : Active(t, d) \/ Active(t, d)' => thread'[t] = thread[t]
    BY <1>1, <1>4, <1>5, <2>1 DEF Active
  <2>3. Failing(d)' <=> Failing(d)
    BY <1>2, <1>5, <2>1 DEF Failing
  <2>4. Lost(d) => Lost(d)'
    <3>1. d # c => conn'[d] = conn[d]
      BY <1>3
    <3>2. Failing(d) => conn[d].outstanding = {} /\ conn[d].late = {}
      BY DEF NetInv, Exclusive
    <3> QED
      BY <1>2, <1>3, <1>5, <2>1, <2>3, <3>1, <3>2 DEF NetInv, Closing, Lost, Failing
  <2> QED
    BY <1>1, <1>3, <2>2, <2>3, <2>4, Frame DEF NetInv
<1> QED
  BY <1>6, <1>7, <1>8, <1>9, <1>10 DEF NetInv

\* Accept and the handlers of reads touch no token and no queue.
LEMMA ReadSideInv ==
    ASSUME NetInv, NEW pc \in {"idle", "disconnect", "decode"},
           HandlerStarts \/ At(IO, "decode"),
           \A u \in Threads \ {IO} : thread'[u] = thread[u],
           thread' \in [Threads -> Thread], thread'[IO].pc = pc,
           thread'[IO].pc = "idle" <=> thread'[IO].id = NoConnection,
           pc = "disconnect" => thread'[IO].packet = NoPacket,
           reading' \in SUBSET Ids,
           UNCHANGED <<lifeVars, nextId, table, connVars, sends>>
    PROVE  NetInv'
<1>1. IO \in Threads /\ thread[IO].pc \in {"idle", "decode"}
  BY DEF HandlerStarts, At, Threads
<1>2. TypeOK'
  BY DEF NetInv, TypeOK, lifeVars, connVars
<1>3. Roles'
  BY CapacityAssumption DEF NetInv, Roles, SendPcs, IoPcs, Threads
<1>4. Closing' /\ Stopping'
  BY <1>1, ClosingKept, StoppingKept, HandlerRuns, BusyThread DEF NetInv, connVars, At
<1>5. ASSUME NEW d \in Ids PROVE Exclusive(d)' /\ Ordered(d)' /\ Woken(d)'
  BY <1>1, Frame DEF NetInv, connVars, Active, Failing, Lost
<1> QED
  BY <1>2, <1>3, <1>4, <1>5 DEF NetInv

\* async_accept
LEMMA AcceptInv ==
    ASSUME NetInv, Accept
    PROVE  NetInv'
<1>1. /\ UNCHANGED <<lifeVars, connVars, thread, sends>>
      /\ nextId \in Ids /\ nextId' = nextId + 1 /\ table' = table \cup {nextId}
      /\ reading' = reading \cup {nextId} /\ ~Quiet
  BY HandlerRuns DEF NetInv, Accept
<1>2. 1 .. nextId' - 1 = (1 .. nextId - 1) \cup {nextId}
  BY <1>1, CapacityAssumption DEF NetInv, TypeOK
<1>3. TypeOK'
  <2>1. nextId' \in 1 .. MaxConnections + 1
    BY <1>1, CapacityAssumption DEF NetInv, TypeOK, Ids
  <2>2. table' \in SUBSET (1 .. nextId' - 1) /\ reading' \in SUBSET Ids
    BY <1>1, <1>2 DEF NetInv, TypeOK
  <2> QED
    BY <1>1, <2>1, <2>2 DEF NetInv, TypeOK, lifeVars, connVars
<1>4. Roles'
  BY <1>1 DEF NetInv, Roles
<1>5. Closing'
  BY <1>1, <1>2 DEF NetInv, Closing, connVars
<1>6. Stopping'
  BY <1>1, StoppingKept DEF NetInv
<1>7. ASSUME NEW d \in Ids PROVE Exclusive(d)' /\ Ordered(d)' /\ Woken(d)'
  BY <1>1, Frame DEF NetInv, connVars, Active, Failing, Lost
<1> QED
  BY <1>3, <1>4, <1>5, <1>6, <1>7 DEF NetInv

\* async_read_some failed or delivered bytes
LEMMA ReadCompletesInv ==
    ASSUME NetInv, ReadCompletes
    PROVE  NetInv'
<1>1. PICK c \in Ids : ReadFails(c) \/ \E n \in 1 .. Len(Stream) : ReadChunk(c, n)
  BY DEF ReadCompletes
<1>2. c # NoConnection
  BY CapacityAssumption DEF Ids, NoConnection
<1>3. CASE ReadFails(c)
  <2>1. /\ thread' \in [Threads -> Thread]
        /\ thread'[IO].pc = "disconnect" /\ thread'[IO].id = c /\ thread'[IO].packet = NoPacket
        /\ \A u \in Threads \ {IO} : thread'[u] = thread[u]
    BY <1>3, IoBusyFacts DEF NetInv, ReadFails, IoPcs, NoPacket
  <2>2. /\ reading' \in SUBSET Ids /\ HandlerStarts
        /\ UNCHANGED <<lifeVars, nextId, table, connVars, sends>>
    BY <1>3 DEF NetInv, TypeOK, ReadFails
  <2> QED
    BY <1>2, <2>1, <2>2, ReadSideInv
<1>4. ASSUME NEW n \in 1 .. Len(Stream), ReadChunk(c, n) PROVE NetInv'
  <2>1. /\ thread' \in [Threads -> Thread]
        /\ thread'[IO].pc = "decode" /\ thread'[IO].id = c
        /\ \A u \in Threads \ {IO} : thread'[u] = thread[u]
    BY <1>4, IoBusyFacts DEF NetInv, ReadChunk, IoPcs, NoPacket
  <2>2. /\ reading' \in SUBSET Ids /\ HandlerStarts
        /\ UNCHANGED <<lifeVars, nextId, table, connVars, sends>>
    BY <1>4 DEF NetInv, TypeOK, ReadChunk
  <2> QED
    BY <1>2, <2>1, <2>2, ReadSideInv
<1> QED
  BY <1>1, <1>3, <1>4

\* The decode loop of the read handler
LEMMA DecodeInv ==
    ASSUME NetInv, Receive \/ ReadAgain
    PROVE  NetInv'
<1>1. At(IO, "decode") /\ IO \in Threads /\ thread[IO].id \in Ids
  BY BusyThread DEF NetInv, Receive, ReadAgain, At, Threads
<1>2. UNCHANGED <<lifeVars, nextId, table, connVars, sends>>
  BY DEF Receive, ReadAgain
<1>3. CASE Receive
  <2>1. thread' = thread /\ reading' = reading
    BY <1>3 DEF Receive
  <2> QED
    BY <1>1, <1>2, <2>1, ReadSideInv DEF NetInv, TypeOK, Roles, At
<1>4. CASE ReadAgain
  <2>1. reading' \in {reading, reading \cup {thread[IO].id}} /\ Idle(IO)
    BY <1>4 DEF ReadAgain
  <2>2. reading' \in SUBSET Ids
    BY <1>1, <2>1 DEF NetInv, TypeOK
  <2>3. /\ thread' \in [Threads -> Thread]
        /\ thread'[IO].pc = "idle" /\ thread'[IO].id = NoConnection
        /\ \A u \in Threads \ {IO} : thread'[u] = thread[u]
    BY <1>1, <2>1, IdleFacts DEF NetInv
  <2> QED
    BY <1>1, <1>2, <2>2, <2>3, ReadSideInv
<1> QED
  BY <1>3, <1>4

----------------------------------------------------------------------------
(* The runtime thread                                                      *)

\* Start, PollPacket and the steps of Stop but one touch no connection.
LEMMA RuntimeInv ==
    ASSUME NetInv, UNCHANGED <<nextId, table, connVars, thread, reading, sends>>,
           running' \in BOOLEAN, ioStopped' \in BOOLEAN,
           main' \in {"idle", "join", "disconnect", "drain"}, Stopping'
    PROVE  NetInv'
<1>1. TypeOK' /\ Roles'
  BY DEF NetInv, TypeOK, Roles, connVars
<1>2. Closing'
  BY DEF NetInv, Closing, connVars
<1>3. ASSUME NEW d \in Ids PROVE Exclusive(d)' /\ Ordered(d)' /\ Woken(d)'
  BY Frame DEF NetInv, connVars, Active, Failing, Lost
<1> QED
  BY <1>1, <1>2, <1>3 DEF NetInv

\* Start, PollPacket, and Stop up to the join
LEMMA StartPollStopInv ==
    ASSUME NetInv, Start \/ PollPacket \/ StopBegin \/ StopJoin \/ StopDrain
    PROVE  NetInv'
<1>1. /\ running \in BOOLEAN /\ ioStopped \in BOOLEAN
      /\ main \in {"idle", "join", "disconnect", "drain"} /\ Stopping
  BY DEF NetInv, TypeOK
<1>2. UNCHANGED <<nextId, table, connVars, thread, reading, sends>>
  BY DEF Start, PollPacket, StopBegin, StopJoin, StopDrain, receiveVars
<1>3. CASE Start \/ PollPacket
  <2>1. /\ UNCHANGED <<ioStopped, main>> /\ main = "idle" /\ running' \in BOOLEAN
        /\ UNCHANGED inbound \/ inbound # << >>
    BY <1>1, <1>3 DEF Start, PollPacket, lifeVars, receiveVars
  <2>2. Stopping'
    BY <1>1, <1>2, <2>1 DEF Stopping, Quiet
  <2> QED
    BY <1>1, <1>2, <2>1, <2>2, RuntimeInv
<1>4. CASE StopBegin
  BY <1>1, <1>2, <1>4, RuntimeInv DEF StopBegin, Stopping, Quiet
<1>5. CASE StopJoin
  BY <1>1, <1>2, <1>5, RuntimeInv DEF StopJoin, Stopping, Quiet, At
<1>6. CASE StopDrain
  BY <1>1, <1>2, <1>6, RuntimeInv DEF StopDrain, Stopping, Quiet
<1> QED
  BY <1>3, <1>4, <1>5, <1>6

\* Stop closes every connection that is still in the table.
LEMMA StopDisconnectInv ==
    ASSUME NetInv, StopDisconnect
    PROVE  NetInv'
<1>1. /\ main = "disconnect" /\ main' = "drain" /\ table' = {}
      /\ UNCHANGED <<running, ioStopped, nextId, accepted, wire, thread, receiveVars, sends>>
      /\ thread[IO].pc = "idle"
  BY DEF NetInv, StopDisconnect, Stopping, Quiet
<1>2. /\ conn' \in [Ids -> Connection]
      /\ \A d \in Ids :
            /\ conn'[d].sendQueue = conn[d].sendQueue
            /\ conn'[d].outstanding = conn[d].outstanding
            /\ conn'[d].late = conn[d].late
            /\ conn'[d].writeInProgress = conn[d].writeInProgress
            /\ conn'[d].connected = (conn[d].connected /\ d \notin table)
            /\ conn'[d].open = (conn[d].open /\ d \notin table)
  BY DEF NetInv, TypeOK, Connection, StopDisconnect
<1>3. TypeOK'
  BY <1>1, <1>2 DEF NetInv, TypeOK, receiveVars
<1>4. Roles'
  BY <1>1 DEF NetInv, Roles
<1>5. Closing'
  <2>1. 1 .. nextId - 1 \subseteq Ids
    BY CapacityAssumption DEF NetInv, TypeOK, Ids
  <2> QED
    BY <1>1, <1>2, <2>1 DEF NetInv, Closing
<1>6. Stopping'
  BY <1>1 DEF NetInv, Stopping, Quiet
<1>7. ASSUME NEW d \in Ids PROVE Exclusive(d)' /\ Ordered(d)' /\ Woken(d)'
  BY <1>1, <1>2, Frame DEF NetInv, Active, Failing, Lost
<1> QED
  BY <1>3, <1>4, <1>5, <1>6, <1>7 DEF NetInv

----------------------------------------------------------------------------
\* Every step of the server
LEMMA NextInv == NetInv /\ [Next]_vars => NetInv'
<1> SUFFICES ASSUME NetInv, [Next]_vars PROVE NetInv'
  OBVIOUS
<1>0. IO \in Threads /\ Senders \subseteq Threads
  BY DEF Threads
<1>1. ASSUME NEW s \in Senders, SenderStep(s) \/ \E c \in Ids : SendFind(s, c) PROVE NetInv'
  BY <1>0, <1>1, SendFindInv, SendCheckInv, SendPushInv, WriteLoopInv DEF SenderStep
<1>2. CASE Accept \/ ReadCompletes
  BY <1>2, AcceptInv, ReadCompletesInv
<1>3. CASE WriteCompletes
  BY <1>3, WriteDoneInv, WriteFailsInv DEF WriteCompletes
<1>4. CASE WriteDoneEnd
  BY <1>0, <1>4, GiveBackInv DEF WriteDoneEnd, At
<1>5. CASE HandlerStep /\ ~WriteDoneEnd
  BY <1>0, <1>5, WriteLoopInv, DisconnectInv, WriteFailsEndInv, DecodeInv DEF HandlerStep
<1>6. CASE Start \/ PollPacket \/ StopBegin \/ StopStep
  BY <1>6, StartPollStopInv, StopDisconnectInv DEF StopStep
<1>7. CASE UNCHANGED vars
  <2>1. /\ UNCHANGED <<nextId, table, connVars, thread, reading, sends>>
        /\ UNCHANGED <<running, ioStopped, main, inbound>>
    BY <1>7 DEF vars, receiveVars, lifeVars
  <2>2. Stopping'
    BY <2>1 DEF NetInv, Stopping, Quiet
  <2> QED
    BY <2>1, <2>2, RuntimeInv DEF NetInv, TypeOK
<1> QED
  BY <1>1, <1>2, <1>3, <1>4, <1>5, <1>6, <1>7 DEF Next

(* What NetServer.cpp and TcpConnection.cpp keep true about the token, the  *)
(* order of packets, the queues and the end of connections, for any number  *)
(* of sending threads and connections and any queue capacity.               *)
THEOREM NetServerInvariant == Spec => []NetInv
<1> QED
  BY InitInv, NextInv, PTL DEF Spec

(* writeInProgress_ has one holder at a time, a thread, an async_write or   *)
(* the handler of a failed one: two async_writes never share a socket.      *)
THEOREM SingleWriter == Spec => []OneWriter
<1>1. NetInv => OneWriter
  <2> SUFFICES ASSUME NetInv, NEW c \in Ids
               PROVE  Cardinality(Writers(c)) + Cardinality(conn[c].outstanding)
                        + (IF Failing(c) THEN 1 ELSE 0)
                      = (IF conn[c].writeInProgress THEN 1 ELSE 0)
    BY DEF OneWriter
  <2>1. Exclusive(c) /\ conn[c].writeInProgress \in BOOLEAN
    BY DEF NetInv, TypeOK, Connection
  <2>2. Writers(c) = {t \in Threads : Writing(t, c)}
    BY DEF Writers, Writing
  <2>3. /\ Cardinality({}) = 0
        /\ \A x : Cardinality({x}) = 1
    BY FS_EmptySet, FS_Singleton
  <2>4. CASE \E t \in Threads : Writing(t, c)
    <3>1. PICK t \in Threads : Writing(t, c)
      BY <2>4
    <3>2. Writers(c) = {t} /\ conn[c].outstanding = {} /\ ~Failing(c) /\ conn[c].writeInProgress
      BY <2>1, <2>2, <3>1 DEF Exclusive
    <3>3. Cardinality(Writers(c)) = 1 /\ Cardinality(conn[c].outstanding) = 0
      BY <2>3, <3>2, Zenon
    <3> QED
      BY <3>2, <3>3
  <2>5. CASE conn[c].outstanding # {}
    <3>1. PICK p \in conn[c].outstanding : TRUE
      BY <2>5
    <3>2. Writers(c) = {} /\ conn[c].outstanding = {p} /\ ~Failing(c) /\ conn[c].writeInProgress
      BY <2>1, <2>2, <3>1 DEF Exclusive
    <3>3. Cardinality(Writers(c)) = 0 /\ Cardinality(conn[c].outstanding) = 1
      BY <2>3, <3>2, Zenon
    <3> QED
      BY <3>2, <3>3
  <2>6. CASE (\A t \in Threads : ~Writing(t, c)) /\ conn[c].outstanding = {}
    <3>1. Writers(c) = {} /\ (conn[c].writeInProgress <=> Failing(c))
      BY <2>1, <2>2, <2>6 DEF Exclusive
    <3> QED
      BY <2>3, <2>6, <3>1
  <2> QED
    BY <2>4, <2>5, <2>6
<1> QED
  BY <1>1, NetServerInvariant, PTL

(* What is on the wire of a connection is a beginning of what Send accepted *)
(* for it, in the order of acceptance, also when a write fails while other  *)
(* threads go on sending.                                                   *)
THEOREM WireKeepsOrder == Spec => []WireInOrder
<1>1. NetInv => WireInOrder
  <2> SUFFICES ASSUME NetInv, NEW c \in Ids
               PROVE  /\ Len(wire[c]) <= Len(accepted[c])
                      /\ wire[c] = SubSeq(accepted[c], 1, Len(wire[c]))
    BY DEF WireInOrder
  <2>1. PICK rest \in Seq(Packets) : accepted[c] = wire[c] \o rest
    BY DEF NetInv, Ordered
  <2>2. wire[c] \in Seq(Packets)
    BY DEF NetInv, TypeOK
  <2> QED
    BY <2>1, <2>2, ConcatBegins, Zenon
<1> QED
  BY <1>1, NetServerInvariant, PTL

(* No lost wake-up between EndWrite and HasPendingSend: a queue with a      *)
(* packet in it has a thread, a write or a handler that will look at it.    *)
THEOREM NoLostWakeUp == Spec => []NothingStranded
<1>1. NetInv => NothingStranded
  <2>1. IO \in Threads
    BY DEF Threads
  <2> QED
    BY <2>1 DEF NetInv, Woken, Failing, NothingStranded
<1> QED
  BY <1>1, NetServerInvariant, PTL

(* When Stop has returned, every connection ever accepted is closed and the *)
(* table and the inbound queue are empty, whatever the handlers were doing. *)
THEOREM StopIsComplete == Spec => []StopLeavesNothing
<1>1. NetInv => StopLeavesNothing
  BY DEF NetInv, Stopping, Quiet, Closing, StopLeavesNothing
<1> QED
  BY <1>1, NetServerInvariant, PTL

----------------------------------------------------------------------------
(* Induction, in the form the provers can use: over a set of numbers       *)

\* A set that holds 0 and with each number the next one holds them all.
LEMMA Induction ==
    ASSUME NEW n \in Nat, NEW T \in SUBSET (0 .. n), 0 \in T,
           \A k \in 1 .. n : k - 1 \in T => k \in T
    PROVE  T = 0 .. n
<1> DEFINE R == OpToRel(<, Nat)
           U == (0 .. n) \ T
<1>1. IsWellFoundedOn(R, Nat)
  BY NatLessThanWellFounded
<1>2. \A x, y \in Nat : x < y => <<x, y>> \in R
  BY DEF OpToRel
<1> HIDE DEF R
<1>3. SUFFICES ASSUME U # {} PROVE FALSE
  OBVIOUS
<1>4. U \subseteq Nat
  OBVIOUS
<1>5. PICK x \in U : \A y \in U : ~(<<y, x>> \in R)
  BY <1>1, <1>3, <1>4, WFMin
<1>6. x \in 1 .. n /\ x - 1 \in 0 .. n /\ x - 1 \in Nat /\ x - 1 < x
  OBVIOUS
<1>7. x - 1 \in T
  <2>1. <<x - 1, x>> \in R
    BY <1>2, <1>6
  <2> QED
    BY <1>5, <1>6, <2>1
<1> QED
  BY <1>6, <1>7

----------------------------------------------------------------------------
(* The stream a peer sends                                                 *)

Byte == [number : Nat, at : Nat]
Total == Len(PayloadLengths)

\* The bytes of a packet's frame, and of the packets up to it
FrameSize(n) == HeaderSize + PayloadLengths[n]
End(n) == Len(StreamOf[n])

\* The sizes of packets and frames
LEMMA CodecFacts ==
    /\ HeaderSize \in Nat \ {0} /\ MaxPacketSize \in Nat /\ Total \in Nat
    /\ Numbers = 1 .. Total
    /\ \A n \in 1 .. Total : PayloadLengths[n] \in Nat /\ FrameSize(n) \in Nat \ {0}
                             /\ FrameSize(n) = HeaderSize + PayloadLengths[n]
  BY CodecAssumption DEF Total, Numbers, FrameSize

\* The bytes of a frame know their packet and their place.
LEMMA EncodeFacts ==
    ASSUME NEW n \in 1 .. Total
    PROVE  /\ Encode(n) \in Seq(Byte) /\ Len(Encode(n)) = FrameSize(n)
           /\ \A k \in 1 .. FrameSize(n) : Encode(n)[k] = [number |-> n, at |-> k]
<1>1. FrameSize(n) \in Nat /\ Total \in Nat
  BY CodecFacts
<1>2. Encode(n) = [k \in 1 .. FrameSize(n) |-> [number |-> n, at |-> k]]
  BY DEF Encode, FrameSize
<1>3. \A k \in 1 .. FrameSize(n) : [number |-> n, at |-> k] \in Byte
  BY <1>1 DEF Byte
<1> QED
  BY <1>1, <1>2, <1>3

\* The type of a concatenation
LEMMA JoinType == << >> \in Seq(Byte) /\ \A s, t \in Seq(Byte) : s \o t \in Seq(Byte)
  OBVIOUS

\* A function that unfolds as StreamOf does
Unfolds(f, m) ==
    f[0] = << >> /\ \A k \in 1 .. m : f[k] = f[k - 1] \o Encode(k)

\* There is a function that unfolds as StreamOf is written.
LEMMA StreamExists ==
    \E f \in [0 .. Total -> Seq(Byte)] : Unfolds(f, Total)
<1> DEFINE Runs(m) == \E f \in [0 .. m -> Seq(Byte)] : Unfolds(f, m)
           T == {m \in 0 .. Total : Runs(m)}
<1>1. Total \in Nat
  BY CodecFacts
<1>2. Runs(0)
  <2> DEFINE f == [k \in 0 .. 0 |-> << >>]
  <2>1. f \in [0 .. 0 -> Seq(Byte)] /\ f[0] = << >>
    OBVIOUS
  <2>2. \A k \in 1 .. 0 : f[k] = f[k - 1] \o Encode(k)
    OBVIOUS
  <2> HIDE DEF f
  <2>3. Unfolds(f, 0)
    BY <2>1, <2>2 DEF Unfolds
  <2> QED
    BY <2>1, <2>3
<1>3. ASSUME NEW n \in 1 .. Total, Runs(n - 1) PROVE Runs(n)
  <2>1. PICK f \in [0 .. n - 1 -> Seq(Byte)] : Unfolds(f, n - 1)
    BY <1>3
  <2>2. PICK e \in Seq(Byte) : e = f[n - 1] \o Encode(n)
    <3>1. f[n - 1] \in Seq(Byte) /\ Encode(n) \in Seq(Byte)
      BY <1>1, EncodeFacts
    <3> QED
      BY <3>1, JoinType, Zenon
  <2> DEFINE g == [k \in 0 .. n |-> IF k = n THEN e ELSE f[k]]
  <2>3. g \in [0 .. n -> Seq(Byte)]
    BY <1>1, <2>2
  <2>4. g[0] = << >>
    BY <1>1, <2>1 DEF Unfolds
  <2>5. ASSUME NEW k \in 1 .. n PROVE g[k] = g[k - 1] \o Encode(k)
    <3>1. k - 1 \in 0 .. n /\ k \in 0 .. n /\ n - 1 \in 0 .. n /\ k - 1 # n
      BY <1>1
    <3>2. g[k - 1] = f[k - 1]
      BY <3>1
    <3>3. CASE k = n
      BY <2>2, <3>1, <3>2, <3>3
    <3>4. CASE k # n
      <4>1. k \in 1 .. n - 1
        BY <1>1, <3>4
      <4>2. g[k] = f[k]
        BY <3>1, <3>4
      <4> QED
        BY <2>1, <3>2, <4>1, <4>2 DEF Unfolds
    <3> QED
      BY <3>3, <3>4
  <2> HIDE DEF g
  <2>6. Unfolds(g, n)
    BY <2>4, <2>5 DEF Unfolds
  <2> QED
    BY <2>3, <2>6
<1> HIDE DEF Runs
<1>4. T = 0 .. Total
  <2>1. 0 \in T /\ T \in SUBSET (0 .. Total)
    BY <1>1, <1>2
  <2>2. \A k \in 1 .. Total : k - 1 \in T => k \in T
    BY <1>1, <1>3
  <2> HIDE DEF T
  <2> QED
    BY <1>1, <2>1, <2>2, Induction
<1>5. Runs(Total)
  BY <1>1, <1>4
<1> QED
  BY <1>5 DEF Runs

\* StreamOf is such a function.
LEMMA StreamUnfolds == Unfolds(StreamOf, Total) /\ \A n \in 0 .. Total : StreamOf[n] \in Seq(Byte)
<1> DEFINE Body(f) == [n \in 0 .. Total |-> IF n = 0 THEN << >> ELSE f[n - 1] \o Encode(n)]
<1>1. Total \in Nat
  BY CodecFacts
<1>2. PICK f \in [0 .. Total -> Seq(Byte)] : Unfolds(f, Total)
  BY StreamExists
<1>3. f = Body(f)
  <2>1. ASSUME NEW k \in 0 .. Total
        PROVE  f[k] = IF k = 0 THEN << >> ELSE f[k - 1] \o Encode(k)
    <3>1. k = 0 \/ k \in 1 .. Total
      BY <1>1
    <3>2. CASE k = 0
      BY <1>2, <3>2 DEF Unfolds
    <3>3. CASE k \in 1 .. Total
      <4>1. f[k] = f[k - 1] \o Encode(k) /\ k # 0
        BY <1>2, <3>3 DEF Unfolds
      <4> QED
        BY <4>1
    <3> QED
      BY <3>1, <3>2, <3>3
  <2> QED
    BY <2>1
<1>4. StreamOf = CHOOSE g : g = Body(g)
  BY Zenon DEF StreamOf, Total
<1>5. StreamOf = Body(StreamOf)
  BY <1>3, <1>4, Zenon
<1>6. Unfolds(StreamOf, Total)
  <2>1. Body(StreamOf)[0] = << >>
    BY <1>1
  <2>2. ASSUME NEW k \in 1 .. Total PROVE Body(StreamOf)[k] = StreamOf[k - 1] \o Encode(k)
    <3>1. k \in 0 .. Total /\ k # 0
      BY <1>1
    <3> QED
      BY <3>1, Zenon
  <2> HIDE DEF Body
  <2> QED
    BY <1>5, <2>1, <2>2, Zenon DEF Unfolds
<1>7. \A n \in 0 .. Total : StreamOf[n] \in Seq(Byte)
  <2> DEFINE T == {n \in 0 .. Total : StreamOf[n] \in Seq(Byte)}
  <2>1. 0 \in T /\ T \in SUBSET (0 .. Total)
    <3>1. 0 \in 0 .. Total /\ StreamOf[0] = << >>
      BY <1>1, <1>6 DEF Unfolds
    <3> QED
      BY <3>1, JoinType
  <2>2. ASSUME NEW k \in 1 .. Total, k - 1 \in T PROVE k \in T
    <3>1. StreamOf[k] = StreamOf[k - 1] \o Encode(k)
      BY <1>6 DEF Unfolds
    <3>2. StreamOf[k - 1] \in Seq(Byte) /\ Encode(k) \in Seq(Byte)
      BY <2>2, EncodeFacts
    <3>3. StreamOf[k] \in Seq(Byte) /\ k \in 0 .. Total
      BY <1>1, <3>1, <3>2, JoinType
    <3> QED
      BY <3>3
  <2> HIDE DEF T
  <2>3. T = 0 .. Total
    BY <1>1, <2>1, <2>2, Induction
  <2> QED
    BY <2>3 DEF T
<1> QED
  BY <1>6, <1>7

\* What a concatenation holds
LEMMA JoinFacts ==
    ASSUME NEW s \in Seq(Byte), NEW t \in Seq(Byte)
    PROVE  /\ Len(s \o t) = Len(s) + Len(t)
           /\ \A i \in 1 .. Len(s) : (s \o t)[i] = s[i]
           /\ \A i \in 1 .. Len(t) : (s \o t)[Len(s) + i] = t[i]
  OBVIOUS

\* Each packet adds its frame.
LEMMA EndFacts ==
    /\ End(0) = 0 /\ \A n \in 0 .. Total : End(n) \in Nat
    /\ \A n \in 1 .. Total : n - 1 \in 0 .. Total /\ End(n) = End(n - 1) + FrameSize(n)
<1>1. Total \in Nat /\ StreamOf[0] = << >>
  BY CodecFacts, StreamUnfolds DEF Unfolds
<1>2. \A n \in 0 .. Total : End(n) \in Nat
  BY StreamUnfolds DEF End
<1>3. ASSUME NEW n \in 1 .. Total
      PROVE  n - 1 \in 0 .. Total /\ End(n) = End(n - 1) + FrameSize(n)
  <2>1. n - 1 \in 0 .. Total
    BY <1>1
  <2>2. StreamOf[n - 1] \in Seq(Byte) /\ Encode(n) \in Seq(Byte) /\ Len(Encode(n)) = FrameSize(n)
        /\ StreamOf[n] = StreamOf[n - 1] \o Encode(n)
    BY <2>1, StreamUnfolds, EncodeFacts DEF Unfolds
  <2>3. Len(StreamOf[n]) = Len(StreamOf[n - 1]) + Len(Encode(n))
    BY <2>2, JoinFacts, Zenon
  <2> QED
    BY <2>1, <2>2, <2>3 DEF End
<1> QED
  BY <1>1, <1>2, <1>3 DEF End

\* A shorter stream is a beginning of a longer one, and what comes after it
\* belongs to later packets.
LEMMA StreamGrows ==
    ASSUME NEW d \in 0 .. Total
    PROVE  \A n \in 0 .. Total : d <= n =>
              /\ End(d) <= End(n)
              /\ \A i \in 1 .. End(d) : StreamOf[n][i] = StreamOf[d][i]
              /\ \A i \in Nat : End(d) < i /\ i <= End(n) => StreamOf[n][i].number \in d + 1 .. Total
<1> DEFINE Grown(n) == /\ End(d) <= End(n)
                       /\ \A i \in 1 .. End(d) : StreamOf[n][i] = StreamOf[d][i]
                       /\ \A i \in Nat : End(d) < i /\ i <= End(n) =>
                             StreamOf[n][i].number \in d + 1 .. Total
           T == {n \in 0 .. Total : d <= n => Grown(n)}
<1>1. Total \in Nat /\ End(d) \in Nat
  BY CodecFacts, EndFacts
<1>2. Grown(d)
  BY <1>1
<1>3. ASSUME NEW n \in 1 .. Total, d <= n - 1, Grown(n - 1) PROVE Grown(n)
  <2>1. /\ n - 1 \in 0 .. Total /\ End(n - 1) \in Nat /\ FrameSize(n) \in Nat
        /\ End(n) = End(n - 1) + FrameSize(n)
    BY EndFacts, CodecFacts
  <2>2. /\ StreamOf[n - 1] \in Seq(Byte) /\ Encode(n) \in Seq(Byte)
        /\ Len(Encode(n)) = FrameSize(n) /\ Len(StreamOf[n - 1]) = End(n - 1)
        /\ StreamOf[n] = StreamOf[n - 1] \o Encode(n)
        /\ \A k \in 1 .. FrameSize(n) : Encode(n)[k] = [number |-> n, at |-> k]
    BY <2>1, StreamUnfolds, EncodeFacts DEF Unfolds, End
  <2>3. /\ \A i \in 1 .. End(n - 1) : StreamOf[n][i] = StreamOf[n - 1][i]
        /\ \A i \in 1 .. FrameSize(n) : StreamOf[n][End(n - 1) + i] = Encode(n)[i]
    <3>1. /\ \A i \in 1 .. Len(StreamOf[n - 1]) :
                (StreamOf[n - 1] \o Encode(n))[i] = StreamOf[n - 1][i]
          /\ \A i \in 1 .. Len(Encode(n)) :
                (StreamOf[n - 1] \o Encode(n))[Len(StreamOf[n - 1]) + i] = Encode(n)[i]
      BY <2>2, JoinFacts, Zenon
    <3> HIDE DEF Grown
    <3> QED
      BY <2>2, <3>1
  <2>4. End(d) <= End(n) /\ \A i \in 1 .. End(d) : StreamOf[n][i] = StreamOf[d][i]
    BY <1>1, <1>3, <2>1, <2>3
  <2>5. ASSUME NEW i \in Nat, End(d) < i, i <= End(n)
        PROVE  StreamOf[n][i].number \in d + 1 .. Total
    <3>1. CASE i <= End(n - 1)
      BY <1>1, <1>3, <2>1, <2>3, <2>5, <3>1
    <3>2. CASE ~(i <= End(n - 1))
      <4>1. PICK k \in 1 .. FrameSize(n) : i = End(n - 1) + k
        <5>1. i - End(n - 1) \in 1 .. FrameSize(n) /\ i = End(n - 1) + (i - End(n - 1))
          BY <2>1, <2>5, <3>2
        <5> QED
          BY <5>1
      <4>2. StreamOf[n][i] = [number |-> n, at |-> k]
        BY <2>2, <2>3, <4>1
      <4> QED
        BY <1>1, <1>3, <4>2
    <3> QED
      BY <3>1, <3>2
  <2> QED
    BY <2>4, <2>5
<1> HIDE DEF Grown
<1>4. T = 0 .. Total
  <2>1. 0 \in T /\ T \in SUBSET (0 .. Total)
    BY <1>1, <1>2
  <2>2. ASSUME NEW k \in 1 .. Total, k - 1 \in T PROVE k \in T
    <3>1. k \in 0 .. Total /\ (d <= k => d = k \/ d <= k - 1)
      BY <1>1
    <3> QED
      BY <1>2, <1>3, <2>2, <3>1
  <2> HIDE DEF T
  <2> QED
    BY <1>1, <2>1, <2>2, Induction
<1> QED
  BY <1>4 DEF Grown

\* The stream, byte by byte
LEMMA StreamFacts ==
    /\ Stream \in Seq(Byte) /\ Len(Stream) = End(Total)
    /\ \A d \in 0 .. Total : End(d) <= Len(Stream)
    /\ \A m, n \in 0 .. Total : m <= n => End(m) <= End(n)
    /\ \A d \in 0 .. Total, i \in Nat :
          End(d) < i /\ i <= Len(Stream) => Stream[i].number \in d + 1 .. Total
    /\ \A n \in 1 .. Total : \A k \in 1 .. FrameSize(n) :
          Stream[End(n - 1) + k] = [number |-> n, at |-> k]
<1>1. Total \in Nat /\ Total \in 0 .. Total /\ Stream = StreamOf[Total] /\ Len(Stream) = End(Total)
  BY CodecFacts DEF Stream, Total, End
<1>2. \A d, n \in 0 .. Total : d <= n =>
          /\ End(d) <= End(n)
          /\ \A i \in 1 .. End(d) : StreamOf[n][i] = StreamOf[d][i]
          /\ \A i \in Nat : End(d) < i /\ i <= End(n) => StreamOf[n][i].number \in d + 1 .. Total
  BY StreamGrows
<1>3. \A d \in 0 .. Total : d <= Total
  BY <1>1
<1>4. ASSUME NEW n \in 1 .. Total, NEW k \in 1 .. FrameSize(n)
      PROVE  Stream[End(n - 1) + k] = [number |-> n, at |-> k]
  <2>1. /\ n - 1 \in 0 .. Total /\ n \in 0 .. Total /\ End(n - 1) \in Nat /\ FrameSize(n) \in Nat
        /\ End(n) = End(n - 1) + FrameSize(n)
    BY <1>1, EndFacts, CodecFacts
  <2>2. /\ StreamOf[n - 1] \in Seq(Byte) /\ Encode(n) \in Seq(Byte)
        /\ Len(Encode(n)) = FrameSize(n) /\ Len(StreamOf[n - 1]) = End(n - 1)
        /\ StreamOf[n] = StreamOf[n - 1] \o Encode(n) /\ Encode(n)[k] = [number |-> n, at |-> k]
    BY <2>1, StreamUnfolds, EncodeFacts DEF Unfolds, End
  <2>3. StreamOf[n][End(n - 1) + k] = [number |-> n, at |-> k]
    <3>1. \A i \in 1 .. Len(Encode(n)) :
             (StreamOf[n - 1] \o Encode(n))[Len(StreamOf[n - 1]) + i] = Encode(n)[i]
      BY <2>2, JoinFacts, Zenon
    <3> QED
      BY <2>2, <3>1
  <2>4. End(n - 1) + k \in 1 .. End(n)
    BY <2>1
  <2> QED
    BY <1>1, <1>2, <1>3, <2>1, <2>3, <2>4
<1>5. Stream \in Seq(Byte)
  BY <1>1, StreamUnfolds
<1>6. \A d \in 0 .. Total : End(d) <= Len(Stream)
  BY <1>1, <1>2, <1>3
<1>7. \A d \in 0 .. Total, i \in Nat :
          End(d) < i /\ i <= Len(Stream) => Stream[i].number \in d + 1 .. Total
  BY <1>1, <1>2, <1>3
<1>8. \A m, n \in 0 .. Total : m <= n => End(m) <= End(n)
  BY <1>2
<1> QED
  BY <1>1, <1>4, <1>5, <1>6, <1>7, <1>8

----------------------------------------------------------------------------
(* PacketCodec::Decode on a part of the stream                             *)

\* What a part of a sequence holds
LEMMA PartFacts ==
    ASSUME NEW s \in Seq(Byte), NEW m \in 1 .. Len(s) + 1, NEW n \in 0 .. Len(s), m <= n + 1
    PROVE  /\ SubSeq(s, m, n) \in Seq(Byte) /\ Len(SubSeq(s, m, n)) = n - m + 1
           /\ \A i \in 1 .. n - m + 1 : SubSeq(s, m, n)[i] = s[m - 1 + i]
<1>1. \A i \in m .. n : s[i] \in Byte
  OBVIOUS
<1> QED
  BY <1>1, SubSeqProperties

\* The packets before the first one that is too large
LEMMA SoundFacts ==
    /\ Sound \subseteq 1 .. Total
    /\ \A n \in Sound : PayloadLengths[n] <= MaxPacketSize /\ n - 1 \in Sound \cup {0}
    /\ \A d \in Sound \cup {0} : d \in 0 .. Total /\
          (d < Total /\ d + 1 \notin Sound =>
              d + 1 \in 1 .. Total /\ PayloadLengths[d + 1] > MaxPacketSize)
    /\ \A n \in Sound, m \in 1 .. Total : PayloadLengths[m] > MaxPacketSize => n < m
<1>1. /\ Total \in Nat /\ Numbers = 1 .. Total /\ MaxPacketSize \in Nat
      /\ \A n \in 1 .. Total : PayloadLengths[n] \in Nat
  BY CodecFacts
<1>2. ASSUME NEW d \in Sound \cup {0}, d < Total, d + 1 \notin Sound
      PROVE  d + 1 \in 1 .. Total /\ PayloadLengths[d + 1] > MaxPacketSize
  <2>1. d \in 0 .. Total /\ d + 1 \in 1 .. Total
        /\ \A k \in 1 .. d : PayloadLengths[k] <= MaxPacketSize
    BY <1>1, <1>2 DEF Sound
  <2>2. PICK k \in 1 .. d + 1 : ~(PayloadLengths[k] <= MaxPacketSize)
    BY <1>1, <1>2, <2>1 DEF Sound
  <2>3. k = d + 1
    BY <2>1, <2>2
  <2> QED
    BY <1>1, <2>1, <2>2, <2>3
<1>3. ASSUME NEW n \in Sound PROVE PayloadLengths[n] <= MaxPacketSize /\ n - 1 \in Sound \cup {0}
  <2>1. n \in 1 .. Total /\ n \in Nat /\ n \in 1 .. n
        /\ \A k \in 1 .. n : PayloadLengths[k] <= MaxPacketSize
    BY <1>1 DEF Sound
  <2>2. CASE n = 1
    BY <2>1, <2>2
  <2>3. CASE n # 1
    <3>1. n - 1 \in 1 .. Total /\ \A k \in 1 .. n - 1 : k \in 1 .. n
      BY <1>1, <2>1, <2>3
    <3> QED
      BY <1>1, <2>1, <3>1 DEF Sound
  <2> QED
    BY <2>2, <2>3
<1>4. ASSUME NEW n \in Sound, NEW m \in 1 .. Total, PayloadLengths[m] > MaxPacketSize
      PROVE  n < m
  <2>1. n \in 1 .. Total /\ \A k \in 1 .. n : PayloadLengths[k] <= MaxPacketSize
    BY <1>1 DEF Sound
  <2> QED
    BY <1>1, <1>4, <2>1
<1>5. Sound \subseteq 1 .. Total
  BY <1>1 DEF Sound
<1> QED
  BY <1>1, <1>2, <1>3, <1>4, <1>5

\* The buffer holds the stream after packet d, up to byte a.
InStep(buffer, d, a) ==
    /\ End(d) <= a /\ Len(buffer) = a - End(d)
    /\ \A i \in 1 .. Len(buffer) : buffer[i] = Stream[End(d) + i]

\* In step, Decode finds the next packet or waits for it, unless that packet
\* is too large.
LEMMA DecodeInStep ==
    ASSUME NEW buffer \in Seq(Byte), NEW d \in Sound \cup {0}, NEW a \in 0 .. Len(Stream),
           InStep(buffer, d, a), NEW r \in Decode(buffer)
    PROVE  \/ ~r.ok /\ r.rest = buffer /\ (d + 1 \in Sound => a < End(d + 1))
           \/ ~r.ok /\ r.rest = << >> /\ d + 1 \in 1 .. Total /\ PayloadLengths[d + 1] > MaxPacketSize
           \/ r.ok /\ r.number = d + 1 /\ d + 1 \in Sound
              /\ r.rest \in Seq(Byte) /\ InStep(r.rest, d + 1, a)
<1>1. /\ Total \in Nat /\ HeaderSize \in Nat \ {0} /\ MaxPacketSize \in Nat /\ d \in 0 .. Total
      /\ Len(Stream) \in Nat /\ End(d) \in Nat /\ Len(buffer) \in Nat
  BY CodecFacts, SoundFacts, StreamFacts, EndFacts
<1>2. d + 1 \in Sound => /\ d + 1 \in 1 .. Total /\ End(d + 1) = End(d) + FrameSize(d + 1)
                         /\ FrameSize(d + 1) = HeaderSize + PayloadLengths[d + 1]
                         /\ PayloadLengths[d + 1] \in Nat /\ PayloadLengths[d + 1] <= MaxPacketSize
  <2>1. d + 1 \in Sound => d + 1 \in 1 .. Total /\ (d + 1) - 1 = d
                           /\ PayloadLengths[d + 1] <= MaxPacketSize
    BY <1>1, SoundFacts
  <2>2. d + 1 \in 1 .. Total =>
          /\ End(d + 1) = End((d + 1) - 1) + FrameSize(d + 1)
          /\ FrameSize(d + 1) = HeaderSize + PayloadLengths[d + 1] /\ PayloadLengths[d + 1] \in Nat
    BY EndFacts, CodecFacts, Zenon
  <2> QED
    BY <2>1, <2>2
<1>3. CASE Len(buffer) < HeaderSize
  <2>1. r = NotDecoded(buffer)
    BY <1>3 DEF Decode
  <2>2. ~r.ok /\ r.rest = buffer
    BY <2>1 DEF NotDecoded
  <2>3. d + 1 \in Sound => a < End(d + 1)
    BY <1>1, <1>2, <1>3 DEF InStep
  <2> QED
    BY <2>2, <2>3
<1>4. CASE ~(Len(buffer) < HeaderSize)
  <2>1. d < Total /\ 1 \in 1 .. Len(buffer)
    <3>1. End(d) < Len(Stream) /\ 1 \in 1 .. Len(buffer)
      BY <1>1, <1>4 DEF InStep
    <3>2. d # Total
      BY <3>1, <1>1, StreamFacts
    <3> QED
      BY <1>1, <3>1, <3>2
  <2> DEFINE n == d + 1
  <2>2. /\ n \in 1 .. Total /\ n - 1 = d /\ FrameSize(n) \in Nat \ {0}
        /\ FrameSize(n) = HeaderSize + PayloadLengths[n] /\ PayloadLengths[n] \in Nat
    <3>1. n \in 1 .. Total /\ n - 1 = d
      BY <1>1, <2>1
    <3> QED
      BY <3>1, CodecFacts
  <2>3. \A k \in 1 .. FrameSize(n) : Stream[End(d) + k] = [number |-> n, at |-> k]
    BY <2>2, StreamFacts
  <2>4. End(n) = End(d) + FrameSize(n) /\ End(n) \in Nat
    BY <1>1, <2>2, EndFacts
  <2> HIDE DEF n
  <2>5. buffer[1] = [number |-> n, at |-> 1]
    <3>1. 1 \in 1 .. FrameSize(n)
      BY <2>2
    <3> QED
      BY <2>1, <2>3, <3>1 DEF InStep
  <2>6. r = DecodeFrame(buffer, PayloadLengths[n])
    <3>1. LengthsRead(buffer) = {PayloadLengths[n]}
      BY <2>5 DEF LengthsRead
    <3> QED
      BY <1>4, <3>1, Zenon DEF Decode
  <2>7. CASE PayloadLengths[n] > MaxPacketSize
    <3>1. r = NotDecoded(<< >>)
      BY <2>6, <2>7, Zenon DEF DecodeFrame
    <3> QED
      BY <2>2, <2>7, <3>1 DEF NotDecoded, n
  <2>8. CASE ~(PayloadLengths[n] > MaxPacketSize) /\ Len(buffer) < FrameSize(n)
    <3>1. r = NotDecoded(buffer)
      BY <2>2, <2>6, <2>8 DEF DecodeFrame
    <3>2. a < End(n)
      <4>1. Len(buffer) = a - End(d) /\ Len(buffer) < FrameSize(n) /\ FrameSize(n) \in Nat
        BY <2>2, <2>8 DEF InStep
      <4> QED
        BY <1>1, <2>4, <4>1
    <3> QED
      BY <3>1, <3>2 DEF NotDecoded, n
  <2>9. CASE ~(PayloadLengths[n] > MaxPacketSize) /\ ~(Len(buffer) < FrameSize(n))
    <3>0. /\ FrameSize(n) \in Nat /\ Len(buffer) \in Nat /\ FrameSize(n) <= Len(buffer)
          /\ End(d) \in Nat /\ End(n) = End(d) + FrameSize(n)
      <4>1. FrameSize(n) \in Nat /\ End(n) = End(d) + FrameSize(n)
        BY <2>2, <2>4
      <4>2. FrameSize(n) <= Len(buffer)
        BY <1>1, <2>9, <4>1
      <4> QED
        BY <1>1, <4>1, <4>2
    <3> DEFINE frame == SubSeq(buffer, 1, FrameSize(n))
               rest == SubSeq(buffer, FrameSize(n) + 1, Len(buffer))
    <3>1. r = [ok |-> TRUE, number |-> Carried(frame), rest |-> rest]
      <4>1. ~(PayloadLengths[n] > MaxPacketSize) /\ ~(Len(buffer) < HeaderSize + PayloadLengths[n])
        BY <2>2, <2>9
      <4>2. r = [ok |-> TRUE, number |-> Carried(SubSeq(buffer, 1, HeaderSize + PayloadLengths[n])),
                 rest |-> SubSeq(buffer, HeaderSize + PayloadLengths[n] + 1, Len(buffer))]
        BY <2>6, <4>1, Zenon DEF DecodeFrame
      <4> QED
        BY <2>2, <4>2
    <3>2. n \in Sound
      BY <1>1, <2>1, <2>9, SoundFacts DEF n
    <3>3. /\ frame \in Seq(Byte) /\ Len(frame) = FrameSize(n)
          /\ \A i \in 1 .. FrameSize(n) : frame[i] = buffer[i]
      <4>1. /\ 1 \in 1 .. Len(buffer) + 1 /\ FrameSize(n) \in 0 .. Len(buffer)
            /\ 1 <= FrameSize(n) + 1 /\ FrameSize(n) - 1 + 1 = FrameSize(n)
        BY <3>0
      <4>2. /\ frame \in Seq(Byte) /\ Len(frame) = FrameSize(n) - 1 + 1
            /\ \A i \in 1 .. FrameSize(n) - 1 + 1 : frame[i] = buffer[1 - 1 + i]
        BY <4>1, PartFacts, Zenon
      <4> QED
        BY <4>1, <4>2
    <3>4. /\ rest \in Seq(Byte) /\ Len(rest) = Len(buffer) - FrameSize(n)
          /\ \A i \in 1 .. Len(rest) : rest[i] = buffer[FrameSize(n) + i]
      <4>1. /\ FrameSize(n) + 1 \in 1 .. Len(buffer) + 1 /\ Len(buffer) \in 0 .. Len(buffer)
            /\ FrameSize(n) + 1 <= Len(buffer) + 1
        BY <3>0
      <4>2. /\ rest \in Seq(Byte) /\ Len(rest) = Len(buffer) - (FrameSize(n) + 1) + 1
            /\ \A i \in 1 .. Len(buffer) - (FrameSize(n) + 1) + 1 :
                  rest[i] = buffer[(FrameSize(n) + 1) - 1 + i]
        BY <4>1, PartFacts, Zenon
      <4> HIDE DEF rest
      <4>3. Len(buffer) - (FrameSize(n) + 1) + 1 = Len(buffer) - FrameSize(n)
        BY <3>0
      <4>4. \A i \in 1 .. Len(buffer) - FrameSize(n) : (FrameSize(n) + 1) - 1 + i = FrameSize(n) + i
        BY <3>0
      <4>5. Len(rest) = Len(buffer) - FrameSize(n)
        BY <4>2, <4>3, Zenon
      <4>6. \A i \in 1 .. Len(rest) : rest[i] = buffer[(FrameSize(n) + 1) - 1 + i]
        BY <4>2, Zenon
      <4>7. \A i \in 1 .. Len(rest) : rest[i] = buffer[FrameSize(n) + i]
        BY <4>4, <4>5, <4>6
      <4> QED
        BY <4>2, <4>5, <4>7
    <3> HIDE DEF frame, rest
    <3>5. Carried(frame) = n
      <4>1. Encode(n) \in Seq(Byte) /\ Len(Encode(n)) = FrameSize(n)
            /\ \A k \in 1 .. FrameSize(n) : Encode(n)[k] = [number |-> n, at |-> k]
        BY <2>2, EncodeFacts
      <4>2. \A k \in 1 .. FrameSize(n) : frame[k] = [number |-> n, at |-> k]
        <5>1. \A k \in 1 .. FrameSize(n) : k \in 1 .. Len(buffer)
          BY <1>1, <2>2, <2>9
        <5> QED
          BY <2>3, <3>3, <5>1 DEF InStep
      <4>3. frame = Encode(n)
        BY <3>3, <4>1, <4>2
      <4>4. frame[1].number = n
        <5>1. 1 \in 1 .. FrameSize(n)
          BY <2>2
        <5>2. frame[1] = [number |-> n, at |-> 1]
          BY <4>2, <5>1, Zenon
        <5> QED
          BY <5>2
      <4> QED
        BY <4>3, <4>4, Zenon DEF Carried
    <3>6. InStep(rest, n, a)
      <4>1. Len(rest) \in Nat /\ \A i \in 1 .. Len(rest) :
              FrameSize(n) + i \in 1 .. Len(buffer) /\ End(d) + (FrameSize(n) + i) = End(n) + i
        BY <3>0, <3>4
      <4>2. \A i \in 1 .. Len(rest) : rest[i] = Stream[End(n) + i]
        BY <3>4, <4>1 DEF InStep
      <4>3. End(n) <= a /\ Len(rest) = a - End(n)
        <5>1. Len(rest) = Len(buffer) - FrameSize(n) /\ Len(buffer) = a - End(d)
          BY <3>4 DEF InStep
        <5> QED
          BY <3>0, <5>1
      <4> QED
        BY <4>2, <4>3 DEF InStep
    <3>7. r.ok /\ r.number = n /\ r.rest = rest
      BY <3>1, <3>5
    <3> QED
      BY <3>2, <3>4, <3>6, <3>7 DEF n
  <2> QED
    BY <2>7, <2>8, <2>9
<1> QED
  BY <1>3, <1>4

\* The buffer holds bytes of packets after packet d only.
After(buffer, d) == \A i \in 1 .. Len(buffer) : buffer[i].number \in d + 1 .. Total

\* Out of step, what Decode makes of the bytes is not an earlier packet.
LEMMA DecodeAfter ==
    ASSUME NEW buffer \in Seq(Byte), NEW d \in 0 .. Total, After(buffer, d), NEW r \in Decode(buffer)
    PROVE  /\ r.rest \in Seq(Byte) /\ After(r.rest, d)
           /\ r.number = Garbage \/ r.number \in d + 1 .. Total
<1>1. /\ Total \in Nat /\ HeaderSize \in Nat \ {0} /\ MaxPacketSize \in Nat /\ Len(buffer) \in Nat
      /\ \A n \in 1 .. Total : PayloadLengths[n] \in Nat
  BY CodecFacts
<1>2. << >> \in Seq(Byte) /\ After(<< >>, d)
  BY DEF After
<1>3. CASE r = NotDecoded(buffer) \/ r = NotDecoded(<< >>)
  <2>1. r.number = Garbage /\ (r.rest = buffer \/ r.rest = << >>)
    BY <1>3 DEF NotDecoded
  <2> QED
    BY <1>2, <2>1, Zenon
<1>4. ASSUME NEW length \in Nat, ~(Len(buffer) < HeaderSize + length),
             r = [ok     |-> TRUE,
                  number |-> Carried(SubSeq(buffer, 1, HeaderSize + length)),
                  rest   |-> SubSeq(buffer, HeaderSize + length + 1, Len(buffer))]
      PROVE  /\ r.rest \in Seq(Byte) /\ After(r.rest, d)
             /\ r.number = Garbage \/ r.number \in d + 1 .. Total
  <2> DEFINE total == HeaderSize + length
             frame == SubSeq(buffer, 1, total)
             rest == SubSeq(buffer, total + 1, Len(buffer))
  <2>1. /\ total \in 1 .. Len(buffer) /\ total \in 0 .. Len(buffer) /\ total + 1 \in 1 .. Len(buffer) + 1
        /\ Len(buffer) \in 0 .. Len(buffer) /\ 1 \in 1 .. Len(buffer) + 1
        /\ total + 1 <= Len(buffer) + 1 /\ 1 <= total + 1
    BY <1>1, <1>4
  <2> HIDE DEF total
  <2>2. frame[1] = buffer[1]
    <3>1. \A i \in 1 .. total - 1 + 1 : frame[i] = buffer[1 - 1 + i]
      BY <2>1, PartFacts, Zenon
    <3>2. 1 \in 1 .. total - 1 + 1 /\ 1 - 1 + 1 = 1
      BY <1>1, <2>1
    <3> HIDE DEF frame
    <3> QED
      BY <3>1, <3>2
  <2>3. /\ rest \in Seq(Byte) /\ Len(rest) = Len(buffer) - (total + 1) + 1
        /\ \A i \in 1 .. Len(buffer) - (total + 1) + 1 : rest[i] = buffer[(total + 1) - 1 + i]
    BY <2>1, PartFacts, Zenon
  <2> HIDE DEF frame, rest
  <2>4. After(rest, d)
    <3>1. \A i \in 1 .. Len(buffer) - (total + 1) + 1 : (total + 1) - 1 + i \in 1 .. Len(buffer)
      BY <1>1, <2>1
    <3> QED
      BY <2>3, <3>1 DEF After
  <2>5. Carried(frame) = Garbage \/ Carried(frame) \in d + 1 .. Total
    <3>1. 1 \in 1 .. Len(buffer)
      BY <1>1, <2>1
    <3>2. frame[1].number \in d + 1 .. Total
      BY <2>2, <3>1 DEF After
    <3> QED
      BY <3>2, Zenon DEF Carried
  <2>6. r.number = Carried(frame) /\ r.rest = rest
    BY <1>4 DEF total, frame, rest
  <2> QED
    BY <2>3, <2>4, <2>5, <2>6
<1>5. CASE ~(Len(buffer) < HeaderSize)
  <2>1. PICK length \in LengthsRead(buffer) : r = DecodeFrame(buffer, length)
    BY <1>5, Zenon DEF Decode
  <2>2. length \in Nat
    <3>1. 1 \in 1 .. Len(buffer)
      BY <1>1, <1>5
    <3>2. buffer[1].number \in 1 .. Total
      BY <1>1, <3>1 DEF After
    <3> QED
      BY <1>1, <2>1, <3>2 DEF LengthsRead
  <2>3. \/ r = NotDecoded(buffer) \/ r = NotDecoded(<< >>)
        \/ /\ ~(Len(buffer) < HeaderSize + length)
           /\ r = [ok     |-> TRUE,
                   number |-> Carried(SubSeq(buffer, 1, HeaderSize + length)),
                   rest   |-> SubSeq(buffer, HeaderSize + length + 1, Len(buffer))]
    BY <2>1, Zenon DEF DecodeFrame
  <2> QED
    BY <1>3, <1>4, <2>2, <2>3
<1>6. CASE Len(buffer) < HeaderSize
  BY <1>3, <1>6, Zenon DEF Decode
<1> QED
  BY <1>5, <1>6

----------------------------------------------------------------------------
(* The receiving side                                                      *)

Item == [connectionId : Ids, number : Nat]

ReceiveType ==
    /\ receiveBuffer \in [Ids -> Seq(Byte)]
    /\ arrived \in [Ids -> 0 .. Len(Stream)]
    /\ decoded \in [Ids -> Seq(Nat)]
    /\ inbound \in Seq(Item) /\ polled \in Seq(Item)

\* Bytes arrive for accepted connections only, and while one is decoded no
\* read of it is outstanding.
Fresh ==
    /\ reading \subseteq 1 .. nextId - 1
    /\ \A c \in Ids : nextId <= c => arrived[c] = 0
    /\ thread[IO].pc = "decode" => thread[IO].id < nextId /\ thread[IO].id \notin reading

\* Of two received packets of a connection the first comes before the second.
Precedes(a, b) ==
    a.connectionId = b.connectionId /\ b.number \in Sound => a.number \in 1 .. b.number - 1

MailOrder ==
    /\ \A j, k \in 1 .. Len(polled) : j < k => Precedes(polled[j], polled[k])
    /\ \A j, k \in 1 .. Len(inbound) : j < k => Precedes(inbound[j], inbound[k])
    /\ \A j \in 1 .. Len(polled), k \in 1 .. Len(inbound) : Precedes(polled[j], inbound[k])

\* Every packet received so far is one of the first d.
Received(s, c, d) == \A k \in 1 .. Len(s) : s[k].connectionId = c => s[k].number \in 1 .. d

\* Every packet of the peer was decoded but the last, which is incomplete.
InSync(c) ==
    LET d == Len(decoded[c])
    IN /\ d \in Sound \cup {0}
       /\ \A k \in 1 .. d : decoded[c][k] = k
       /\ InStep(receiveBuffer[c], d, arrived[c])
       /\ c \in reading /\ d + 1 \in Sound => arrived[c] < End(d + 1)
       /\ Received(polled, c, d) /\ Received(inbound, c, d)

\* Packet d + 1 was too large: the buffer was cleared, and what follows is
\* cut into frames anywhere.
OutOfSync(c) ==
    \E d \in 0 .. Total :
        /\ d + 1 \in 1 .. Total /\ PayloadLengths[d + 1] > MaxPacketSize
        /\ d <= Len(decoded[c])
        /\ \A k \in 1 .. d : decoded[c][k] = k
        /\ End(d) <= arrived[c]
        /\ After(receiveBuffer[c], d)

ReceiveInv ==
    /\ ReceiveType /\ Fresh /\ MailOrder
    /\ \A c \in Ids : InSync(c) \/ OutOfSync(c)

----------------------------------------------------------------------------
(* The steps                                                               *)

\* What a connection received, when nothing of it is decoded
LEMMA SyncKept ==
    ASSUME NEW c \in Ids, InSync(c) \/ OutOfSync(c),
           decoded'[c] = decoded[c], arrived'[c] = arrived[c],
           receiveBuffer'[c] = receiveBuffer[c],
           \/ c \in reading' => c \in reading
           \/ Len(decoded[c]) + 1 \in Sound => arrived[c] < End(Len(decoded[c]) + 1),
           \A d \in Nat : Received(polled, c, d) /\ Received(inbound, c, d) =>
               Received(polled', c, d) /\ Received(inbound', c, d),
           Len(decoded[c]) \in Nat
    PROVE  InSync(c)' \/ OutOfSync(c)'
<1> DEFINE d == Len(decoded[c])
<1>1. d \in Nat /\ Len(decoded'[c]) = d
  OBVIOUS
<1>2. CASE InSync(c)
  <2>1. Received(polled', c, d) /\ Received(inbound', c, d)
    BY <1>1, <1>2 DEF InSync
  <2>2. InStep(receiveBuffer[c], d, arrived[c]) /\ d \in Sound \cup {0}
        /\ (\A k \in 1 .. d : decoded[c][k] = k)
    BY <1>2 DEF InSync
  <2>3. c \in reading' /\ d + 1 \in Sound => arrived[c] < End(d + 1)
    BY <1>2 DEF InSync
  <2> QED
    BY <1>1, <2>1, <2>2, <2>3 DEF InSync
<1>3. CASE OutOfSync(c)
  BY <1>3 DEF OutOfSync
<1> QED
  BY <1>2, <1>3

\* A step that receives nothing
LEMMA ReceiveKept ==
    ASSUME ReceiveInv, UNCHANGED <<receiveVars, nextId>>,
           thread'[IO] = thread[IO] \/ thread'[IO].pc # "decode"
    PROVE  ReceiveInv'
<1>1. UNCHANGED <<reading, inbound, receiveBuffer, arrived, decoded, polled, nextId>>
  BY DEF receiveVars, streamVars
<1>2. ReceiveType' /\ MailOrder'
  BY <1>1 DEF ReceiveInv, ReceiveType, MailOrder
<1>3. Fresh'
  BY <1>1 DEF ReceiveInv, Fresh
<1>4. ASSUME NEW c \in Ids PROVE InSync(c)' \/ OutOfSync(c)'
  BY <1>1 DEF ReceiveInv, InSync, OutOfSync
<1> QED
  BY <1>2, <1>3, <1>4 DEF ReceiveInv

\* The senders, the write loop, the end of connections, Start and Stop
LEMMA SendSideReceive ==
    ASSUME NetInv, ReceiveInv,
           \/ \E s \in Senders : SenderStep(s) \/ \E c \in Ids : SendFind(s, c)
           \/ WriteCompletes \/ WriteDoneEnd \/ WriteLoop(IO)
           \/ Disconnect \/ Close \/ Remove \/ WriteFailsEnd
           \/ Start \/ StopBegin \/ StopJoin \/ StopDisconnect
    PROVE  ReceiveInv'
<1>1. IO \in Threads /\ Senders \subseteq Threads /\ IO \notin Senders
      /\ thread \in [Threads -> Thread]
  BY CapacityAssumption DEF NetInv, TypeOK, Threads
<1>2. /\ \A t \in Threads, pc \in SendPcs \cup IoPcs :
            Goto(t, pc) => thread'[IO] = thread[IO] \/ thread'[IO].pc = pc
      /\ \A t \in Threads : Idle(t) => thread'[IO] = thread[IO] \/ thread'[IO].pc # "decode"
  <2>1. \A t \in Threads, pc \in SendPcs \cup IoPcs :
            Goto(t, pc) => thread'[IO] = thread[IO] \/ thread'[IO].pc = pc
    BY <1>1, GotoFacts DEF NetInv
  <2>2. \A t \in Threads : Idle(t) => thread'[IO] = thread[IO] \/ thread'[IO].pc # "decode"
    BY <1>1, IdleFacts DEF NetInv
  <2> QED
    BY <2>1, <2>2
<1>3. \A t \in Threads : \A pc \in (SendPcs \cup IoPcs) \ {"decode"} :
         Goto(t, pc) => thread'[IO] = thread[IO] \/ thread'[IO].pc # "decode"
  BY <1>2
<1>4. ASSUME NEW t \in Threads, WriteLoop(t) PROVE ReceiveInv'
  <2>1. UNCHANGED <<receiveVars, nextId>>
    BY <1>4 DEF WriteLoop, BeginWrite, PopSend, AsyncWrite, EndWrite, Pending
  <2>2. thread'[IO] = thread[IO] \/ thread'[IO].pc # "decode"
    <3>1. CASE BeginWrite(t)
      BY <1>2, <1>3, <3>1 DEF BeginWrite, SendPcs
    <3>2. CASE PopSend(t)
      <4>1. CASE Goto(t, "end")
        BY <1>3, <4>1 DEF SendPcs
      <4>2. CASE ~Goto(t, "end")
        BY <1>1, <3>2, <4>2 DEF PopSend, Thread
      <4> QED
        BY <4>1, <4>2
    <3>3. CASE AsyncWrite(t)
      BY <1>2, <3>3 DEF AsyncWrite
    <3>4. CASE EndWrite(t)
      BY <1>3, <3>4 DEF EndWrite, SendPcs
    <3>5. CASE Pending(t)
      BY <1>2, <1>3, <3>5 DEF Pending, SendPcs
    <3> QED
      BY <1>4, <3>1, <3>2, <3>3, <3>4, <3>5 DEF WriteLoop
  <2> QED
    BY <2>1, <2>2, ReceiveKept
<1>5. ASSUME NEW s \in Senders, SendCheck(s) \/ SendPush(s) \/ \E c \in Ids : SendFind(s, c)
      PROVE  ReceiveInv'
  <2>1. UNCHANGED <<receiveVars, nextId>>
    BY <1>5 DEF SendCheck, SendPush, SendFind
  <2>2. thread'[IO] = thread[IO]
    BY <1>1, <1>5 DEF SendCheck, SendPush, SendFind, Goto, Idle
  <2> QED
    BY <2>1, <2>2, ReceiveKept
<1>6. CASE WriteCompletes
  <2>1. PICK c \in Ids : \E p \in conn[c].outstanding : WriteDone(c, p) \/ WriteFails(c, p)
    BY <1>6 DEF WriteCompletes
  <2>2. UNCHANGED <<receiveVars, nextId>>
    BY <2>1 DEF WriteDone, WriteFails
  <2>3. thread'[IO].pc # "decode"
    BY <1>1, <2>1 DEF WriteDone, WriteFails, IoBusy
  <2> QED
    BY <2>2, <2>3, ReceiveKept
<1>7. CASE WriteDoneEnd \/ Disconnect \/ Close \/ Remove \/ WriteFailsEnd
  <2>1. UNCHANGED <<receiveVars, nextId>>
    BY <1>7 DEF WriteDoneEnd, Disconnect, Close, Remove, WriteFailsEnd
  <2>2. thread'[IO] = thread[IO] \/ thread'[IO].pc # "decode"
    <3>1. CASE WriteDoneEnd
      BY <1>1, <1>3, <3>1 DEF WriteDoneEnd, IoPcs
    <3>2. CASE Disconnect
      BY <1>1, <1>3, <3>2 DEF Disconnect, IoPcs
    <3>3. CASE Close
      BY <1>1, <1>3, <3>3 DEF Close, IoPcs
    <3>4. CASE Remove
      BY <1>1, <1>2, <1>3, <3>4 DEF Remove, IoPcs
    <3>5. CASE WriteFailsEnd
      BY <1>1, <1>2, <3>5 DEF WriteFailsEnd
    <3> QED
      BY <1>7, <3>1, <3>2, <3>3, <3>4, <3>5
  <2> QED
    BY <2>1, <2>2, ReceiveKept
<1>8. CASE Start \/ StopBegin \/ StopJoin \/ StopDisconnect
  <2>1. UNCHANGED <<receiveVars, nextId>> /\ thread' = thread
    BY <1>8 DEF Start, StopBegin, StopJoin, StopDisconnect
  <2> QED
    BY <2>1, ReceiveKept
<1> QED
  BY <1>1, <1>4, <1>5, <1>6, <1>7, <1>8 DEF SenderStep

\* No bytes, no packets
LEMMA ReceiveInit == Init => ReceiveInv
<1> SUFFICES ASSUME Init PROVE ReceiveInv
  OBVIOUS
<1>1. /\ Total \in Nat /\ Len(Stream) \in Nat /\ End(0) = 0
  BY CodecFacts, StreamFacts, EndFacts
<1>2. ReceiveType
  <2>1. << >> \in Seq(Byte) /\ << >> \in Seq(Nat) /\ << >> \in Seq(Item) /\ 0 \in 0 .. Len(Stream)
    BY <1>1
  <2> QED
    BY <2>1, Zenon DEF Init, ReceiveType
<1>3. Fresh
  <2>1. IO \in Threads /\ thread[IO].pc = "idle" /\ reading = {} /\ \A c \in Ids : arrived[c] = 0
    BY DEF Init, Threads, IdleThread
  <2> QED
    BY <2>1 DEF Fresh
<1>4. MailOrder
  BY DEF Init, MailOrder
<1>5. ASSUME NEW c \in Ids PROVE InSync(c)
  <2>1. /\ decoded[c] = << >> /\ arrived[c] = 0 /\ receiveBuffer[c] = << >> /\ c \notin reading
        /\ inbound = << >> /\ polled = << >>
    BY DEF Init
  <2>2. InStep(<< >>, 0, 0)
    BY <1>1 DEF InStep
  <2>3. Received(<< >>, c, 0)
    BY DEF Received
  <2>4. Len(decoded[c]) = 0 /\ \A k \in 1 .. 0 : decoded[c][k] = k
    BY <2>1
  <2> QED
    BY <2>1, <2>2, <2>3, <2>4 DEF InSync
<1> QED
  BY <1>2, <1>3, <1>4, <1>5 DEF ReceiveInv

\* The read of a new connection starts with nothing received.
LEMMA AcceptReceive ==
    ASSUME NetInv, ReceiveInv, Accept
    PROVE  ReceiveInv'
<1>1. /\ UNCHANGED <<inbound, receiveBuffer, arrived, decoded, polled, thread>>
      /\ nextId \in Ids /\ nextId \in Nat /\ nextId' = nextId + 1 /\ reading' = reading \cup {nextId}
      /\ thread[IO].pc = "idle"
  BY CapacityAssumption DEF Accept, streamVars, HandlerStarts, At, NetInv, TypeOK
<1>2. ReceiveType' /\ MailOrder'
  BY <1>1 DEF ReceiveInv, ReceiveType, MailOrder
<1>3. Fresh'
  <2>1. reading' \subseteq 1 .. nextId' - 1
    BY <1>1, CapacityAssumption DEF ReceiveInv, Fresh, Ids
  <2>2. \A c \in Ids : nextId' <= c => arrived'[c] = 0
    BY <1>1, CapacityAssumption DEF ReceiveInv, Fresh, Ids
  <2> QED
    BY <1>1, <2>1, <2>2 DEF Fresh
<1>4. ASSUME NEW c \in Ids PROVE InSync(c)' \/ OutOfSync(c)'
  <2> DEFINE d == Len(decoded[c])
  <2>1. d \in Nat
    BY DEF ReceiveInv, ReceiveType
  <2>2. CASE c # nextId
    BY <1>1, <2>1, <2>2, SyncKept DEF ReceiveInv
  <2>3. CASE c = nextId
    <3>1. arrived[c] = 0
      BY <1>1, <2>3 DEF ReceiveInv, Fresh
    <3>2. ASSUME d + 1 \in Sound PROVE arrived[c] < End(d + 1)
      <4>1. d + 1 \in 1 .. Total /\ (d + 1) - 1 = d
        BY <2>1, <3>2, SoundFacts
      <4>2. End(d + 1) = End((d + 1) - 1) + FrameSize(d + 1) /\ (d + 1) - 1 \in 0 .. Total
            /\ FrameSize(d + 1) \in Nat \ {0} /\ End((d + 1) - 1) \in Nat
        <5>1. (d + 1) - 1 \in 0 .. Total /\ FrameSize(d + 1) \in Nat \ {0}
          BY <4>1, EndFacts, CodecFacts
        <5> QED
          BY <4>1, <5>1, EndFacts
      <4> HIDE DEF d
      <4> QED
        BY <3>1, <4>2
    <3> QED
      BY <1>1, <2>1, <3>2, SyncKept DEF ReceiveInv
  <2> QED
    BY <2>2, <2>3
<1> QED
  BY <1>2, <1>3, <1>4 DEF ReceiveInv

\* A read that failed delivers nothing.
LEMMA ReadFailsReceive ==
    ASSUME NetInv, ReceiveInv, NEW c \in Ids, ReadFails(c)
    PROVE  ReceiveInv'
<1>1. /\ UNCHANGED <<nextId, inbound, receiveBuffer, arrived, decoded, polled>>
      /\ reading' = reading \ {c}
  BY DEF ReadFails, streamVars
<1>2. thread'[IO].pc # "decode"
  BY DEF ReadFails, IoBusy, NetInv, TypeOK, Threads
<1>3. ReceiveType' /\ MailOrder'
  BY <1>1 DEF ReceiveInv, ReceiveType, MailOrder
<1>4. Fresh'
  BY <1>1, <1>2 DEF ReceiveInv, Fresh
<1>5. ASSUME NEW b \in Ids PROVE InSync(b)' \/ OutOfSync(b)'
  <2>1. /\ b \in reading' => b \in reading
        /\ Len(decoded[b]) \in Nat /\ (InSync(b) \/ OutOfSync(b))
    BY <1>1 DEF ReceiveInv, ReceiveType
  <2> QED
    BY <1>1, <2>1, SyncKept
<1> QED
  BY <1>3, <1>4, <1>5 DEF ReceiveInv

\* The next bytes of the stream come after those in the buffer.
LEMMA ReadChunkReceive ==
    ASSUME NetInv, ReceiveInv, NEW c \in Ids, NEW n \in 1 .. Len(Stream), ReadChunk(c, n)
    PROVE  ReceiveInv'
<1> DEFINE chunk == SubSeq(Stream, arrived[c] + 1, arrived[c] + n)
           d == Len(decoded[c])
           buffer == receiveBuffer[c] \o chunk
<1>1. /\ UNCHANGED <<nextId, inbound, decoded, polled>>
      /\ reading' = reading \ {c} /\ c \in reading /\ arrived[c] + n <= Len(Stream)
      /\ receiveBuffer' = [receiveBuffer EXCEPT ![c] = buffer]
      /\ arrived' = [arrived EXCEPT ![c] = @ + n]
  BY DEF ReadChunk
<1>2. /\ Stream \in Seq(Byte) /\ Len(Stream) \in Nat /\ arrived[c] \in 0 .. Len(Stream)
      /\ receiveBuffer[c] \in Seq(Byte) /\ d \in Nat
  BY StreamFacts DEF ReceiveInv, ReceiveType
<1>3. /\ chunk \in Seq(Byte) /\ Len(chunk) = n
      /\ \A i \in 1 .. n : chunk[i] = Stream[arrived[c] + i]
  <2>0. arrived[c] + n <= Len(Stream)
    BY <1>1
  <2>1. /\ arrived[c] + 1 \in 1 .. Len(Stream) + 1 /\ arrived[c] + n \in 0 .. Len(Stream)
        /\ arrived[c] + 1 <= (arrived[c] + n) + 1
    BY <1>2, <2>0
  <2>2. /\ chunk \in Seq(Byte) /\ Len(chunk) = (arrived[c] + n) - (arrived[c] + 1) + 1
        /\ \A i \in 1 .. (arrived[c] + n) - (arrived[c] + 1) + 1 :
              chunk[i] = Stream[(arrived[c] + 1) - 1 + i]
    BY <1>2, <2>1, PartFacts, Zenon
  <2> HIDE DEF chunk
  <2>3. (arrived[c] + n) - (arrived[c] + 1) + 1 = n
    BY <1>2
  <2>4. \A i \in 1 .. n : (arrived[c] + 1) - 1 + i = arrived[c] + i
    BY <1>2
  <2>5. Len(chunk) = n /\ \A i \in 1 .. n : chunk[i] = Stream[(arrived[c] + 1) - 1 + i]
    BY <2>2, <2>3, Zenon
  <2> QED
    BY <2>2, <2>4, <2>5
<1> HIDE DEF chunk
<1>4. /\ buffer \in Seq(Byte) /\ Len(buffer) = Len(receiveBuffer[c]) + n
      /\ \A i \in 1 .. Len(receiveBuffer[c]) : buffer[i] = receiveBuffer[c][i]
      /\ \A i \in 1 .. n : buffer[Len(receiveBuffer[c]) + i] = Stream[arrived[c] + i]
  <2>1. /\ buffer \in Seq(Byte) /\ Len(buffer) = Len(receiveBuffer[c]) + Len(chunk)
        /\ \A i \in 1 .. Len(receiveBuffer[c]) : buffer[i] = receiveBuffer[c][i]
        /\ \A i \in 1 .. Len(chunk) : buffer[Len(receiveBuffer[c]) + i] = chunk[i]
    BY <1>2, <1>3, JoinFacts, JoinType, Zenon
  <2> HIDE DEF buffer
  <2> QED
    BY <1>3, <2>1
<1> HIDE DEF buffer
<1>5. /\ receiveBuffer' \in [Ids -> Seq(Byte)] /\ receiveBuffer'[c] = buffer
      /\ arrived' \in [Ids -> 0 .. Len(Stream)] /\ arrived'[c] = arrived[c] + n
      /\ \A b \in Ids \ {c} : receiveBuffer'[b] = receiveBuffer[b] /\ arrived'[b] = arrived[b]
  <2>1. receiveBuffer' \in [Ids -> Seq(Byte)] /\ receiveBuffer'[c] = buffer
        /\ \A b \in Ids \ {c} : receiveBuffer'[b] = receiveBuffer[b]
    BY <1>1, <1>4 DEF ReceiveInv, ReceiveType
  <2>2. arrived[c] + n \in 0 .. Len(Stream)
    BY <1>1, <1>2
  <2>3. arrived' \in [Ids -> 0 .. Len(Stream)] /\ arrived'[c] = arrived[c] + n
        /\ \A b \in Ids \ {c} : arrived'[b] = arrived[b]
    BY <1>1, <2>2 DEF ReceiveInv, ReceiveType
  <2> QED
    BY <2>1, <2>3
<1>6. /\ thread'[IO].pc = "decode" /\ thread'[IO].id = c
  BY DEF ReadChunk, IoBusy, NetInv, TypeOK, Threads
<1>7. ReceiveType' /\ MailOrder'
  BY <1>1, <1>5 DEF ReceiveInv, ReceiveType, MailOrder
<1>8. Fresh'
  <2>1. c \in 1 .. nextId - 1 /\ nextId \in Nat
    BY <1>1, CapacityAssumption DEF ReceiveInv, Fresh, NetInv, TypeOK
  <2>2. ~(nextId <= c) /\ c < nextId
    BY <2>1
  <2> QED
    BY <1>1, <1>5, <1>6, <2>2 DEF ReceiveInv, Fresh
<1>9. InSync(c)' \/ OutOfSync(c)'
  <2>1. c \notin reading' /\ decoded' = decoded /\ polled' = polled /\ inbound' = inbound
    BY <1>1
  <2>2. CASE InSync(c)
    <3>1. /\ d \in 0 .. Total /\ End(d) \in Nat /\ End(d) <= arrived[c]
          /\ Len(receiveBuffer[c]) = arrived[c] - End(d)
          /\ \A i \in 1 .. Len(receiveBuffer[c]) : receiveBuffer[c][i] = Stream[End(d) + i]
      BY <2>2, SoundFacts, EndFacts DEF InSync, InStep
    <3>2. ASSUME NEW i \in 1 .. Len(buffer) PROVE buffer[i] = Stream[End(d) + i]
      <4>1. CASE i <= Len(receiveBuffer[c])
        <5>1. i \in 1 .. Len(receiveBuffer[c])
          BY <1>2, <1>4, <4>1
        <5> QED
          BY <1>4, <3>1, <5>1
      <4>2. CASE ~(i <= Len(receiveBuffer[c]))
        <5>1. PICK j \in 1 .. n : i = Len(receiveBuffer[c]) + j
          <6>1. i - Len(receiveBuffer[c]) \in 1 .. n
                /\ i = Len(receiveBuffer[c]) + (i - Len(receiveBuffer[c]))
            BY <1>2, <1>4, <4>2
          <6> QED
            BY <6>1
        <5>2. End(d) + i = arrived[c] + j
          BY <1>2, <3>1, <5>1
        <5> QED
          BY <1>4, <5>1, <5>2
      <4> QED
        BY <4>1, <4>2
    <3>3. End(d) <= arrived[c] + n /\ Len(buffer) = (arrived[c] + n) - End(d)
      BY <1>2, <1>4, <3>1
    <3>4. InStep(buffer, d, arrived[c] + n)
      BY <3>2, <3>3 DEF InStep
    <3> QED
      BY <1>5, <2>1, <2>2, <3>4 DEF InSync
  <2>3. CASE OutOfSync(c)
    <3>1. PICK e \in 0 .. Total :
            /\ e + 1 \in 1 .. Total /\ PayloadLengths[e + 1] > MaxPacketSize
            /\ e <= Len(decoded[c])
            /\ \A k \in 1 .. e : decoded[c][k] = k
            /\ End(e) <= arrived[c]
            /\ After(receiveBuffer[c], e)
      BY <2>3 DEF OutOfSync
    <3>2. End(e) \in Nat /\ End(e) <= arrived[c] + n
      BY <1>2, <3>1, EndFacts
    <3>3. \A j \in 1 .. n : Stream[arrived[c] + j].number \in e + 1 .. Total
      <4>1. \A j \in 1 .. n :
              arrived[c] + j \in Nat /\ End(e) < arrived[c] + j /\ arrived[c] + j <= Len(Stream)
        <5>1. arrived[c] + n <= Len(Stream) /\ End(e) <= arrived[c]
          BY <1>1, <3>1
        <5> QED
          BY <1>2, <3>2, <5>1
      <4> QED
        BY <4>1, StreamFacts
    <3>4. ASSUME NEW i \in 1 .. Len(buffer) PROVE buffer[i].number \in e + 1 .. Total
      <4>1. CASE i <= Len(receiveBuffer[c])
        <5>1. i \in 1 .. Len(receiveBuffer[c])
          BY <1>2, <1>4, <4>1
        <5> QED
          BY <1>4, <3>1, <5>1 DEF After
      <4>2. CASE ~(i <= Len(receiveBuffer[c]))
        <5>1. PICK j \in 1 .. n : i = Len(receiveBuffer[c]) + j
          <6>1. i - Len(receiveBuffer[c]) \in 1 .. n
                /\ i = Len(receiveBuffer[c]) + (i - Len(receiveBuffer[c]))
            BY <1>2, <1>4, <4>2
          <6> QED
            BY <6>1
        <5> QED
          BY <1>4, <3>3, <5>1
      <4> QED
        BY <4>1, <4>2
    <3>5. After(buffer, e)
      BY <3>4 DEF After
    <3> QED
      BY <1>5, <2>1, <3>1, <3>2, <3>5 DEF OutOfSync
  <2> QED
    BY <2>2, <2>3 DEF ReceiveInv
<1>10. ASSUME NEW b \in Ids \ {c} PROVE InSync(b)' \/ OutOfSync(b)'
  <2>1. /\ b \in reading' => b \in reading
        /\ Len(decoded[b]) \in Nat /\ (InSync(b) \/ OutOfSync(b))
        /\ UNCHANGED <<decoded, polled, inbound>>
    BY <1>1 DEF ReceiveInv, ReceiveType
  <2> QED
    BY <1>5, <2>1, SyncKept
<1> QED
  BY <1>7, <1>8, <1>9, <1>10 DEF ReceiveInv

\* What is in a sequence with one more packet
LEMMA AppendItem ==
    ASSUME NEW s \in Seq(Item), NEW x \in Item
    PROVE  /\ Append(s, x) \in Seq(Item) /\ Len(Append(s, x)) = Len(s) + 1 /\ Len(s) \in Nat
           /\ \A i \in 1 .. Len(s) : Append(s, x)[i] = s[i]
           /\ Append(s, x)[Len(s) + 1] = x
  OBVIOUS

\* A later packet may enter a queue.
LEMMA AppendInOrder ==
    ASSUME NEW s \in Seq(Item), NEW x \in Item,
           \A j, k \in 1 .. Len(s) : j < k => Precedes(s[j], s[k]),
           \A j \in 1 .. Len(s) : Precedes(s[j], x)
    PROVE  \A j, k \in 1 .. Len(Append(s, x)) : j < k => Precedes(Append(s, x)[j], Append(s, x)[k])
<1> DEFINE t == Append(s, x)
<1>1. /\ Len(t) = Len(s) + 1 /\ Len(s) \in Nat /\ t[Len(s) + 1] = x
      /\ \A i \in 1 .. Len(s) : t[i] = s[i]
  BY AppendItem
<1> HIDE DEF t
<1> SUFFICES ASSUME NEW j \in 1 .. Len(t), NEW k \in 1 .. Len(t), j < k
             PROVE  Precedes(t[j], t[k])
  BY DEF t
<1>2. j \in 1 .. Len(s) /\ (k \in 1 .. Len(s) \/ k = Len(s) + 1)
  BY <1>1
<1>3. t[j] = s[j]
  BY <1>1, <1>2
<1>4. CASE k \in 1 .. Len(s)
  <2>1. t[k] = s[k]
    BY <1>1, <1>4
  <2> QED
    BY <1>2, <1>3, <1>4, <2>1
<1>5. CASE k = Len(s) + 1
  BY <1>1, <1>2, <1>3, <1>5
<1> QED
  BY <1>2, <1>4, <1>5

\* The packet that enters inbound comes after all that were received.
LEMMA EnqueueInOrder ==
    ASSUME ReceiveInv, NEW x \in Item, polled' = polled,
           inbound' = Append(inbound, x) \/ inbound' = inbound,
           \A j \in 1 .. Len(polled) : Precedes(polled[j], x),
           \A j \in 1 .. Len(inbound) : Precedes(inbound[j], x)
    PROVE  MailOrder'
<1>1. inbound \in Seq(Item) /\ MailOrder
  BY DEF ReceiveInv, ReceiveType
<1>2. CASE inbound' = inbound
  BY <1>1, <1>2 DEF MailOrder
<1>3. CASE inbound' = Append(inbound, x)
  <2>1. /\ Len(inbound') = Len(inbound) + 1 /\ Len(inbound) \in Nat /\ inbound'[Len(inbound) + 1] = x
        /\ \A i \in 1 .. Len(inbound) : inbound'[i] = inbound[i]
    BY <1>1, <1>3, AppendItem
  <2>2. \A j, k \in 1 .. Len(inbound') : j < k => Precedes(inbound'[j], inbound'[k])
    BY <1>1, <1>3, AppendInOrder DEF MailOrder
  <2>3. ASSUME NEW j \in 1 .. Len(polled), NEW k \in 1 .. Len(inbound')
        PROVE  Precedes(polled[j], inbound'[k])
    <3>1. k \in 1 .. Len(inbound) \/ k = Len(inbound) + 1
      BY <2>1
    <3>2. CASE k \in 1 .. Len(inbound)
      BY <1>1, <2>1, <3>2 DEF MailOrder
    <3>3. CASE k = Len(inbound) + 1
      BY <2>1, <3>3
    <3> QED
      BY <3>1, <3>2, <3>3
  <2>4. \A j, k \in 1 .. Len(polled') : j < k => Precedes(polled'[j], polled'[k])
    BY <1>1 DEF MailOrder
  <2> HIDE <1>3
  <2>5. \A j \in 1 .. Len(polled'), k \in 1 .. Len(inbound') : Precedes(polled'[j], inbound'[k])
    BY <2>3
  <2> QED
    BY <2>2, <2>4, <2>5 DEF MailOrder, Precedes
<1> QED
  BY <1>2, <1>3

\* What was received stays among the first e packets when one of them comes in.
LEMMA EnqueueReceived ==
    ASSUME ReceiveInv, NEW x \in Item, polled' = polled, NEW c, NEW d \in Nat, NEW e \in Nat, d <= e,
           inbound' = Append(inbound, x) \/ inbound' = inbound,
           x.connectionId = c => x.number \in 1 .. e,
           Received(polled, c, d), Received(inbound, c, d)
    PROVE  Received(polled', c, e) /\ Received(inbound', c, e)
<1>1. inbound \in Seq(Item) /\ \A n \in 1 .. d : n \in 1 .. e
  BY DEF ReceiveInv, ReceiveType
<1>2. Received(polled, c, e) /\ Received(inbound, c, e)
  BY <1>1 DEF Received
<1>3. CASE inbound' = Append(inbound, x)
  <2>1. /\ Len(inbound') = Len(inbound) + 1 /\ Len(inbound) \in Nat /\ inbound'[Len(inbound) + 1] = x
        /\ \A i \in 1 .. Len(inbound) : inbound'[i] = inbound[i]
    BY <1>1, <1>3, AppendItem
  <2>2. ASSUME NEW k \in 1 .. Len(inbound'), inbound'[k].connectionId = c
        PROVE  inbound'[k].number \in 1 .. e
    <3>1. k \in 1 .. Len(inbound) \/ k = Len(inbound) + 1
      BY <2>1
    <3>2. CASE k \in 1 .. Len(inbound)
      BY <1>2, <2>1, <2>2, <3>2 DEF Received
    <3>3. CASE k = Len(inbound) + 1
      BY <2>1, <2>2, <3>3
    <3> QED
      BY <3>1, <3>2, <3>3
  <2>3. Received(inbound', c, e)
    BY <2>2 DEF Received
  <2> QED
    BY <1>2, <2>3
<1> QED
  BY <1>2, <1>3

\* One turn of the decode loop
LEMMA ReceiveReceive ==
    ASSUME NetInv, ReceiveInv, Receive
    PROVE  ReceiveInv'
<1>1. /\ UNCHANGED <<nextId, thread, reading, arrived, polled>> /\ thread[IO].pc = "decode"
  BY DEF Receive, At
<1>2. PICK c \in Ids : c = thread[IO].id /\ c \notin reading
  <2>1. IO \in Threads
    BY DEF Threads
  <2> QED
    BY <1>1, <2>1, BusyThread DEF NetInv, ReceiveInv, Fresh
<1> DEFINE d == Len(decoded[c])
<1>3. PICK r \in Decode(receiveBuffer[c]) :
        /\ r.ok
        /\ receiveBuffer' = [receiveBuffer EXCEPT ![c] = r.rest]
        /\ decoded' = [decoded EXCEPT ![c] = Append(@, r.number)]
        /\ \/ inbound' = Append(inbound, [connectionId |-> c, number |-> r.number])
           \/ inbound' = inbound
  BY <1>2 DEF Receive
<1> DEFINE x == [connectionId |-> c, number |-> r.number]
<1>4. /\ Total \in Nat /\ receiveBuffer[c] \in Seq(Byte) /\ arrived[c] \in 0 .. Len(Stream)
      /\ decoded[c] \in Seq(Nat) /\ d \in Nat /\ inbound \in Seq(Item) /\ polled \in Seq(Item)
      /\ receiveBuffer \in [Ids -> Seq(Byte)] /\ decoded \in [Ids -> Seq(Nat)]
  BY <1>2, CodecFacts DEF ReceiveInv, ReceiveType
\* What every outcome of Decode has in common
<1>5. ASSUME r.rest \in Seq(Byte), r.number \in Nat,
             \A j \in 1 .. Len(polled) : Precedes(polled[j], x),
             \A j \in 1 .. Len(inbound) : Precedes(inbound[j], x),
             InSync(c)' \/ OutOfSync(c)'
      PROVE  ReceiveInv'
  <2>1. x \in Item
    BY <1>2, <1>5 DEF Item
  <2>2. Append(decoded[c], r.number) \in Seq(Nat)
    BY <1>4, <1>5
  <2>3. inbound' \in Seq(Item)
    BY <1>3, <1>4, <2>1, AppendItem
  <2>4. receiveBuffer' \in [Ids -> Seq(Byte)] /\ decoded' \in [Ids -> Seq(Nat)]
    BY <1>3, <1>4, <1>5, <2>2
  <2>5. ReceiveType'
    BY <1>1, <2>3, <2>4 DEF ReceiveInv, ReceiveType
  <2>6. Fresh'
    BY <1>1 DEF ReceiveInv, Fresh
  <2>7. MailOrder'
    BY <1>1, <1>3, <1>5, <2>1, EnqueueInOrder
  <2>8. ASSUME NEW b \in Ids \ {c} PROVE InSync(b)' \/ OutOfSync(b)'
    <3>1. /\ decoded'[b] = decoded[b] /\ receiveBuffer'[b] = receiveBuffer[b] /\ arrived'[b] = arrived[b]
          /\ Len(decoded[b]) \in Nat /\ reading' = reading /\ (InSync(b) \/ OutOfSync(b))
      BY <1>1, <1>3, <1>4 DEF ReceiveInv
    <3>2. x.connectionId # b
      OBVIOUS
    <3>3. ASSUME NEW e \in Nat, Received(polled, b, e), Received(inbound, b, e)
          PROVE  Received(polled', b, e) /\ Received(inbound', b, e)
      BY <1>1, <1>3, <2>1, <3>2, <3>3, EnqueueReceived
    <3> QED
      BY <3>1, <3>3, SyncKept
  <2> QED
    BY <1>5, <2>5, <2>6, <2>7, <2>8 DEF ReceiveInv
<1>6. receiveBuffer'[c] = r.rest /\ decoded'[c] = Append(decoded[c], r.number)
  BY <1>2, <1>3, <1>4
<1>7. CASE InSync(c)
  <2>1. /\ d \in Sound \cup {0} /\ InStep(receiveBuffer[c], d, arrived[c])
        /\ \A k \in 1 .. d : decoded[c][k] = k
        /\ Received(polled, c, d) /\ Received(inbound, c, d)
    BY <1>7 DEF InSync
  <2>2. /\ r.number = d + 1 /\ d + 1 \in Sound /\ r.rest \in Seq(Byte)
        /\ InStep(r.rest, d + 1, arrived[c])
    BY <1>3, <1>4, <2>1, DecodeInStep
  <2>3. \A j \in 1 .. Len(polled) : Precedes(polled[j], x)
    <3>1. x.connectionId = c /\ x.number = d + 1 /\ (d + 1) - 1 = d
      BY <1>4, <2>2
    <3>2. \A j \in 1 .. Len(polled) : polled[j].connectionId = c => polled[j].number \in 1 .. d
      BY <2>1 DEF Received
    <3> HIDE DEF d, x
    <3> QED
      BY <3>1, <3>2 DEF Precedes
  <2>4. \A j \in 1 .. Len(inbound) : Precedes(inbound[j], x)
    <3>1. x.connectionId = c /\ x.number = d + 1 /\ (d + 1) - 1 = d
      BY <1>4, <2>2
    <3>2. \A j \in 1 .. Len(inbound) : inbound[j].connectionId = c => inbound[j].number \in 1 .. d
      BY <2>1 DEF Received
    <3> HIDE DEF d, x
    <3> QED
      BY <3>1, <3>2 DEF Precedes
  <2>5. x \in Item /\ r.number \in Nat /\ x.number \in 1 .. d + 1 /\ d + 1 \in Nat /\ d <= d + 1
    BY <1>2, <1>4, <2>2 DEF Item
  <2>6. Received(polled', c, d + 1) /\ Received(inbound', c, d + 1)
    BY <1>1, <1>3, <1>4, <2>1, <2>5, EnqueueReceived
  <2>7. Len(decoded'[c]) = d + 1 /\ \A k \in 1 .. d + 1 : decoded'[c][k] = k
    <3>1. /\ Len(Append(decoded[c], d + 1)) = d + 1
          /\ \A k \in 1 .. d : Append(decoded[c], d + 1)[k] = decoded[c][k]
          /\ Append(decoded[c], d + 1)[d + 1] = d + 1
      BY <1>4
    <3>2. decoded'[c] = Append(decoded[c], d + 1) /\ \A k \in 1 .. d + 1 : k \in 1 .. d \/ k = d + 1
      BY <1>4, <1>6, <2>2
    <3> QED
      BY <2>1, <3>1, <3>2
  <2>8. InStep(receiveBuffer'[c], d + 1, arrived'[c]) /\ c \notin reading'
    BY <1>1, <1>2, <1>6, <2>2
  <2>9. InSync(c)'
    <3> HIDE DEF d
    <3> QED
      BY <2>2, <2>6, <2>7, <2>8 DEF InSync
  <2> QED
    BY <1>5, <2>2, <2>3, <2>4, <2>5, <2>9
<1>8. CASE OutOfSync(c)
  <2>1. PICK e \in 0 .. Total :
          /\ e + 1 \in 1 .. Total /\ PayloadLengths[e + 1] > MaxPacketSize
          /\ e <= Len(decoded[c])
          /\ \A k \in 1 .. e : decoded[c][k] = k
          /\ End(e) <= arrived[c]
          /\ After(receiveBuffer[c], e)
    BY <1>8 DEF OutOfSync
  <2>2. /\ r.rest \in Seq(Byte) /\ After(r.rest, e)
        /\ r.number = Garbage \/ r.number \in e + 1 .. Total
    BY <1>3, <1>4, <2>1, DecodeAfter
  <2>3. r.number \in Nat /\ r.number \notin Sound
    <3>1. \A n \in Sound : n \in 1 .. Total /\ n < e + 1
      BY <2>1, SoundFacts
    <3> QED
      BY <1>4, <2>2, <3>1 DEF Garbage
  <2>4. \A j \in 1 .. Len(polled) : Precedes(polled[j], x)
    BY <2>3 DEF Precedes
  <2>5. \A j \in 1 .. Len(inbound) : Precedes(inbound[j], x)
    BY <2>3 DEF Precedes
  <2>6. e <= Len(decoded'[c]) /\ \A k \in 1 .. e : decoded'[c][k] = k
    <3>1. /\ Len(Append(decoded[c], r.number)) = d + 1
          /\ \A k \in 1 .. d : Append(decoded[c], r.number)[k] = decoded[c][k]
      BY <1>4, <2>3
    <3>2. e <= d + 1 /\ \A k \in 1 .. e : k \in 1 .. d
      BY <1>4, <2>1
    <3> QED
      BY <1>6, <2>1, <3>1, <3>2
  <2>7. OutOfSync(c)'
    BY <1>1, <1>6, <2>1, <2>2, <2>6 DEF OutOfSync
  <2> QED
    BY <1>5, <2>2, <2>3, <2>4, <2>5, <2>7
<1> QED
  BY <1>2, <1>7, <1>8 DEF ReceiveInv

\* Decode returned false: the next read starts.
LEMMA ReadAgainReceive ==
    ASSUME NetInv, ReceiveInv, ReadAgain
    PROVE  ReceiveInv'
<1>1. /\ UNCHANGED <<nextId, inbound, arrived, decoded, polled>> /\ thread[IO].pc = "decode"
      /\ Idle(IO) /\ IO \in Threads
  BY DEF ReadAgain, At, Threads
<1>2. PICK c \in Ids : c = thread[IO].id /\ c < nextId /\ c \notin reading
  BY <1>1, BusyThread DEF NetInv, ReceiveInv, Fresh
<1> DEFINE d == Len(decoded[c])
<1>3. PICK r \in Decode(receiveBuffer[c]) :
        ~r.ok /\ receiveBuffer' = [receiveBuffer EXCEPT ![c] = r.rest]
  BY <1>2 DEF ReadAgain
<1>4. /\ Total \in Nat /\ receiveBuffer[c] \in Seq(Byte) /\ arrived[c] \in 0 .. Len(Stream)
      /\ decoded[c] \in Seq(Nat) /\ d \in Nat /\ receiveBuffer \in [Ids -> Seq(Byte)]
      /\ reading' \in {reading, reading \cup {c}} /\ nextId \in Nat
      /\ nextId \in 1 .. MaxConnections + 1
  BY <1>2, CodecFacts, CapacityAssumption DEF ReceiveInv, ReceiveType, ReadAgain, NetInv, TypeOK
<1>5. thread'[IO].pc = "idle"
  BY <1>1, IdleFacts DEF NetInv
\* What every outcome of Decode has in common
<1>6. ASSUME r.rest \in Seq(Byte), InSync(c)' \/ OutOfSync(c)' PROVE ReceiveInv'
  <2>1. receiveBuffer' \in [Ids -> Seq(Byte)]
    BY <1>3, <1>4, <1>6
  <2>2. ReceiveType' /\ MailOrder'
    BY <1>1, <2>1 DEF ReceiveInv, ReceiveType, MailOrder
  <2>3. Fresh'
    <3>1. c \in 1 .. nextId - 1
      BY <1>2, <1>4, CapacityAssumption DEF Ids
    <3> QED
      BY <1>1, <1>4, <1>5, <3>1 DEF ReceiveInv, Fresh
  <2>4. ASSUME NEW b \in Ids \ {c} PROVE InSync(b)' \/ OutOfSync(b)'
    <3>1. /\ receiveBuffer'[b] = receiveBuffer[b] /\ (b \in reading' => b \in reading)
          /\ Len(decoded[b]) \in Nat /\ (InSync(b) \/ OutOfSync(b))
      BY <1>3, <1>4 DEF ReceiveInv, ReceiveType
    <3> QED
      BY <1>1, <3>1, SyncKept
  <2> QED
    BY <1>6, <2>2, <2>3, <2>4 DEF ReceiveInv
<1>7. receiveBuffer'[c] = r.rest
  BY <1>2, <1>3, <1>4
<1>8. CASE InSync(c)
  <2>1. d \in Sound \cup {0} /\ InStep(receiveBuffer[c], d, arrived[c])
        /\ \A k \in 1 .. d : decoded[c][k] = k
    BY <1>8 DEF InSync
  <2>2. \/ r.rest = receiveBuffer[c] /\ (d + 1 \in Sound => arrived[c] < End(d + 1))
        \/ r.rest = << >> /\ d + 1 \in 1 .. Total /\ PayloadLengths[d + 1] > MaxPacketSize
    BY <1>3, <1>4, <2>1, DecodeInStep
  <2>3. CASE r.rest = receiveBuffer[c] /\ (d + 1 \in Sound => arrived[c] < End(d + 1))
    <3>1. InSync(c)' \/ OutOfSync(c)'
      BY <1>1, <1>4, <1>7, <1>8, <2>3, SyncKept
    <3> QED
      BY <1>4, <1>6, <2>3, <3>1
  <2>4. CASE r.rest = << >> /\ d + 1 \in 1 .. Total /\ PayloadLengths[d + 1] > MaxPacketSize
    <3>1. After(<< >>, d) /\ << >> \in Seq(Byte)
      BY DEF After
    <3>2. d \in 0 .. Total /\ d <= d /\ End(d) <= arrived[c]
      BY <1>4, <2>1, SoundFacts DEF InStep
    <3>3. OutOfSync(c)'
      <4>1. /\ d \in 0 .. Total /\ d + 1 \in 1 .. Total /\ PayloadLengths[d + 1] > MaxPacketSize
            /\ d <= Len(decoded'[c]) /\ (\A k \in 1 .. d : decoded'[c][k] = k)
            /\ End(d) <= arrived'[c] /\ After(receiveBuffer'[c], d)
        BY <1>1, <1>7, <2>1, <2>4, <3>1, <3>2
      <4> QED
        BY <4>1, Zenon DEF OutOfSync
    <3> QED
      BY <1>6, <2>4, <3>1, <3>3
  <2> QED
    BY <2>2, <2>3, <2>4
<1>9. CASE OutOfSync(c)
  <2>1. PICK e \in 0 .. Total :
          /\ e + 1 \in 1 .. Total /\ PayloadLengths[e + 1] > MaxPacketSize
          /\ e <= Len(decoded[c])
          /\ \A k \in 1 .. e : decoded[c][k] = k
          /\ End(e) <= arrived[c]
          /\ After(receiveBuffer[c], e)
    BY <1>9 DEF OutOfSync
  <2>2. r.rest \in Seq(Byte) /\ After(r.rest, e)
    BY <1>3, <1>4, <2>1, DecodeAfter
  <2>3. OutOfSync(c)'
    BY <1>1, <1>7, <2>1, <2>2 DEF OutOfSync
  <2> QED
    BY <1>6, <2>2, <2>3
<1> QED
  BY <1>8, <1>9 DEF ReceiveInv

\* What is left of a sequence without its first packet
LEMMA TailItem ==
    ASSUME NEW s \in Seq(Item), s # << >>
    PROVE  /\ Head(s) \in Item /\ Head(s) = s[1] /\ Tail(s) \in Seq(Item)
           /\ Len(s) \in Nat \ {0} /\ Len(Tail(s)) = Len(s) - 1
           /\ \A i \in 1 .. Len(Tail(s)) : Tail(s)[i] = s[i + 1]
  OBVIOUS

\* PollPacket takes the first packet.
LEMMA PollReceive ==
    ASSUME NetInv, ReceiveInv, PollPacket
    PROVE  ReceiveInv'
<1> DEFINE x == Head(inbound)
<1>1. /\ UNCHANGED <<nextId, thread, reading, receiveBuffer, arrived, decoded>>
      /\ inbound # << >> /\ inbound' = Tail(inbound) /\ polled' = Append(polled, x)
  BY DEF PollPacket, streamVars
<1>2. inbound \in Seq(Item) /\ polled \in Seq(Item) /\ MailOrder
  BY DEF ReceiveInv, ReceiveType
<1>3. /\ x \in Item /\ x = inbound[1] /\ inbound' \in Seq(Item)
      /\ Len(inbound) \in Nat \ {0} /\ Len(inbound') = Len(inbound) - 1
      /\ \A i \in 1 .. Len(inbound') : inbound'[i] = inbound[i + 1]
  BY <1>1, <1>2, TailItem
<1>4. /\ polled' \in Seq(Item) /\ Len(polled') = Len(polled) + 1 /\ Len(polled) \in Nat
      /\ \A i \in 1 .. Len(polled) : polled'[i] = polled[i]
      /\ polled'[Len(polled) + 1] = x
  BY <1>1, <1>2, <1>3, AppendItem
<1>5. /\ 1 \in 1 .. Len(inbound)
      /\ \A i \in 1 .. Len(inbound') : i + 1 \in 1 .. Len(inbound) /\ 1 < i + 1
      /\ \A i \in 1 .. Len(polled') : i \in 1 .. Len(polled) \/ i = Len(polled) + 1
  BY <1>3, <1>4
<1>6. MailOrder'
  <2>1. \A j, k \in 1 .. Len(polled') : j < k => Precedes(polled'[j], polled'[k])
    <3>1. \A j \in 1 .. Len(polled) : Precedes(polled[j], x)
      BY <1>2, <1>3, <1>5 DEF MailOrder
    <3>2. \A j, k \in 1 .. Len(polled) : j < k => Precedes(polled[j], polled[k])
      BY <1>2 DEF MailOrder
    <3>3. \A j, k \in 1 .. Len(Append(polled, x)) : j < k =>
             Precedes(Append(polled, x)[j], Append(polled, x)[k])
      BY <1>2, <1>3, <3>1, <3>2, AppendInOrder
    <3> QED
      BY <1>1, <3>3, Zenon
  <2>2. ASSUME NEW j \in 1 .. Len(inbound'), NEW k \in 1 .. Len(inbound'), j < k
        PROVE  Precedes(inbound'[j], inbound'[k])
    <3>1. j + 1 \in 1 .. Len(inbound) /\ k + 1 \in 1 .. Len(inbound) /\ j + 1 < k + 1
      BY <1>3, <2>2
    <3>2. Precedes(inbound[j + 1], inbound[k + 1])
      BY <1>2, <3>1 DEF MailOrder
    <3> QED
      BY <1>3, <3>2
  <2>3. ASSUME NEW j \in 1 .. Len(polled'), NEW k \in 1 .. Len(inbound')
        PROVE  Precedes(polled'[j], inbound'[k])
    <3>1. inbound'[k] = inbound[k + 1] /\ k + 1 \in 1 .. Len(inbound) /\ 1 < k + 1
      BY <1>3, <1>5
    <3>2. CASE j \in 1 .. Len(polled)
      BY <1>2, <1>4, <3>1, <3>2 DEF MailOrder
    <3>3. CASE j = Len(polled) + 1
      <4>1. Precedes(inbound[1], inbound[k + 1])
        BY <1>2, <1>5, <3>1 DEF MailOrder
      <4> QED
        BY <1>3, <1>4, <3>1, <3>3, <4>1
    <3> QED
      BY <1>5, <3>2, <3>3
  <2> QED
    BY <2>1, <2>2, <2>3 DEF MailOrder, Precedes
<1>7. ReceiveType'
  BY <1>1, <1>3, <1>4 DEF ReceiveInv, ReceiveType
<1>8. Fresh'
  BY <1>1 DEF ReceiveInv, Fresh
<1>9. ASSUME NEW c \in Ids PROVE InSync(c)' \/ OutOfSync(c)'
  <2>1. ASSUME NEW d \in Nat, Received(polled, c, d), Received(inbound, c, d)
        PROVE  Received(polled', c, d) /\ Received(inbound', c, d)
    <3>1. Received(inbound', c, d)
      BY <1>3, <1>5, <2>1 DEF Received
    <3>2. Received(polled', c, d)
      <4> SUFFICES ASSUME NEW k \in 1 .. Len(polled'), polled'[k].connectionId = c
                   PROVE  polled'[k].number \in 1 .. d
        BY DEF Received
      <4>1. CASE k \in 1 .. Len(polled)
        BY <1>4, <2>1, <4>1 DEF Received
      <4>2. CASE k = Len(polled) + 1
        BY <1>3, <1>4, <1>5, <2>1, <4>2 DEF Received
      <4> QED
        BY <1>5, <4>1, <4>2
    <3> QED
      BY <3>1, <3>2
  <2>2. Len(decoded[c]) \in Nat /\ (InSync(c) \/ OutOfSync(c))
    BY DEF ReceiveInv, ReceiveType
  <2> QED
    BY <1>1, <2>1, <2>2, SyncKept
<1> QED
  BY <1>6, <1>7, <1>8, <1>9 DEF ReceiveInv

\* Stop throws away what is in the inbound queue.
LEMMA DrainReceive ==
    ASSUME ReceiveInv, StopDrain
    PROVE  ReceiveInv'
<1>1. /\ UNCHANGED <<nextId, thread, reading, receiveBuffer, arrived, decoded, polled>>
      /\ inbound' = << >>
  BY DEF StopDrain, streamVars
<1>2. << >> \in Seq(Item) /\ Len(inbound') = 0
  BY <1>1
<1>3. ReceiveType'
  BY <1>1, <1>2 DEF ReceiveInv, ReceiveType
<1>4. MailOrder'
  BY <1>1, <1>2 DEF ReceiveInv, MailOrder
<1>5. Fresh'
  BY <1>1 DEF ReceiveInv, Fresh
<1>6. ASSUME NEW c \in Ids PROVE InSync(c)' \/ OutOfSync(c)'
  <2>1. \A d \in Nat : Received(inbound', c, d)
    BY <1>2 DEF Received
  <2>2. Len(decoded[c]) \in Nat /\ (InSync(c) \/ OutOfSync(c))
    BY DEF ReceiveInv, ReceiveType
  <2>3. \A d \in Nat : Received(polled, c, d) /\ Received(inbound, c, d) =>
           Received(polled', c, d) /\ Received(inbound', c, d)
    BY <1>1, <2>1
  <2> QED
    BY <1>1, <2>2, <2>3, SyncKept
<1> QED
  BY <1>3, <1>4, <1>5, <1>6 DEF ReceiveInv

\* Every step of the server
LEMMA ReceiveNext == NetInv /\ ReceiveInv /\ [Next]_vars => ReceiveInv'
<1> SUFFICES ASSUME NetInv, ReceiveInv, [Next]_vars PROVE ReceiveInv'
  OBVIOUS
<1>1. CASE \/ \E s \in Senders : SenderStep(s) \/ \E c \in Ids : SendFind(s, c)
           \/ WriteCompletes
           \/ HandlerStep /\ ~Receive /\ ~ReadAgain
           \/ Start \/ StopBegin \/ (StopStep /\ ~StopDrain)
  BY <1>1, SendSideReceive DEF HandlerStep, StopStep
<1>2. CASE Accept \/ ReadCompletes \/ Receive \/ ReadAgain
  BY <1>2, AcceptReceive, ReadFailsReceive, ReadChunkReceive, ReceiveReceive, ReadAgainReceive
     DEF ReadCompletes
<1>3. CASE PollPacket \/ StopDrain
  BY <1>3, PollReceive, DrainReceive
<1>4. CASE UNCHANGED vars
  BY <1>4, ReceiveKept DEF vars
<1> QED
  BY <1>1, <1>2, <1>3, <1>4 DEF Next

(* What the read handlers, Decode and PollPacket keep true, wherever TCP    *)
(* cuts the stream, for every sequence of payload sizes and every capacity: *)
(* the receive buffer holds the stream from the first byte of the next      *)
(* packet on, until a packet is larger than kMaxPacketSize.                 *)
THEOREM ReceiveInvariant == Spec => []ReceiveInv
<1> QED
  BY ReceiveInit, ReceiveNext, NetServerInvariant, PTL DEF Spec

(* Wherever TCP cuts the stream, the packets up to the first oversized one  *)
(* are decoded in order with nothing between them, and a read is started    *)
(* again only when no complete packet is left in the buffer.                *)
THEOREM StreamIsDecoded == Spec => []DecodesTheStream
<1>1. ReceiveInv => DecodesTheStream
  <2> SUFFICES ASSUME ReceiveInv, NEW c \in Ids
               PROVE  /\ \A n \in Sound : n <= Len(decoded[c]) => decoded[c][n] = n
                      /\ c \in reading =>
                            \A n \in Sound : Len(StreamOf[n]) <= arrived[c] => n <= Len(decoded[c])
    BY DEF DecodesTheStream
  <2> DEFINE d == Len(decoded[c])
  <2>1. d \in Nat /\ Total \in Nat /\ arrived[c] \in Nat /\ Sound \subseteq 1 .. Total
    BY CodecFacts, SoundFacts, StreamFacts DEF ReceiveInv, ReceiveType
  <2>2. CASE InSync(c)
    <3>1. \A n \in Sound : n <= d => decoded[c][n] = n
      <4>1. \A n \in Sound : n <= d => n \in 1 .. d
        BY <2>1
      <4>2. \A k \in 1 .. d : decoded[c][k] = k
        BY <2>2 DEF InSync
      <4> QED
        BY <4>1, <4>2
    <3>2. ASSUME c \in reading, NEW n \in Sound, End(n) <= arrived[c] PROVE n <= d
      <4>1. SUFFICES ASSUME ~(n <= d) PROVE FALSE
        OBVIOUS
      <4>2. d \in Sound \cup {0} /\ n \in 1 .. Total /\ d + 1 <= n /\ d + 1 \in 1 .. Total
        BY <2>1, <2>2, <4>1 DEF InSync
      <4>3. d + 1 \in Sound
        <5>1. d < Total /\ ~(n < d + 1)
          BY <2>1, <4>2
        <5>2. PayloadLengths[d + 1] > MaxPacketSize => n < d + 1
          BY <4>2, SoundFacts
        <5> QED
          BY <4>2, <5>1, <5>2, SoundFacts
      <4>4. arrived[c] < End(d + 1)
        BY <2>2, <3>2, <4>3 DEF InSync
      <4>5. d + 1 \in 0 .. Total /\ n \in 0 .. Total
        BY <4>2
      <4>6. End(d + 1) <= End(n) /\ End(d + 1) \in Nat /\ End(n) \in Nat
        BY <4>2, <4>5, StreamFacts, EndFacts
      <4> QED
        BY <2>1, <3>2, <4>4, <4>6
    <3> QED
      BY <3>1, <3>2 DEF End
  <2>3. CASE OutOfSync(c)
    <3>1. PICK e \in 0 .. Total :
            /\ e + 1 \in 1 .. Total /\ PayloadLengths[e + 1] > MaxPacketSize
            /\ e <= d /\ \A k \in 1 .. e : decoded[c][k] = k
      BY <2>3 DEF OutOfSync
    <3>2. \A n \in Sound : n < e + 1 /\ n \in 1 .. Total
      BY <3>1, SoundFacts
    <3>3. \A n \in Sound : n \in 1 .. e /\ n <= d
      BY <2>1, <3>1, <3>2
    <3> QED
      BY <3>1, <3>3
  <2> QED
    BY <2>2, <2>3 DEF ReceiveInv
<1> QED
  BY <1>1, ReceiveInvariant, PTL

(* PollPacket returns the packets of one connection in the order in which   *)
(* the peer sent them and none twice, whatever the inbound queue dropped,   *)
(* as long as the peer keeps to the size limit.                             *)
THEOREM PollsInOrder == Spec => []ReceiveInOrder
<1>1. ReceiveInv => ReceiveInOrder
  BY DEF ReceiveInv, MailOrder, Precedes, ReceiveInOrder
<1> QED
  BY <1>1, ReceiveInvariant, PTL
============================================================================
