------------------------------ MODULE EventBus -----------------------------
(***************************************************************************)
(* infrastructure/EventBus/EventBus.cpp: synchronous publish over          *)
(* copy-on-write snapshots of the handler lists.                           *)
(*                                                                         *)
(* Any thread may call Subscribe, Unsubscribe, Publish and Clear, and a    *)
(* handler may call them from inside a Publish.  writeMutex_ serialises    *)
(* the mutators, so what they do to handlers_ is invisible until they swap *)
(* the snapshot; active is read by publishers without a lock.  A Publish   *)
(* inside a handler touches no shared state and is covered by a Publish of *)
(* another thread; the mutators inside a handler are modelled.             *)
(*                                                                         *)
(* A subscription is named by its number of creation, which unlike the id  *)
(* in its token is never used again.                                       *)
(***************************************************************************)
EXTENDS Integers, Sequences

CONSTANTS
    Threads,
    Types,              \* event types
    MaxSubscriptions    \* bound: Subscribe calls

Subscriptions == 1 .. MaxSubscriptions
NoThread == "none"
NoType == "none"

ASSUME EventBusAssumption ==
    MaxSubscriptions \in Nat /\ NoThread \notin Threads /\ NoType \notin Types

VARIABLES
    nextId,       \* nextId_
    entry,        \* HandlerEntry of every subscription: id, type, active
    created,      \* how many subscriptions there are
    handlers,     \* handlers_: per type, entries active or not
    snapshots,    \* snapshots_: absent and empty behave alike
    writeMutex,   \* who holds writeMutex_
    pending,      \* the type and subscription of the Unsubscribe in progress
    publish,      \* each thread's PublishInternal
    ending,       \* history: subscriptions some call has begun to end
    gone          \* history: subscriptions whose ending call has returned

vars == <<nextId, entry, created, handlers, snapshots, writeMutex, pending, publish,
          ending, gone>>

NoPublish == [pc |-> "idle", type |-> NoType, snapshot |-> << >>, next |-> 1,
              called |-> << >>, must |-> {}, quiet |-> {}]

Init ==
    /\ nextId = 1
    /\ entry = [e \in Subscriptions |-> [id |-> 0, type |-> NoType, active |-> FALSE]]
    /\ created = 0
    /\ handlers = [y \in Types |-> << >>]
    /\ snapshots = [y \in Types |-> << >>]
    /\ writeMutex = NoThread
    /\ pending = 0
    /\ publish = [t \in Threads |-> NoPublish]
    /\ ending = {}
    /\ gone = {}

Elements(s) == {s[k] : k \in 1 .. Len(s)}

\* A thread may start an operation when it is not in one, or in a handler.
MayCall(t) == writeMutex # t /\ publish[t].pc \in {"idle", "handler"}

----------------------------------------------------------------------------
\* RebuildSnapshot: one pass over the list that keeps the active entries
Kept(s, live) ==
    LET kept[k \in 0 .. Len(s)] ==
            IF k = 0 THEN << >>
            ELSE IF s[k] \in live THEN Append(kept[k - 1], s[k]) ELSE kept[k - 1]
    IN kept[Len(s)]

ActiveOnly(s, ent) == Kept(s, {e \in Elements(s) : ent[e].active})

\* Mutant: the entry is inserted in front.
SubscribeInFront(t, y) ==
    /\ MayCall(t)
    /\ writeMutex = NoThread
    /\ created < MaxSubscriptions
    /\ created' = created + 1
    /\ nextId' = nextId + 1
    /\ entry' = [entry EXCEPT ![created + 1] = [id |-> nextId, type |-> y, active |-> TRUE]]
    /\ handlers' = [handlers EXCEPT ![y] = <<created + 1>> \o @]
    /\ snapshots' = [snapshots EXCEPT ![y] = ActiveOnly(handlers'[y], entry')]
    /\ UNCHANGED <<writeMutex, pending, publish, ending, gone>>

\* SubscribeInternal, whole under writeMutex_
Subscribe(t, y) ==
    /\ MayCall(t)
    /\ writeMutex = NoThread
    /\ created < MaxSubscriptions
    /\ created' = created + 1
    /\ nextId' = nextId + 1
    /\ entry' = [entry EXCEPT ![created + 1] = [id |-> nextId, type |-> y, active |-> TRUE]]
    /\ handlers' = [handlers EXCEPT ![y] = Append(@, created + 1)]
    /\ snapshots' = [snapshots EXCEPT ![y] = ActiveOnly(handlers'[y], entry')]
    /\ UNCHANGED <<writeMutex, pending, publish, ending, gone>>

\* The entries the token of subscription e finds in handlers_
Found(e) == {h \in Elements(handlers[entry[e].type]) : entry[h].id = entry[e].id}

\* Unsubscribe(token of e), first part: lock, find by id, active = false
UnsubscribeMark(t, e) ==
    /\ MayCall(t)
    /\ writeMutex = NoThread
    /\ e \in 1 .. created
    /\ entry' = [h \in Subscriptions |->
                    IF h \in Found(e) THEN [entry[h] EXCEPT !.active = FALSE] ELSE entry[h]]
    /\ ending' = ending \cup Found(e)
    /\ writeMutex' = t
    /\ pending' = e
    /\ UNCHANGED <<nextId, created, handlers, snapshots, publish, gone>>

\* Mutant: the snapshot is not rebuilt.
UnsubscribeKeepsSnapshot(t) ==
    /\ writeMutex = t
    /\ gone' = gone \cup Found(pending)
    /\ writeMutex' = NoThread
    /\ pending' = 0
    /\ UNCHANGED <<nextId, entry, created, handlers, snapshots, publish, ending>>

\* Unsubscribe, second part: RebuildSnapshot, unlock, return
UnsubscribeRebuild(t) ==
    /\ writeMutex = t
    /\ LET y == entry[pending].type
       IN snapshots' = [snapshots EXCEPT ![y] = IF handlers[y] = << >> THEN @
                                                ELSE ActiveOnly(handlers[y], entry)]
    /\ gone' = gone \cup Found(pending)
    /\ writeMutex' = NoThread
    /\ pending' = 0
    /\ UNCHANGED <<nextId, entry, created, handlers, publish, ending>>

\* Mutant: the snapshots survive.
ClearKeepsSnapshots(t) ==
    /\ MayCall(t)
    /\ writeMutex = NoThread
    /\ handlers' = [y \in Types |-> << >>]
    /\ nextId' = 1
    /\ ending' = ending \cup 1 .. created
    /\ gone' = gone \cup 1 .. created
    /\ UNCHANGED <<entry, created, snapshots, writeMutex, pending, publish>>

\* Clear(), under both locks; the entries stay active
Clear(t) ==
    /\ MayCall(t)
    /\ writeMutex = NoThread
    /\ handlers' = [y \in Types |-> << >>]
    /\ snapshots' = [y \in Types |-> << >>]
    /\ nextId' = 1
    /\ ending' = ending \cup 1 .. created
    /\ gone' = gone \cup 1 .. created
    /\ UNCHANGED <<entry, created, writeMutex, pending, publish>>

----------------------------------------------------------------------------
(* PublishInternal(type, event)                                            *)

\* The call: what the caller may rely on is settled here.
PublishCall(t, y) ==
    /\ publish[t].pc = "idle"
    /\ writeMutex # t
    /\ publish' = [publish EXCEPT ![t] =
            [NoPublish EXCEPT !.pc = "take", !.type = y,
                !.must = {e \in 1 .. created : entry[e].type = y} \ ending,
                !.quiet = gone \cup {e \in 1 .. created : entry[e].type # y}]]
    /\ UNCHANGED <<nextId, entry, created, handlers, snapshots, writeMutex, pending,
                   ending, gone>>

\* Copy the shared_ptr of the snapshot under the shared lock
PublishTake(t) ==
    /\ publish[t].pc = "take"
    /\ publish' = [publish EXCEPT ![t].pc = "loop",
                                  ![t].snapshot = snapshots[publish[t].type]]
    /\ UNCHANGED <<nextId, entry, created, handlers, snapshots, writeMutex, pending,
                   ending, gone>>

InLoop(t) == publish[t].pc = "loop" /\ publish[t].next <= Len(publish[t].snapshot)
Current(t) == publish[t].snapshot[publish[t].next]

\* Mutant: an inactive handler ends the dispatch instead of being skipped.
PublishCheckBreaks(t) ==
    /\ InLoop(t)
    /\ publish' = IF entry[Current(t)].active
                  THEN [publish EXCEPT ![t].pc = "call"]
                  ELSE [publish EXCEPT ![t].next = Len(publish[t].snapshot) + 1]
    /\ UNCHANGED <<nextId, entry, created, handlers, snapshots, writeMutex, pending,
                   ending, gone>>

\* if (!handler->active.load()) continue
PublishCheck(t) ==
    /\ InLoop(t)
    /\ publish' = IF entry[Current(t)].active
                  THEN [publish EXCEPT ![t].pc = "call"]
                  ELSE [publish EXCEPT ![t].next = @ + 1]
    /\ UNCHANGED <<nextId, entry, created, handlers, snapshots, writeMutex, pending,
                   ending, gone>>

\* handler->fn(eventRaw) is entered
PublishInvoke(t) ==
    /\ publish[t].pc = "call"
    /\ publish' = [publish EXCEPT ![t].pc = "handler",
                                  ![t].called = Append(@, Current(t))]
    /\ UNCHANGED <<nextId, entry, created, handlers, snapshots, writeMutex, pending,
                   ending, gone>>

\* ... and left
HandlerReturns(t) ==
    /\ publish[t].pc = "handler"
    /\ writeMutex # t
    /\ publish' = [publish EXCEPT ![t].pc = "loop", ![t].next = @ + 1]
    /\ UNCHANGED <<nextId, entry, created, handlers, snapshots, writeMutex, pending,
                   ending, gone>>

Finished(t) == publish[t].pc = "loop" /\ publish[t].next > Len(publish[t].snapshot)

PublishReturn(t) ==
    /\ Finished(t)
    /\ publish' = [publish EXCEPT ![t] = NoPublish]
    /\ UNCHANGED <<nextId, entry, created, handlers, snapshots, writeMutex, pending,
                   ending, gone>>

----------------------------------------------------------------------------
Next ==
    \E t \in Threads :
        \/ \E y \in Types : Subscribe(t, y) \/ PublishCall(t, y)
        \/ \E e \in Subscriptions : UnsubscribeMark(t, e)
        \/ UnsubscribeRebuild(t)
        \/ Clear(t)
        \/ PublishTake(t) \/ PublishCheck(t) \/ PublishInvoke(t)
        \/ HandlerReturns(t) \/ PublishReturn(t)

Spec == Init /\ [][Next]_vars
----------------------------------------------------------------------------
(* EventBusConcurrencyTests, "Data Loss or Duplication": a Publish invokes *)
(* every handler that was subscribed before it began and that nobody has   *)
(* begun to unsubscribe when it ends, whatever other threads and the       *)
(* handlers themselves do to the topology in between.                      *)
DeliversToPermanent ==
    \A t \in Threads :
        Finished(t) => publish[t].must \ ending \subseteq Elements(publish[t].called)

(* EventBusReentrancyTests, an unsubscribed node never comes back: a       *)
(* Publish that began after Unsubscribe or Clear had returned does not     *)
(* invoke the handler, and none invokes a handler of another type.         *)
QuietAfterUnsubscribe ==
    \A t \in Threads : Elements(publish[t].called) \cap publish[t].quiet = {}

(* behavior.md, "Handlers execute in the same order as registration", each *)
(* at most once per Publish.                                               *)
RegistrationOrder ==
    \A t \in Threads :
        LET c == publish[t].called
        IN \A j, k \in 1 .. Len(c) : j < k => c[j] < c[k]

(* While no mutator is at work, the snapshot a publisher would take is     *)
(* exactly the live part of the handler list.                              *)
SnapshotCurrent ==
    writeMutex = NoThread =>
        \A y \in Types : snapshots[y] = ActiveOnly(handlers[y], entry)
============================================================================
