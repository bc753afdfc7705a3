---------------------------- MODULE BoundedQueue ----------------------------
(***************************************************************************)
(* flowpipe::BoundedQueue (runtime/include/flowpipe/bounded_queue.h): a    *)
(* mutex, two condition variables, a deque and a closed flag, used by      *)
(* several producer and consumer threads that share one StopToken.         *)
(*                                                                         *)
(* The mutex makes everything between taking it and waiting or returning   *)
(* one step.  The stop flag is an atomic that is set without the mutex and *)
(* without a notification (stop_token.h), so it wakes nobody by itself.    *)
(***************************************************************************)
EXTENDS Naturals, Sequences, FiniteSets

CONSTANTS
    Producers,      \* threads that call push()
    Consumers,      \* threads that call pop()
    Payloads,       \* the values pushed
    Capacity,       \* capacity_
    MaxAccepted     \* model bound: no new push() starts after this many payloads

ASSUME QueueAssumption ==
    /\ IsFiniteSet(Producers)
    /\ IsFiniteSet(Consumers)
    /\ Producers \cap Consumers = {}
    /\ Capacity \in Nat \ {0}
    /\ MaxAccepted \in Nat

VARIABLES
    queue,          \* queue_
    closed,         \* closed_
    stop,           \* the flag behind the StopToken
    pc,             \* per thread: outside, contending for mu_, or in a wait()
    accepted,       \* history: payloads whose push() returned true
    delivered       \* history: payloads returned by pop()

vars == <<queue, closed, stop, pc, accepted, delivered>>

Threads == Producers \cup Consumers

\* Threads inside not_full_.wait and not_empty_.wait, and those of each side
\* that have been woken, or have just called, and are about to hold mu_.
NotFullWaiters  == {p \in Producers : pc[p] = "wait"}
NotEmptyWaiters == {c \in Consumers : pc[c] = "wait"}
ReadyProducers  == {p \in Producers : pc[p] = "lock"}
ReadyConsumers  == {c \in Consumers : pc[c] = "lock"}

\* Types, and the bound: the deque never outgrows capacity_ however many
\* producers are woken for the same free slot.
TypeOK ==
    /\ queue \in Seq(Payloads)
    /\ Len(queue) <= Capacity
    /\ closed \in BOOLEAN
    /\ stop \in BOOLEAN
    /\ pc \in [Threads -> {"idle", "lock", "wait"}]
    /\ accepted \in Seq(Payloads)
    /\ delivered \in Seq(Payloads)

Init ==
    /\ queue = <<>>
    /\ closed = FALSE
    /\ stop = FALSE
    /\ pc = [t \in Threads |-> "idle"]
    /\ accepted = <<>>
    /\ delivered = <<>>

\* Seeded faults: an off-by-one bound; notifications that are forgotten.
PushReadyOffByOne == stop \/ closed \/ Len(queue) <= Capacity
NotifyNothing(f) == {f}
NotifyOnlyConsumers(f) ==
    [t \in Threads |-> IF t \in Consumers /\ f[t] = "wait" THEN "lock" ELSE f[t]]

\* The predicates of the two waits.
PushReady == stop \/ closed \/ Len(queue) < Capacity
PopReady  == stop \/ closed \/ queue # <<>>

\* notify_one moves any one waiter back to the mutex; with no waiter it is lost.
NotifyOne(f, waiters) ==
    IF waiters = {} THEN {f} ELSE {[f EXCEPT ![w] = "lock"] : w \in waiters}

\* notify_all on both condition variables.
NotifyAll(f) == [t \in Threads |-> IF f[t] = "wait" THEN "lock" ELSE f[t]]

\* What push() notifies after push_back, and pop() after pop_front.
NotifyNotEmpty(f) == NotifyOne(f, NotEmptyWaiters)
NotifyNotFull(f)  == NotifyOne(f, NotFullWaiters)

\* A thread calls push() or pop() and contends for mu_.
Call(t) ==
    /\ pc[t] = "idle"
    /\ t \in Producers => Len(accepted) < MaxAccepted
    /\ pc' = [pc EXCEPT ![t] = "lock"]
    /\ UNCHANGED <<queue, closed, stop, accepted, delivered>>

\* The wait's predicate is false: the thread releases mu_ and blocks.
PushWait(p) ==
    /\ pc[p] = "lock"
    /\ ~PushReady
    /\ pc' = [pc EXCEPT ![p] = "wait"]
    /\ UNCHANGED <<queue, closed, stop, accepted, delivered>>

\* push() returns false after the wait.
PushRefused(p) ==
    /\ pc[p] = "lock"
    /\ PushReady
    /\ stop \/ closed
    /\ pc' = [pc EXCEPT ![p] = "idle"]
    /\ UNCHANGED <<queue, closed, stop, accepted, delivered>>

\* push() stores the payload, notifies one consumer and returns true.
PushDone(p, x) ==
    /\ pc[p] = "lock"
    /\ PushReady
    /\ ~stop /\ ~closed
    /\ queue' = Append(queue, x)
    /\ accepted' = Append(accepted, x)
    /\ pc' \in NotifyNotEmpty([pc EXCEPT ![p] = "idle"])
    /\ UNCHANGED <<closed, stop, delivered>>

PopWait(c) ==
    /\ pc[c] = "lock"
    /\ ~PopReady
    /\ pc' = [pc EXCEPT ![c] = "wait"]
    /\ UNCHANGED <<queue, closed, stop, accepted, delivered>>

\* Seeded fault: the newest payload leaves first.
PopsNewest(c) ==
    /\ pc[c] = "lock"
    /\ PopReady
    /\ queue # <<>>
    /\ queue' = SubSeq(queue, 1, Len(queue) - 1)
    /\ delivered' = Append(delivered, queue[Len(queue)])
    /\ pc' \in NotifyNotFull([pc EXCEPT ![c] = "idle"])
    /\ UNCHANGED <<closed, stop, accepted>>

\* pop() takes the front payload, even after a stop or a close, and notifies
\* one producer.
PopDone(c) ==
    /\ pc[c] = "lock"
    /\ PopReady
    /\ queue # <<>>
    /\ queue' = Tail(queue)
    /\ delivered' = Append(delivered, Head(queue))
    /\ pc' \in NotifyNotFull([pc EXCEPT ![c] = "idle"])
    /\ UNCHANGED <<closed, stop, accepted>>

\* pop() returns std::nullopt.
PopEmpty(c) ==
    /\ pc[c] = "lock"
    /\ PopReady
    /\ queue = <<>>
    /\ pc' = [pc EXCEPT ![c] = "idle"]
    /\ UNCHANGED <<queue, closed, stop, accepted, delivered>>

\* close(), by any thread.
Close ==
    /\ closed' = TRUE
    /\ pc' = NotifyAll(pc)
    /\ UNCHANGED <<queue, stop, accepted, delivered>>

\* StopToken::request_stop: no mutex, no notification.
RequestStop ==
    /\ stop' = TRUE
    /\ UNCHANGED <<queue, closed, pc, accepted, delivered>>

\* The C++ library may wake a waiter for no reason; it re-evaluates its wait.
SpuriousWakeup(t) ==
    /\ pc[t] = "wait"
    /\ pc' = [pc EXCEPT ![t] = "lock"]
    /\ UNCHANGED <<queue, closed, stop, accepted, delivered>>

PushStep(p) == PushWait(p) \/ PushRefused(p) \/ \E x \in Payloads : PushDone(p, x)
PopStep(c)  == PopWait(c) \/ PopDone(c) \/ PopEmpty(c)

Next ==
    \/ \E t \in Threads : Call(t) \/ SpuriousWakeup(t)
    \/ \E p \in Producers : PushStep(p)
    \/ \E c \in Consumers : PopStep(c)
    \/ Close
    \/ RequestStop

\* The scheduler eventually gives mu_ to a thread that contends for it.
\* Nothing is assumed of callers, of close(), of stops or of spurious wakeups.
Fairness ==
    /\ \A p \in Producers : WF_vars(PushStep(p))
    /\ \A c \in Consumers : WF_vars(PopStep(c))

Spec == Init /\ [][Next]_vars /\ Fairness

-----------------------------------------------------------------------------
(***************************************************************************)
(* No consumer sleeps through a payload: while a consumer is blocked in    *)
(* not_empty_.wait, every queued payload has a woken consumer that is      *)
(* about to take it.  push() notifies one waiter per payload, and a woken  *)
(* consumer leaves without a payload only when the queue is empty.         *)
(***************************************************************************)
NoSleepingConsumer ==
    NotEmptyWaiters # {} => Len(queue) <= Cardinality(ReadyConsumers)

(***************************************************************************)
(* No producer sleeps through free room, as long as no stop is requested:  *)
(* a woken producer that sees the stop returns without using the room and  *)
(* without passing the notification on.                                    *)
(***************************************************************************)
NoSleepingProducer ==
    (~stop /\ NotFullWaiters # {})
        => Capacity - Len(queue) <= Cardinality(ReadyProducers)

\* Once close() has run nobody is left in either wait, and nobody enters one:
\* this is what lets join_workers() rely on close_runtime_queues().
ClosedWakesAll == closed => NotFullWaiters \cup NotEmptyWaiters = {}

\* The mutex-level queue implements the abstract one: payloads leave in the
\* order they were accepted, none lost or duplicated, and the progress the
\* abstract queue promises follows from mutex fairness alone.
Abstract == INSTANCE AbstractQueue WITH inCall <- {t \in Threads : pc[t] # "idle"}
ImplementsAbstractQueue == Abstract!ASpec
AbstractSafety == Abstract!ASafety

\* The invariant from which the others are proved.
QueueInv ==
    /\ TypeOK
    /\ ClosedWakesAll
    /\ NoSleepingConsumer
    /\ NoSleepingProducer
=============================================================================
