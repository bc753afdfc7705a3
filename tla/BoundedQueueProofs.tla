------------------------- MODULE BoundedQueueProofs -------------------------
(***************************************************************************)
(* Proofs about BoundedQueue for every finite set of threads, every        *)
(* payload set and every capacity: the type invariant, the absence of lost *)
(* wakeups, and that every step is a step of AbstractQueue.                *)
(***************************************************************************)
EXTENDS BoundedQueue, FiniteSetTheorems, SequenceTheorems, TLAPS

\* The ready side of each condition variable is finite, before and after a step.
LEMMA SidesFinite ==
    /\ IsFiniteSet(ReadyProducers) /\ IsFiniteSet(ReadyProducers')
    /\ IsFiniteSet(ReadyConsumers) /\ IsFiniteSet(ReadyConsumers')
<1>1. /\ ReadyProducers \subseteq Producers /\ ReadyProducers' \subseteq Producers
      /\ ReadyConsumers \subseteq Consumers /\ ReadyConsumers' \subseteq Consumers
  BY DEF ReadyProducers, ReadyConsumers
<1> QED BY <1>1, FS_Subset, QueueAssumption

\* How the size of a finite set changes when one element joins it.
LEMMA CardStep ==
  ASSUME NEW S, NEW T, IsFiniteSet(S), IsFiniteSet(T)
  PROVE  /\ Cardinality(S) \in Nat
         /\ S \subseteq T => Cardinality(S) <= Cardinality(T)
         /\ \A e : (e \notin S /\ T = S \cup {e})
                      => Cardinality(T) = Cardinality(S) + 1
BY FS_CardinalityType, FS_Subset, FS_AddElement

\* notify_one and notify_all only ever move a waiter back to the mutex.
LEMMA NotifyType ==
  ASSUME NEW f \in [Threads -> {"idle", "lock", "wait"}], NEW W \in SUBSET Threads,
         NEW g \in NotifyOne(f, W)
  PROVE  /\ g \in [Threads -> {"idle", "lock", "wait"}]
         /\ W = {} => g = f
         /\ W # {} => \E w \in W : g = [f EXCEPT ![w] = "lock"]
<1>1. CASE W = {}
  BY <1>1 DEF NotifyOne
<1>2. CASE W # {}
  BY <1>2 DEF NotifyOne
<1> QED BY <1>1, <1>2

\* What a push or a pop does to the threads: the caller leaves, and one waiter
\* of the other side, if there is one, is sent back to the mutex.
LEMMA NotifyCases ==
  ASSUME TypeOK, NEW t \in Threads, NEW W \in SUBSET Threads,
         pc' \in NotifyOne([pc EXCEPT ![t] = "idle"], W)
  PROVE  /\ W = {} => pc' = [pc EXCEPT ![t] = "idle"]
         /\ W # {} => \E w \in W : pc' = [[pc EXCEPT ![t] = "idle"] EXCEPT ![w] = "lock"]
<1>1. CASE W = {}
  BY <1>1 DEF NotifyOne
<1>2. CASE W # {}
  BY <1>2 DEF NotifyOne
<1> QED BY <1>1, <1>2

-----------------------------------------------------------------------------
\* The constructed queue is empty.
LEMMA TypeInit == Init => TypeOK
<1>1. Len(<<>>) = 0 /\ 0 <= Capacity
  BY QueueAssumption
<1>2. \A S : <<>> \in Seq(S)
  OBVIOUS
<1> QED BY <1>1, <1>2 DEF Init, TypeOK

\* Every step preserves the types and the capacity bound.
LEMMA TypeStep == TypeOK /\ [Next]_vars => TypeOK'
<1> SUFFICES ASSUME TypeOK, [Next]_vars
             PROVE  TypeOK'
  OBVIOUS
<1> USE DEF TypeOK
<1>1. ASSUME NEW t \in Threads, Call(t) \/ SpuriousWakeup(t)
      PROVE  TypeOK'
  BY <1>1 DEF Call, SpuriousWakeup
<1>2. ASSUME NEW p \in Producers, PushWait(p) \/ PushRefused(p)
      PROVE  TypeOK'
  BY <1>2 DEF PushWait, PushRefused, Threads
<1>3. ASSUME NEW p \in Producers, NEW x \in Payloads, PushDone(p, x)
      PROVE  TypeOK'
  <2>1. pc' \in [Threads -> {"idle", "lock", "wait"}]
    BY <1>3, NotifyType DEF PushDone, NotifyNotEmpty, NotEmptyWaiters, Threads
  <2>2. queue' \in Seq(Payloads) /\ Len(queue') = Len(queue) + 1
    BY <1>3 DEF PushDone
  <2> QED BY <1>3, <2>1, <2>2, QueueAssumption DEF PushDone, PushReady
<1>4. ASSUME NEW c \in Consumers, PopWait(c) \/ PopEmpty(c)
      PROVE  TypeOK'
  BY <1>4 DEF PopWait, PopEmpty, Threads
<1>5. ASSUME NEW c \in Consumers, PopDone(c)
      PROVE  TypeOK'
  <2>1. pc' \in [Threads -> {"idle", "lock", "wait"}]
    BY <1>5, NotifyType DEF PopDone, NotifyNotFull, NotFullWaiters, Threads
  <2>2. /\ queue' \in Seq(Payloads) /\ Len(queue') = Len(queue) - 1
        /\ Head(queue) \in Payloads
    BY <1>5 DEF PopDone
  <2> QED BY <1>5, <2>1, <2>2, QueueAssumption DEF PopDone
<1>6. CASE Close
  BY <1>6 DEF Close, NotifyAll
<1>7. CASE RequestStop
  BY <1>7 DEF RequestStop
<1>8. CASE UNCHANGED vars
  BY <1>8 DEF vars
<1> QED
  BY <1>1, <1>2, <1>3, <1>4, <1>5, <1>6, <1>7, <1>8 DEF Next, PushStep, PopStep

\* Types and capacity: bounded_queue.h never stores more than capacity_ payloads.
THEOREM TypeCorrect == Spec => []TypeOK
<1>1. Init => TypeOK
  BY TypeInit
<1>2. TypeOK /\ [Next]_vars => TypeOK'
  BY TypeStep
<1> QED BY <1>1, <1>2, PTL DEF Spec

-----------------------------------------------------------------------------
\* Nothing sleeps in a queue nobody has called.
LEMMA QueueInvInit == Init => QueueInv
<1> SUFFICES ASSUME Init PROVE QueueInv
  OBVIOUS
<1>1. TypeOK
  BY TypeInit
<1>2. NotFullWaiters = {} /\ NotEmptyWaiters = {}
  BY DEF Init, NotFullWaiters, NotEmptyWaiters, Threads
<1> QED
  BY <1>1, <1>2 DEF QueueInv, ClosedWakesAll, NoSleepingConsumer, NoSleepingProducer

\* A step that leaves both counts of sleeping threads no larger, the queue as
\* it was and the ready threads ready preserves the wakeup invariants.
LEMMA MoreReady ==
  ASSUME QueueInv, UNCHANGED <<queue, closed, stop>>, TypeOK',
         NotFullWaiters' \subseteq NotFullWaiters,
         NotEmptyWaiters' \subseteq NotEmptyWaiters,
         ReadyProducers \subseteq ReadyProducers',
         ReadyConsumers \subseteq ReadyConsumers'
  PROVE  QueueInv'
<1>1. /\ Cardinality(ReadyProducers) \in Nat /\ Cardinality(ReadyProducers') \in Nat
      /\ Cardinality(ReadyConsumers) \in Nat /\ Cardinality(ReadyConsumers') \in Nat
      /\ Cardinality(ReadyProducers) <= Cardinality(ReadyProducers')
      /\ Cardinality(ReadyConsumers) <= Cardinality(ReadyConsumers')
  BY SidesFinite, CardStep
<1>2. Len(queue) \in Nat /\ Capacity \in Nat
  BY QueueAssumption DEF QueueInv, TypeOK
<1>3. ClosedWakesAll'
  BY DEF QueueInv, ClosedWakesAll
<1>4. NoSleepingConsumer'
  BY <1>1, <1>2 DEF QueueInv, NoSleepingConsumer
<1>5. NoSleepingProducer'
  BY <1>1, <1>2 DEF QueueInv, NoSleepingProducer
<1> QED BY <1>3, <1>4, <1>5 DEF QueueInv

\* Every step preserves the absence of lost wakeups.
LEMMA QueueInvStep == QueueInv /\ [Next]_vars => QueueInv'
<1> SUFFICES ASSUME QueueInv, [Next]_vars
             PROVE  QueueInv'
  OBVIOUS
<1>t. TypeOK /\ TypeOK'
  BY TypeStep DEF QueueInv
<1>n. /\ Len(queue) \in Nat /\ Len(queue') \in Nat /\ Capacity \in Nat
      /\ Cardinality(ReadyProducers) \in Nat /\ Cardinality(ReadyProducers') \in Nat
      /\ Cardinality(ReadyConsumers) \in Nat /\ Cardinality(ReadyConsumers') \in Nat
  BY <1>t, SidesFinite, CardStep, QueueAssumption DEF TypeOK
<1>d. \A t \in Threads : t \in Producers <=> t \notin Consumers
  BY QueueAssumption DEF Threads
<1>1. ASSUME NEW t \in Threads, Call(t) \/ SpuriousWakeup(t)
      PROVE  QueueInv'
  <2>1. /\ NotFullWaiters' \subseteq NotFullWaiters
        /\ NotEmptyWaiters' \subseteq NotEmptyWaiters
        /\ ReadyProducers \subseteq ReadyProducers'
        /\ ReadyConsumers \subseteq ReadyConsumers'
    BY <1>1, <1>t DEF TypeOK, Threads, Call, SpuriousWakeup, NotFullWaiters,
       NotEmptyWaiters, ReadyProducers, ReadyConsumers
  <2>2. UNCHANGED <<queue, closed, stop>>
    BY <1>1 DEF Call, SpuriousWakeup
  <2> QED BY <2>1, <2>2, <1>t, MoreReady
<1>2. ASSUME NEW p \in Producers, PushWait(p)
      PROVE  QueueInv'
  <2>1. /\ UNCHANGED <<queue, closed, stop>> /\ ~closed
        /\ NotEmptyWaiters' = NotEmptyWaiters /\ ReadyConsumers' = ReadyConsumers
    BY <1>2, <1>t, <1>d DEF TypeOK, Threads, PushWait, PushReady, NotEmptyWaiters,
       ReadyConsumers
  <2>2. Capacity <= Len(queue)
    BY <1>2, <1>n DEF PushWait, PushReady
  <2>3. NoSleepingProducer'
    BY <2>1, <2>2, <1>n DEF NoSleepingProducer
  <2> QED BY <2>1, <2>3, <1>t DEF QueueInv, ClosedWakesAll, NoSleepingConsumer
<1>3. ASSUME NEW p \in Producers, PushRefused(p)
      PROVE  QueueInv'
  <2>1. /\ UNCHANGED <<queue, closed, stop>>
        /\ NotEmptyWaiters' = NotEmptyWaiters /\ ReadyConsumers' = ReadyConsumers
        /\ NotFullWaiters' = NotFullWaiters
    BY <1>3, <1>t, <1>d DEF TypeOK, Threads, PushRefused, NotEmptyWaiters,
       ReadyConsumers, NotFullWaiters
  <2>2. stop \/ NotFullWaiters = {}
    BY <1>3 DEF PushRefused, QueueInv, ClosedWakesAll
  <2> QED BY <2>1, <2>2, <1>t
          DEF QueueInv, ClosedWakesAll, NoSleepingConsumer, NoSleepingProducer
<1>4. ASSUME NEW p \in Producers, NEW x \in Payloads, PushDone(p, x)
      PROVE  QueueInv'
  <2>1. /\ UNCHANGED <<closed, stop>> /\ ~closed /\ Len(queue') = Len(queue) + 1
    BY <1>4, <1>t DEF PushDone, TypeOK
  <2>2. /\ NotEmptyWaiters = {} => pc' = [pc EXCEPT ![p] = "idle"]
        /\ NotEmptyWaiters # {} => \E w \in NotEmptyWaiters :
              pc' = [[pc EXCEPT ![p] = "idle"] EXCEPT ![w] = "lock"]
    <3>1. NotEmptyWaiters \in SUBSET Threads /\ p \in Threads
      BY DEF NotEmptyWaiters, Threads
    <3>2. pc' \in NotifyOne([pc EXCEPT ![p] = "idle"], NotEmptyWaiters)
      BY <1>4 DEF PushDone, NotifyNotEmpty
    <3> QED BY <3>1, <3>2, <1>t, NotifyCases
  <2>3. NotFullWaiters' = NotFullWaiters
    BY <1>4, <2>2, <1>t, <1>d DEF TypeOK, Threads, PushDone, NotFullWaiters, NotEmptyWaiters
  <2>4. p \notin ReadyProducers' /\ ReadyProducers = ReadyProducers' \cup {p}
    BY <1>4, <2>2, <1>t, <1>d DEF TypeOK, Threads, PushDone, ReadyProducers, NotEmptyWaiters
  <2>5. Cardinality(ReadyProducers) = Cardinality(ReadyProducers') + 1
    BY <2>4, SidesFinite, CardStep
  <2>6. NoSleepingProducer'
    BY <2>1, <2>3, <2>5, <1>n DEF QueueInv, NoSleepingProducer
  <2>7. NoSleepingConsumer'
    <3>1. CASE NotEmptyWaiters = {}
      <4>1. NotEmptyWaiters' = {}
        BY <1>4, <3>1, <2>2, <1>t, <1>d DEF TypeOK, Threads, NotEmptyWaiters
      <4> QED BY <4>1 DEF NoSleepingConsumer
    <3>2. CASE NotEmptyWaiters # {}
      <4>1. PICK w \in NotEmptyWaiters :
               pc' = [[pc EXCEPT ![p] = "idle"] EXCEPT ![w] = "lock"]
        BY <3>2, <2>2
      <4>2. w \notin ReadyConsumers /\ ReadyConsumers' = ReadyConsumers \cup {w}
        BY <4>1, <1>t, <1>d DEF TypeOK, Threads, NotEmptyWaiters, ReadyConsumers
      <4>3. Cardinality(ReadyConsumers') = Cardinality(ReadyConsumers) + 1
        BY <4>2, SidesFinite, CardStep
      <4> QED BY <3>2, <4>3, <2>1, <1>n DEF QueueInv, NoSleepingConsumer
    <3> QED BY <3>1, <3>2
  <2> QED BY <2>1, <2>6, <2>7, <1>t DEF QueueInv, ClosedWakesAll
<1>5. ASSUME NEW c \in Consumers, PopWait(c)
      PROVE  QueueInv'
  <2>1. /\ UNCHANGED <<queue, closed, stop>> /\ ~closed
        /\ NotFullWaiters' = NotFullWaiters /\ ReadyProducers' = ReadyProducers
    BY <1>5, <1>t, <1>d DEF TypeOK, Threads, PopWait, PopReady, NotFullWaiters,
       ReadyProducers
  <2>2. Len(queue') = 0
    BY <1>5, <2>1 DEF PopWait, PopReady
  <2>3. NoSleepingConsumer'
    BY <2>2, <1>n DEF NoSleepingConsumer
  <2> QED BY <2>1, <2>3, <1>t DEF QueueInv, ClosedWakesAll, NoSleepingProducer
<1>6. ASSUME NEW c \in Consumers, PopEmpty(c)
      PROVE  QueueInv'
  <2>1. /\ UNCHANGED <<queue, closed, stop>> /\ Len(queue') = 0
        /\ NotFullWaiters' = NotFullWaiters /\ ReadyProducers' = ReadyProducers
        /\ NotEmptyWaiters' = NotEmptyWaiters
    BY <1>6, <1>t, <1>d DEF TypeOK, Threads, PopEmpty, NotFullWaiters,
       ReadyProducers, NotEmptyWaiters
  <2>2. NoSleepingConsumer'
    BY <2>1, <1>n DEF NoSleepingConsumer
  <2> QED BY <2>1, <2>2, <1>t DEF QueueInv, ClosedWakesAll, NoSleepingProducer
<1>7. ASSUME NEW c \in Consumers, PopDone(c)
      PROVE  QueueInv'
  <2>1. UNCHANGED <<closed, stop>> /\ Len(queue') = Len(queue) - 1
    BY <1>7, <1>t DEF PopDone, TypeOK
  <2>2. /\ NotFullWaiters = {} => pc' = [pc EXCEPT ![c] = "idle"]
        /\ NotFullWaiters # {} => \E w \in NotFullWaiters :
              pc' = [[pc EXCEPT ![c] = "idle"] EXCEPT ![w] = "lock"]
    <3>1. NotFullWaiters \in SUBSET Threads /\ c \in Threads
      BY DEF NotFullWaiters, Threads
    <3>2. pc' \in NotifyOne([pc EXCEPT ![c] = "idle"], NotFullWaiters)
      BY <1>7 DEF PopDone, NotifyNotFull
    <3> QED BY <3>1, <3>2, <1>t, NotifyCases
  <2>3. NotEmptyWaiters' = NotEmptyWaiters
    BY <1>7, <2>2, <1>t, <1>d DEF TypeOK, Threads, PopDone, NotFullWaiters, NotEmptyWaiters
  <2>4. c \notin ReadyConsumers' /\ ReadyConsumers = ReadyConsumers' \cup {c}
    BY <1>7, <2>2, <1>t, <1>d DEF TypeOK, Threads, PopDone, ReadyConsumers, NotFullWaiters
  <2>5. Cardinality(ReadyConsumers) = Cardinality(ReadyConsumers') + 1
    BY <2>4, SidesFinite, CardStep
  <2>6. NoSleepingConsumer'
    BY <2>1, <2>3, <2>5, <1>n DEF QueueInv, NoSleepingConsumer
  <2>7. NoSleepingProducer' /\ NotFullWaiters' \subseteq NotFullWaiters
    <3>1. CASE NotFullWaiters = {}
      <4>1. NotFullWaiters' = {}
        BY <1>7, <3>1, <2>2, <1>t, <1>d DEF TypeOK, Threads, NotFullWaiters
      <4> QED BY <4>1 DEF NoSleepingProducer
    <3>2. CASE NotFullWaiters # {}
      <4>1. PICK w \in NotFullWaiters :
               pc' = [[pc EXCEPT ![c] = "idle"] EXCEPT ![w] = "lock"]
        BY <3>2, <2>2
      <4>2. /\ w \notin ReadyProducers /\ ReadyProducers' = ReadyProducers \cup {w}
            /\ NotFullWaiters' \subseteq NotFullWaiters
        BY <4>1, <1>t, <1>d DEF TypeOK, Threads, NotFullWaiters, ReadyProducers
      <4>3. Cardinality(ReadyProducers') = Cardinality(ReadyProducers) + 1
        BY <4>2, SidesFinite, CardStep
      <4> QED BY <3>2, <4>2, <4>3, <2>1, <1>n DEF QueueInv, NoSleepingProducer
    <3> QED BY <3>1, <3>2
  <2> QED BY <2>1, <2>3, <2>6, <2>7, <1>t DEF QueueInv, ClosedWakesAll
<1>8. CASE Close
  <2>1. NotFullWaiters' = {} /\ NotEmptyWaiters' = {}
    BY <1>8, <1>t DEF Close, NotifyAll, NotFullWaiters, NotEmptyWaiters, Threads, TypeOK
  <2> QED BY <2>1, <1>t
          DEF QueueInv, ClosedWakesAll, NoSleepingConsumer, NoSleepingProducer
<1>9. CASE RequestStop
  BY <1>9, <1>t DEF RequestStop, QueueInv, ClosedWakesAll, NoSleepingConsumer,
     NoSleepingProducer, NotFullWaiters, NotEmptyWaiters, ReadyProducers, ReadyConsumers
<1>10. CASE UNCHANGED vars
  <2>1. /\ UNCHANGED <<queue, closed, stop>>
        /\ NotFullWaiters' = NotFullWaiters /\ NotEmptyWaiters' = NotEmptyWaiters
        /\ ReadyProducers' = ReadyProducers /\ ReadyConsumers' = ReadyConsumers
    BY <1>10 DEF vars, NotFullWaiters, NotEmptyWaiters, ReadyProducers, ReadyConsumers
  <2> QED BY <2>1, <1>t, MoreReady
<1> QED
  BY <1>1, <1>2, <1>3, <1>4, <1>5, <1>6, <1>7, <1>8, <1>9, <1>10
     DEF Next, PushStep, PopStep

\* No lost wakeup: for any number of threads and any capacity, a payload never
\* waits beside a sleeping consumer nor, before a stop, room beside a sleeping
\* producer, and close() leaves nobody blocked (bounded_queue.h, push/pop/close).
THEOREM NoLostWakeups ==
    Spec => [](NoSleepingConsumer /\ NoSleepingProducer /\ ClosedWakesAll)
<1>1. Init => QueueInv
  BY QueueInvInit
<1>2. QueueInv /\ [Next]_vars => QueueInv'
  BY QueueInvStep
<1>3. QueueInv => NoSleepingConsumer /\ NoSleepingProducer /\ ClosedWakesAll
  BY DEF QueueInv
<1> QED BY <1>1, <1>2, <1>3, PTL DEF Spec

\* Producers by themselves: pop() notifies one of them for every slot it frees,
\* and a woken one that finds the queue full again leaves nobody beside a free slot.
THEOREM ProducersWoken == Spec => []NoSleepingProducer
  BY NoLostWakeups, PTL

\* close() by itself: nobody waits in a closed queue, nor ever starts to.
THEOREM CloseWakesAll == Spec => []ClosedWakesAll
  BY NoLostWakeups, PTL

-----------------------------------------------------------------------------
\* Every step of the mutex-level queue is a step of the abstract queue, or one
\* the callers cannot see (a wait, a wakeup).
LEMMA QueueStepSimulation == TypeOK /\ [Next]_vars => [Abstract!ANext]_(Abstract!avars)
<1> SUFFICES ASSUME TypeOK, [Next]_vars
             PROVE  [Abstract!ANext]_(Abstract!avars)
  OBVIOUS
<1> DEFINE inCall == {t \in Threads : pc[t] # "idle"}
<1>1. ASSUME NEW t \in Threads, Call(t)
      PROVE  Abstract!Call(t)
  BY <1>1 DEF Call, Abstract!Call, TypeOK
<1>2. ASSUME NEW t \in Threads, SpuriousWakeup(t)
      PROVE  UNCHANGED Abstract!avars
  BY <1>2 DEF SpuriousWakeup, Abstract!avars, TypeOK
<1>3. ASSUME NEW p \in Producers, PushWait(p)
      PROVE  UNCHANGED Abstract!avars
  BY <1>3 DEF PushWait, Abstract!avars, TypeOK, Threads
<1>4. ASSUME NEW p \in Producers, PushRefused(p)
      PROVE  Abstract!Refuse(p)
  BY <1>4 DEF PushRefused, Abstract!Refuse, TypeOK, Threads
<1>5. ASSUME NEW p \in Producers, NEW x \in Payloads, PushDone(p, x)
      PROVE  Abstract!Push(p, x)
  <2>1. \/ pc' = [pc EXCEPT ![p] = "idle"]
        \/ \E w \in NotEmptyWaiters : pc' = [[pc EXCEPT ![p] = "idle"] EXCEPT ![w] = "lock"]
    <3>1. NotEmptyWaiters \in SUBSET Threads /\ p \in Threads
      BY DEF NotEmptyWaiters, Threads
    <3>2. pc' \in NotifyOne([pc EXCEPT ![p] = "idle"], NotEmptyWaiters)
      BY <1>5 DEF PushDone, NotifyNotEmpty
    <3> QED BY <3>1, <3>2, NotifyCases
  <2>2. inCall' = inCall \ {p} /\ p \in inCall
    BY <1>5, <2>1, QueueAssumption DEF PushDone, NotEmptyWaiters, Threads, TypeOK
  <2> QED BY <1>5, <2>2 DEF PushDone, PushReady, Abstract!Push
<1>6. ASSUME NEW c \in Consumers, PopWait(c)
      PROVE  UNCHANGED Abstract!avars
  BY <1>6 DEF PopWait, Abstract!avars, TypeOK, Threads
<1>7. ASSUME NEW c \in Consumers, PopEmpty(c)
      PROVE  Abstract!PopNothing(c)
  BY <1>7 DEF PopEmpty, PopReady, Abstract!PopNothing, TypeOK, Threads
<1>8. ASSUME NEW c \in Consumers, PopDone(c)
      PROVE  Abstract!Pop(c)
  <2>1. \/ pc' = [pc EXCEPT ![c] = "idle"]
        \/ \E w \in NotFullWaiters : pc' = [[pc EXCEPT ![c] = "idle"] EXCEPT ![w] = "lock"]
    <3>1. NotFullWaiters \in SUBSET Threads /\ c \in Threads
      BY DEF NotFullWaiters, Threads
    <3>2. pc' \in NotifyOne([pc EXCEPT ![c] = "idle"], NotFullWaiters)
      BY <1>8 DEF PopDone, NotifyNotFull
    <3> QED BY <3>1, <3>2, NotifyCases
  <2>2. inCall' = inCall \ {c} /\ c \in inCall
    BY <1>8, <2>1, QueueAssumption DEF PopDone, NotFullWaiters, Threads, TypeOK
  <2> QED BY <1>8, <2>2 DEF PopDone, Abstract!Pop
<1>9. CASE Close
  <2>1. Abstract!Close
    BY <1>9 DEF Close, NotifyAll, Abstract!Close, TypeOK
  <2> QED BY <2>1 DEF Abstract!ANext
<1>10. CASE RequestStop
  BY <1>10 DEF RequestStop, Abstract!RequestStop, Abstract!ANext
<1>11. CASE UNCHANGED vars
  BY <1>11 DEF vars, Abstract!avars
<1> QED
  BY <1>1, <1>2, <1>3, <1>4, <1>5, <1>6, <1>7, <1>8, <1>9, <1>10, <1>11
     DEF Next, PushStep, PopStep, Threads, Abstract!ANext, Abstract!PushSome,
         Abstract!PopSome

\* Linearisation: BoundedQueue's push, pop and close behave as the atomic FIFO
\* of AbstractQueue (its safety part), for every capacity and set of threads.
THEOREM RefinesAbstractQueue == Spec => AbstractSafety
<1>1. Init => Abstract!AInit
  BY DEF Init, Abstract!AInit, Threads
<1>2. TypeOK /\ [Next]_vars => [Abstract!ANext]_(Abstract!avars)
  BY QueueStepSimulation
<1> QED
  BY <1>1, <1>2, TypeCorrect, PTL DEF Spec, AbstractSafety, Abstract!ASafety
=============================================================================
