------------------------ MODULE FlowControllerProofs ------------------------
(***************************************************************************)
(* Proofs about the controller, for any number of workers, flows, changes, *)
(* faults and losses of leadership: two workers never reconcile the same   *)
(* flow at once (ExclusiveInv), and a flow with nothing left to do is      *)
(* deployed as etcd asks (FollowsInv, which builds on it).                 *)
(***************************************************************************)
EXTENDS FlowController, FiniteSetTheorems, TLAPS

QueueType ==
    [order : Seq(Flows), dirty : SUBSET Flows, processing : SUBSET Flows,
     delayed : SUBSET Flows, shut : BOOLEAN]

\* No key is ready twice, and none that is ready has been taken: a key that is
\* added while a worker has it is dirty and not ready.
QueueSound(q) ==
    /\ q \in QueueType
    /\ \A i, j \in 1 .. Len(q.order) : q.order[i] = q.order[j] => i = j
    /\ \A i \in 1 .. Len(q.order) : q.order[i] \in q.dirty \ q.processing

\* Names that are on their way to the queue are flow names.
NamesOk == pending \in Seq(Event) /\ out \in Seq(Flows)

\* A busy worker has a name, and the names that workers have are being processed.
HeldOk ==
    /\ wpc \in [Workers -> Steps]
    /\ wname \in [Workers -> Flows \cup {None}]
    /\ \A w \in Workers :
          /\ wpc[w] # "idle" => wname[w] # None
          /\ wname[w] # None => wname[w] \in wq.processing

\* The inductive invariant.
ExclusiveInv == QueueSound(wq) /\ NamesOk /\ HeldOk /\ OneWorkerPerFlow

-----------------------------------------------------------------------------
(* What the work queue's operations preserve. *)

\* A key that is not ready becomes ready: dirty, not taken, and once in the order.
LEMMA AppendSound ==
    ASSUME NEW q, QueueSound(q), NEW p \in QueueType,
           NEW k \in p.dirty \ p.processing,
           \A i \in 1 .. Len(q.order) : q.order[i] # k,
           p.order = Append(q.order, k),
           q.dirty \subseteq p.dirty, p.processing \subseteq q.processing
    PROVE  QueueSound(p)
<1>1. q.order \in Seq(Flows) /\ k \in Flows
  BY DEF QueueSound, QueueType
<1>2. Len(p.order) = Len(q.order) + 1 /\ Len(q.order) \in Nat
  BY <1>1
<1>3. \A i \in 1 .. Len(p.order) :
         p.order[i] = IF i <= Len(q.order) THEN q.order[i] ELSE k
  BY <1>1, <1>2
<1>4. \A i, j \in 1 .. Len(p.order) : p.order[i] = p.order[j] => i = j
  BY <1>2, <1>3 DEF QueueSound
<1>5. \A i \in 1 .. Len(p.order) : p.order[i] \in p.dirty \ p.processing
  BY <1>2, <1>3 DEF QueueSound
<1> QED
  BY <1>4, <1>5 DEF QueueSound

\* Add neither makes a taken key ready nor a ready one ready twice, and leaves
\* the keys that are being processed alone.
LEMMA AddSound ==
    ASSUME NEW q, QueueSound(q), NEW k \in Flows
    PROVE  QueueSound(Add(q, k)) /\ Add(q, k).processing = q.processing
<1> USE DEF QueueType
<1>1. CASE q.shut \/ k \in q.dirty
  BY <1>1 DEF Add
<1>2. CASE ~q.shut /\ k \notin q.dirty /\ k \in q.processing
  <2> DEFINE p == [q EXCEPT !.dirty = @ \cup {k}, !.order = @]
  <2>1. p \in QueueType /\ p.order = q.order /\ p.dirty = q.dirty \cup {k}
        /\ p.processing = q.processing
    BY DEF QueueSound
  <2>2. Add(q, k) = p
    BY <1>2 DEF Add
  <2>3. QueueSound(p)
    BY <2>1 DEF QueueSound
  <2> QED
    BY <2>1, <2>2, <2>3
<1>3. CASE ~q.shut /\ k \notin q.dirty /\ k \notin q.processing
  <2> DEFINE p == [q EXCEPT !.dirty = @ \cup {k}, !.order = Append(@, k)]
  <2>0. q \in QueueType /\ Append(q.order, k) \in Seq(Flows)
    BY DEF QueueSound
  <2>1. p \in QueueType /\ p.order = Append(q.order, k) /\ p.dirty = q.dirty \cup {k}
        /\ p.processing = q.processing
    BY <2>0
  <2>2. Add(q, k) = p
    BY <1>3 DEF Add
  <2>3. \A i \in 1 .. Len(q.order) : q.order[i] # k
    BY <1>3 DEF QueueSound
  <2> HIDE DEF p
  <2>4. QueueSound(p)
    BY <1>3, <2>1, <2>3, AppendSound
  <2> QED
    BY <2>1, <2>2, <2>4
<1> QED
  BY <1>1, <1>2, <1>3

\* Get hands out a key that no worker has.
LEMMA TakeSound ==
    ASSUME NEW q, QueueSound(q), Ready(q)
    PROVE  /\ QueueSound(Take(q))
           /\ Head(q.order) \in Flows \ q.processing
           /\ Take(q).processing = q.processing \cup {Head(q.order)}
<1> DEFINE k == Head(q.order)
           p == Take(q)
<1>1. q.order \in Seq(Flows) /\ q.order # <<>> /\ q \in QueueType
  BY DEF Ready, QueueSound, QueueType
<1>2. k = q.order[1] /\ k \in Flows /\ 1 \in 1 .. Len(q.order)
  BY <1>1
<1>3. /\ p \in QueueType /\ p.order = Tail(q.order) /\ p.dirty = q.dirty \ {k}
      /\ p.processing = q.processing \cup {k}
  <2>1. Tail(q.order) \in Seq(Flows)
    BY <1>1
  <2> QED
    BY <1>1, <1>2, <2>1 DEF Take, QueueType
<1>4. \A i \in 1 .. Len(p.order) :
         i + 1 \in 1 .. Len(q.order) /\ p.order[i] = q.order[i + 1] /\ i + 1 # 1
  <2>1. Len(Tail(q.order)) = Len(q.order) - 1 /\ Len(q.order) \in Nat
    BY <1>1
  <2>2. \A i \in 1 .. Len(Tail(q.order)) : Tail(q.order)[i] = q.order[i + 1]
    BY <1>1
  <2> QED
    BY <1>3, <2>1, <2>2
<1> HIDE DEF p, k
<1>5. \A i, j \in 1 .. Len(p.order) : p.order[i] = p.order[j] => i = j
  <2> SUFFICES ASSUME NEW i \in 1 .. Len(p.order), NEW j \in 1 .. Len(p.order),
                      p.order[i] = p.order[j]
               PROVE  i = j
    OBVIOUS
  <2>1. q.order[i + 1] = q.order[j + 1]
        /\ i + 1 \in 1 .. Len(q.order) /\ j + 1 \in 1 .. Len(q.order)
    BY <1>4
  <2>2. i + 1 = j + 1
    BY <2>1 DEF QueueSound
  <2> QED
    BY <2>2
<1>6. \A i \in 1 .. Len(p.order) : p.order[i] # k
  BY <1>2, <1>4 DEF QueueSound
<1>7. \A i \in 1 .. Len(p.order) : p.order[i] \in p.dirty \ p.processing
  BY <1>3, <1>4, <1>6 DEF QueueSound
<1>8. k \notin q.processing
  BY <1>2 DEF QueueSound
<1> QED
  BY <1>2, <1>3, <1>5, <1>7, <1>8 DEF QueueSound, p, k

\* Done makes a key ready that was added meanwhile.
LEMMA DoneSound ==
    ASSUME NEW q, QueueSound(q), NEW k \in q.processing
    PROVE  QueueSound(Done(q, k)) /\ Done(q, k).processing = q.processing \ {k}
<1> USE DEF QueueType
<1>1. k \in Flows
  BY DEF QueueSound
<1>2. CASE k \in q.dirty
  <2> DEFINE p == [q EXCEPT !.processing = @ \ {k}, !.order = Append(@, k)]
  <2>0. q \in QueueType /\ Append(q.order, k) \in Seq(Flows)
    BY <1>1 DEF QueueSound
  <2>1. p \in QueueType /\ p.order = Append(q.order, k) /\ p.dirty = q.dirty
        /\ p.processing = q.processing \ {k}
    BY <2>0
  <2>2. Done(q, k) = p
    BY <1>2 DEF Done
  <2>3. \A i \in 1 .. Len(q.order) : q.order[i] # k
    BY DEF QueueSound
  <2> HIDE DEF p
  <2>4. QueueSound(p)
    BY <1>2, <2>1, <2>3, AppendSound
  <2> QED
    BY <2>1, <2>2, <2>4
<1>3. CASE k \notin q.dirty
  <2> DEFINE p == [q EXCEPT !.processing = @ \ {k}, !.order = @]
  <2>1. p \in QueueType /\ p.order = q.order /\ p.dirty = q.dirty
        /\ p.processing = q.processing \ {k}
    BY DEF QueueSound
  <2>2. Done(q, k) = p
    BY <1>3 DEF Done
  <2>3. QueueSound(p)
    BY <2>1 DEF QueueSound
  <2> QED
    BY <2>1, <2>2, <2>3
<1> QED
  BY <1>2, <1>3

\* Retry delays the key and is Done with it.
LEMMA RetrySound ==
    ASSUME NEW q, QueueSound(q), NEW k \in q.processing
    PROVE  QueueSound(Retry(q, k)) /\ Retry(q, k).processing = q.processing \ {k}
<1> DEFINE d == IF q.shut THEN q ELSE [q EXCEPT !.delayed = @ \cup {k}]
<1>1. QueueSound(d) /\ d.processing = q.processing
  BY DEF QueueSound, QueueType
<1>2. QueueSound(Done(d, k)) /\ Done(d, k).processing = d.processing \ {k}
  BY <1>1, DoneSound
<1> QED
  BY <1>1, <1>2 DEF Retry

\* The end of a back-off is an Add.
LEMMA FireSound ==
    ASSUME NEW q, QueueSound(q), NEW k \in Flows
    PROVE  QueueSound(Fire(q, k)) /\ Fire(q, k).processing = q.processing
<1> DEFINE d == [q EXCEPT !.delayed = @ \ {k}]
<1>1. QueueSound(d) /\ d.processing = q.processing
  BY DEF QueueSound, QueueType
<1> QED
  BY <1>1, AddSound DEF Fire

\* Shutdown drops the delayed keys only.
LEMMA ShutdownSound ==
    ASSUME NEW q, QueueSound(q)
    PROVE  QueueSound(Shutdown(q)) /\ Shutdown(q).processing = q.processing
  BY DEF Shutdown, QueueSound, QueueType
-----------------------------------------------------------------------------
(* Initially, and in every step. *)

\* The empty queue and idle workers satisfy the invariant.
LEMMA InitExclusive == Init => ExclusiveInv
<1> SUFFICES ASSUME Init PROVE ExclusiveInv
  OBVIOUS
<1>1. QueueSound(wq)
  BY DEF Init, NewQueue, QueueSound, QueueType
<1>2. NamesOk
  BY DEF Init, NamesOk
<1>3. HeldOk /\ OneWorkerPerFlow
  BY DEF Init, HeldOk, Steps, OneWorkerPerFlow
<1> QED
  BY <1>1, <1>2, <1>3 DEF ExclusiveInv

\* A step that changes the queue without touching what is being processed, and
\* no worker, keeps the workers apart.
LEMMA QueueOnly ==
    ASSUME ExclusiveInv, QueueSound(wq'), wq'.processing = wq.processing, NamesOk',
           UNCHANGED <<wpc, wname>>
    PROVE  ExclusiveInv'
<1>1. HeldOk' /\ OneWorkerPerFlow'
  BY DEF ExclusiveInv, HeldOk, OneWorkerPerFlow
<1> QED
  BY <1>1 DEF ExclusiveInv

\* A worker that goes on with the name it has keeps the workers apart.
LEMMA GoesOn ==
    ASSUME ExclusiveInv, NEW w \in Workers, wpc[w] # "idle", NEW step \in Steps,
           Goto(w, step), UNCHANGED <<wq, wname, pending, out>>
    PROVE  ExclusiveInv'
<1>1. wpc' = [wpc EXCEPT ![w] = step]
  BY DEF Goto
<1>2. HeldOk'
  BY <1>1 DEF ExclusiveInv, HeldOk
<1>3. QueueSound(wq)' /\ NamesOk' /\ OneWorkerPerFlow'
  BY DEF ExclusiveInv, NamesOk, OneWorkerPerFlow, QueueSound, QueueType
<1> QED
  BY <1>2, <1>3 DEF ExclusiveInv

\* A worker that gives its name back keeps the workers apart: nobody else has it.
LEMMA GivesBack ==
    ASSUME ExclusiveInv, NEW w \in Workers, NEW q, Finish(w, q), QueueSound(q),
           q.processing = wq.processing \ {wname[w]}, UNCHANGED <<pending, out>>
    PROVE  ExclusiveInv'
<1>1. /\ wq' = q /\ wpc' = [wpc EXCEPT ![w] = "idle"]
      /\ wname' = [wname EXCEPT ![w] = None]
  BY DEF Finish, Goto
<1>2. HeldOk'
  <2>1. /\ wpc' \in [Workers -> Steps] /\ wname' \in [Workers -> Flows \cup {None}]
    BY <1>1 DEF ExclusiveInv, HeldOk, Steps
  <2>2. ASSUME NEW v \in Workers
        PROVE  /\ wpc'[v] # "idle" => wname'[v] # None
               /\ wname'[v] # None => wname'[v] \in q.processing
    BY <1>1 DEF ExclusiveInv, HeldOk, OneWorkerPerFlow
  <2> QED
    BY <1>1, <2>1, <2>2 DEF HeldOk
<1>3. OneWorkerPerFlow'
  BY <1>1 DEF ExclusiveInv, HeldOk, OneWorkerPerFlow
<1>4. QueueSound(wq)' /\ NamesOk'
  BY <1>1 DEF ExclusiveInv, NamesOk, QueueSound, QueueType
<1> QED
  BY <1>2, <1>3, <1>4 DEF ExclusiveInv

\* A busy worker's name is being processed, so Forget and Retry are sound.
LEMMA BusyHolds ==
    ASSUME ExclusiveInv, NEW w \in Workers, wpc[w] # "idle"
    PROVE  /\ wname[w] \in wq.processing /\ wname[w] \in Flows
           /\ QueueSound(Forget(wq, wname[w]))
           /\ Forget(wq, wname[w]).processing = wq.processing \ {wname[w]}
           /\ QueueSound(Retry(wq, wname[w]))
           /\ Retry(wq, wname[w]).processing = wq.processing \ {wname[w]}
<1>1. QueueSound(wq)
  BY DEF ExclusiveInv
<1>2. wname[w] \in wq.processing /\ wname[w] \in Flows
  BY DEF ExclusiveInv, HeldOk
<1> QED
  BY <1>1, <1>2, DoneSound, RetrySound DEF Forget

\* Every step of the specification preserves the invariant.
LEMMA NextExclusive == ExclusiveInv /\ [Next]_vars => ExclusiveInv'
<1> SUFFICES ASSUME ExclusiveInv, [Next]_vars PROVE ExclusiveInv'
  OBVIOUS
<1>0. QueueSound(wq) /\ NamesOk
  BY DEF ExclusiveInv
<1>1. ASSUME UNCHANGED wq, UNCHANGED <<wpc, wname>>, NamesOk' PROVE ExclusiveInv'
  BY <1>1, <1>0, QueueOnly DEF QueueSound, QueueType
<1>2. CASE ApiCall
  <2>1. PICK f \in Flows, d \in BOOLEAN : Changed(f, d)
    BY <1>2 DEF ApiCall, Submit, Rollback, Delete
  <2>2. pending' = Append(pending, [name |-> f, deleted |-> d]) \/ UNCHANGED pending
    BY <2>1 DEF Changed
  <2>3. [name |-> f, deleted |-> d] \in Event
    BY DEF Event
  <2>4. UNCHANGED <<out, wq, wpc, wname>>
    BY <2>1 DEF Changed, workVars
  <2>5. NamesOk'
    BY <1>0, <2>2, <2>3, <2>4 DEF NamesOk
  <2> QED
    BY <1>1, <2>4, <2>5
<1>3. CASE Starting
  <2>1. UNCHANGED <<pending, out, wpc, wname>>
    BY <1>3 DEF Starting, List, Seeded, OpenWatch, Seed, SeedSkips, workVars
  <2>2. UNCHANGED wq \/ \E f \in Flows : wq' = Add(wq, f)
    BY <1>3 DEF Starting, List, Seeded, OpenWatch, Seed, SeedSkips
  <2>3. NamesOk'
    BY <1>0, <2>1 DEF NamesOk
  <2> QED
    BY <1>0, <1>1, <2>1, <2>2, <2>3, AddSound, QueueOnly
<1>4. CASE HandleEvent \/ DropEvent \/ WatchEnds
  <2>1. UNCHANGED <<wq, wpc, wname>>
    BY <1>4 DEF HandleEvent, DropEvent, WatchEnds, workVars
  <2>2. NamesOk'
    <3>1. CASE HandleEvent
      <4>1. Head(pending) \in Event /\ Tail(pending) \in Seq(Event)
        BY <1>0, <3>1 DEF HandleEvent, NamesOk
      <4> QED
        BY <1>0, <3>1, <4>1 DEF HandleEvent, NamesOk, Event
    <3>2. CASE DropEvent
      BY <1>0, <3>2 DEF DropEvent, NamesOk
    <3>3. CASE WatchEnds
      <4>1. PICK n \in 0 .. Len(pending) : pending' = SubSeq(pending, 1, n)
        BY <3>3 DEF WatchEnds
      <4>2. SubSeq(pending, 1, n) \in Seq(Event)
        BY <1>0 DEF NamesOk
      <4> QED
        BY <1>0, <3>3, <4>1, <4>2 DEF WatchEnds, NamesOk
    <3> QED
      BY <1>4, <3>1, <3>2, <3>3
  <2> QED
    BY <1>1, <2>1, <2>2
<1>5. CASE EnqueueEvent
  <2>1. Head(out) \in Flows /\ wq' = Add(wq, Head(out)) /\ UNCHANGED <<wpc, wname>>
    BY <1>0, <1>5 DEF EnqueueEvent, NamesOk, workVars
  <2>2. NamesOk'
    BY <1>0, <1>5 DEF EnqueueEvent, NamesOk
  <2> QED
    BY <1>0, <2>1, <2>2, AddSound, QueueOnly
<1>6. ASSUME NEW w \in Workers, Get(w) PROVE ExclusiveInv'
  <2> DEFINE k == Head(wq.order)
  <2>1. /\ wname' = [wname EXCEPT ![w] = k] /\ wq' = Take(wq)
        /\ wpc' = [wpc EXCEPT ![w] = "getActive"] /\ UNCHANGED <<pending, out>>
    BY <1>6 DEF Get, Goto, runVars
  <2>2. /\ QueueSound(Take(wq)) /\ k \in Flows \ wq.processing
        /\ Take(wq).processing = wq.processing \cup {k}
    BY <1>0, <1>6, TakeSound DEF Get
  <2> HIDE DEF k
  <2>3. HeldOk'
    <3>1. wpc' \in [Workers -> Steps] /\ wname' \in [Workers -> Flows \cup {None}]
      BY <2>1, <2>2 DEF ExclusiveInv, HeldOk, Steps
    <3>2. ASSUME NEW v \in Workers
          PROVE  /\ wpc'[v] # "idle" => wname'[v] # None
                 /\ wname'[v] # None => wname'[v] \in Take(wq).processing
      BY <2>1, <2>2, ControllerAssumption DEF ExclusiveInv, HeldOk
    <3> QED
      BY <2>1, <3>1, <3>2 DEF HeldOk
  <2>4. OneWorkerPerFlow'
    BY <2>1, <2>2 DEF ExclusiveInv, HeldOk, OneWorkerPerFlow
  <2>5. QueueSound(wq)' /\ NamesOk'
    BY <1>0, <2>1, <2>2 DEF NamesOk, QueueSound, QueueType
  <2> QED
    BY <2>3, <2>4, <2>5 DEF ExclusiveInv
<1>7. ASSUME NEW w \in Workers, Reconcile(w) \/ Fail(w) PROVE ExclusiveInv'
  <2> USE DEF runVars
  <2>0. wpc[w] # "idle"
    BY <1>7 DEF Reconcile, GetActive, GetSpec, DeleteResources, DeleteSome,
                ApplyConfigMap, ApplyWorkload, UpdateStatus, Abandon, Fail
  <2>1. CASE GetActive(w) \/ GetSpec(w) \/ ApplyConfigMap(w) \/ ApplyWorkload(w)
    <3>1. UNCHANGED <<wq, wname, pending, out>>
      BY <2>1 DEF GetActive, GetSpec, ApplyConfigMap, ApplyWorkload
    <3>2. \E step \in Steps : Goto(w, step)
      BY <2>1 DEF GetActive, GetSpec, ApplyConfigMap, ApplyWorkload, Steps
    <3> QED
      BY <2>0, <3>1, <3>2, GoesOn
  <2>2. CASE DeleteResources(w) \/ UpdateStatus(w)
    BY <2>0, <2>2, BusyHolds, GivesBack DEF DeleteResources, UpdateStatus
  <2>3. CASE DeleteSome(w) \/ Fail(w) \/ Abandon(w)
    BY <2>0, <2>3, BusyHolds, GivesBack DEF DeleteSome, Fail, Abandon
  <2> QED
    BY <1>7, <2>1, <2>2, <2>3 DEF Reconcile
<1>8. ASSUME NEW w \in Workers, LastGet(w) PROVE ExclusiveInv'
  <2> DEFINE k == Head(wq.order)
  <2>1. /\ wq' = Retry(Take(wq), k)
        /\ UNCHANGED <<pending, out, wpc, wname>>
    BY <1>8 DEF LastGet, runVars, workVars
  <2>2. /\ QueueSound(Take(wq)) /\ k \in Flows \ wq.processing
        /\ Take(wq).processing = wq.processing \cup {k}
    BY <1>0, <1>8, TakeSound DEF LastGet
  <2> HIDE DEF k
  <2>3. QueueSound(wq') /\ wq'.processing = wq.processing
    <3>1. k \in Take(wq).processing
      BY <2>2
    <3>2. /\ QueueSound(Retry(Take(wq), k))
          /\ Retry(Take(wq), k).processing = Take(wq).processing \ {k}
      BY <2>2, <3>1, RetrySound
    <3> QED
      BY <2>1, <2>2, <3>2
  <2>4. NamesOk'
    BY <1>0, <2>1 DEF NamesOk
  <2> QED
    BY <2>1, <2>3, <2>4, QueueOnly
<1>9. ASSUME NEW f \in Flows, BackOffEnds(f) PROVE ExclusiveInv'
  <2>1. wq' = Fire(wq, f) /\ UNCHANGED <<pending, out, wpc, wname>>
    BY <1>9 DEF BackOffEnds, runVars, workVars
  <2>2. NamesOk'
    BY <1>0, <2>1 DEF NamesOk
  <2> QED
    BY <1>0, <2>1, <2>2, FireSound, QueueOnly
<1>10. CASE Crash
  <2>1. /\ wq' = NewQueue /\ wpc' = [w \in Workers |-> "idle"]
        /\ wname' = [w \in Workers |-> None] /\ pending' = <<>> /\ out' = <<>>
    BY <1>10 DEF Crash
  <2>2. QueueSound(wq)'
    BY <2>1 DEF NewQueue, QueueSound, QueueType
  <2>3. NamesOk'
    BY <2>1 DEF NamesOk
  <2>4. HeldOk' /\ OneWorkerPerFlow'
    BY <2>1 DEF HeldOk, Steps, OneWorkerPerFlow
  <2> QED
    BY <2>2, <2>3, <2>4 DEF ExclusiveInv
<1>11. CASE LoseLease
  <2>1. /\ wq' = Shutdown(wq) /\ UNCHANGED <<wpc, wname>>
        /\ pending' = <<>> /\ out' = <<>>
    BY <1>11 DEF LoseLease, workVars
  <2>2. NamesOk'
    BY <2>1 DEF NamesOk
  <2>3. QueueSound(wq') /\ wq'.processing = wq.processing
    BY <1>0, <2>1, ShutdownSound
  <2> QED
    BY <2>1, <2>2, <2>3, QueueOnly
<1>12. CASE RegainLease \/ UNCHANGED vars
  <2>1. UNCHANGED <<wq, wpc, wname, pending, out>>
    BY <1>12 DEF RegainLease, vars, workVars
  <2>2. NamesOk'
    BY <1>0, <2>1 DEF NamesOk
  <2> QED
    BY <1>1, <2>1, <2>2
<1> QED
  BY <1>2, <1>3, <1>4, <1>5, <1>6, <1>7, <1>8, <1>9, <1>10, <1>11, <1>12 DEF Next

(***************************************************************************)
(* However changes, retries, crashes and losses of leadership interleave,  *)
(* no two workers reconcile the same flow at once: ensureRuntime's         *)
(* get-then-create-or-update and the deletes never race each other.        *)
(***************************************************************************)
THEOREM ExclusiveWorkers == Spec => []OneWorkerPerFlow
<1>1. ExclusiveInv => OneWorkerPerFlow
  BY DEF ExclusiveInv
<1> QED
  BY <1>1, InitExclusive, NextExclusive, PTL DEF Spec
-----------------------------------------------------------------------------
(* What the controller knows of a flow it has nothing left to hear about. *)

\* etcd: versions are numbered by the changes made, and the active one is there.
EtcdOk ==
    /\ active \in [Flows -> 0 .. MaxChanges]
    /\ spec \in [Flows -> [Versions -> Specs \cup {None}]]
    /\ status \in [Flows -> 0 .. MaxChanges]
    /\ changes \in 0 .. MaxChanges
    /\ \A f \in Flows :
          /\ active[f] <= changes
          /\ active[f] # 0 => spec[f][active[f]] # None
          /\ \A v \in Versions : spec[f][v] # None => v <= changes

KubeOk ==
    /\ config \in [Flows -> 0 .. MaxChanges]
    /\ cluster \in [Flows -> [Kinds -> 0 .. MaxChanges]]

\* The controller lists before it watches.  A listed flow was listed with the
\* version that is still active, or its change went unnoticed.
RunOk ==
    /\ ctl \in {"list", "seed", "run", "lost"}
    /\ watch \in {"off", "open", "ended"}
    /\ ctl # "run" => watch = "off"
    /\ ctl = "lost" => wq.shut
    /\ listed \in [Flows -> 0 .. MaxChanges]
    /\ \A f \in Flows :
          listed[f] # 0 => ctl = "seed" /\ (f \in missed \/ listed[f] = active[f])
    /\ Len(out) <= Buffer
    /\ missed \subseteq Flows

\* A worker that reads or applies a spec has what it needs; an idle one has no name.
WorkOk ==
    /\ wver \in [Workers -> 0 .. MaxChanges]
    /\ wspec \in [Workers -> Specs \cup {None}]
    /\ \A w \in Workers :
          /\ wname[w] # None => wpc[w] # "idle"
          /\ wpc[w] = "getSpec" => wver[w] # 0
          /\ wpc[w] \in {"config", "workload", "status"} => wspec[w] # None

FaultsOk == faults \in 0 .. MaxFaults /\ losses \in 0 .. MaxLosses

\* Every change of f that the controller was told of has been taken up.
Quiet(f) == f \notin missed \cup ToSeed \cup Announced \cup Owes(wq)

\* What w has read of a quiet flow is what is there, and what it has applied is
\* what it has read.
Fresh(w, f) ==
    LET s == spec[f][active[f]]
    IN  /\ wpc[w] = "getSpec" => active[f] # 0 /\ wver[w] = active[f]
        /\ wpc[w] = "delete" => active[f] = 0
        /\ wpc[w] \in {"config", "workload", "status"} =>
              active[f] # 0 /\ wver[w] = active[f] /\ wspec[w] = s
        /\ wpc[w] \in {"workload", "status"} => config[f] = s.rev
        /\ wpc[w] = "status" =>
              cluster[f][s.kind] = s.rev \/ (s.kind = Job /\ cluster[f][Job] # 0)

\* A quiet flow is deployed, or a worker that has read its last change has it.
FollowsOk(f) ==
    Quiet(f) => /\ f \notin Held => Deployed(f)
                /\ \A w \in Workers : wname[w] = f => Fresh(w, f)

\* The inductive invariant of SettledIsDeployed.
FollowsInv ==
    /\ EtcdOk /\ KubeOk /\ RunOk /\ WorkOk /\ FaultsOk
    /\ ~wq.shut => \A f \in Flows : FollowsOk(f)

-----------------------------------------------------------------------------
(* What the work queue owes after each of its operations. *)

\* Add: the key, unless the queue is shut.
LEMMA AddOwes ==
    ASSUME NEW q, QueueSound(q), NEW k \in Flows
    PROVE  /\ Add(q, k).shut = q.shut
           /\ ~q.shut => Owes(Add(q, k)) = Owes(q) \cup {k}
<1> USE DEF QueueType
<1>1. CASE q.shut \/ k \in q.dirty
  BY <1>1 DEF Add, Owes
<1>2. CASE ~q.shut /\ k \notin q.dirty
  <2>1. PICK o : o = IF k \in q.processing THEN q.order ELSE Append(q.order, k)
    OBVIOUS
  <2>2. Add(q, k) = [q EXCEPT !.dirty = @ \cup {k}, !.order = o]
    BY <1>2, <2>1 DEF Add
  <2> QED
    BY <2>2 DEF QueueSound, Owes
<1> QED
  BY <1>1, <1>2

\* Get: all but the key it hands out.
LEMMA TakeOwes ==
    ASSUME NEW q, QueueSound(q), Ready(q)
    PROVE  /\ Take(q).shut = q.shut
           /\ Owes(q) \subseteq Owes(Take(q)) \cup {Head(q.order)}
<1>1. PICK k, t : k = Head(q.order) /\ t = Tail(q.order)
  OBVIOUS
<1>2. Take(q) = [q EXCEPT !.order = t, !.dirty = @ \ {k}, !.processing = @ \cup {k}]
  BY <1>1 DEF Take
<1> QED
  BY <1>1, <1>2 DEF QueueSound, QueueType, Owes

\* Done: what it did before.
LEMMA DoneOwes ==
    ASSUME NEW q, QueueSound(q), NEW k
    PROVE  Done(q, k).shut = q.shut /\ Owes(Done(q, k)) = Owes(q)
<1>1. PICK o : o = IF k \in q.dirty THEN Append(q.order, k) ELSE q.order
  OBVIOUS
<1>2. Done(q, k) = [q EXCEPT !.processing = @ \ {k}, !.order = o]
  BY <1>1 DEF Done
<1> QED
  BY <1>2 DEF QueueSound, QueueType, Owes

\* Retry: the key, too, unless the queue is shut.
LEMMA RetryOwes ==
    ASSUME NEW q, QueueSound(q), NEW k \in Flows
    PROVE  /\ Retry(q, k).shut = q.shut
           /\ ~q.shut => Owes(Retry(q, k)) = Owes(q) \cup {k}
<1> DEFINE d == IF q.shut THEN q ELSE [q EXCEPT !.delayed = @ \cup {k}]
<1>1. QueueSound(d) /\ d.shut = q.shut /\ (~q.shut => Owes(d) = Owes(q) \cup {k})
  BY DEF QueueSound, QueueType, Owes
<1>2. Retry(q, k) = Done(d, k)
  BY DEF Retry
<1> HIDE DEF d
<1> QED
  BY <1>1, <1>2, DoneOwes

\* The end of a back-off: no less than before.
LEMMA FireOwes ==
    ASSUME NEW q, QueueSound(q), NEW k \in Flows
    PROVE  Fire(q, k).shut = q.shut /\ (~q.shut => Owes(q) \subseteq Owes(Fire(q, k)))
<1> DEFINE d == [q EXCEPT !.delayed = @ \ {k}]
<1>1. QueueSound(d) /\ d.shut = q.shut /\ Owes(q) \subseteq Owes(d) \cup {k}
  BY DEF QueueSound, QueueType, Owes
<1>2. Fire(q, k) = Add(d, k)
  BY DEF Fire
<1> HIDE DEF d
<1> QED
  BY <1>1, <1>2, AddOwes

\* A queue without duplicates has no more keys ready than there are flows.
LEMMA OrderFits ==
    ASSUME NEW q, QueueSound(q)
    PROVE  Len(q.order) <= Cardinality(Flows)
<1>1. PICK o \in Seq(Flows) : o = q.order
  BY DEF QueueSound, QueueType
<1>2. PICK n \in Nat : n = Len(o)
  OBVIOUS
<1>3. o \in Injection(1 .. n, Flows)
  <2>1. o \in [1 .. n -> Flows]
    BY <1>2
  <2>2. \A i, j \in 1 .. n : o[i] = o[j] => i = j
    BY <1>1, <1>2 DEF QueueSound
  <2> QED
    BY <2>1, <2>2 DEF Injection, IsInjective
<1>4. Cardinality(1 .. n) <= Cardinality(Flows)
  BY <1>3, FS_Injection, ControllerAssumption DEF ExistsInjection
<1>5. Cardinality(1 .. n) = n
  BY FS_Interval
<1> QED
  BY <1>1, <1>2, <1>4, <1>5

-----------------------------------------------------------------------------
(* Types and numbering. *)

\* Initially nothing exists, so every flow is deployed.
LEMMA InitFollows == Init => FollowsInv
<1> SUFFICES ASSUME Init PROVE FollowsInv
  OBVIOUS
<1> USE ControllerAssumption
<1>1. EtcdOk
  BY DEF Init, EtcdOk, Versions
<1>2. KubeOk /\ FaultsOk
  BY DEF Init, KubeOk, FaultsOk
<1>3. RunOk
  BY DEF Init, RunOk
<1>4. WorkOk
  BY DEF Init, WorkOk
<1>5. ASSUME NEW f \in Flows PROVE FollowsOk(f)
  <2>1. active[f] = 0 /\ config[f] = 0 /\ \A k \in Kinds : cluster[f][k] = 0
    BY DEF Init
  <2>2. Deployed(f)
    BY <2>1 DEF Deployed, Wanted
  <2>3. \A w \in Workers : wname[w] # f
    BY DEF Init
  <2> QED
    BY <2>2, <2>3 DEF FollowsOk
<1> QED
  BY <1>1, <1>2, <1>3, <1>4, <1>5 DEF FollowsInv

\* An API call numbers a new version by the next change, and changes one flow.
LEMMA ApiCallTypes ==
    ASSUME EtcdOk, NEW g \in Flows,
           \/ \E k \in Kinds : Submit(g, k)
           \/ \E v \in Versions : Rollback(g, v)
           \/ Delete(g)
    PROVE  /\ EtcdOk'
           /\ \A f \in Flows \ {g} :
                 active'[f] = active[f] /\ spec'[f] = spec[f] /\ status'[f] = status[f]
<1> USE ControllerAssumption
<1>1. changes < MaxChanges /\ changes' = changes + 1 /\ changes \in 0 .. MaxChanges
  BY DEF Submit, Rollback, Delete, Changed, EtcdOk
<1>2. ASSUME NEW k \in Kinds, Submit(g, k)
      PROVE  /\ EtcdOk'
             /\ \A f \in Flows \ {g} :
                   active'[f] = active[f] /\ spec'[f] = spec[f] /\ status'[f] = status[f]
  <2>1. PICK v : v = active[g] + 1
    OBVIOUS
  <2>2. PICK s : s = [kind |-> k, rev |-> changes + 1]
    OBVIOUS
  <2>3. s \in Specs /\ s # None
    BY <1>1, <2>2 DEF Specs
  <2>4. v \in Versions /\ v <= changes + 1
    BY <1>1, <2>1 DEF EtcdOk, Versions
  <2>5. /\ active' = [active EXCEPT ![g] = v]
        /\ spec' = [spec EXCEPT ![g] = [spec[g] EXCEPT ![v] = s]]
        /\ status' = status
    BY <1>2, <2>1, <2>2 DEF Submit
  <2>6. PICK h : h = [spec[g] EXCEPT ![v] = s]
    OBVIOUS
  <2>7. /\ h \in [Versions -> Specs \cup {None}] /\ h[v] = s
        /\ \A u \in Versions : h[u] # None => u <= changes + 1
    BY <1>1, <2>3, <2>4, <2>6 DEF EtcdOk, Versions
  <2>8. spec' = [spec EXCEPT ![g] = h]
    BY <2>5, <2>6
  <2>9. \A f \in Flows :
           /\ active'[f] <= changes'
           /\ active'[f] # 0 => spec'[f][active'[f]] # None
           /\ \A u \in Versions : spec'[f][u] # None => u <= changes'
    <3> SUFFICES ASSUME NEW f \in Flows
                 PROVE  /\ active'[f] <= changes'
                        /\ active'[f] # 0 => spec'[f][active'[f]] # None
                        /\ \A u \in Versions : spec'[f][u] # None => u <= changes'
      OBVIOUS
    <3>1. CASE f = g
      BY <1>1, <2>3, <2>4, <2>5, <2>7, <2>8, <3>1 DEF EtcdOk
    <3>2. CASE f # g
      <4>1. active'[f] = active[f] /\ spec'[f] = spec[f]
        BY <2>5, <2>8, <3>2 DEF EtcdOk
      <4> QED
        BY <1>1, <4>1 DEF EtcdOk, Versions
    <3> QED
      BY <3>1, <3>2
  <2>10. active' \in [Flows -> 0 .. MaxChanges]
    BY <2>4, <2>5 DEF EtcdOk, Versions
  <2>11. spec' \in [Flows -> [Versions -> Specs \cup {None}]]
    BY <2>7, <2>8 DEF EtcdOk
  <2>12. \A f \in Flows \ {g} : active'[f] = active[f] /\ spec'[f] = spec[f]
    BY <2>5, <2>8 DEF EtcdOk
  <2> QED
    BY <1>1, <2>5, <2>9, <2>10, <2>11, <2>12 DEF EtcdOk
<1>3. ASSUME NEW v \in Versions, Rollback(g, v)
      PROVE  /\ EtcdOk'
             /\ \A f \in Flows \ {g} :
                   active'[f] = active[f] /\ spec'[f] = spec[f] /\ status'[f] = status[f]
  <2>1. /\ active' = [active EXCEPT ![g] = v] /\ spec' = spec /\ status' = status
        /\ spec[g][v] # None
    BY <1>3 DEF Rollback
  <2> QED
    BY <1>1, <2>1 DEF EtcdOk, Versions
<1>4. ASSUME Delete(g)
      PROVE  /\ EtcdOk'
             /\ \A f \in Flows \ {g} :
                   active'[f] = active[f] /\ spec'[f] = spec[f] /\ status'[f] = status[f]
  <2>1. PICK h : h = [v \in Versions |-> None]
    OBVIOUS
  <2>2. /\ active' = [active EXCEPT ![g] = 0] /\ spec' = [spec EXCEPT ![g] = h]
        /\ status' = [status EXCEPT ![g] = 0]
    BY <1>4, <2>1 DEF Delete
  <2> QED
    BY <1>1, <2>1, <2>2 DEF EtcdOk, Versions
<1> QED
  BY <1>2, <1>3, <1>4

\* Every step keeps etcd's versions numbered.
LEMMA NextEtcd ==
    ASSUME ExclusiveInv, EtcdOk, WorkOk, [Next]_vars
    PROVE  EtcdOk'
<1>1. CASE UNCHANGED <<active, spec, status, changes>>
  BY <1>1 DEF EtcdOk
<1>2. ASSUME NEW w \in Workers, wpc[w] # "idle", UNCHANGED <<active, spec, changes>>,
             status' = [status EXCEPT ![wname[w]] = wver[w]]
      PROVE  EtcdOk'
  <2>1. status' \in [Flows -> 0 .. MaxChanges]
    BY <1>2 DEF EtcdOk, WorkOk
  <2> QED
    BY <1>2, <2>1 DEF EtcdOk
<1>3. CASE ApiCall
  BY <1>3, ApiCallTypes DEF ApiCall
<1>4. CASE ~ApiCall
  <2> USE DEF etcdVars, boundVars, Fault, vars
  <2>1. CASE Starting \/ HandleEvent \/ DropEvent \/ EnqueueEvent \/ WatchEnds
    BY <1>1, <2>1 DEF Starting, List, Seeded, OpenWatch, Seed, SeedSkips, HandleEvent,
                      DropEvent, EnqueueEvent, WatchEnds
  <2>2. ASSUME NEW w \in Workers, Get(w) \/ Reconcile(w) \/ Fail(w) \/ LastGet(w)
        PROVE  EtcdOk'
    BY <1>1, <1>2, <2>2 DEF Get, Reconcile, Fail, LastGet, GetActive, GetSpec,
             DeleteResources, DeleteSome, ApplyConfigMap, ApplyWorkload, UpdateStatus, Abandon
  <2>3. CASE (\E f \in Flows : BackOffEnds(f)) \/ Crash \/ LoseLease \/ RegainLease
             \/ UNCHANGED vars
    BY <1>1, <2>3 DEF BackOffEnds, Crash, LoseLease, RegainLease
  <2> QED
    BY <1>4, <2>1, <2>2, <2>3 DEF Next
<1> QED
  BY <1>3, <1>4

\* The cluster has revisions of specs that were read, or nothing.
LEMMA NextKube ==
    ASSUME ExclusiveInv, KubeOk, WorkOk, [Next]_vars
    PROVE  KubeOk'
<1> USE ControllerAssumption
<1>1. CASE UNCHANGED <<config, cluster>>
  BY <1>1 DEF KubeOk
<1>2. ASSUME NEW w \in Workers, DeleteResources(w) PROVE KubeOk'
  <2>1. PICK h : h = [k \in Kinds |-> 0]
    OBVIOUS
  <2>2. h \in [Kinds -> 0 .. MaxChanges]
    BY <2>1
  <2>3. /\ cluster' = [cluster EXCEPT ![wname[w]] = h]
        /\ config' = [config EXCEPT ![wname[w]] = 0]
    BY <1>2, <2>1 DEF DeleteResources
  <2>4. config' \in [Flows -> 0 .. MaxChanges]
    <3>0. PICK n \in 0 .. MaxChanges : n = 0
      OBVIOUS
    <3>1. PICK g : g = wname[w]
      OBVIOUS
    <3>2. config' = [config EXCEPT ![g] = n]
      BY <2>3, <3>0, <3>1
    <3> QED
      BY <3>2 DEF KubeOk
  <2>5. cluster' \in [Flows -> [Kinds -> 0 .. MaxChanges]]
    BY <2>2, <2>3 DEF KubeOk
  <2> QED
    BY <2>4, <2>5 DEF KubeOk
<1>3. ASSUME NEW w \in Workers, DeleteSome(w) PROVE KubeOk'
  <2>0. wname[w] \in Flows
    BY <1>3, BusyHolds DEF DeleteSome
  <2>1. PICK gone \in SUBSET Kinds, c \in {0, config[wname[w]]} :
           /\ cluster' = [cluster EXCEPT ![wname[w]] =
                             [k \in Kinds |-> IF k \in gone THEN 0 ELSE @[k]]]
           /\ config' = [config EXCEPT ![wname[w]] = c]
    BY <1>3 DEF DeleteSome
  <2>2. PICK h : h = [k \in Kinds |-> IF k \in gone THEN 0 ELSE cluster[wname[w]][k]]
    OBVIOUS
  <2>3. h \in [Kinds -> 0 .. MaxChanges]
    BY <2>0, <2>2 DEF KubeOk
  <2>4. cluster' = [cluster EXCEPT ![wname[w]] = h]
    BY <2>0, <2>1, <2>2 DEF KubeOk
  <2> QED
    BY <2>0, <2>1, <2>3, <2>4 DEF KubeOk
<1>4. ASSUME NEW w \in Workers, ApplyConfigMap(w) PROVE KubeOk'
  <2>1. wspec[w] \in Specs
    BY <1>4 DEF ApplyConfigMap, WorkOk
  <2>2. wspec[w].rev \in 0 .. MaxChanges
    BY <2>1 DEF Specs
  <2> QED
    BY <1>4, <2>2 DEF ApplyConfigMap, KubeOk
<1>5. ASSUME NEW w \in Workers, ApplyWorkload(w) PROVE KubeOk'
  <2>0. wname[w] \in Flows
    BY <1>5, BusyHolds DEF ApplyWorkload
  <2>1. wspec[w] \in Specs
    BY <1>5 DEF ApplyWorkload, WorkOk
  <2>2. PICK k, r : k = wspec[w].kind /\ r = Applied(wspec[w], cluster[wname[w]][k])
    OBVIOUS
  <2>3. k \in Kinds /\ r \in 0 .. MaxChanges
    BY <2>0, <2>1, <2>2
       DEF Specs, Applied, CreateOrUpdate, CreateIfMissing, KubeOk
  <2>4. PICK h : h = [cluster[wname[w]] EXCEPT ![k] = r]
    OBVIOUS
  <2>5. cluster' = [cluster EXCEPT ![wname[w]] = h] /\ config' = config
    BY <1>5, <2>2, <2>4 DEF ApplyWorkload
  <2>6. h \in [Kinds -> 0 .. MaxChanges]
    BY <2>0, <2>3, <2>4 DEF KubeOk
  <2> QED
    BY <2>5, <2>6 DEF KubeOk
<1>6. CASE UNCHANGED vars \/ ApiCall \/ Starting \/ HandleEvent \/ DropEvent
           \/ EnqueueEvent \/ WatchEnds
  BY <1>1, <1>6 DEF kubeVars, vars, ApiCall, Submit, Rollback, Delete, Changed, Starting,
       List, Seeded, OpenWatch, Seed, SeedSkips, HandleEvent, DropEvent, EnqueueEvent,
       WatchEnds
<1>7. ASSUME NEW w \in Workers, Get(w) \/ Reconcile(w) \/ Fail(w) \/ LastGet(w)
      PROVE  KubeOk'
  BY <1>1, <1>2, <1>3, <1>4, <1>5, <1>7
     DEF Get, Reconcile, Fail, LastGet, GetActive, GetSpec, UpdateStatus, Abandon, kubeVars
<1>8. CASE (\E f \in Flows : BackOffEnds(f)) \/ Crash \/ LoseLease \/ RegainLease
  BY <1>1, <1>8 DEF BackOffEnds, Crash, LoseLease, RegainLease, kubeVars
<1> QED
  BY <1>6, <1>7, <1>8 DEF Next

\* The bounds on faults and losses are kept.
LEMMA NextFaults ==
    ASSUME FaultsOk, [Next]_vars PROVE FaultsOk'
<1> USE ControllerAssumption DEF FaultsOk
<1>1. ASSUME Fault PROVE FaultsOk'
  BY <1>1 DEF Fault
<1>2. CASE UNCHANGED <<faults, losses>>
  BY <1>2
<1>3. CASE LoseLease
  BY <1>3 DEF LoseLease
<1>4. CASE UNCHANGED vars \/ ApiCall \/ Starting \/ HandleEvent \/ DropEvent
           \/ EnqueueEvent \/ WatchEnds
  BY <1>1, <1>2, <1>4 DEF boundVars, vars, ApiCall, Submit, Rollback, Delete, Changed,
       Starting, List, Seeded, OpenWatch, Seed, SeedSkips, HandleEvent, DropEvent,
       EnqueueEvent, WatchEnds
<1>5. ASSUME NEW w \in Workers, Get(w) \/ Reconcile(w) \/ Fail(w) \/ LastGet(w)
      PROVE  FaultsOk'
  BY <1>1, <1>2, <1>5
     DEF Get, Reconcile, Fail, LastGet, GetActive, GetSpec, DeleteResources, DeleteSome,
         ApplyConfigMap, ApplyWorkload, UpdateStatus, Abandon, boundVars
<1>6. CASE (\E f \in Flows : BackOffEnds(f)) \/ Crash \/ RegainLease
  BY <1>1, <1>2, <1>6 DEF BackOffEnds, Crash, RegainLease, boundVars
<1> QED
  BY <1>3, <1>4, <1>5, <1>6 DEF Next

\* A worker gets a version before it reads the spec, and a spec before it applies.
LEMMA NextWork ==
    ASSUME ExclusiveInv, EtcdOk, WorkOk, [Next]_vars
    PROVE  WorkOk'
<1> USE ControllerAssumption
<1>0. /\ wpc \in [Workers -> Steps] /\ wname \in [Workers -> Flows \cup {None}]
      /\ \A w \in Workers : wpc[w] # "idle" => wname[w] \in Flows
  BY DEF ExclusiveInv, HeldOk
<1>1. CASE UNCHANGED <<wpc, wname, wver, wspec>>
  BY <1>1 DEF WorkOk
<1>2. ASSUME NEW w \in Workers, NEW q, Finish(w, q) PROVE WorkOk'
  <2>1. /\ wpc' = [wpc EXCEPT ![w] = "idle"] /\ wname' = [wname EXCEPT ![w] = None]
        /\ wver' = [wver EXCEPT ![w] = 0] /\ wspec' = [wspec EXCEPT ![w] = None]
    BY <1>2 DEF Finish, Goto
  <2>2. ASSUME NEW v \in Workers
        PROVE  /\ wname'[v] # None => wpc'[v] # "idle"
               /\ wpc'[v] = "getSpec" => wver'[v] # 0
               /\ wpc'[v] \in {"config", "workload", "status"} => wspec'[v] # None
    BY <1>0, <2>1 DEF WorkOk
  <2>3. wver' \in [Workers -> 0 .. MaxChanges]
    BY <2>1 DEF WorkOk
  <2>4. wspec' \in [Workers -> Specs \cup {None}]
    BY <2>1 DEF WorkOk
  <2> QED
    BY <2>2, <2>3, <2>4 DEF WorkOk
<1>3. ASSUME NEW w \in Workers, Get(w) PROVE WorkOk'
  BY <1>0, <1>3 DEF Get, Goto, WorkOk
<1>4. ASSUME NEW w \in Workers, GetActive(w) PROVE WorkOk'
  <2>1. PICK a \in 0 .. MaxChanges : a = active[wname[w]]
    BY <1>0, <1>4 DEF GetActive, EtcdOk
  <2>2. /\ wver' = [wver EXCEPT ![w] = a] /\ UNCHANGED <<wname, wspec>>
        /\ wpc' = [wpc EXCEPT ![w] = IF a = 0 THEN "delete" ELSE "getSpec"]
    BY <1>4, <2>1 DEF GetActive, Goto
  <2> QED
    BY <1>0, <2>2 DEF WorkOk
<1>5. ASSUME NEW w \in Workers, GetSpec(w) PROVE WorkOk'
  <2>1. wver[w] \in Versions
    BY <1>5 DEF GetSpec, WorkOk, Versions
  <2>2. PICK s \in Specs \cup {None} : s = spec[wname[w]][wver[w]]
    BY <1>0, <1>5, <2>1 DEF GetSpec, EtcdOk
  <2>3. wspec' = [wspec EXCEPT ![w] = s] /\ UNCHANGED <<wname, wver>>
    BY <1>5, <2>2 DEF GetSpec
  <2>4. wspec'[w] = s
    BY <2>3 DEF WorkOk
  <2>5. wpc' = [wpc EXCEPT ![w] = IF s = None THEN "delete" ELSE "config"]
    BY <1>5, <2>4 DEF GetSpec, Goto
  <2> QED
    BY <1>0, <2>3, <2>5 DEF WorkOk
<1>6. ASSUME NEW w \in Workers, ApplyConfigMap(w) \/ ApplyWorkload(w) PROVE WorkOk'
  <2>1. wpc[w] \in {"config", "workload"} /\ UNCHANGED <<wname, wver, wspec>>
    BY <1>6 DEF ApplyConfigMap, ApplyWorkload
  <2>2. PICK s \in {"workload", "status"} : wpc' = [wpc EXCEPT ![w] = s]
    BY <1>6 DEF ApplyConfigMap, ApplyWorkload, Goto
  <2> QED
    BY <1>0, <2>1, <2>2 DEF WorkOk
<1>7. CASE UNCHANGED vars \/ ApiCall \/ Starting \/ HandleEvent \/ DropEvent
           \/ EnqueueEvent \/ WatchEnds
  BY <1>1, <1>7 DEF workVars, vars, ApiCall, Submit, Rollback, Delete, Changed,
       Starting, List, Seeded, OpenWatch, Seed, SeedSkips, HandleEvent, DropEvent,
       EnqueueEvent, WatchEnds
<1>8. ASSUME NEW w \in Workers, Get(w) \/ Reconcile(w) \/ Fail(w) \/ LastGet(w)
      PROVE  WorkOk'
  <2>1. CASE DeleteResources(w) \/ DeleteSome(w) \/ UpdateStatus(w) \/ Abandon(w) \/ Fail(w)
    BY <1>2, <2>1 DEF DeleteResources, DeleteSome, UpdateStatus, Abandon, Fail
  <2>2. CASE LastGet(w)
    BY <1>1, <2>2 DEF LastGet, workVars
  <2> QED
    BY <1>3, <1>4, <1>5, <1>6, <1>8, <2>1, <2>2 DEF Reconcile
<1>9. CASE (\E f \in Flows : BackOffEnds(f)) \/ LoseLease \/ RegainLease
  BY <1>1, <1>9 DEF BackOffEnds, LoseLease, RegainLease, workVars
<1>10. CASE Crash
  BY <1>10 DEF Crash, WorkOk
<1> QED
  BY <1>7, <1>8, <1>9, <1>10 DEF Next

\* A change that comes while flows are listed and enqueued goes unnoticed.
LEMMA NextRun ==
    ASSUME ExclusiveInv, EtcdOk, RunOk, [Next]_vars
    PROVE  RunOk'
<1> USE ControllerAssumption
<1>0. /\ QueueSound(wq) /\ pending \in Seq(Event) /\ out \in Seq(Flows)
      /\ wpc \in [Workers -> Steps] /\ wname \in [Workers -> Flows \cup {None}]
      /\ \A w \in Workers : wpc[w] # "idle" => wname[w] \in Flows
  BY DEF ExclusiveInv, NamesOk, HeldOk
<1>1. ASSUME UNCHANGED <<active, ctl, listed, watch, out>>, wq'.shut = wq.shut,
             missed \subseteq missed', missed' \subseteq Flows
      PROVE  RunOk'
  BY <1>1 DEF RunOk
<1>2. CASE ApiCall
  <2>1. PICK g \in Flows :
           \/ \E k \in Kinds : Submit(g, k)
           \/ \E v \in Versions : Rollback(g, v)
           \/ Delete(g)
    BY <1>2 DEF ApiCall
  <2>2. \A f \in Flows \ {g} : active'[f] = active[f]
    BY <2>1, ApiCallTypes
  <2>3. /\ UNCHANGED <<ctl, listed, watch, out, wq>>
        /\ missed' = missed \ {g} \/ missed' = missed \cup {g}
        /\ watch = "open" \/ missed' = missed \cup {g}
    BY <2>1 DEF Submit, Rollback, Delete, Changed
  <2>4. ASSUME NEW f \in Flows, listed'[f] # 0
        PROVE  ctl' = "seed" /\ (f \in missed' \/ listed'[f] = active'[f])
    <3>1. ctl = "seed" /\ watch = "off"
      BY <2>3, <2>4 DEF RunOk
    <3> QED
      BY <2>2, <2>3, <2>4, <3>1 DEF RunOk
  <2> QED
    BY <2>3, <2>4 DEF RunOk
<1>3. CASE List
  BY <1>3 DEF List, RunOk, EtcdOk, etcdVars
<1>4. ASSUME NEW f \in Flows, Seed(f) \/ SeedSkips(f) PROVE RunOk'
  <2>1. wq' = wq \/ wq' = Add(wq, f)
    BY <1>4 DEF Seed, SeedSkips
  <2>2. wq'.shut = wq.shut
    BY <1>0, <2>1, AddOwes
  <2>3. /\ ctl = "seed" /\ listed' = [listed EXCEPT ![f] = 0]
        /\ UNCHANGED <<active, ctl, watch, out>>
        /\ missed \subseteq missed' /\ missed' \subseteq missed \cup {f}
    BY <1>4 DEF Seed, SeedSkips, etcdVars
  <2> QED
    BY <2>2, <2>3 DEF RunOk
<1>5. CASE Seeded \/ OpenWatch \/ RegainLease
  BY <1>5 DEF Seeded, OpenWatch, RegainLease, RunOk, ToSeed, etcdVars
<1>6. CASE HandleEvent
  <2>1. Head(pending) \in Event
    BY <1>0, <1>6 DEF HandleEvent
  <2>2. Len(out') = Len(out) + 1 /\ Len(out) < Buffer /\ Len(out) \in Nat
    BY <1>0, <1>6, <2>1 DEF HandleEvent, Event
  <2>3. Len(out') <= Buffer
    BY <2>2
  <2> QED
    BY <1>6, <2>3 DEF HandleEvent, RunOk, etcdVars
<1>7. CASE DropEvent
  <2>1. Head(pending) \in Event
    BY <1>0, <1>7 DEF DropEvent
  <2>2. Head(pending).name \in Flows
    BY <2>1 DEF Event
  <2>3. missed \subseteq missed' /\ missed' \subseteq Flows
    BY <1>7, <2>2 DEF DropEvent, RunOk
  <2> QED
    BY <1>1, <1>7, <2>3 DEF DropEvent, etcdVars
<1>8. CASE EnqueueEvent
  <2>1. Head(out) \in Flows /\ Len(out') <= Buffer
    BY <1>0, <1>8 DEF EnqueueEvent, RunOk
  <2>2. wq'.shut = wq.shut
    BY <1>0, <1>8, <2>1, AddOwes DEF EnqueueEvent
  <2> QED
    BY <1>8, <2>1, <2>2 DEF EnqueueEvent, RunOk, etcdVars
<1>9. CASE WatchEnds
  <2>1. PICK n \in 0 .. Len(pending) :
           missed' = missed \cup {pending[i].name : i \in n + 1 .. Len(pending)}
    BY <1>9 DEF WatchEnds
  <2>2. \A i \in n + 1 .. Len(pending) : pending[i] \in Event
    BY <1>0
  <2>3. \A i \in n + 1 .. Len(pending) : pending[i].name \in Flows
    BY <2>2 DEF Event
  <2>4. missed' \subseteq Flows
    BY <2>1, <2>3 DEF RunOk
  <2> QED
    BY <1>9, <2>1, <2>4 DEF WatchEnds, RunOk, etcdVars
<1>10. ASSUME NEW w \in Workers, Get(w) \/ LastGet(w) PROVE RunOk'
  <2>1. PICK k \in Flows : k = Head(wq.order)
    BY <1>0, <1>10, TakeSound DEF Get, LastGet
  <2>2. QueueSound(Take(wq)) /\ Take(wq).shut = wq.shut
    BY <1>0, <1>10, TakeSound, TakeOwes DEF Get, LastGet
  <2>3. wq' = Take(wq) \/ wq' = Retry(Take(wq), k)
    BY <1>10, <2>1 DEF Get, LastGet
  <2>4. wq'.shut = wq.shut
    BY <2>2, <2>3, RetryOwes
  <2>5. missed \subseteq missed' /\ missed' \subseteq Flows
    BY <1>10, <2>1 DEF Get, LastGet, RunOk
  <2> QED
    BY <1>1, <1>10, <2>4, <2>5 DEF Get, LastGet, runVars, etcdVars
<1>11. ASSUME NEW w \in Workers, Reconcile(w) \/ Fail(w) PROVE RunOk'
  <2>0. wpc[w] # "idle"
    BY <1>11 DEF Reconcile, GetActive, GetSpec, DeleteResources, DeleteSome,
                 ApplyConfigMap, ApplyWorkload, UpdateStatus, Abandon, Fail
  <2>1. wq' = wq \/ wq' = Done(wq, wname[w]) \/ wq' = Retry(wq, wname[w])
    BY <1>11 DEF Reconcile, GetActive, GetSpec, DeleteResources, DeleteSome, Finish, Forget,
                 ApplyConfigMap, ApplyWorkload, UpdateStatus, Abandon, Fail
  <2>2. wq'.shut = wq.shut
    BY <1>0, <2>0, <2>1, DoneOwes, RetryOwes
  <2>3. missed' = missed \/ missed' = missed \cup {wname[w]}
    BY <1>11 DEF Reconcile, GetActive, GetSpec, DeleteResources, DeleteSome,
                 ApplyConfigMap, ApplyWorkload, UpdateStatus, Abandon, Fail
  <2>4. missed \subseteq missed' /\ missed' \subseteq Flows
    BY <1>0, <2>0, <2>3 DEF RunOk
  <2>5. UNCHANGED <<active, ctl, listed, watch, out>>
    BY <1>11 DEF Reconcile, GetActive, GetSpec, DeleteResources, DeleteSome, runVars,
                 ApplyConfigMap, ApplyWorkload, UpdateStatus, Abandon, Fail, etcdVars
  <2> QED
    BY <1>1, <2>2, <2>4, <2>5
<1>12. ASSUME NEW f \in Flows, BackOffEnds(f) PROVE RunOk'
  <2>1. wq'.shut = wq.shut
    BY <1>0, <1>12, FireOwes DEF BackOffEnds
  <2> QED
    BY <1>1, <1>12, <2>1 DEF BackOffEnds, RunOk, runVars, etcdVars
<1>13. CASE Crash
  BY <1>13 DEF Crash, RunOk, etcdVars
<1>14. CASE LoseLease
  <2>1. wq'.shut
    BY <1>0, <1>14 DEF LoseLease, Shutdown, QueueSound, QueueType
  <2>2. ToSeed \subseteq Flows /\ Announced \subseteq Flows /\ wq.delayed \subseteq Flows
    <3>1. \A i \in DOMAIN pending : pending[i] \in Event
      BY <1>0
    <3>2. \A i \in DOMAIN pending : pending[i].name \in Flows
      BY <3>1 DEF Event
    <3>3. \A i \in DOMAIN out : out[i] \in Flows
      BY <1>0
    <3>4. Announced \subseteq Flows
      BY <3>2, <3>3 DEF Announced
    <3> QED
      BY <1>0, <3>4 DEF ToSeed, QueueSound, QueueType
  <2>3. missed' \subseteq Flows
    BY <1>14, <2>2 DEF LoseLease, RunOk
  <2> QED
    BY <1>14, <2>1, <2>3 DEF LoseLease, RunOk
<1>15. CASE UNCHANGED vars
  BY <1>1, <1>15 DEF vars, RunOk
<1> QED
  BY <1>2, <1>3, <1>4, <1>5, <1>6, <1>7, <1>8, <1>9, <1>10, <1>11, <1>12, <1>13, <1>14,
     <1>15 DEF Next, Starting

-----------------------------------------------------------------------------
(* A quiet flow is deployed, or in the hands of a worker that is up to date. *)

\* A flow is held if some worker has its name.
LEMMA HeldMember == \A f \in Flows : f \in Held <=> \E w \in Workers : wname[w] = f
  BY ControllerAssumption DEF Held

\* The same after a step.
LEMMA HeldMemberNext ==
    \A f \in Flows : f \in Held' <=> \E w \in Workers : wname'[w] = f
  BY ControllerAssumption DEF Held

\* A flow that is not quiet any more makes no demand.
LEMMA Loud == ASSUME NEW f \in Flows, ~Quiet(f)' PROVE FollowsOk(f)'
  BY DEF FollowsOk

\* Nothing about f changes but, perhaps, that it is no longer quiet.
LEMMA Frame ==
    ASSUME NEW f \in Flows, FollowsOk(f), Quiet(f)' => Quiet(f),
           active'[f] = active[f], spec'[f] = spec[f], status'[f] = status[f],
           config'[f] = config[f], cluster'[f] = cluster[f],
           \A w \in Workers : wname'[w] = f <=> wname[w] = f,
           \A w \in Workers : wname[w] = f =>
              wpc'[w] = wpc[w] /\ wver'[w] = wver[w] /\ wspec'[w] = wspec[w]
    PROVE  FollowsOk(f)'
<1> SUFFICES ASSUME Quiet(f)'
             PROVE  /\ f \notin Held' => Deployed(f)'
                    /\ \A w \in Workers : wname'[w] = f => Fresh(w, f)'
  BY DEF FollowsOk
<1>0. Quiet(f)
  OBVIOUS
<1>1. ASSUME f \notin Held' PROVE Deployed(f)'
  <2>1. f \notin Held
    BY <1>1, HeldMember, HeldMemberNext
  <2>2. Deployed(f)
    BY <1>0, <2>1 DEF FollowsOk
  <2> QED
    BY <2>2 DEF Deployed, Wanted
<1>2. ASSUME NEW w \in Workers, wname'[w] = f PROVE Fresh(w, f)'
  <2>1. wname[w] = f /\ Fresh(w, f)
    BY <1>0, <1>2 DEF FollowsOk
  <2> QED
    BY <2>1 DEF Fresh
<1> QED
  BY <1>1, <1>2

\* A step that leaves etcd, the cluster and the workers alone, and forgets no
\* change that is under way.
LEMMA NothingForgotten ==
    ASSUME \A f \in Flows : FollowsOk(f),
           UNCHANGED <<active, spec, status, config, cluster, wpc, wname, wver, wspec>>,
           \A f \in Flows : Quiet(f)' => Quiet(f)
    PROVE  \A f \in Flows : FollowsOk(f)'
  BY Frame

\* An API call makes its flow known to an open watch; otherwise it is missed.
LEMMA ApiCallFollows ==
    ASSUME ExclusiveInv, EtcdOk, \A f \in Flows : FollowsOk(f), ApiCall
    PROVE  \A f \in Flows : FollowsOk(f)'
<1>1. PICK g \in Flows :
         \/ \E k \in Kinds : Submit(g, k)
         \/ \E v \in Versions : Rollback(g, v)
         \/ Delete(g)
  BY DEF ApiCall
<1>2. \A f \in Flows \ {g} :
         active'[f] = active[f] /\ spec'[f] = spec[f] /\ status'[f] = status[f]
  BY <1>1, ApiCallTypes
<1>3. PICK d \in BOOLEAN : Changed(g, d)
  BY <1>1 DEF Submit, Rollback, Delete
<1>4. UNCHANGED <<config, cluster, listed, out, wq, wpc, wname, wver, wspec>>
  BY <1>3 DEF Changed, kubeVars, workVars
<1>5. PICK e : e = [name |-> g, deleted |-> d]
  OBVIOUS
<1>6. e \in Event /\ e.name = g
  BY <1>5 DEF Event
<1>7. CASE watch = "open"
  <2>1. pending' = Append(pending, e) /\ missed' = missed \ {g}
    BY <1>3, <1>5, <1>7 DEF Changed
  <2>2. PICK p \in Seq(Event) : p = pending
    BY DEF ExclusiveInv, NamesOk
  <2>3. PICK n \in Nat : n = Len(p)
    OBVIOUS
  <2>4. /\ DOMAIN pending = 1 .. n /\ DOMAIN pending' = 1 .. n + 1
        /\ pending'[n + 1] = e /\ \A i \in 1 .. n : pending'[i] = pending[i]
    BY <1>6, <2>1, <2>2, <2>3
  <2>5. g \in Announced'
    <3>1. n + 1 \in DOMAIN pending' /\ pending'[n + 1].name = g
      BY <1>6, <2>4
    <3> QED
      BY <3>1 DEF Announced
  <2>6. Announced \subseteq Announced'
    <3>1. \A i \in DOMAIN pending :
             i \in DOMAIN pending' /\ pending'[i].name = pending[i].name
      BY <2>4
    <3> QED
      BY <1>4, <3>1 DEF Announced
  <2>7. ~Quiet(g)'
    BY <2>5 DEF Quiet
  <2>8. ASSUME NEW f \in Flows \ {g} PROVE FollowsOk(f)'
    <3>1. Quiet(f)' => Quiet(f)
      BY <1>4, <2>1, <2>6 DEF Quiet, ToSeed
    <3> QED
      BY <1>2, <1>4, <3>1, Frame
  <2> QED
    BY <2>7, <2>8, Loud
<1>8. CASE watch # "open"
  <2>1. missed' = missed \cup {g} /\ UNCHANGED pending
    BY <1>3, <1>8 DEF Changed
  <2>2. ~Quiet(g)'
    BY <2>1 DEF Quiet
  <2>3. ASSUME NEW f \in Flows \ {g} PROVE FollowsOk(f)'
    <3>1. Quiet(f)' => Quiet(f)
      BY <1>4, <2>1 DEF Quiet, ToSeed, Announced
    <3> QED
      BY <1>2, <1>4, <3>1, Frame
  <2> QED
    BY <2>2, <2>3, Loud
<1> QED
  BY <1>7, <1>8

\* Listing takes up every flow that is there, and seeding hands it to the queue;
\* a listed flow that is gone was deleted unnoticed.
LEMMA StartingFollows ==
    ASSUME ExclusiveInv, EtcdOk, RunOk, ~wq.shut, \A f \in Flows : FollowsOk(f),
           Starting
    PROVE  \A f \in Flows : FollowsOk(f)'
<1>0. /\ QueueSound(wq)
      /\ UNCHANGED <<active, spec, status, config, cluster, wpc, wname, wver, wspec,
                     pending, out>>
  BY DEF ExclusiveInv, Starting, List, Seeded, OpenWatch, Seed, SeedSkips, etcdVars,
         kubeVars, workVars
<1>1. CASE List
  <2>1. ASSUME NEW f \in Flows, Quiet(f)' PROVE Quiet(f)
    <3>1. /\ listed' = active /\ missed' = {g \in missed : active[g] = 0} /\ wq' = wq
          /\ ctl = "list"
      BY <1>1 DEF List
    <3>2. f \notin missed /\ f \notin Owes(wq) /\ f \notin Announced
      BY <1>0, <2>1, <3>1 DEF Quiet, ToSeed, Announced
    <3>3. f \notin ToSeed
      BY <3>1 DEF RunOk, ToSeed
    <3> QED
      BY <3>2, <3>3 DEF Quiet
  <2> QED
    BY <1>0, <2>1, NothingForgotten
<1>2. CASE Seeded \/ OpenWatch
  <2>1. UNCHANGED <<listed, missed, wq>>
    BY <1>2 DEF Seeded, OpenWatch
  <2>2. \A f \in Flows : Quiet(f)' => Quiet(f)
    BY <1>0, <2>1 DEF Quiet, ToSeed, Announced
  <2> QED
    BY <1>0, <2>2, NothingForgotten
<1>3. ASSUME NEW g \in Flows, Seed(g) \/ SeedSkips(g)
      PROVE  \A f \in Flows : FollowsOk(f)'
  <2>1. /\ listed' = [listed EXCEPT ![g] = 0] /\ listed[g] # 0
        /\ missed \subseteq missed'
    BY <1>3 DEF Seed, SeedSkips
  <2>2. g \in missed' \/ g \in Owes(wq')
    <3>1. CASE SeedSkips(g)
      BY <3>1 DEF SeedSkips
    <3>2. CASE Seed(g) /\ spec[g][listed[g]] = None
      <4>1. listed[g] # active[g]
        BY <2>1, <3>2 DEF EtcdOk
      <4> QED
        BY <2>1, <4>1 DEF RunOk
    <3>3. CASE Seed(g) /\ spec[g][listed[g]] # None
      <4>1. wq' = Add(wq, g)
        BY <3>3 DEF Seed
      <4> QED
        BY <1>0, <4>1, AddOwes
    <3> QED
      BY <1>3, <3>1, <3>2, <3>3
  <2>3. Owes(wq) \subseteq Owes(wq')
    <3>1. wq' = wq \/ wq' = Add(wq, g)
      BY <1>3 DEF Seed, SeedSkips
    <3> QED
      BY <1>0, <3>1, AddOwes
  <2>4. \A f \in Flows \ {g} : listed'[f] = listed[f]
    BY <2>1 DEF RunOk
  <2>5. ~Quiet(g)'
    BY <2>2 DEF Quiet
  <2>6. \A f \in Flows : Quiet(f)' => Quiet(f)
    BY <1>0, <2>1, <2>3, <2>4, <2>5 DEF Quiet, ToSeed, Announced
  <2> QED
    BY <1>0, <2>6, NothingForgotten
<1> QED
  BY <1>1, <1>2, <1>3 DEF Starting

\* An event stays announced until its flow is in the queue, or missed.
LEMMA WatchFollows ==
    ASSUME ExclusiveInv, ~wq.shut, \A f \in Flows : FollowsOk(f),
           HandleEvent \/ DropEvent \/ EnqueueEvent \/ WatchEnds
    PROVE  \A f \in Flows : FollowsOk(f)'
<1>0. /\ QueueSound(wq)
      /\ UNCHANGED <<active, spec, status, config, cluster, wpc, wname, wver, wspec,
                     listed>>
  BY DEF ExclusiveInv, HandleEvent, DropEvent, EnqueueEvent, WatchEnds, etcdVars,
         kubeVars, workVars
<1>1. PICK p \in Seq(Event) : p = pending
  BY DEF ExclusiveInv, NamesOk
<1>2. PICK o \in Seq(Flows) : o = out
  BY DEF ExclusiveInv, NamesOk
<1>3. Announced = {p[i].name : i \in DOMAIN p} \cup {o[i] : i \in DOMAIN o}
  BY <1>1, <1>2 DEF Announced
<1>4. ASSUME p # <<>>
      PROVE  \A i \in DOMAIN p : p[i] = Head(p) \/ \E j \in DOMAIN Tail(p) : Tail(p)[j] = p[i]
  <2> SUFFICES ASSUME NEW i \in DOMAIN p, p[i] # Head(p)
               PROVE  \E j \in DOMAIN Tail(p) : Tail(p)[j] = p[i]
    OBVIOUS
  <2>1. i \in 1 .. Len(p) /\ i # 1
    BY <1>4
  <2>2. i - 1 \in DOMAIN Tail(p) /\ Tail(p)[i - 1] = p[i]
    BY <1>4, <2>1
  <2> QED
    BY <2>2
<1>5. ASSUME o # <<>>
      PROVE  \A i \in DOMAIN o : o[i] = Head(o) \/ \E j \in DOMAIN Tail(o) : Tail(o)[j] = o[i]
  <2> SUFFICES ASSUME NEW i \in DOMAIN o, o[i] # Head(o)
               PROVE  \E j \in DOMAIN Tail(o) : Tail(o)[j] = o[i]
    OBVIOUS
  <2>1. i \in 1 .. Len(o) /\ i # 1
    BY <1>5
  <2>2. i - 1 \in DOMAIN Tail(o) /\ Tail(o)[i - 1] = o[i]
    BY <1>5, <2>1
  <2> QED
    BY <2>2
<1>6. missed \cup Announced \cup Owes(wq) \subseteq missed' \cup Announced' \cup Owes(wq')
  <2>1. CASE HandleEvent
    <3>1. /\ p # <<>> /\ pending' = Tail(p) /\ out' = Append(o, Head(p).name)
          /\ UNCHANGED <<missed, wq>>
      BY <1>1, <1>2, <2>1 DEF HandleEvent
    <3>2. Head(p).name \in Flows
      <4>1. Head(p) \in Event
        BY <3>1
      <4> QED
        BY <4>1 DEF Event
    <3>3. PICK h \in Flows : h = Head(p).name
      BY <3>2
    <3>4. PICK x : x = Append(o, h)
      OBVIOUS
    <3>5. /\ Len(o) + 1 \in DOMAIN x /\ x[Len(o) + 1] = h
          /\ \A i \in DOMAIN o : i \in DOMAIN x /\ x[i] = o[i]
      BY <3>4
    <3>6. Announced' = {Tail(p)[i].name : i \in DOMAIN Tail(p)} \cup {x[i] : i \in DOMAIN x}
      BY <3>1, <3>3, <3>4 DEF Announced
    <3>7. \A i \in DOMAIN p : p[i].name \in Announced'
      BY <1>4, <3>1, <3>3, <3>5, <3>6
    <3>8. \A i \in DOMAIN o : o[i] \in Announced'
      BY <3>5, <3>6
    <3> QED
      BY <1>3, <3>1, <3>7, <3>8
  <2>2. CASE DropEvent
    <3>1. /\ p # <<>> /\ pending' = Tail(p) /\ out' = o
          /\ missed' = missed \cup {Head(p).name} /\ UNCHANGED wq
      BY <1>1, <1>2, <2>2 DEF DropEvent
    <3>2. Announced' = {Tail(p)[i].name : i \in DOMAIN Tail(p)} \cup {o[i] : i \in DOMAIN o}
      BY <3>1 DEF Announced
    <3>3. \A i \in DOMAIN p : p[i].name \in Announced' \cup missed'
      BY <1>4, <3>1, <3>2
    <3> QED
      BY <1>3, <3>1, <3>2, <3>3
  <2>3. CASE EnqueueEvent
    <3>1. /\ o # <<>> /\ pending' = p /\ out' = Tail(o)
          /\ wq' = Add(wq, Head(o)) /\ UNCHANGED missed
      BY <1>1, <1>2, <2>3 DEF EnqueueEvent
    <3>2. Announced' = {p[i].name : i \in DOMAIN p} \cup {Tail(o)[i] : i \in DOMAIN Tail(o)}
      BY <3>1 DEF Announced
    <3>3. Owes(wq') = Owes(wq) \cup {Head(o)}
      <4>1. Head(o) \in Flows
        BY <3>1
      <4> QED
        BY <1>0, <3>1, <4>1, AddOwes
    <3>4. \A i \in DOMAIN o : o[i] \in Announced' \cup Owes(wq')
      BY <1>5, <3>1, <3>2, <3>3
    <3> QED
      BY <1>3, <3>1, <3>2, <3>3, <3>4
  <2>4. CASE WatchEnds
    <3>0. PICK n \in 0 .. Len(pending) :
             /\ pending' = SubSeq(pending, 1, n)
             /\ missed' = missed \cup {pending[i].name : i \in n + 1 .. Len(pending)}
      BY <2>4 DEF WatchEnds
    <3>1. /\ n \in 0 .. Len(p) /\ pending' = SubSeq(p, 1, n)
          /\ missed' = missed \cup {p[i].name : i \in n + 1 .. Len(p)}
      BY <1>1, <3>0
    <3>2. out' = o /\ UNCHANGED wq
      BY <1>2, <2>4 DEF WatchEnds
    <3>3. PICK r : r = SubSeq(p, 1, n)
      OBVIOUS
    <3>4. DOMAIN r = 1 .. n /\ \A i \in 1 .. n : r[i] = p[i]
      BY <3>1, <3>3
    <3>5. Announced' = {r[i].name : i \in DOMAIN r} \cup {o[i] : i \in DOMAIN o}
      BY <3>1, <3>2, <3>3 DEF Announced
    <3>6. ASSUME NEW i \in DOMAIN p PROVE p[i].name \in Announced' \cup missed'
      <4>1. i \in 1 .. n \/ i \in n + 1 .. Len(p)
        BY <3>1
      <4> QED
        BY <3>1, <3>4, <3>5, <4>1
    <3> QED
      BY <1>3, <3>1, <3>2, <3>5, <3>6
  <2> QED
    BY <2>1, <2>2, <2>3, <2>4
<1>7. \A f \in Flows : Quiet(f)' => Quiet(f)
  BY <1>0, <1>6 DEF Quiet, ToSeed
<1> QED
  BY <1>0, <1>7, NothingForgotten

\* A step of worker w for flow g leaves every other flow as it was.
LEMMA OtherFlows ==
    ASSUME \A f \in Flows : FollowsOk(f), NEW w \in Workers, NEW g \in Flows,
           wname[w] \in {g, None}, wname'[w] \in {g, None},
           \A v \in Workers \ {w} :
              /\ wname'[v] = wname[v] /\ wpc'[v] = wpc[v]
              /\ wver'[v] = wver[v] /\ wspec'[v] = wspec[v],
           \A f \in Flows \ {g} :
              /\ active'[f] = active[f] /\ spec'[f] = spec[f] /\ status'[f] = status[f]
              /\ config'[f] = config[f] /\ cluster'[f] = cluster[f]
              /\ Quiet(f)' => Quiet(f)
    PROVE  \A f \in Flows \ {g} : FollowsOk(f)'
<1> SUFFICES ASSUME NEW f \in Flows \ {g} PROVE FollowsOk(f)'
  OBVIOUS
<1>1. wname[w] # f /\ wname'[w] # f
  BY ControllerAssumption
<1>2. \A v \in Workers : wname'[v] = f <=> wname[v] = f
  BY <1>1
<1>3. \A v \in Workers : wname[v] = f =>
         wpc'[v] = wpc[v] /\ wver'[v] = wver[v] /\ wspec'[v] = wspec[v]
  BY <1>1
<1> QED
  BY <1>2, <1>3, Frame

\* A worker that goes on with flow g, which only it has.
LEMMA WorkerGoesOn ==
    ASSUME ExclusiveInv, EtcdOk, KubeOk, WorkOk, \A f \in Flows : FollowsOk(f),
           NEW w \in Workers, NEW g \in Flows, g = wname[w], wpc[w] # "idle",
           NEW step \in Steps,
           wpc' = [wpc EXCEPT ![w] = step],
           UNCHANGED <<active, spec, status, wname, listed, missed, pending, out, wq>>,
           wver' \in [Workers -> 0 .. MaxChanges], wspec' \in [Workers -> Specs \cup {None}],
           \A v \in Workers \ {w} : wver'[v] = wver[v] /\ wspec'[v] = wspec[v],
           \A f \in Flows \ {g} :
              config'[f] = config[f] /\ cluster'[f] = cluster[f],
           Quiet(g) /\ Fresh(w, g) => Fresh(w, g)'
    PROVE  \A f \in Flows : FollowsOk(f)'
<1>1. wpc \in [Workers -> Steps]
  BY DEF ExclusiveInv, HeldOk
<1>2. \A f \in Flows : Quiet(f)' <=> Quiet(f)
  BY DEF Quiet, ToSeed, Announced
<1>3. \A f \in Flows \ {g} : FollowsOk(f)'
  <2>1. \A v \in Workers \ {w} : wpc'[v] = wpc[v]
    BY <1>1
  <2> QED
    BY <1>2, <2>1, OtherFlows
<1>4. FollowsOk(g)'
  <2> SUFFICES ASSUME Quiet(g)'
               PROVE  g \in Held' /\ \A v \in Workers : wname'[v] = g => Fresh(v, g)'
    BY DEF FollowsOk
  <2>1. Quiet(g) /\ Fresh(w, g)
    BY <1>2 DEF FollowsOk
  <2>2. Fresh(w, g)'
    BY <2>1
  <2>3. \A v \in Workers : wname'[v] = g => v = w
    BY ControllerAssumption DEF ExclusiveInv, OneWorkerPerFlow
  <2>4. g \in Held'
    BY HeldMemberNext
  <2> QED
    BY <2>2, <2>3, <2>4
<1> QED
  BY <1>3, <1>4

\* A worker that gives flow g back: the queue owes it, or it is deployed.
LEMMA WorkerFinishes ==
    ASSUME ExclusiveInv, EtcdOk, KubeOk, WorkOk, \A f \in Flows : FollowsOk(f),
           NEW w \in Workers, NEW g \in Flows, g = wname[w], wpc[w] # "idle",
           NEW q, Finish(w, q),
           Owes(wq) \subseteq Owes(q),
           UNCHANGED <<active, spec, listed, missed, pending, out>>,
           \A f \in Flows \ {g} : /\ status'[f] = status[f] /\ config'[f] = config[f]
                                  /\ cluster'[f] = cluster[f],
           g \in Owes(q) \/ (Quiet(g) /\ Fresh(w, g) => Deployed(g)')
    PROVE  \A f \in Flows : FollowsOk(f)'
<1>1. /\ wpc \in [Workers -> Steps] /\ wname \in [Workers -> Flows \cup {None}]
      /\ wver \in [Workers -> 0 .. MaxChanges] /\ wspec \in [Workers -> Specs \cup {None}]
  BY DEF ExclusiveInv, HeldOk, WorkOk
<1>2. /\ wpc' = [wpc EXCEPT ![w] = "idle"] /\ wq' = q
      /\ wname' = [wname EXCEPT ![w] = None]
      /\ wver' = [wver EXCEPT ![w] = 0] /\ wspec' = [wspec EXCEPT ![w] = None]
  BY DEF Finish, Goto
<1>3. \A f \in Flows : Quiet(f)' => Quiet(f)
  BY <1>2 DEF Quiet, ToSeed, Announced
<1>4. \A f \in Flows \ {g} : FollowsOk(f)'
  <2>1. \A v \in Workers \ {w} : /\ wname'[v] = wname[v] /\ wpc'[v] = wpc[v]
                                 /\ wver'[v] = wver[v] /\ wspec'[v] = wspec[v]
    BY <1>1, <1>2
  <2>2. wname'[w] = None
    BY <1>1, <1>2
  <2> QED
    BY <1>3, <2>1, <2>2, OtherFlows
<1>5. FollowsOk(g)'
  <2> SUFFICES ASSUME Quiet(g)'
               PROVE  Deployed(g)' /\ \A v \in Workers : wname'[v] # g
    BY DEF FollowsOk
  <2>1. Quiet(g) /\ Fresh(w, g)
    BY <1>3 DEF FollowsOk
  <2>2. g \notin Owes(q)
    BY <1>2 DEF Quiet
  <2>3. Deployed(g)'
    BY <2>1, <2>2
  <2>4. \A v \in Workers : wname'[v] # g
    BY <1>1, <1>2, ControllerAssumption DEF ExclusiveInv, OneWorkerPerFlow
  <2> QED
    BY <2>3, <2>4
<1> QED
  BY <1>4, <1>5

\* Get hands a flow to a worker that has read nothing yet.
LEMMA GetFollows ==
    ASSUME ExclusiveInv, EtcdOk, WorkOk, \A f \in Flows : FollowsOk(f),
           NEW w \in Workers, Get(w)
    PROVE  \A f \in Flows : FollowsOk(f)'
<1>0. QueueSound(wq) /\ Ready(wq)
  BY DEF ExclusiveInv, Get
<1>1. PICK g \in Flows \ wq.processing : g = Head(wq.order)
  BY <1>0, TakeSound
<1>2. /\ wname' = [wname EXCEPT ![w] = g] /\ wq' = Take(wq) /\ wpc[w] = "idle"
      /\ wpc' = [wpc EXCEPT ![w] = "getActive"]
      /\ UNCHANGED <<active, spec, status, config, cluster, wver, wspec, listed, missed,
                     pending, out>>
  BY <1>1 DEF Get, Goto, etcdVars, kubeVars, runVars
<1>3. wpc \in [Workers -> Steps] /\ wname \in [Workers -> Flows \cup {None}]
  BY DEF ExclusiveInv, HeldOk
<1>4. \A f \in Flows \ {g} : Quiet(f)' => Quiet(f)
  <2>1. Owes(wq) \subseteq Owes(wq') \cup {g}
    BY <1>0, <1>1, <1>2, TakeOwes
  <2> QED
    BY <1>2, <2>1 DEF Quiet, ToSeed, Announced
<1>5. \A f \in Flows \ {g} : FollowsOk(f)'
  <2>1. wname[w] = None /\ wname'[w] = g
    BY <1>2, <1>3 DEF WorkOk
  <2>2. \A v \in Workers \ {w} : wname'[v] = wname[v] /\ wpc'[v] = wpc[v]
    BY <1>2, <1>3
  <2> QED
    BY <1>2, <1>4, <2>1, <2>2, OtherFlows
<1>6. FollowsOk(g)'
  <2>1. wname'[w] = g /\ wpc'[w] = "getActive"
    BY <1>2, <1>3
  <2>2. \A v \in Workers : wname'[v] = g => v = w
    BY <1>1, <1>2, <1>3, ControllerAssumption DEF ExclusiveInv, HeldOk
  <2>3. g \in Held'
    BY <2>1, HeldMemberNext
  <2>4. Fresh(w, g)'
    BY <2>1 DEF Fresh
  <2> QED
    BY <2>2, <2>3, <2>4 DEF FollowsOk
<1> QED
  BY <1>5, <1>6

\* Reading a quiet flow gives what is there, applying it makes it so, and a
\* worker that is done with it leaves it deployed; after a failure it is retried.
LEMMA ReconcileFollows ==
    ASSUME ExclusiveInv, EtcdOk, KubeOk, WorkOk, WorkOk', ~wq.shut,
           \A f \in Flows : FollowsOk(f), NEW w \in Workers,
           (Reconcile(w) /\ ~Abandon(w)) \/ Fail(w)
    PROVE  \A f \in Flows : FollowsOk(f)'
<1> USE ControllerAssumption
<1>0. wpc[w] # "idle"
  BY DEF Reconcile, GetActive, GetSpec, DeleteResources, DeleteSome,
         ApplyConfigMap, ApplyWorkload, UpdateStatus, Fail
<1>1. PICK g \in Flows : g = wname[w]
  BY <1>0, BusyHolds
<1>2. /\ wpc \in [Workers -> Steps] /\ QueueSound(wq)
      /\ wver \in [Workers -> 0 .. MaxChanges] /\ wspec \in [Workers -> Specs \cup {None}]
  BY DEF ExclusiveInv, HeldOk, WorkOk
<1>3. wver' \in [Workers -> 0 .. MaxChanges] /\ wspec' \in [Workers -> Specs \cup {None}]
  BY DEF WorkOk
<1>4. CASE GetActive(w)
  <2>1. PICK step : step = IF active[g] = 0 THEN "delete" ELSE "getSpec"
    OBVIOUS
  <2>2. /\ wver' = [wver EXCEPT ![w] = active[g]] /\ wpc' = [wpc EXCEPT ![w] = step]
        /\ UNCHANGED <<active, spec, status, config, cluster, wname, wspec, listed, missed,
                       pending, out, wq>>
    BY <1>1, <1>4, <2>1 DEF GetActive, Goto, etcdVars, kubeVars, runVars
  <2>3. step \in Steps
    BY <2>1 DEF Steps
  <2>4. wpc'[w] = step /\ wver'[w] = active'[g]
    BY <1>2, <2>2
  <2>5. Fresh(w, g)'
    BY <2>1, <2>2, <2>4 DEF Fresh
  <2>6. \A v \in Workers \ {w} : wver'[v] = wver[v] /\ wspec'[v] = wspec[v]
    BY <1>2, <2>2
  <2> QED
    BY <1>0, <1>1, <1>3, <2>2, <2>3, <2>5, <2>6, WorkerGoesOn
<1>5. CASE GetSpec(w)
  <2>1. PICK s : s = spec[g][wver[w]]
    OBVIOUS
  <2>2. /\ wspec' = [wspec EXCEPT ![w] = s]
        /\ UNCHANGED <<active, spec, status, config, cluster, wname, wver, listed, missed,
                       pending, out, wq>>
    BY <1>1, <1>5, <2>1 DEF GetSpec, etcdVars, kubeVars, runVars
  <2>3. wspec'[w] = s
    BY <1>2, <2>2
  <2>4. PICK step : step = IF s = None THEN "delete" ELSE "config"
    OBVIOUS
  <2>5. wpc' = [wpc EXCEPT ![w] = step] /\ step \in Steps /\ wpc[w] = "getSpec"
    BY <1>5, <2>3, <2>4 DEF GetSpec, Goto, Steps
  <2>6. wpc'[w] = step
    BY <1>2, <2>5
  <2>7. ASSUME Fresh(w, g) PROVE Fresh(w, g)'
    <3>1. active[g] # 0 /\ wver[w] = active[g]
      BY <2>5, <2>7 DEF Fresh
    <3>2. s # None /\ s = spec[g][active[g]]
      BY <2>1, <3>1 DEF EtcdOk
    <3>3. wpc'[w] = "config"
      BY <2>4, <2>6, <3>2
    <3> QED
      BY <2>2, <2>3, <3>1, <3>2, <3>3 DEF Fresh
  <2>8. \A v \in Workers \ {w} : wver'[v] = wver[v] /\ wspec'[v] = wspec[v]
    BY <1>2, <2>2
  <2> QED
    BY <1>0, <1>1, <1>3, <2>2, <2>5, <2>7, <2>8, WorkerGoesOn
<1>6. CASE ApplyConfigMap(w)
  <2>1. /\ config' = [config EXCEPT ![g] = wspec[w].rev] /\ wpc[w] = "config"
        /\ wpc' = [wpc EXCEPT ![w] = "workload"] /\ "workload" \in Steps
        /\ UNCHANGED <<active, spec, status, cluster, wname, wver, wspec, listed, missed,
                       pending, out, wq>>
    BY <1>1, <1>6 DEF ApplyConfigMap, Goto, etcdVars, runVars, Steps
  <2>2. config'[g] = wspec[w].rev /\ \A f \in Flows \ {g} : config'[f] = config[f]
    BY <2>1 DEF KubeOk
  <2>3. wpc'[w] = "workload"
    BY <1>2, <2>1
  <2>4. ASSUME Fresh(w, g) PROVE Fresh(w, g)'
    <3>1. active[g] # 0 /\ wver[w] = active[g] /\ wspec[w] = spec[g][active[g]]
      BY <2>1, <2>4 DEF Fresh
    <3> QED
      BY <2>1, <2>2, <2>3, <3>1 DEF Fresh
  <2> QED
    BY <1>0, <1>1, <1>3, <2>1, <2>2, <2>4, WorkerGoesOn
<1>7. CASE ApplyWorkload(w)
  <2>1. PICK k, r : k = wspec[w].kind /\ r = Applied(wspec[w], cluster[g][k])
    OBVIOUS
  <2>2. PICK h : h = [cluster[g] EXCEPT ![k] = r]
    OBVIOUS
  <2>3. /\ cluster' = [cluster EXCEPT ![g] = h] /\ wpc[w] = "workload"
        /\ wpc' = [wpc EXCEPT ![w] = "status"] /\ "status" \in Steps
        /\ UNCHANGED <<active, spec, status, config, wname, wver, wspec, listed, missed,
                       pending, out, wq>>
    BY <1>1, <1>7, <2>1, <2>2 DEF ApplyWorkload, Goto, etcdVars, runVars, Steps
  <2>4. wspec[w] \in Specs
    BY <2>3 DEF WorkOk
  <2>5. k \in Kinds /\ wspec[w].rev # 0
    BY <2>1, <2>4 DEF Specs
  <2>6. cluster'[g] = h /\ \A f \in Flows \ {g} : cluster'[f] = cluster[f]
    BY <2>3 DEF KubeOk
  <2>7. cluster'[g][k] = r
    <3>1. h[k] = r
      BY <2>2, <2>5 DEF KubeOk
    <3> QED
      BY <2>6, <3>1
  <2>8. r = wspec[w].rev \/ (k = Job /\ r # 0)
    BY <2>1, <2>5 DEF Applied, CreateOrUpdate, CreateIfMissing
  <2>9. wpc'[w] = "status"
    BY <1>2, <2>3
  <2>10. ASSUME Fresh(w, g) PROVE Fresh(w, g)'
    <3>1. /\ active[g] # 0 /\ wver[w] = active[g] /\ wspec[w] = spec[g][active[g]]
          /\ config[g] = spec[g][active[g]].rev
      BY <2>3, <2>10 DEF Fresh
    <3> QED
      BY <2>1, <2>3, <2>7, <2>8, <2>9, <3>1 DEF Fresh
  <2> QED
    BY <1>0, <1>1, <1>3, <2>3, <2>6, <2>10, WorkerGoesOn
<1>8. CASE DeleteResources(w)
  <2>1. PICK h : h = [k \in Kinds |-> 0]
    OBVIOUS
  <2>2. PICK q : q = Done(wq, g)
    OBVIOUS
  <2>3. /\ cluster' = [cluster EXCEPT ![g] = h] /\ config' = [config EXCEPT ![g] = 0]
        /\ wpc[w] = "delete" /\ Finish(w, q)
        /\ UNCHANGED <<active, spec, status, listed, missed, pending, out>>
    BY <1>1, <1>8, <2>1, <2>2 DEF DeleteResources, Forget, etcdVars, runVars
  <2>4. Owes(wq) \subseteq Owes(q)
    BY <1>2, <2>2, DoneOwes
  <2>5. /\ cluster'[g] = h /\ config'[g] = 0
        /\ \A f \in Flows \ {g} : config'[f] = config[f] /\ cluster'[f] = cluster[f]
    BY <2>3 DEF KubeOk
  <2>6. ASSUME Fresh(w, g) PROVE Deployed(g)'
    <3>1. active'[g] = 0
      BY <2>3, <2>6 DEF Fresh
    <3> QED
      BY <2>1, <2>5, <3>1 DEF Deployed, Wanted
  <2> QED
    BY <1>0, <1>1, <2>3, <2>4, <2>5, <2>6, WorkerFinishes
<1>9. CASE UpdateStatus(w)
  <2>1. PICK q : q = Done(wq, g)
    OBVIOUS
  <2>2. /\ status' = [status EXCEPT ![g] = wver[w]] /\ wpc[w] = "status" /\ Finish(w, q)
        /\ UNCHANGED <<active, spec, config, cluster, listed, missed, pending, out>>
    BY <1>1, <1>9, <2>1 DEF UpdateStatus, Forget, kubeVars, runVars
  <2>3. Owes(wq) \subseteq Owes(q)
    BY <1>2, <2>1, DoneOwes
  <2>4. status'[g] = wver[w] /\ \A f \in Flows \ {g} : status'[f] = status[f]
    BY <2>2 DEF EtcdOk
  <2>5. ASSUME Fresh(w, g) PROVE Deployed(g)'
    <3>1. PICK s : s = spec[g][active[g]]
      OBVIOUS
    <3>2. /\ active[g] # 0 /\ wver[w] = active[g] /\ config[g] = s.rev
          /\ cluster[g][s.kind] = s.rev \/ (s.kind = Job /\ cluster[g][Job] # 0)
      BY <2>2, <2>5, <3>1 DEF Fresh
    <3> QED
      BY <2>2, <2>4, <3>1, <3>2 DEF Deployed, Wanted
  <2> QED
    BY <1>0, <1>1, <2>2, <2>3, <2>4, <2>5, WorkerFinishes
<1>10. CASE DeleteSome(w) \/ Fail(w)
  <2>1. PICK q : q = Retry(wq, g)
    OBVIOUS
  <2>2. /\ Finish(w, q)
        /\ UNCHANGED <<active, spec, listed, missed, pending, out>>
    BY <1>1, <1>10, <2>1 DEF DeleteSome, Fail, etcdVars, runVars
  <2>3. Owes(q) = Owes(wq) \cup {g}
    BY <1>2, <2>1, RetryOwes
  <2>4. \A f \in Flows \ {g} : status'[f] = status[f]
    BY <1>1, <1>10 DEF DeleteSome, Fail, etcdVars, EtcdOk
  <2>5. \A f \in Flows \ {g} : config'[f] = config[f] /\ cluster'[f] = cluster[f]
    <3>1. CASE Fail(w)
      BY <3>1 DEF Fail, kubeVars
    <3>2. CASE DeleteSome(w)
      <4>1. \E h, c : /\ cluster' = [cluster EXCEPT ![g] = h]
                      /\ config' = [config EXCEPT ![g] = c]
        BY <1>1, <3>2 DEF DeleteSome
      <4> QED
        BY <4>1 DEF KubeOk
    <3> QED
      BY <1>10, <3>1, <3>2
  <2> QED
    BY <1>0, <1>1, <2>2, <2>3, <2>4, <2>5, WorkerFinishes
<1> QED
  BY <1>4, <1>5, <1>6, <1>7, <1>8, <1>9, <1>10 DEF Reconcile

\* A crash forgets everything, but what was not settled counts as missed.
LEMMA CrashFollows ==
    ASSUME ExclusiveInv, ~wq.shut => \A f \in Flows : FollowsOk(f), Crash
    PROVE  \A f \in Flows : FollowsOk(f)'
<1> SUFFICES ASSUME NEW f \in Flows, Quiet(f)'
             PROVE  Deployed(f)' /\ \A w \in Workers : wname'[w] # f
  BY DEF FollowsOk
<1>1. f \notin missed'
  BY DEF Quiet
<1>2. ~wq.shut /\ Settled(f)
  BY <1>1 DEF Crash
<1>3. Quiet(f) /\ f \notin Held
  BY <1>2 DEF Settled, Quiet
<1>4. Deployed(f)
  BY <1>2, <1>3 DEF FollowsOk
<1>5. UNCHANGED <<active, spec, status, config, cluster>>
  BY DEF Crash, etcdVars, kubeVars
<1>6. \A w \in Workers : wname'[w] # f
  BY ControllerAssumption DEF Crash
<1> QED
  BY <1>4, <1>5, <1>6 DEF Deployed, Wanted

\* Every step preserves the invariant.
LEMMA NextFollows == ExclusiveInv /\ FollowsInv /\ [Next]_vars => FollowsInv'
<1> SUFFICES ASSUME ExclusiveInv, FollowsInv, [Next]_vars PROVE FollowsInv'
  OBVIOUS
<1>1. EtcdOk /\ KubeOk /\ RunOk /\ WorkOk /\ FaultsOk /\ QueueSound(wq)
  BY DEF FollowsInv, ExclusiveInv
<1>2. EtcdOk' /\ KubeOk' /\ RunOk' /\ WorkOk' /\ FaultsOk'
  BY <1>1, NextEtcd, NextKube, NextRun, NextWork, NextFaults
<1>3. ASSUME ~wq'.shut PROVE \A f \in Flows : FollowsOk(f)'
  <2>1. CASE Crash
    BY <2>1, CrashFollows DEF FollowsInv
  <2>2. CASE ~Crash
    <3>1. ~LoseLease
      BY <1>1, <1>3 DEF LoseLease, Shutdown, QueueSound, QueueType
    <3>2. ~wq.shut
      <4>1. CASE \E f \in Flows : BackOffEnds(f)
        BY <1>1, <1>3, <4>1, FireOwes DEF BackOffEnds
      <4>2. CASE \E f \in Flows : Seed(f)
        <5>1. \E f \in Flows : wq' = wq \/ wq' = Add(wq, f)
          BY <4>2 DEF Seed
        <5> QED
          BY <1>1, <1>3, <5>1, AddOwes
      <4>3. CASE EnqueueEvent
        <5>1. Head(out) \in Flows /\ wq' = Add(wq, Head(out))
          BY <4>3 DEF EnqueueEvent, ExclusiveInv, NamesOk
        <5> QED
          BY <1>1, <1>3, <5>1, AddOwes
      <4>4. CASE \E w \in Workers : Get(w)
        BY <1>1, <1>3, <4>4, TakeOwes DEF Get
      <4>5. ASSUME NEW w \in Workers, LastGet(w) PROVE ~wq.shut
        <5>1. PICK k \in Flows : k = Head(wq.order)
          BY <1>1, <4>5, TakeSound DEF LastGet
        <5>2. QueueSound(Take(wq)) /\ Take(wq).shut = wq.shut
          BY <1>1, <4>5, TakeSound, TakeOwes DEF LastGet
        <5>3. wq' = Retry(Take(wq), k)
          BY <4>5, <5>1 DEF LastGet
        <5> QED
          BY <1>3, <5>2, <5>3, RetryOwes
      <4>6. ASSUME NEW w \in Workers, Reconcile(w) \/ Fail(w) PROVE ~wq.shut
        <5>1. wpc[w] # "idle"
          BY <4>6 DEF Reconcile, GetActive, GetSpec, DeleteResources, DeleteSome,
                      ApplyConfigMap, ApplyWorkload, UpdateStatus, Abandon, Fail
        <5>2. wq' = wq \/ wq' = Done(wq, wname[w]) \/ wq' = Retry(wq, wname[w])
          BY <4>6 DEF Reconcile, GetActive, GetSpec, DeleteResources, DeleteSome, Finish,
                      Forget, ApplyConfigMap, ApplyWorkload, UpdateStatus, Abandon, Fail
        <5> QED
          BY <1>1, <1>3, <5>1, <5>2, BusyHolds, DoneOwes, RetryOwes
      <4>7. CASE UNCHANGED wq
        BY <1>3, <4>7
      <4> QED
        BY <2>2, <3>1, <4>1, <4>2, <4>3, <4>4, <4>5, <4>6, <4>7
           DEF Next, ApiCall, Submit, Rollback, Delete, Changed, Starting, List, Seeded,
               OpenWatch, SeedSkips, HandleEvent, DropEvent, WatchEnds, RegainLease, vars
    <3>3. \A f \in Flows : FollowsOk(f)
      BY <3>2 DEF FollowsInv
    <3>4. ctl # "lost"
      BY <1>1, <3>2 DEF RunOk
    <3>5. CASE ApiCall
      BY <1>1, <3>3, <3>5, ApiCallFollows
    <3>6. CASE Starting
      BY <1>1, <3>2, <3>3, <3>6, StartingFollows
    <3>7. CASE HandleEvent \/ DropEvent \/ EnqueueEvent \/ WatchEnds
      BY <3>2, <3>3, <3>7, WatchFollows
    <3>8. CASE \E w \in Workers : Get(w)
      BY <1>1, <3>3, <3>8, GetFollows
    <3>9. ASSUME NEW w \in Workers, Reconcile(w) \/ Fail(w)
          PROVE  \A f \in Flows : FollowsOk(f)'
      <4>1. ~Abandon(w)
        BY <3>4 DEF Abandon
      <4> QED
        BY <1>1, <1>2, <3>2, <3>3, <3>9, <4>1, ReconcileFollows
    <3>10. ~(\E w \in Workers : LastGet(w)) /\ ~RegainLease
      BY <3>4 DEF LastGet, RegainLease
    <3>11. ASSUME NEW g \in Flows, BackOffEnds(g) PROVE \A f \in Flows : FollowsOk(f)'
      <4>1. Owes(wq) \subseteq Owes(wq')
        BY <1>1, <3>2, <3>11, FireOwes DEF BackOffEnds
      <4>2. UNCHANGED <<active, spec, status, config, cluster, wpc, wname, wver, wspec,
                        listed, missed, pending, out>>
        BY <3>11 DEF BackOffEnds, etcdVars, kubeVars, runVars, workVars
      <4>3. \A f \in Flows : Quiet(f)' => Quiet(f)
        BY <4>1, <4>2 DEF Quiet, ToSeed, Announced
      <4> QED
        BY <3>3, <4>2, <4>3, NothingForgotten
    <3>12. CASE UNCHANGED vars
      <4>1. \A f \in Flows : Quiet(f)' => Quiet(f)
        BY <3>12 DEF vars, Quiet, ToSeed, Announced
      <4> QED
        BY <3>3, <3>12, <4>1, NothingForgotten DEF vars
    <3> QED
      BY <2>2, <3>1, <3>5, <3>6, <3>7, <3>8, <3>9, <3>10, <3>11, <3>12 DEF Next
  <2> QED
    BY <2>1, <2>2
<1> QED
  BY <1>2, <1>3 DEF FollowsInv

\* The invariants together give the types.
LEMMA TypesFollow == ExclusiveInv /\ FollowsInv => TypeOK
<1> SUFFICES ASSUME ExclusiveInv, FollowsInv PROVE TypeOK
  OBVIOUS
<1>1. /\ wq.order \in Seq(Flows) /\ wq.shut \in BOOLEAN
      /\ wq.dirty \cup wq.processing \cup wq.delayed \subseteq Flows
  BY DEF ExclusiveInv, QueueSound, QueueType
<1>2. Len(wq.order) <= Cardinality(Flows)
  BY OrderFits DEF ExclusiveInv
<1>3. /\ pending \in Seq(Event) /\ out \in Seq(Flows)
      /\ wpc \in [Workers -> Steps] /\ wname \in [Workers -> Flows \cup {None}]
  BY DEF ExclusiveInv, NamesOk, HeldOk
<1> QED
  BY <1>1, <1>2, <1>3 DEF TypeOK, FollowsInv, EtcdOk, KubeOk, RunOk, WorkOk, FaultsOk

\* Both invariants hold in every reachable state.
LEMMA Invariants == Spec => [](ExclusiveInv /\ FollowsInv)
  BY InitExclusive, NextExclusive, InitFollows, NextFollows, PTL DEF Spec

(***************************************************************************)
(* Every variable keeps its type: the watch channel never exceeds its      *)
(* buffer, no more keys are ready than there are flows, and no pointer or  *)
(* status names a version that was never numbered.                         *)
(***************************************************************************)
THEOREM ControllerTypes == Spec => []TypeOK
  BY Invariants, TypesFollow, PTL

(***************************************************************************)
(* For any number of flows, workers, changes, failed requests, crashes and *)
(* losses of leadership: a flow of which the controller was told every     *)
(* change, and for which neither the queue nor a worker has anything left  *)
(* to do, has in the cluster what its active spec asks for.                *)
(***************************************************************************)
THEOREM SettledFlowsAreDeployed == Spec => []SettledIsDeployed
<1>1. FollowsInv => SettledIsDeployed
  <2> SUFFICES ASSUME FollowsInv, NEW f \in Flows, Settled(f), ~wq.shut
               PROVE  Deployed(f)
    BY DEF SettledIsDeployed
  <2>1. FollowsOk(f)
    BY DEF FollowsInv
  <2>2. Quiet(f) /\ f \notin Held
    BY DEF Settled, Quiet
  <2> QED
    BY <2>1, <2>2 DEF FollowsOk
<1> QED
  BY <1>1, Invariants, PTL
=============================================================================
