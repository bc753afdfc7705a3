------------------------- MODULE RuntimeDataProofs -------------------------
(***************************************************************************)
(* What happens to the payloads of a pipeline, for every pipeline: none is *)
(* duplicated, every queued one carries its queue's schema, and a job      *)
(* whose spec lists consumers first is drained when it stops.              *)
(***************************************************************************)
EXTENDS RuntimeProofs

\* A set without two different members counts at most one.
LEMMA LoneCard ==
  ASSUME NEW S, Lone(S)
  PROVE  /\ Cardinality(S) \in {0, 1}
         /\ S = {} => Cardinality(S) = 0
<1>1. CASE S = {}
  BY <1>1, FS_EmptySet
<1>2. CASE S # {}
  <2>1. PICK x : x \in S
    BY <1>2
  <2>2. S = {x}
    BY <2>1 DEF Lone
  <2> QED BY <1>2, <2>2, FS_Singleton
<1> QED BY <1>1, <1>2

\* Being in one place at most, counted.
LEMMA OnePlaceCounts == (\A id \in PayloadIds : InOnePlace(id)) => AtMostOnce
<1> SUFFICES ASSUME NEW id \in PayloadIds, InOnePlace(id)
             PROVE  Cardinality(Holders(id)) + Cardinality(Slots(id)) + Cardinality(Uses(id))
                      + (IF id \in dropped THEN 1 ELSE 0) <= 1
  BY DEF AtMostOnce
<1> DEFINE H == Holders(id)
           S == Slots(id)
           U == Uses(id)
<1>1. /\ Cardinality(H) \in {0, 1} /\ (H = {} => Cardinality(H) = 0)
      /\ Cardinality(S) \in {0, 1} /\ (S = {} => Cardinality(S) = 0)
      /\ Cardinality(U) \in {0, 1} /\ (U = {} => Cardinality(U) = 0)
  BY LoneCard DEF InOnePlace
<1>2. /\ H # {} => S = {} /\ U = {} /\ id \notin dropped
      /\ S # {} => U = {} /\ id \notin dropped
      /\ U # {} => id \notin dropped
  BY DEF InOnePlace
<1> QED BY <1>1, <1>2

-----------------------------------------------------------------------------
\* A slot holds the payload at its index.
LEMMA SlotsMember ==
  ASSUME NEW id, NEW s
  PROVE  /\ s \in Slots(id) <=> \E q \in Queues : \E i \in DOMAIN queue[q] :
                                   queue[q][i].id = id /\ s = <<q, i>>
         /\ s \in Slots(id)' <=> \E q \in Queues : \E i \in DOMAIN queue'[q] :
                                   queue'[q][i].id = id /\ s = <<q, i>>
  BY DEF Slots

\* One worker takes a payload into its hands, or empties them.
LEMMA HoldersUpdate ==
  ASSUME TypeOK, NEW w \in Workers, NEW x, held' = [held EXCEPT ![w] = x], NEW id
  PROVE  /\ x = NoPayload => Holders(id)' = Holders(id) \ {w}
         /\ x # NoPayload /\ x.id # id => Holders(id)' = Holders(id) \ {w}
         /\ x # NoPayload /\ x.id = id => Holders(id)' = Holders(id) \cup {w}
  BY DEF TypeOK, Holders

\* push() adds one slot, for the payload's own id.
LEMMA SlotsAppend ==
  ASSUME TypeOK, NEW q \in Queues, NEW p \in Payload,
         queue' = [queue EXCEPT ![q] = Append(@, p)], NEW id
  PROVE  /\ p.id # id => Slots(id)' = Slots(id)
         /\ \E s : p.id = id => Slots(id)' = Slots(id) \cup {s}
<1> DEFINE n == Len(queue[q]) + 1
<1>1. queue[q] \in Seq(Payload) /\ queue'[q] = Append(queue[q], p)
  BY DEF TypeOK
<1>2. /\ DOMAIN queue'[q] = DOMAIN queue[q] \cup {n} /\ n \notin DOMAIN queue[q]
      /\ queue'[q][n] = p /\ \A i \in DOMAIN queue[q] : queue'[q][i] = queue[q][i]
  BY <1>1
<1>3. \A r \in Queues \ {q} : queue'[r] = queue[r]
  BY DEF TypeOK
<1> HIDE DEF n
<1>4. ASSUME p.id # id, NEW s PROVE s \in Slots(id)' <=> s \in Slots(id)
  BY <1>2, <1>3, <1>4, SlotsMember
<1>5. ASSUME p.id = id, NEW s PROVE s \in Slots(id)' <=> s \in Slots(id) \cup {<<q, n>>}
  <2>1. ASSUME s \in Slots(id)' PROVE s \in Slots(id) \cup {<<q, n>>}
    <3>1. PICK r \in Queues : \E i \in DOMAIN queue'[r] : queue'[r][i].id = id /\ s = <<r, i>>
      BY <2>1, SlotsMember
    <3>2. PICK i \in DOMAIN queue'[r] : queue'[r][i].id = id /\ s = <<r, i>>
      BY <3>1
    <3>3. CASE r = q /\ i = n
      BY <3>2, <3>3
    <3>4. CASE ~(r = q /\ i = n)
      <4>1. i \in DOMAIN queue[r] /\ queue[r][i].id = id
        BY <1>2, <1>3, <3>2, <3>4
      <4> QED BY <3>2, <4>1, SlotsMember
    <3> QED BY <3>3, <3>4
  <2>2. ASSUME s \in Slots(id) PROVE s \in Slots(id)'
    <3>1. PICK r \in Queues : \E i \in DOMAIN queue[r] : queue[r][i].id = id /\ s = <<r, i>>
      BY <2>2, SlotsMember
    <3>2. PICK i \in DOMAIN queue[r] : queue[r][i].id = id /\ s = <<r, i>>
      BY <3>1
    <3>3. i \in DOMAIN queue'[r] /\ queue'[r][i].id = id
      BY <1>2, <1>3, <3>2
    <3> QED BY <3>2, <3>3, SlotsMember
  <2>3. <<q, n>> \in Slots(id)'
    BY <1>2, <1>5, SlotsMember
  <2> QED BY <2>1, <2>2, <2>3
<1>6. p.id # id => Slots(id)' = Slots(id)
  BY <1>4
<1>7. p.id = id => Slots(id)' = Slots(id) \cup {<<q, n>>}
  BY <1>5
<1> QED BY <1>6, <1>7

\* The tail of a sequence is the sequence without its first index.
LEMMA TailIndices ==
  ASSUME NEW S, NEW s \in Seq(S), s # <<>>
  PROVE  /\ \A i \in DOMAIN Tail(s) :
              i \in Nat \ {0} /\ i + 1 \in DOMAIN s /\ Tail(s)[i] = s[i + 1]
         /\ \A i \in DOMAIN s \ {1} : i - 1 \in DOMAIN Tail(s) /\ Tail(s)[i - 1] = s[i]
         /\ 1 \in DOMAIN s /\ s[1] = Head(s)
<1>1. Len(s) \in Nat /\ Len(s) # 0 /\ DOMAIN s = 1 .. Len(s) /\ s[1] = Head(s)
  OBVIOUS
<1>2. Len(Tail(s)) = Len(s) - 1 /\ DOMAIN Tail(s) = 1 .. Len(s) - 1
  BY <1>1
<1>3. \A i \in 1 .. Len(s) - 1 : Tail(s)[i] = s[i + 1]
  BY <1>1
<1>4. ASSUME NEW i \in DOMAIN s \ {1} PROVE i - 1 \in DOMAIN Tail(s) /\ Tail(s)[i - 1] = s[i]
  <2>1. i \in Nat /\ i - 1 \in 1 .. Len(s) - 1 /\ (i - 1) + 1 = i
    BY <1>1
  <2> QED BY <2>1, <1>2, <1>3
<1> QED BY <1>1, <1>2, <1>3, <1>4

\* pop() frees the slot of the payload it returns; the others move up.
LEMMA SlotsTail ==
  ASSUME TypeOK, NEW q \in Queues, queue[q] # <<>>,
         queue' = [queue EXCEPT ![q] = Tail(@)], NEW id
  PROVE  /\ Lone(Slots(id)) => Lone(Slots(id)')
         /\ Slots(id) = {} => Slots(id)' = {} /\ Head(queue[q]).id # id
         /\ Lone(Slots(id)) /\ Head(queue[q]).id = id => Slots(id)' = {}
         /\ Slots(id) # {} /\ Head(queue[q]).id # id => Slots(id)' # {}
<1>1. queue[q] \in Seq(Payload) /\ queue'[q] = Tail(queue[q])
  BY DEF TypeOK
<1>s. PICK u \in Seq(Payload) : u = queue[q]
  BY <1>1
<1>e. /\ \A i \in DOMAIN Tail(u) :
           i \in Nat \ {0} /\ i + 1 \in DOMAIN u /\ Tail(u)[i] = u[i + 1]
      /\ \A i \in DOMAIN u \ {1} : i - 1 \in DOMAIN Tail(u) /\ Tail(u)[i - 1] = u[i]
      /\ 1 \in DOMAIN u /\ u[1] = Head(u)
  BY <1>s, TailIndices
<1>2. /\ \A i \in DOMAIN queue'[q] : i + 1 \in DOMAIN queue[q] /\ queue'[q][i] = queue[q][i + 1]
      /\ \A i \in DOMAIN queue[q] \ {1} : i - 1 \in DOMAIN queue'[q] /\ queue'[q][i - 1] = queue[q][i]
      /\ 1 \in DOMAIN queue[q] /\ queue[q][1] = Head(queue[q])
      /\ \A i \in DOMAIN queue'[q] : i \in Nat \ {0}
  BY <1>1, <1>s, <1>e, Zenon
<1>3. \A r \in Queues \ {q} : queue'[r] = queue[r]
  BY DEF TypeOK
<1> DEFINE Old(s) == IF s[1] = q THEN <<q, s[2] + 1>> ELSE s
<1>4. ASSUME NEW s \in Slots(id)'
      PROVE  /\ \E r \in Queues, i \in Nat : s = <<r, i>> /\ (r = q => i # 0)
             /\ Old(s) \in Slots(id)
  <2>1. PICK r \in Queues : \E i \in DOMAIN queue'[r] : queue'[r][i].id = id /\ s = <<r, i>>
    BY SlotsMember
  <2>2. PICK i \in DOMAIN queue'[r] : queue'[r][i].id = id /\ s = <<r, i>>
    BY <2>1
  <2>3. CASE r = q
    <3>1. i \in Nat \ {0} /\ i + 1 \in DOMAIN queue[q] /\ queue[q][i + 1].id = id
      BY <1>2, <2>2, <2>3
    <3>2. <<q, i + 1>> \in Slots(id)
      BY <3>1, SlotsMember
    <3> QED BY <2>2, <2>3, <3>1, <3>2
  <2>4. CASE r # q
    <3>1. i \in DOMAIN queue[r] /\ queue[r][i].id = id /\ i \in Nat
      BY <1>3, <2>2, <2>4 DEF TypeOK
    <3>2. s \in Slots(id)
      BY <2>2, <3>1, SlotsMember
    <3> QED BY <2>2, <2>4, <3>1, <3>2
  <2> QED BY <2>3, <2>4
<1>5. ASSUME NEW a \in Slots(id)', NEW b \in Slots(id)', Old(a) = Old(b) PROVE a = b
  <2>1. PICK r \in Queues, i \in Nat : a = <<r, i>>
    BY <1>4
  <2>2. PICK t \in Queues, j \in Nat : b = <<t, j>>
    BY <1>4
  <2> QED BY <1>5, <2>1, <2>2
<1>6. ASSUME NEW s \in Slots(id)' PROVE Old(s) # <<q, 1>>
  BY <1>4
<1> HIDE DEF Old
<1>7. Head(queue[q]).id = id => <<q, 1>> \in Slots(id)
  BY <1>2, SlotsMember
<1>8. ASSUME NEW s \in Slots(id), Head(queue[q]).id # id PROVE Slots(id)' # {}
  <2>1. PICK r \in Queues : \E i \in DOMAIN queue[r] : queue[r][i].id = id /\ s = <<r, i>>
    BY SlotsMember
  <2>2. PICK i \in DOMAIN queue[r] : queue[r][i].id = id /\ s = <<r, i>>
    BY <2>1
  <2>3. CASE r = q
    <3>1. i - 1 \in DOMAIN queue'[q] /\ queue'[q][i - 1].id = id
      BY <1>2, <1>8, <2>2, <2>3
    <3>2. <<q, i - 1>> \in Slots(id)'
      BY <3>1, SlotsMember
    <3> QED BY <3>2
  <2>4. CASE r # q
    <3>1. i \in DOMAIN queue'[r] /\ queue'[r][i].id = id
      BY <1>3, <2>2, <2>4
    <3>2. <<r, i>> \in Slots(id)'
      BY <3>1, SlotsMember
    <3> QED BY <3>2
  <2> QED BY <2>3, <2>4
<1> QED BY <1>4, <1>5, <1>6, <1>7, <1>8 DEF Lone

\* consume() of one payload is one more use of its id.
LEMMA UsesAppend ==
  ASSUME TypeOK, NEW x \in PayloadIds, consumed' = Append(consumed, x), NEW id
  PROVE  /\ x # id => Uses(id)' = Uses(id)
         /\ \E s : x = id => Uses(id)' = Uses(id) \cup {s}
<1> DEFINE n == Len(consumed) + 1
<1>1. /\ DOMAIN consumed' = DOMAIN consumed \cup {n} /\ n \notin DOMAIN consumed
      /\ consumed'[n] = x /\ \A i \in DOMAIN consumed : consumed'[i] = consumed[i]
  BY DEF TypeOK
<1> HIDE DEF n
<1>2. x # id => Uses(id)' = Uses(id)
  BY <1>1 DEF Uses
<1>3. x = id => Uses(id)' = Uses(id) \cup {n}
  BY <1>1 DEF Uses
<1> QED BY <1>2, <1>3

-----------------------------------------------------------------------------
\* A step that neither copies, loses nor invents the payload `id`.
Kept(id) ==
    /\ InOnePlace(id) => InOnePlace(id)'
    /\ Nowhere(id) <=> Nowhere(id)'

\* A step that leaves payloads alone.
LEMMA StillKept ==
  ASSUME UNCHANGED <<held, queue, consumed, dropped>>, NEW id
  PROVE  Kept(id)
  BY DEF Kept, InOnePlace, Nowhere, Lone, Holders, Slots, Uses

\* What a worker holds is in its hands and nowhere else.
LEMMA HeldAlone ==
  ASSUME RuntimeInv, Moved, NEW w \in Workers, held[w] \in Payload
  PROVE  /\ held[w] # NoPayload /\ held[w].id \in PayloadIds
         /\ Holders(held[w].id) = {w} /\ Slots(held[w].id) = {} /\ Uses(held[w].id) = {}
         /\ held[w].id \notin dropped
         /\ \A id : id # held[w].id => w \notin Holders(id)
<1>1. held[w] # NoPayload /\ held[w].id \in PayloadIds
  BY PayloadAssumption DEF Payload
<1>2. w \in Holders(held[w].id) /\ \A id : id # held[w].id => w \notin Holders(id)
  BY <1>1 DEF Holders
<1>3. InOnePlace(held[w].id)
  BY <1>1 DEF Moved
<1> QED BY <1>1, <1>2, <1>3 DEF InOnePlace, Lone

\* push(): from the hands into the queue.
LEMMA PushKept ==
  ASSUME RuntimeInv, Moved, NEW w \in Workers, Push(w), NEW id \in PayloadIds
  PROVE  Kept(id)
<1>t. TypeOK
  BY DEF RuntimeInv
<1>1. OutOf(w) \in Queues /\ held[w] \in Payload
  BY EndsExist DEF Push, RuntimeInv, PcShape
<1>2. /\ Uses(id)' = Uses(id) /\ dropped' = dropped
      /\ held' = [held EXCEPT ![w] = NoPayload]
      /\ queue' = [queue EXCEPT ![OutOf(w)] = Append(@, held[w])]
  BY DEF Push, Uses
<1>3. Holders(id)' = Holders(id) \ {w}
  BY <1>2, <1>t, HoldersUpdate
<1>4. PICK s : /\ held[w].id # id => Slots(id)' = Slots(id)
               /\ held[w].id = id => Slots(id)' = Slots(id) \cup {s}
  BY <1>1, <1>2, <1>t, SlotsAppend
<1>5. CASE held[w].id = id
  <2>1. /\ Holders(id) = {w} /\ Slots(id) = {} /\ Uses(id) = {} /\ id \notin dropped
    BY <1>1, <1>5, HeldAlone
  <2>2. Holders(id)' = {} /\ Slots(id)' = {s} /\ Uses(id)' = {} /\ id \notin dropped'
    BY <1>2, <1>3, <1>4, <1>5, <2>1
  <2> QED BY <2>1, <2>2 DEF Kept, InOnePlace, Nowhere, Lone
<1>6. CASE held[w].id # id
  <2>1. Holders(id)' = Holders(id)
    BY <1>1, <1>3, <1>6, HeldAlone
  <2> QED BY <1>2, <1>4, <1>6, <2>1 DEF Kept, InOnePlace, Nowhere, Lone
<1> QED BY <1>5, <1>6

\* pop(): from the queue into the hands, or dropped for its schema.
LEMMA PopKept ==
  ASSUME RuntimeInv, Moved, Hands, NEW w \in Workers, Pop(w), NEW id \in PayloadIds
  PROVE  Kept(id)
<1> DEFINE q == InOf(w)
           p == Head(queue[q])
<1>t. TypeOK
  BY DEF RuntimeInv
<1>1. q \in Queues /\ queue[q] # <<>> /\ held[w] = NoPayload
  BY EndsExist DEF Pop, RuntimeInv, PcShape, Hands
<1>2. p \in Payload /\ p # NoPayload /\ p.id \in PayloadIds
  <2>1. queue[q] \in Seq(Payload)
    BY <1>1, <1>t DEF TypeOK
  <2>2. p \in Payload
    BY <1>1, <2>1
  <2> QED BY <2>2, PayloadAssumption DEF Payload
<1>3. Uses(id)' = Uses(id) /\ queue' = [queue EXCEPT ![q] = Tail(@)] /\ w \notin Holders(id)
  BY <1>1 DEF Pop, Uses, Holders
<1>4. PICK x : /\ x \in {p, NoPayload} /\ held' = [held EXCEPT ![w] = x]
               /\ x = p => dropped' = dropped
               /\ x = NoPayload => dropped' = dropped \cup {p.id}
  BY <1>2 DEF Pop
<1>5. /\ Lone(Slots(id)) => Lone(Slots(id)')
      /\ Slots(id) = {} => Slots(id)' = {} /\ p.id # id
      /\ Lone(Slots(id)) /\ p.id = id => Slots(id)' = {}
      /\ Slots(id) # {} /\ p.id # id => Slots(id)' # {}
  BY <1>1, <1>3, <1>t, SlotsTail
<1>6. /\ x = NoPayload => Holders(id)' = Holders(id) \ {w}
      /\ x # NoPayload /\ x.id # id => Holders(id)' = Holders(id) \ {w}
      /\ x # NoPayload /\ x.id = id => Holders(id)' = Holders(id) \cup {w}
  BY <1>4, <1>t, HoldersUpdate
<1>7. InOnePlace(id)
  BY DEF Moved
<1> HIDE DEF p, q
<1>8. CASE p.id = id
  <2>1. /\ Slots(id) # {} /\ Slots(id)' = {}
        /\ Holders(id) = {} /\ Uses(id) = {} /\ id \notin dropped
    BY <1>5, <1>7, <1>8 DEF InOnePlace
  <2>2. CASE x = p
    <3>1. Holders(id)' = {w} /\ Uses(id)' = {} /\ id \notin dropped'
      BY <1>2, <1>3, <1>4, <1>6, <1>8, <2>1, <2>2
    <3> QED BY <2>1, <3>1 DEF Kept, InOnePlace, Nowhere, Lone
  <2>3. CASE x = NoPayload
    <3>1. Holders(id)' = {} /\ Uses(id)' = {} /\ id \in dropped'
      BY <1>3, <1>4, <1>6, <1>8, <2>1, <2>3
    <3> QED BY <2>1, <3>1 DEF Kept, InOnePlace, Nowhere, Lone
  <2> QED BY <1>4, <2>2, <2>3
<1>9. CASE p.id # id
  <2>1. Holders(id)' = Holders(id) /\ (id \in dropped' <=> id \in dropped)
    BY <1>2, <1>3, <1>4, <1>6, <1>9
  <2> QED BY <1>3, <1>5, <1>9, <2>1 DEF Kept, InOnePlace, Nowhere
<1> QED BY <1>8, <1>9

\* consume(): from the hands of a sink to its use.
LEMMA ConsumeKept ==
  ASSUME RuntimeInv, Moved, NEW w \in Workers, Consume(w), NEW id \in PayloadIds
  PROVE  Kept(id)
<1>t. TypeOK
  BY DEF RuntimeInv
<1>1. held[w] \in Payload
  BY DEF Consume, RuntimeInv, PcShape
<1>2. /\ Slots(id)' = Slots(id) /\ dropped' = dropped
      /\ held' = [held EXCEPT ![w] = NoPayload] /\ consumed' = Append(consumed, held[w].id)
  BY DEF Consume, Slots, qVars
<1>3. Holders(id)' = Holders(id) \ {w}
  BY <1>2, <1>t, HoldersUpdate
<1>4. PICK s : /\ held[w].id # id => Uses(id)' = Uses(id)
               /\ held[w].id = id => Uses(id)' = Uses(id) \cup {s}
  BY <1>1, <1>2, <1>t, HeldAlone, UsesAppend
<1>5. CASE held[w].id = id
  <2>1. /\ Holders(id) = {w} /\ Slots(id) = {} /\ Uses(id) = {} /\ id \notin dropped
    BY <1>1, <1>5, HeldAlone
  <2>2. Holders(id)' = {} /\ Slots(id)' = {} /\ Uses(id)' = {s} /\ id \notin dropped'
    BY <1>2, <1>3, <1>4, <1>5, <2>1
  <2> QED BY <2>1, <2>2 DEF Kept, InOnePlace, Nowhere, Lone
<1>6. CASE held[w].id # id
  <2>1. Holders(id)' = Holders(id)
    BY <1>1, <1>3, <1>6, HeldAlone
  <2> QED BY <1>2, <1>4, <1>6, <2>1 DEF Kept, InOnePlace, Nowhere, Lone
<1> QED BY <1>5, <1>6

\* A payload that is thrown away appears nowhere else.
LEMMA DiscardLeaves ==
  ASSUME RuntimeInv, Moved, NEW w \in Workers, Throw(w) \/ PushRefused(w), NEW id \in PayloadIds
  PROVE  /\ InOnePlace(id)'
         /\ Nowhere(id) => Nowhere(id)'
<1>1. /\ Slots(id)' = Slots(id) /\ Uses(id)' = Uses(id) /\ dropped' = dropped
      /\ held' = [held EXCEPT ![w] = NoPayload]
  BY DEF Throw, PushRefused, Slots, Uses, qVars
<1>2. Holders(id)' = Holders(id) \ {w}
  BY <1>1, HoldersUpdate DEF RuntimeInv
<1>3. InOnePlace(id)
  BY DEF Moved
<1> QED BY <1>1, <1>2, <1>3 DEF InOnePlace, Nowhere, Lone

\* The output schema check keeps a payload in hand or drops it.
LEMMA EmitPlaces ==
  ASSUME RuntimeInv, NEW w \in Workers, OutOf(w) \in Queues, NEW x \in PayloadIds,
         NEW given \in Schemas \cup {NoSchema}, NEW schema \in Emitted(w, given),
         Emit(w, x, schema), UNCHANGED <<queue, consumed>>,
         Holders(x) \subseteq {w}, Slots(x) = {}, Uses(x) = {}, x \notin dropped,
         \A y : y # x => w \notin Holders(y),
         NEW id \in PayloadIds
  PROVE  /\ id = x => InOnePlace(id)' /\ ~Nowhere(id)'
         /\ id # x => Kept(id)
<1>1. Slots(id)' = Slots(id) /\ Uses(id)' = Uses(id)
  BY DEF Slots, Uses
<1>2. CASE OutputOk(OutOf(w), schema)
  <2>1. PICK p : /\ p = [id |-> x, schema |-> Stamp(OutOf(w), schema)]
                 /\ held' = [held EXCEPT ![w] = p] /\ dropped' = dropped
    BY <1>2 DEF Emit
  <2>2. p # NoPayload /\ p.id = x
    <3>1. Stamp(OutOf(w), schema) \in Schemas \cup {NoSchema}
      BY RuntimeAssumption DEF Stamp, Emitted
    <3>2. p \in Payload /\ p.id = x
      BY <2>1, <3>1 DEF Payload
    <3> QED BY <3>2, PayloadAssumption
  <2>h. /\ p # NoPayload /\ p.id # id => Holders(id)' = Holders(id) \ {w}
        /\ p # NoPayload /\ p.id = id => Holders(id)' = Holders(id) \cup {w}
    BY <2>1, HoldersUpdate DEF RuntimeInv
  <2>3. id = x => Holders(id)' = Holders(id) \cup {w}
    BY <2>2, <2>h
  <2>4. id # x => Holders(id)' = Holders(id) \ {w}
    BY <2>2, <2>h
  <2> QED BY <1>1, <2>1, <2>3, <2>4 DEF Kept, InOnePlace, Nowhere, Lone
<1>3. CASE ~OutputOk(OutOf(w), schema)
  <2>1. held' = [held EXCEPT ![w] = NoPayload] /\ dropped' = dropped \cup {x}
    BY <1>3 DEF Emit
  <2>2. Holders(id)' = Holders(id) \ {w}
    BY <2>1, HoldersUpdate DEF RuntimeInv
  <2> QED BY <1>1, <2>1, <2>2 DEF Kept, InOnePlace, Nowhere, Lone
<1> QED BY <1>2, <1>3

\* produce() makes a payload that was nowhere.
LEMMA ProducePlaces ==
  ASSUME RuntimeInv, DataInv, NEW w \in Workers, Produce(w), NEW id \in PayloadIds
  PROVE  /\ <<w, count[w] + 1>> \in PayloadIds /\ Nowhere(<<w, count[w] + 1>>)
         /\ id = <<w, count[w] + 1>> => InOnePlace(id)' /\ ~Nowhere(id)'
         /\ id # <<w, count[w] + 1>> => Kept(id)
<1> DEFINE x == <<w, count[w] + 1>>
<1>1. count[w] + 1 \in 1 .. MaxProduce /\ count[w] + 1 > count[w] /\ x \in PayloadIds
  BY RuntimeAssumption DEF RuntimeInv, TypeOK, Produce, PayloadIds
<1>2. Nowhere(x)
  BY <1>1 DEF DataInv, Moved
<1>3. held[w] = NoPayload /\ UNCHANGED <<queue, consumed>>
  BY DEF DataInv, Hands, Produce, qVars
<1>4. OutOf(w) \in Queues
  BY EndsExist DEF Produce
<1>5. PICK schema \in Emitted(w, NoSchema) : Emit(w, x, schema)
  BY DEF Produce
<1>6. \A y : w \notin Holders(y)
  BY <1>3 DEF Holders
<1> HIDE DEF x
<1>7. Holders(x) \subseteq {w} /\ Slots(x) = {} /\ Uses(x) = {} /\ x \notin dropped
  BY <1>2 DEF Nowhere
<1>8. /\ id = x => InOnePlace(id)' /\ ~Nowhere(id)'
      /\ id # x => Kept(id)
  BY <1>1, <1>3, <1>4, <1>5, <1>6, <1>7, EmitPlaces
<1> QED BY <1>1, <1>2, <1>8 DEF x

\* process() passes its own payload on.
LEMMA ProcessKept ==
  ASSUME RuntimeInv, Moved, NEW w \in Workers, Process(w), NEW id \in PayloadIds
  PROVE  Kept(id)
<1>1. held[w] \in Payload /\ UNCHANGED <<queue, consumed>>
  BY DEF Process, RuntimeInv, PcShape, qVars
<1>2. OutOf(w) \in Queues
  BY EndsExist DEF Process
<1>3. held[w].schema \in Schemas \cup {NoSchema}
  BY <1>1 DEF Payload
<1>4. PICK schema \in Emitted(w, held[w].schema) : Emit(w, held[w].id, schema)
  BY DEF Process
<1>5. PICK x : x = held[w].id
  OBVIOUS
<1>6. /\ x \in PayloadIds /\ Holders(x) = {w} /\ Slots(x) = {} /\ Uses(x) = {}
      /\ x \notin dropped /\ \A y : y # x => w \notin Holders(y)
  BY <1>1, <1>5, HeldAlone
<1>7. /\ id = x => InOnePlace(id)' /\ ~Nowhere(id)'
      /\ id # x => Kept(id)
  BY <1>1, <1>2, <1>3, <1>4, <1>5, <1>6, EmitPlaces
<1>8. ~Nowhere(x)
  BY <1>6 DEF Nowhere
<1> QED BY <1>7, <1>8 DEF Kept

\* Every step of a worker: at most one place, nothing lost but by a failure,
\* nothing new but what a source produces.
LEMMA WorkerPlaces ==
  ASSUME RuntimeInv, DataInv, NEW w \in Workers, Worker(w), NEW id \in PayloadIds
  PROVE  /\ InOnePlace(id)'
         /\ Throw(w) \/ PushRefused(w) \/ (Nowhere(id)' => Nowhere(id))
         /\ \/ Produce(w) /\ id = <<w, count[w] + 1>> /\ ~Nowhere(id)'
            \/ Nowhere(id) => Nowhere(id)'
         /\ Produce(w) \/ UNCHANGED count
<1> USE DEF dataVars, qVars
<1>m. InOnePlace(id) /\ Moved /\ Hands
  BY DEF DataInv, Moved
<1>1. CASE Produce(w)
  BY <1>1, <1>m, ProducePlaces DEF Kept
<1>2. CASE Process(w) \/ Consume(w) \/ Push(w) \/ Pop(w)
  <2>1. UNCHANGED count
    BY <1>2 DEF Process, Consume, Push, Pop
  <2>2. Kept(id)
    BY <1>2, <1>m, ProcessKept, ConsumeKept, PushKept, PopKept
  <2> QED BY <1>m, <2>1, <2>2 DEF Kept
<1>3. CASE Throw(w) \/ PushRefused(w)
  <2>1. UNCHANGED count
    BY <1>3 DEF Throw, PushRefused
  <2> QED BY <1>3, <1>m, <2>1, DiscardLeaves
<1>4. CASE LoopTop(w) \/ EndOfStream(w) \/ AbortClose(w) \/ PopNothing(w) \/ Epilogue(w)
  <2>1. UNCHANGED <<held, queue, consumed, dropped, count>>
    BY <1>4 DEF LoopTop, EndOfStream, AbortClose, PopNothing, Epilogue, Retire, CloseOutput,
       DestroyStage, CountDown, AutoStop
  <2>2. Kept(id)
    BY <2>1, StillKept
  <2> QED BY <1>m, <2>1, <2>2 DEF Kept
<1> QED BY <1>1, <1>2, <1>3, <1>4 DEF Worker, StageCode, QueueCall

-----------------------------------------------------------------------------
\* Steps of the main thread and signals touch no payload.
LEMMA MainData ==
  ASSUME RuntimeInv, Main \/ Signal
  PROVE  UNCHANGED <<held, queue, consumed, dropped, count>>
<1> USE DEF dataVars, qVars
<1>1. CASE CreateStage \/ WireThrow \/ SpawnThrow \/ NextStage \/ WiringDone \/ Relay
             \/ LeaveLoop \/ Join \/ Shutdown \/ Signal
  BY <1>1 DEF CreateStage, WireThrow, SpawnThrow, NextStage, WiringDone, Relay, LeaveLoop,
     Join, Shutdown, Signal
<1>2. ASSUME NEW w \in Workers, Spawn(w) PROVE UNCHANGED <<held, queue, consumed, dropped, count>>
  BY <1>2 DEF Spawn
<1>3. ASSUME NEW q \in Queues, CloseQueue(q)
      PROVE  UNCHANGED <<held, queue, consumed, dropped, count>>
  BY <1>3 DEF CloseQueue
<1> QED BY <1>1, <1>2, <1>3 DEF Main

\* Payloads are moved, never copied.
LEMMA MovedStep ==
  ASSUME RuntimeInv, DataInv, [Next]_vars
  PROVE  Moved'
<1>1. CASE UNCHANGED <<held, queue, consumed, dropped, count>>
  <2>1. \A id \in PayloadIds : Kept(id)
    BY <1>1, StillKept
  <2>2. \A v \in Workers : \A n \in 1 .. MaxProduce : <<v, n>> \in PayloadIds
    BY DEF PayloadIds
  <2> QED BY <1>1, <2>1, <2>2 DEF DataInv, Moved, Kept
<1>2. ASSUME NEW w \in Workers, Worker(w) PROVE Moved'
  <2>1. \A id \in PayloadIds : InOnePlace(id)'
    BY <1>2, WorkerPlaces
  <2>2. ASSUME NEW v \in Workers, NEW n \in 1 .. MaxProduce, n > count'[v]
        PROVE  Nowhere(<<v, n>>)'
    <3>1. <<v, n>> \in PayloadIds
      BY DEF PayloadIds
    <3>2. n > count[v] /\ ~(Produce(w) /\ <<v, n>> = <<w, count[w] + 1>>)
      <4>1. CASE Produce(w)
        <5>1. count' = [count EXCEPT ![w] = count[w] + 1] /\ count \in [Workers -> 0 .. MaxProduce]
          BY <4>1 DEF Produce, RuntimeInv, TypeOK
        <5>2. count[w] \in Nat /\ count[v] \in Nat
          BY <5>1
        <5> QED BY <2>2, <5>1, <5>2
      <4>2. CASE ~Produce(w)
        BY <1>2, <2>2, <3>1, <4>2, WorkerPlaces
      <4> QED BY <4>1, <4>2
    <3>3. Nowhere(<<v, n>>)
      BY <3>2 DEF DataInv, Moved
    <3> QED BY <1>2, <3>1, <3>2, <3>3, WorkerPlaces
  <2> QED BY <2>1, <2>2 DEF Moved
<1>3. CASE Main \/ Signal
  BY <1>1, <1>3, MainData
<1>4. CASE UNCHANGED vars
  BY <1>1, <1>4 DEF vars
<1> QED BY <1>2, <1>3, <1>4 DEF Next

\* A payload that passed the output check meets the input check of its queue.
LEMMA EmitSchema ==
  ASSUME RuntimeInv, NEW w \in Workers, OutOf(w) \in Queues, NEW x, NEW schema, Emit(w, x, schema)
  PROVE  /\ pc'[w] = "push" => InputOk(OutOf(w), held'[w].schema)
         /\ pc'[w] = "push" \/ held'[w] = NoPayload
<1>t. held \in [Workers -> Payload \cup {NoPayload}] /\ w \in DOMAIN pc
  BY DEF RuntimeInv, TypeOK
<1>1. CASE OutputOk(OutOf(w), schema)
  <2>1. pc'[w] = "push" /\ held'[w] = [id |-> x, schema |-> Stamp(OutOf(w), schema)]
    BY <1>1, <1>t DEF Emit, Goto
  <2>2. held'[w].schema = Stamp(OutOf(w), schema)
    BY <2>1
  <2> QED BY <1>1, <2>1, <2>2 DEF OutputOk, Stamp, InputOk
<1>2. CASE ~OutputOk(OutOf(w), schema)
  <2>1. pc'[w] = "loop" /\ held'[w] = NoPayload
    BY <1>2, <1>t DEF Emit, Goto
  <2> QED BY <2>1
<1> QED BY <1>1, <1>2

\* Hands are full only between a pop or produce and the end of the push.
LEMMA HandsStep ==
  ASSUME RuntimeInv, DataInv, [Next]_vars
  PROVE  Hands'
<1> USE DEF dataVars, qVars
<1>h. Hands
  BY DEF DataInv
<1>t. TypeOK
  BY DEF RuntimeInv
<1>1. CASE Main \/ Signal
  <2>1. UNCHANGED held
    BY <1>1, MainFrame
  <2>2. CASE UNCHANGED <<pc, active>>
    BY <1>h, <2>1, <2>2 DEF Hands
  <2>3. ASSUME NEW w \in Workers, Spawn(w) PROVE Hands'
    <3>1. pc[w] = "none" /\ pc' = [pc EXCEPT ![w] = "loop"]
      BY <2>3 DEF Spawn
    <3>2. pc'[w] = "loop" /\ held[w] = NoPayload
      BY <1>h, <1>t, <3>1 DEF Hands, TypeOK
    <3>3. \A v \in Workers \ {w} : pc'[v] = pc[v]
      BY <1>t, <3>1 DEF TypeOK
    <3> QED BY <1>h, <2>1, <3>2, <3>3 DEF Hands
  <2> QED BY <1>1, <2>2, <2>3, MainFrame
<1>2. ASSUME NEW w \in Workers, Worker(w) PROVE Hands'
  <2>f. \A v \in Workers \ {w} : pc'[v] = pc[v] /\ held'[v] = held[v]
    BY <1>2, WorkerFrame
  <2> SUFFICES /\ held'[w] # NoPayload =>
                    pc'[w] = "push" \/ (pc'[w] = "work" /\ KindOf(w) # "source")
               /\ pc'[w] = "push" => InputOk(OutOf(w), held'[w].schema)
    BY <1>h, <2>f DEF Hands
  <2>1. CASE Produce(w) \/ Process(w)
    <3>1. PICK x, schema : Emit(w, x, schema)
      BY <2>1 DEF Produce, Process
    <3>2. OutOf(w) \in Queues
      BY <2>1, EndsExist DEF Produce, Process
    <3> QED BY <3>1, <3>2, EmitSchema
  <2>2. CASE Consume(w) \/ Throw(w) \/ Push(w) \/ PushRefused(w)
    <3>1. held'[w] = NoPayload /\ pc'[w] # "push"
      BY <2>2, <1>t DEF Consume, Throw, Push, PushRefused, Goto, TypeOK
    <3> QED BY <3>1
  <2>3. CASE Pop(w)
    <3>1. KindOf(w) # "source"
      BY <2>3 DEF Pop, RuntimeInv, PcShape
    <3>2. pc'[w] = "work" \/ (pc'[w] = "loop" /\ held'[w] = NoPayload)
      BY <2>3, <1>t DEF Pop, Goto, TypeOK
    <3> QED BY <3>1, <3>2
  <2>4. CASE LoopTop(w) \/ EndOfStream(w) \/ AbortClose(w) \/ PopNothing(w) \/ Epilogue(w)
    <3>1. UNCHANGED held /\ pc'[w] # "push"
      BY <2>4, <1>t DEF LoopTop, EndOfStream, AbortClose, PopNothing, Epilogue, Retire,
         CloseOutput, DestroyStage, CountDown, AutoStop, Goto, TypeOK
    <3>2. held[w] = NoPayload
      BY <2>4, <1>h DEF Hands, LoopTop, EndOfStream, AbortClose, PopNothing, Epilogue, Retire,
         CloseOutput, DestroyStage, CountDown, AutoStop
    <3> QED BY <3>1, <3>2
  <2> QED BY <1>2, <2>1, <2>2, <2>3, <2>4 DEF Worker, StageCode, QueueCall
<1>3. CASE UNCHANGED vars
  BY <1>3, <1>h DEF vars, Hands
<1> QED BY <1>1, <1>2, <1>3 DEF Next

\* Only push() puts a payload into a queue.
LEMMA QueuedSchemaStep ==
  ASSUME RuntimeInv, DataInv, [Next]_vars
  PROVE  QueuedSchema'
<1> USE DEF dataVars, qVars
<1>q. QueuedSchema /\ Hands
  BY DEF DataInv
<1>t. TypeOK
  BY DEF RuntimeInv
<1>1. CASE UNCHANGED queue
  BY <1>1, <1>q DEF QueuedSchema
<1>2. ASSUME NEW w \in Workers, Push(w) PROVE QueuedSchema'
  <2>1. OutOf(w) \in Queues /\ held[w] \in Payload
    BY <1>2, EndsExist DEF Push, RuntimeInv, PcShape
  <2>2. InputOk(OutOf(w), held[w].schema)
    BY <1>2, <1>q DEF Push, Hands
  <2>3. queue[OutOf(w)] \in Seq(Payload) /\ queue'[OutOf(w)] = Append(queue[OutOf(w)], held[w])
    BY <1>2, <1>t, <2>1 DEF Push, TypeOK
  <2>4. \A i \in DOMAIN queue'[OutOf(w)] :
           queue'[OutOf(w)][i] = held[w]
             \/ (i \in DOMAIN queue[OutOf(w)] /\ queue'[OutOf(w)][i] = queue[OutOf(w)][i])
    BY <2>3
  <2>5. \A q \in Queues \ {OutOf(w)} : queue'[q] = queue[q]
    BY <1>2, <1>t DEF Push, TypeOK
  <2>6. \A i \in DOMAIN queue'[OutOf(w)] : InputOk(OutOf(w), queue'[OutOf(w)][i].schema)
    BY <1>q, <2>1, <2>2, <2>4 DEF QueuedSchema
  <2> QED BY <1>q, <2>5, <2>6 DEF QueuedSchema
<1>3. ASSUME NEW w \in Workers, Pop(w) PROVE QueuedSchema'
  <2>1. InOf(w) \in Queues
    BY <1>3, EndsExist DEF Pop, RuntimeInv, PcShape
  <2>2. PICK s \in Seq(Payload) : s = queue[InOf(w)] /\ s # <<>>
    BY <1>3, <1>t, <2>1 DEF Pop, TypeOK
  <2>3. queue'[InOf(w)] = Tail(s)
    BY <1>3, <1>t, <2>1, <2>2 DEF Pop, TypeOK
  <2>4. \A i \in DOMAIN Tail(s) : i + 1 \in DOMAIN s /\ Tail(s)[i] = s[i + 1]
    BY <2>2, TailIndices
  <2>5. \A i \in DOMAIN s : InputOk(InOf(w), s[i].schema)
    BY <1>q, <2>1, <2>2 DEF QueuedSchema
  <2>6. \A q \in Queues \ {InOf(w)} : queue'[q] = queue[q]
    BY <1>3, <1>t DEF Pop, TypeOK
  <2>7. \A i \in DOMAIN queue'[InOf(w)] : InputOk(InOf(w), queue'[InOf(w)][i].schema)
    BY <2>3, <2>4, <2>5
  <2> QED BY <1>q, <2>6, <2>7 DEF QueuedSchema
<1>4. ASSUME NEW w \in Workers, Worker(w), ~Push(w), ~Pop(w) PROVE UNCHANGED queue
  BY <1>4 DEF Worker, StageCode, QueueCall, LoopTop, Produce, EndOfStream, Process, Consume, Throw,
     AbortClose, PushRefused, PopNothing, Epilogue, Retire, CloseOutput, DestroyStage, CountDown,
     AutoStop
<1>5. CASE Main \/ Signal
  BY <1>1, <1>5, MainData
<1>6. CASE UNCHANGED vars
  BY <1>1, <1>6 DEF vars
<1> QED BY <1>1, <1>2, <1>3, <1>4, <1>5, <1>6 DEF Next

\* Payloads stay in one place, and only well-formed ones are queued.
THEOREM DataInvariant == Spec => []DataInv
<1>1. Init => DataInv
  <2> SUFFICES ASSUME Init PROVE DataInv
    OBVIOUS
  <2>1. \A q \in Queues : DOMAIN queue[q] = {}
    BY DEF Init
  <2>2. DOMAIN consumed = {}
    BY DEF Init
  <2>3. ASSUME NEW id PROVE Nowhere(id)
    <3>1. Holders(id) = {} /\ Uses(id) = {} /\ id \notin dropped
      BY <2>2 DEF Init, Holders, Uses
    <3>2. Slots(id) = {}
      BY <2>1, SlotsMember
    <3> QED BY <3>1, <3>2 DEF Nowhere
  <2>4. \A id : Nowhere(id) => InOnePlace(id)
    BY DEF Nowhere, InOnePlace, Lone
  <2>5. Moved
    BY <2>3, <2>4 DEF Moved
  <2>6. Hands /\ QueuedSchema
    BY <2>1 DEF Init, Hands, QueuedSchema
  <2> QED BY <2>5, <2>6 DEF DataInv
<1>2. RuntimeInv /\ DataInv /\ [Next]_vars => DataInv'
  BY MovedStep, HandsStep, QueuedSchemaStep DEF DataInv
<1> QED BY <1>1, <1>2, RuntimeInvariant, PTL DEF Spec

\* For every pipeline, with any number of workers competing for a queue: a
\* payload is held, queued, consumed or dropped at most once (stage_runner.cc
\* moves a payload from pop() through process() to push()).
THEOREM PayloadsNeverDuplicated == Spec => []AtMostOnce
<1>1. DataInv => AtMostOnce
  BY OnePlaceCounts DEF DataInv, Moved
<1> QED BY <1>1, DataInvariant, PTL

\* For every pipeline: what is in a queue passes ValidateInputSchema of its
\* consumers, because ApplyOutputSchema stamped or checked it.
THEOREM QueuedPayloadsFit == Spec => []QueuedSchema
<1>1. DataInv => QueuedSchema
  BY DEF DataInv
<1> QED BY <1>1, DataInvariant, PTL

-----------------------------------------------------------------------------
(* A job that lists consumers first is drained when it stops. *)

\* Nothing repairs a disturbed run; a queue once closed stays closed.
LEMMA OneWay ==
  ASSUME RuntimeInv, [Next]_vars
  PROVE  /\ stop => stop'
         /\ clean' => clean
         /\ \A q \in Queues : closed[q] => closed'[q]
<1> USE DEF mainVars, dataVars, qVars, regVars
<1>t. stop \in BOOLEAN /\ clean \in BOOLEAN /\ closed \in [Queues -> BOOLEAN]
  BY DEF RuntimeInv, TypeOK
<1>1. CASE Main \/ Signal
  <2>1. clean' = clean \/ clean' = FALSE
    <3>1. CASE CreateStage \/ WireThrow \/ SpawnThrow \/ NextStage \/ WiringDone \/ Relay
                 \/ LeaveLoop \/ Join \/ Shutdown \/ Signal
      BY <3>1 DEF CreateStage, WireThrow, SpawnThrow, NextStage, WiringDone, Relay, LeaveLoop,
         Join, Shutdown, Signal, Catch
    <3>2. CASE \E w \in Workers : Spawn(w)
      BY <3>2 DEF Spawn
    <3>3. CASE \E q \in Queues : CloseQueue(q)
      BY <3>3 DEF CloseQueue
    <3> QED BY <1>1, <3>1, <3>2, <3>3 DEF Main
  <2>2. \A q \in Queues : closed[q] => closed'[q]
    BY <1>1, <1>t, MainFrame
  <2> QED BY <1>1, <1>t, <2>1, <2>2, MainFrame
<1>2. ASSUME NEW w \in Workers, Worker(w)
      PROVE  /\ stop => stop'
             /\ clean' = clean \/ clean' = FALSE
             /\ \A q \in Queues : closed[q] => closed'[q]
  <2>1. clean' = clean \/ clean' = FALSE
    BY <1>2 DEF Worker, StageCode, QueueCall, LoopTop, Produce, EndOfStream, Process, Consume,
       Throw, AbortClose, Push, PushRefused, Pop, PopNothing, Epilogue, Retire, CloseOutput,
       DestroyStage, CountDown, AutoStop
  <2>2. closed' = closed \/ \E x : closed' = [closed EXCEPT ![x] = TRUE]
    BY <1>2 DEF Worker, StageCode, QueueCall, LoopTop, Produce, EndOfStream, Process, Consume,
       Throw, AbortClose, Push, PushRefused, Pop, PopNothing, Epilogue, Retire, CloseOutput,
       DestroyStage, CountDown, AutoStop
  <2> QED BY <1>2, <1>t, <2>1, <2>2, WorkerFrame
<1>3. CASE UNCHANGED vars
  BY <1>3 DEF vars
<1> QED BY <1>1, <1>2, <1>3, <1>t DEF Next

\* A worker that takes a step has been started and is not done.
LEMMA WorkerRuns ==
  ASSUME RuntimeInv, NEW w \in Workers, Worker(w)
  PROVE  /\ pc[w] \notin {"none", "done"} /\ pc'[w] # "none"
         /\ pc[w] = "last" => AutoStop(w)
<1>t. TypeOK
  BY DEF RuntimeInv
<1>1. pc[w] \notin {"none", "done"} /\ (pc[w] = "last" => AutoStop(w))
  BY DEF Worker, StageCode, QueueCall, Epilogue, LoopTop, Produce, EndOfStream, Process,
     Consume, Throw, AbortClose, Push, PushRefused, Pop, PopNothing, Retire, CloseOutput,
     DestroyStage, CountDown, AutoStop
<1>2. RunnerStep(w) => pc'[w] # "none"
  BY DEF RunnerStep, LoopPcs
<1>3. Retire(w) \/ CloseOutput(w) \/ DestroyStage(w) \/ CountDown(w) \/ AutoStop(w) => pc'[w] # "none"
  BY <1>t DEF Retire, CloseOutput, DestroyStage, CountDown, AutoStop, Goto, TypeOK
<1> QED BY <1>1, <1>2, <1>3, WorkerFrame

\* Stages are started in the order of the spec.
LEMMA StartedStep ==
  ASSUME RuntimeInv, Started, [Next]_vars
  PROVE  Started'
<1> USE DEF mainVars, dataVars, qVars, regVars
<1>t. /\ stage \in Nat /\ stage <= NStages + 1 /\ NStages \in Nat
      /\ \A w \in Workers : StageOf[w] \in Nat /\ StageOf[w] <= NStages
      /\ pc \in [Workers -> {"none"} \cup LoopPcs \cup EpiloguePcs]
      /\ signaled \in BOOLEAN /\ clean \in BOOLEAN
  BY RuntimeAssumption DEF RuntimeInv, TypeOK, Stages
<1>c. clean' => clean
  BY OneWay
<1>1. CASE CreateStage \/ Relay \/ LeaveLoop \/ Join \/ Shutdown \/ Signal
  BY <1>1, <1>t DEF CreateStage, Relay, LeaveLoop, Join, Shutdown, Signal, Started
<1>2. CASE WireThrow \/ SpawnThrow
  BY <1>2, <1>t DEF WireThrow, SpawnThrow, Catch, Started
<1>3. CASE NextStage
  <2>1. \A w \in Workers : StageOf[w] = stage => pc[w] # "none"
    BY <1>3 DEF NextStage, WorkersOf
  <2>2. /\ mpc = "spawn" /\ mpc' = "wire" /\ stage' = stage + 1
        /\ UNCHANGED <<pc, signaled, clean>>
    BY <1>3 DEF NextStage
  <2>3. \A w \in Workers : /\ StageOf[w] < stage + 1 => StageOf[w] < stage \/ StageOf[w] = stage
                           /\ StageOf[w] >= stage + 1 => StageOf[w] > stage
    BY <1>t
  <2>4. \A w \in Workers : /\ StageOf[w] < stage' => pc[w] # "none"
                           /\ StageOf[w] >= stage' => pc[w] = "none"
    BY <2>1, <2>2, <2>3 DEF Started
  <2> QED BY <2>2, <2>4 DEF Started
<1>4. CASE WiringDone
  <2>1. \A w \in Workers : StageOf[w] < stage
    BY <1>4, <1>t DEF WiringDone
  <2> QED BY <1>4, <2>1 DEF WiringDone, Started
<1>5. ASSUME NEW w \in Workers, Spawn(w) PROVE Started'
  <2>1. /\ mpc = "spawn" /\ StageOf[w] = stage /\ UNCHANGED <<mpc, stage, signaled, clean>>
        /\ pc'[w] = "loop" /\ \A v \in Workers \ {w} : pc'[v] = pc[v]
    BY <1>5, <1>t DEF Spawn
  <2> QED BY <1>t, <2>1 DEF Started
<1>6. ASSUME NEW q \in Queues, CloseQueue(q) PROVE Started'
  BY <1>6 DEF CloseQueue, Started
<1>7. ASSUME NEW w \in Workers, Worker(w) PROVE Started'
  <2>1. /\ UNCHANGED <<mpc, stage>> /\ \A v \in Workers \ {w} : pc'[v] = pc[v]
        /\ pc[w] # "none" /\ pc'[w] # "none"
    BY <1>7, WorkerFrame, WorkerRuns
  <2>2. UNCHANGED signaled
    BY <1>7 DEF Worker, StageCode, QueueCall, LoopTop, Produce, EndOfStream, Process, Consume,
       Throw, AbortClose, Push, PushRefused, Pop, PopNothing, Epilogue, Retire, CloseOutput,
       DestroyStage, CountDown, AutoStop
  <2> QED BY <1>c, <2>1, <2>2 DEF Started
<1>8. CASE UNCHANGED vars
  BY <1>8 DEF vars, Started
<1> QED BY <1>1, <1>2, <1>3, <1>4, <1>5, <1>6, <1>7, <1>8 DEF Next, Main

\* An ended consumer says that the producers of its queue have ended too.
LEMMA EndedConsumer ==
  ASSUME RuntimeInv, Undisturbed, ~stop, NEW w \in Workers, KindOf(w) # "source",
         pc[w] \in EpiloguePcs
  PROVE  /\ InOf(w) \in Queues /\ ProducersOf(InOf(w)) # {}
         /\ \A v \in ProducersOf(InOf(w)) : pc[v] \in EpiloguePcs
<1>1. pc[w] # "none" /\ KindOf(w) \in {"transform", "sink"}
  BY RuntimeAssumption DEF EpiloguePcs, KindOf
<1>2. InOf(w) \in Queues
  BY <1>1, EndsExist
<1>3. closed[InOf(w)]
  BY DEF Undisturbed
<1> QED BY <1>2, <1>3 DEF Undisturbed, RuntimeInv, CloseRights, NoEarlyClose

\* If every started worker has ended, every worker was started: the consumers
\* that come first wait for all the producers that come later.
LEMMA AllStarted ==
  ASSUME ConsumersFirst, RuntimeInv, Started, Undisturbed, ~stop,
         \A v \in Workers : pc[v] \in EpiloguePcs \cup {"none"},
         NEW w \in Workers, pc[w] # "none"
  PROVE  \A v \in Workers : pc[v] # "none"
<1>t. /\ stage \in Nat /\ NStages \in Nat
      /\ \A v \in Workers : StageOf[v] \in Nat /\ StageOf[v] >= 1
  BY RuntimeAssumption DEF RuntimeInv, TypeOK, Stages
<1>s. StageOf \in [Workers -> Stages]
  BY RuntimeAssumption
<1>m. mpc \in {"wire", "spawn", "run", "close", "join", "shutdown", "done"}
  BY DEF RuntimeInv, TypeOK
<1>1. CASE mpc = "run"
  BY <1>1 DEF Started
<1>2. CASE mpc \in {"wire", "spawn"}
  <2> SUFFICES ASSUME NEW u \in Workers, pc[u] = "none" PROVE FALSE
    OBVIOUS
  <2>1. \A v \in Workers : /\ StageOf[v] < stage => pc[v] # "none"
                           /\ pc[v] # "none" => StageOf[v] <= stage
    BY <1>2, <1>t DEF Started
  <2>2. ASSUME NEW v \in Workers, KindOf(v) # "source", pc[v] # "none"
        PROVE  \E p \in Workers : /\ pc[p] # "none" /\ StageOf[v] < StageOf[p]
    <3>1. /\ InOf(v) \in Queues /\ ProducersOf(InOf(v)) # {}
          /\ \A p \in ProducersOf(InOf(v)) : pc[p] \in EpiloguePcs
      BY <2>2, EndedConsumer
    <3>2. PICK p \in Workers : Out[StageOf[p]] = In[StageOf[v]] /\ pc[p] \in EpiloguePcs
      BY <3>1 DEF ProducersOf, OutOf, InOf
    <3>3. StageOf[v] < StageOf[p]
      BY <1>s, <3>1, <3>2 DEF ConsumersFirst, InOf
    <3> QED BY <3>2, <3>3 DEF EpiloguePcs
  <2>3. ASSUME NEW v \in Workers, pc[v] = "none", KindOf(v) # "source" PROVE FALSE
    <3>1. StageOf[v] >= stage
      BY <1>t, <2>1, <2>3
    <3>2. \A x \in Workers : pc[x] # "none" => KindOf(x) # "source"
      <4> SUFFICES ASSUME NEW x \in Workers, pc[x] # "none", KindOf(x) = "source" PROVE FALSE
        OBVIOUS
      <4>1. StageOf[v] < StageOf[x]
        BY <1>s, <2>3 DEF ConsumersFirst, KindOf
      <4> QED BY <1>t, <2>1, <3>1, <4>1
    <3>3. StageOf[w] < stage
      <4>1. PICK p \in Workers : pc[p] # "none" /\ StageOf[w] < StageOf[p]
        BY <2>2, <3>2
      <4> QED BY <1>t, <2>1, <4>1
    <3>4. stage - 1 \in Stages
      BY <1>t, <3>3, RuntimeAssumption DEF Stages, RuntimeInv, TypeOK
    <3>5. PICK x \in Workers : StageOf[x] = stage - 1
      BY <3>4 DEF ConsumersFirst, WorkersOf
    <3>6. pc[x] # "none" /\ KindOf(x) # "source"
      BY <1>t, <2>1, <3>2, <3>5
    <3>7. PICK p \in Workers : pc[p] # "none" /\ StageOf[x] < StageOf[p]
      BY <2>2, <3>6
    <3>8. StageOf[p] = stage /\ KindOf(p) # "source"
      BY <1>t, <2>1, <3>2, <3>5, <3>7
    <3>9. PICK o \in Workers : pc[o] # "none" /\ StageOf[p] < StageOf[o]
      BY <2>2, <3>7, <3>8
    <3> QED BY <1>t, <2>1, <3>8, <3>9
  <2>4. KindOf(u) = "source"
    BY <2>3
  <2>5. Out[StageOf[u]] \in Queues
    BY <1>s, <2>4, RuntimeAssumption DEF ConsumersFirst, WiringValid, KindOf
  <2>6. PICK t \in Stages : In[t] = Out[StageOf[u]]
    BY <1>s, <2>5 DEF ConsumersFirst
  <2>7. PICK v \in Workers : StageOf[v] = t
    BY <2>6 DEF ConsumersFirst, WorkersOf
  <2>8. KindOf(v) # "source"
    BY <2>5, <2>6, <2>7, RuntimeAssumption DEF ConsumersFirst, WiringValid, KindOf
  <2>9. pc[v] \in EpiloguePcs
    BY <2>3, <2>8
  <2>10. \A p \in ProducersOf(InOf(v)) : pc[p] \in EpiloguePcs
    BY <2>8, <2>9, EndedConsumer
  <2>11. u \in ProducersOf(InOf(v))
    BY <2>6, <2>7 DEF ProducersOf, OutOf, InOf
  <2> QED BY <2>10, <2>11 DEF EpiloguePcs
<1> QED BY <1>1, <1>2, <1>m DEF RuntimeInv, CloseRights

\* When every worker has ended, no payload is in a hand or in a queue.
LEMMA EndedIsDrained ==
  ASSUME ConsumersFirst, RuntimeInv, DataInv, Undisturbed,
         \A v \in Workers : pc[v] \in {"last", "done"}
  PROVE  Drained
<1> SUFFICES ASSUME NEW w \in Workers, NEW n \in 1 .. count[w]
             PROVE  <<w, n>> \in dropped \/ Uses(<<w, n>>) # {}
  BY DEF Drained
<1> DEFINE id == <<w, n>>
<1>1. ~Nowhere(id)
  BY DEF Undisturbed
<1>2. Holders(id) = {}
  <2>1. \A v \in Workers : held[v] = NoPayload
    BY DEF DataInv, Hands
  <2> QED BY <2>1 DEF Holders
<1>3. ASSUME NEW q \in Queues PROVE queue[q] = <<>>
  <2> SUFFICES ASSUME queue[q] # <<>> PROVE FALSE
    OBVIOUS
  <2>1. PICK p \in Workers : Out[StageOf[p]] = q /\ StageOf[p] \in Stages
    BY RuntimeAssumption DEF Undisturbed, ProducersOf, OutOf
  <2>2. PICK t \in Stages : In[t] = q
    BY <2>1 DEF ConsumersFirst
  <2>3. PICK v \in Workers : StageOf[v] = t
    BY <2>2 DEF ConsumersFirst, WorkersOf
  <2>4. KindOf(v) # "source"
    BY <2>2, <2>3, RuntimeAssumption DEF ConsumersFirst, WiringValid, KindOf
  <2> QED BY <2>2, <2>3, <2>4 DEF Undisturbed, EpiloguePcs, InOf
<1> HIDE DEF id
<1>4. Slots(id) = {}
  <2>1. \A q \in Queues : DOMAIN queue[q] = {}
    BY <1>3
  <2> QED BY <2>1, SlotsMember
<1>5. id \in dropped \/ Uses(id) # {}
  BY <1>1, <1>2, <1>4 DEF Nowhere
<1> QED BY <1>5 DEF id

\* A push is refused only after a stop or after the last producer is gone.
LEMMA NotRefused ==
  ASSUME RuntimeInv, ~stop, NEW w \in Workers
  PROVE  ~PushRefused(w) /\ ~AbortClose(w)
<1>1. ASSUME PushRefused(w) PROVE FALSE
  <2>1. OutOf(w) \in Queues /\ closed[OutOf(w)] /\ pc[w] = "push"
    BY <1>1, EndsExist DEF PushRefused, RuntimeInv, PcShape
  <2>2. w \in ProducersOf(OutOf(w))
    BY DEF ProducersOf
  <2> QED BY <2>1, <2>2 DEF RuntimeInv, CloseRights, NoEarlyClose, EpiloguePcs
<1>2. ~AbortClose(w)
  BY DEF AbortClose, RuntimeInv, PcShape
<1> QED BY <1>1, <1>2

\* Without a failure no payload is lost.
LEMMA NothingLost ==
  ASSUME RuntimeInv, DataInv, Undisturbed, ~stop, clean', [Next]_vars,
         NEW v \in Workers, NEW n \in 1 .. count'[v]
  PROVE  ~Nowhere(<<v, n>>)'
<1>t. count \in [Workers -> 0 .. MaxProduce] /\ count' \in [Workers -> 0 .. MaxProduce]
  BY RuntimeStep DEF RuntimeInv, TypeOK
<1>1. <<v, n>> \in PayloadIds
  <2>1. n \in 1 .. MaxProduce
    BY <1>t, RuntimeAssumption
  <2> QED BY <2>1 DEF PayloadIds
<1>2. CASE UNCHANGED <<held, queue, consumed, dropped, count>>
  <2>1. Kept(<<v, n>>)
    BY <1>2, StillKept
  <2> QED BY <1>2, <2>1 DEF Undisturbed, Kept
<1>3. ASSUME NEW w \in Workers, Worker(w) PROVE ~Nowhere(<<v, n>>)'
  <2>1. ~PushRefused(w) /\ ~Throw(w)
    BY NotRefused DEF Throw
  <2>2. Nowhere(<<v, n>>)' => Nowhere(<<v, n>>)
    BY <1>1, <1>3, <2>1, WorkerPlaces
  <2>3. CASE n \in 1 .. count[v]
    BY <2>2, <2>3 DEF Undisturbed
  <2>4. CASE n \notin 1 .. count[v]
    <3>1. Produce(w) /\ count' = [count EXCEPT ![w] = count[w] + 1]
      BY <1>1, <1>3, <2>4, WorkerPlaces DEF Produce
    <3>2. v = w /\ n = count[w] + 1
      <4>1. count[v] \in Nat /\ n \in Nat /\ n >= 1 /\ n <= count'[v] /\ count'[v] \in Nat
        BY <1>t
      <4>2. v # w => count'[v] = count[v]
        BY <1>t, <3>1
      <4>3. v = w => count'[v] = count[v] + 1
        BY <1>t, <3>1
      <4> QED BY <2>4, <4>1, <4>2, <4>3
    <3> QED BY <1>1, <3>1, <3>2, ProducePlaces
  <2> QED BY <2>3, <2>4
<1>4. CASE Main \/ Signal
  BY <1>2, <1>4, MainData
<1>5. CASE UNCHANGED vars
  BY <1>2, <1>5 DEF vars
<1> QED BY <1>3, <1>4, <1>5 DEF Next

\* Without a failure a consumer leaves its loop on a closed, empty queue.
LEMMA EndOnEmpty ==
  ASSUME RuntimeInv, Undisturbed, ~stop, clean', [Next]_vars,
         NEW v \in Workers, KindOf(v) # "source", pc'[v] \in {"fin"} \cup EpiloguePcs
  PROVE  closed'[InOf(v)] /\ queue'[InOf(v)] = <<>>
<1> USE DEF dataVars, qVars
<1>t. TypeOK /\ PcShape
  BY DEF RuntimeInv
<1>1. closed[InOf(v)] /\ queue[InOf(v)] = <<>> /\ InOf(v) \in Queues
  <2>1. CASE pc[v] \in {"fin"} \cup EpiloguePcs
    <3>1. pc[v] # "none" /\ KindOf(v) \in {"transform", "sink"}
      BY <2>1, RuntimeAssumption DEF EpiloguePcs, KindOf
    <3> QED BY <2>1, <3>1, EndsExist DEF Undisturbed
  <2>2. CASE pc[v] \notin {"fin"} \cup EpiloguePcs
    <3>1. ASSUME UNCHANGED <<pc, active>> PROVE FALSE
      BY <2>2, <3>1
    <3>2. ASSUME NEW w \in Workers, Spawn(w) PROVE FALSE
      BY <2>2, <3>2, <1>t DEF Spawn, TypeOK, EpiloguePcs
    <3>3. ~(Main \/ Signal)
      BY <3>1, <3>2, MainFrame
    <3>4. ~UNCHANGED vars
      BY <3>1 DEF vars
    <3>5. PICK w \in Workers : Worker(w)
      BY <3>3, <3>4 DEF Next
    <3>6. w = v
      BY <2>2, <3>5, WorkerFrame
    <3>7. ~Produce(v) /\ ~EndOfStream(v) /\ ~Throw(v) /\ ~PushRefused(v) /\ ~AbortClose(v)
      BY NotRefused DEF Produce, EndOfStream, Throw
    <3>8. ~LoopTop(v) /\ ~Consume(v) /\ ~Push(v) /\ ~Pop(v)
      BY <1>t DEF LoopTop, Consume, Push, Pop, Goto, TypeOK, EpiloguePcs
    <3>9. ~Process(v)
      <4> SUFFICES ASSUME Process(v) PROVE FALSE
        OBVIOUS
      <4>1. PICK x, schema : Emit(v, x, schema)
        BY DEF Process
      <4>2. pc'[v] \in {"push", "loop"}
        BY <1>t, <4>1 DEF Emit, Goto, TypeOK
      <4> QED BY <4>2 DEF EpiloguePcs
    <3>10. ~Epilogue(v)
      BY <2>2 DEF Epilogue, Retire, CloseOutput, DestroyStage, CountDown, AutoStop, EpiloguePcs
    <3>11. PopNothing(v)
      BY <3>5, <3>6, <3>7, <3>8, <3>9, <3>10 DEF Worker, StageCode, QueueCall
    <3>12. InOf(v) \in Queues
      BY <3>11, <1>t, EndsExist DEF PopNothing, PcShape
    <3> QED BY <3>11, <3>12 DEF PopNothing
  <2> QED BY <2>1, <2>2
<1>2. closed'[InOf(v)]
  BY <1>1, OneWay
<1>3. CASE UNCHANGED queue
  BY <1>1, <1>2, <1>3
<1>4. ASSUME NEW w \in Workers, Push(w) PROVE queue'[InOf(v)] = <<>>
  <2>1. InOf(v) # OutOf(w)
    BY <1>1, <1>4 DEF Push, PushAllowed
  <2> QED BY <1>1, <1>4, <1>t, <2>1 DEF Push, TypeOK
<1>5. ASSUME NEW w \in Workers, Pop(w) PROVE queue'[InOf(v)] = <<>>
  <2>1. InOf(v) # InOf(w)
    BY <1>1, <1>5 DEF Pop
  <2> QED BY <1>1, <1>5, <1>t, <2>1 DEF Pop, TypeOK
<1>6. ASSUME NEW w \in Workers, Worker(w), ~Push(w), ~Pop(w) PROVE UNCHANGED queue
  BY <1>6 DEF Worker, StageCode, QueueCall, LoopTop, Produce, EndOfStream, Process, Consume, Throw,
     AbortClose, PushRefused, PopNothing, Epilogue, Retire, CloseOutput, DestroyStage, CountDown,
     AutoStop
<1>7. CASE Main \/ Signal
  BY <1>3, <1>7, MainData
<1>8. CASE UNCHANGED vars
  BY <1>3, <1>8 DEF vars
<1> QED BY <1>2, <1>3, <1>4, <1>5, <1>6, <1>7, <1>8 DEF Next

\* Without a stop, only producers fill and close a queue.
LEMMA OnlyProducers ==
  ASSUME RuntimeInv, Undisturbed, ~stop, [Next]_vars,
         NEW q \in Queues, closed'[q] \/ queue'[q] # <<>>
  PROVE  ProducersOf(q) # {}
<1> USE DEF dataVars, qVars
<1>t. TypeOK
  BY DEF RuntimeInv
<1>1. CASE closed[q] \/ queue[q] # <<>>
  BY <1>1 DEF Undisturbed
<1>2. CASE ~(closed[q] \/ queue[q] # <<>>)
  <2>1. CASE Main \/ Signal
    <3>1. queue' = queue /\ (closed' = closed \/ mpc = "close")
      BY <2>1, MainFrame
    <3>2. mpc # "close"
      BY DEF RuntimeInv, CloseRights
    <3> QED BY <1>2, <3>1, <3>2
  <2>2. ASSUME NEW w \in Workers, Worker(w) PROVE OutOf(w) = q
    <3>1. CASE Push(w)
      BY <1>2, <1>t, <3>1 DEF Push, TypeOK
    <3>2. CASE CloseOutput(w)
      BY <1>2, <1>t, <3>2 DEF CloseOutput, TypeOK
    <3>3. CASE Pop(w)
      <4>1. q # InOf(w)
        BY <1>2, <3>3 DEF Pop
      <4> QED BY <1>2, <1>t, <3>3, <4>1 DEF Pop, TypeOK
    <3>4. CASE ~Push(w) /\ ~CloseOutput(w) /\ ~Pop(w)
      <4>1. UNCHANGED <<queue, closed>>
        BY <2>2, <3>4, NotRefused DEF Worker, StageCode, QueueCall, LoopTop, Produce, EndOfStream,
           Process, Consume, Throw, PopNothing, Epilogue, Retire, DestroyStage, CountDown, AutoStop
      <4> QED BY <1>2, <4>1
    <3> QED BY <3>1, <3>2, <3>3, <3>4
  <2>3. ~UNCHANGED vars
    BY <1>2 DEF vars
  <2> QED BY <2>1, <2>2, <2>3 DEF Next, ProducersOf
<1> QED BY <1>1, <1>2

\* The last worker counts down only when every worker of the job has ended.
LEMMA LastIsLast ==
  ASSUME ConsumersFirst, RuntimeInv, Started, Undisturbed, ~stop, ~stop', [Next]_vars,
         NEW u \in Workers, pc'[u] = "last"
  PROVE  \A v \in Workers : pc'[v] \in {"last", "done"}
<1>t. TypeOK
  BY DEF RuntimeInv
<1>1. CASE pc[u] = "last"
  <2>1. \A v \in Workers : pc[v] \in {"last", "done"}
    BY <1>1 DEF Undisturbed
  <2>2. \A w \in Workers : ~Spawn(w)
    BY <2>1 DEF Spawn
  <2>3. ASSUME NEW w \in Workers, Worker(w) PROVE FALSE
    <3>1. AutoStop(w)
      BY <2>1, <2>3, WorkerRuns
    <3> QED BY <3>1 DEF AutoStop
  <2>4. UNCHANGED pc
    BY <2>2, <2>3, MainFrame DEF Next, vars
  <2> QED BY <2>1, <2>4
<1>2. CASE pc[u] # "last"
  <2>1. ASSUME NEW w \in Workers, Spawn(w) PROVE FALSE
    BY <1>2, <1>t, <2>1 DEF Spawn, TypeOK
  <2>2. PICK w \in Workers : Worker(w)
    BY <1>2, <2>1, MainFrame DEF Next, vars
  <2>3. w = u
    BY <1>2, <2>2, WorkerFrame
  <2>4. ~RunnerStep(u)
    BY DEF RunnerStep, LoopPcs
  <2>5. CountDown(u) /\ LastWorker
    BY <1>t, <2>2, <2>3, <2>4, WorkerFrame DEF Retire, CloseOutput, DestroyStage, CountDown, AutoStop,
       Goto, TypeOK
  <2>6. Uncounted = {u}
    <3>1. u \in Uncounted /\ Cardinality(Uncounted) = 1 /\ IsFiniteSet(Uncounted)
      BY <2>5, CountedFinite DEF CountDown, LastWorker, RuntimeInv, Counts, Uncounted
    <3>2. Uncounted \ {u} = {}
      BY <3>1, CardRemove
    <3> QED BY <3>1, <3>2
  <2>7. pc[u] = "count" /\ \A v \in Workers \ {u} : pc[v] \in {"none", "last", "done"}
    BY <1>t, <2>5, <2>6 DEF CountDown, Uncounted, TypeOK, EpiloguePcs
  <2>8. \A v \in Workers : pc[v] # "none"
    <3>1. \A v \in Workers : pc[v] \in EpiloguePcs \cup {"none"}
      BY <2>7 DEF EpiloguePcs
    <3> QED BY <2>7, <3>1, AllStarted
  <2> QED BY <2>2, <2>3, <2>7, <2>8, WorkerFrame
<1> QED BY <1>1, <1>2

\* A stop in a clean run comes from the last worker or finds all workers gone.
LEMMA CleanStop ==
  ASSUME ConsumersFirst, RuntimeInv, DataInv, JobInv, clean', stop', ~stop, [Next]_vars
  PROVE  /\ \A v \in Workers : pc[v] \in {"last", "done"}
         /\ UNCHANGED <<held, queue, consumed, dropped, count>>
         /\ \A v \in Workers : pc'[v] \in {"last", "done"}
<1> USE DEF mainVars, dataVars, qVars, regVars
<1>t. TypeOK
  BY DEF RuntimeInv
<1>c. clean /\ Undisturbed /\ Started /\ ~signaled
  BY OneWay DEF JobInv, Started
<1>1. CASE Main \/ Signal
  <2>1. WiringDone /\ active = 0
    <3>1. ~WireThrow /\ ~SpawnThrow /\ ~Signal
      BY DEF WireThrow, SpawnThrow, Signal, Catch
    <3>2. ~CreateStage /\ ~NextStage /\ ~Relay /\ ~LeaveLoop /\ ~Join /\ ~Shutdown
      BY <1>c DEF CreateStage, NextStage, Relay, LeaveLoop, Join, Shutdown
    <3>3. \A w \in Workers : ~Spawn(w)
      BY DEF Spawn
    <3>4. \A q \in Queues : ~CloseQueue(q)
      BY DEF CloseQueue
    <3>5. WiringDone
      BY <1>1, <3>1, <3>2, <3>3, <3>4 DEF Main
    <3> QED BY <3>5 DEF WiringDone
  <2>2. Uncounted = {}
    <3>1. Cardinality(Uncounted) = 0 /\ IsFiniteSet(Uncounted)
      BY <2>1, CountedFinite DEF RuntimeInv, Counts
    <3> QED BY <3>1, FS_EmptySet
  <2>3. \A v \in Workers : StageOf[v] < stage
    <3>1. \A v \in Workers : StageOf[v] \in 1 .. NStages
      BY RuntimeAssumption DEF Stages
    <3>2. stage = NStages + 1 /\ NStages \in Nat
      BY <2>1, RuntimeAssumption DEF WiringDone
    <3> QED BY <3>1, <3>2
  <2>4. \A v \in Workers : pc[v] # "none"
    BY <1>c, <2>1, <2>3 DEF WiringDone, Started
  <2>5. \A v \in Workers : pc[v] \in {"last", "done"}
    BY <1>t, <2>2, <2>4 DEF Uncounted, TypeOK, EpiloguePcs
  <2> QED BY <1>1, <2>1, <2>5, MainData DEF WiringDone
<1>2. ASSUME NEW w \in Workers, Worker(w)
      PROVE  /\ \A v \in Workers : pc[v] \in {"last", "done"}
             /\ UNCHANGED <<held, queue, consumed, dropped, count>>
             /\ \A v \in Workers : pc'[v] \in {"last", "done"}
  <2>1. ~Throw(w)
    BY DEF Throw
  <2>2. AutoStop(w)
    BY <1>2, <2>1 DEF Worker, StageCode, QueueCall, LoopTop, Produce, EndOfStream, Process, Consume,
       AbortClose, Push, PushRefused, Pop, PopNothing, Epilogue, Retire, CloseOutput,
       DestroyStage, CountDown
  <2>3. pc[w] = "last" /\ pc'[w] = "done" /\ UNCHANGED <<held, queue, consumed, dropped, count>>
    BY <1>t, <2>2 DEF AutoStop, Goto, TypeOK
  <2>4. \A v \in Workers : pc[v] \in {"last", "done"}
    BY <1>c, <2>3 DEF Undisturbed
  <2>5. \A v \in Workers \ {w} : pc'[v] = pc[v]
    BY <1>2, WorkerFrame
  <2> QED BY <2>3, <2>4, <2>5
<1>3. ~UNCHANGED vars
  BY DEF vars
<1> QED BY <1>1, <1>2, <1>3 DEF Next

\* After a clean stop nothing moves any more but the main thread.
LEMMA StaysDrained ==
  ASSUME RuntimeInv, stop, [Next]_vars, \A v \in Workers : pc[v] \in {"last", "done"}
  PROVE  /\ UNCHANGED <<held, queue, consumed, dropped, count>>
         /\ \A v \in Workers : pc'[v] \in {"last", "done"}
<1> USE DEF mainVars, dataVars, qVars, regVars
<1>t. TypeOK
  BY DEF RuntimeInv
<1>1. CASE Main \/ Signal
  <2>1. \A w \in Workers : ~Spawn(w)
    BY DEF Spawn
  <2> QED BY <1>1, <2>1, MainFrame, MainData
<1>2. ASSUME NEW w \in Workers, Worker(w)
      PROVE  /\ UNCHANGED <<held, queue, consumed, dropped, count>>
             /\ \A v \in Workers : pc'[v] \in {"last", "done"}
  <2>1. AutoStop(w)
    BY <1>2, WorkerRuns
  <2>2. pc'[w] = "done" /\ UNCHANGED <<held, queue, consumed, dropped, count>>
    BY <1>t, <2>1 DEF AutoStop, Goto, TypeOK
  <2>3. \A v \in Workers \ {w} : pc'[v] = pc[v]
    BY <1>2, WorkerFrame
  <2> QED BY <2>2, <2>3
<1>3. CASE UNCHANGED vars
  BY <1>3 DEF vars
<1> QED BY <1>1, <1>2, <1>3 DEF Next

\* Every step preserves the invariant of a job that lists consumers first.
LEMMA JobStep ==
  ASSUME ConsumersFirst, RuntimeInv, DataInv, JobInv, [Next]_vars
  PROVE  JobInv'
<1>1. Started'
  BY StartedStep DEF JobInv
<1>o. (stop => stop') /\ (clean' => clean)
  BY OneWay
<1>2. ASSUME clean', ~stop' PROVE Undisturbed'
  <2>1. Undisturbed /\ Started /\ ~stop
    BY <1>2, <1>o DEF JobInv
  <2>2. \A w \in Workers : \A n \in 1 .. count'[w] : ~Nowhere(<<w, n>>)'
    BY <1>2, <2>1, NothingLost
  <2>3. \A w \in Workers : KindOf(w) # "source" /\ pc'[w] \in {"fin"} \cup EpiloguePcs
                           => closed'[InOf(w)] /\ queue'[InOf(w)] = <<>>
    BY <1>2, <2>1, EndOnEmpty
  <2>4. \A q \in Queues : closed'[q] \/ queue'[q] # <<>> => ProducersOf(q) # {}
    BY <2>1, OnlyProducers
  <2>5. \A w \in Workers : pc'[w] = "last" => \A v \in Workers : pc'[v] \in {"last", "done"}
    BY <1>2, <2>1, LastIsLast
  <2> QED BY <2>2, <2>3, <2>4, <2>5 DEF Undisturbed
<1>3. ASSUME clean', stop' PROVE Drained' /\ \A w \in Workers : pc'[w] \in {"last", "done"}
  <2>1. /\ Drained /\ UNCHANGED <<held, queue, consumed, dropped, count>>
        /\ \A w \in Workers : pc'[w] \in {"last", "done"}
    <3>1. CASE stop
      BY <1>3, <1>o, <3>1, StaysDrained DEF JobInv
    <3>2. CASE ~stop
      <4>1. Undisturbed
        BY <1>3, <1>o, <3>2 DEF JobInv
      <4>2. /\ \A v \in Workers : pc[v] \in {"last", "done"}
            /\ UNCHANGED <<held, queue, consumed, dropped, count>>
            /\ \A v \in Workers : pc'[v] \in {"last", "done"}
        BY <1>3, <3>2, CleanStop
      <4>3. Drained
        BY <4>1, <4>2, EndedIsDrained
      <4> QED BY <4>2, <4>3
    <3> QED BY <3>1, <3>2
  <2>2. Drained'
    BY <2>1 DEF Drained, Uses
  <2> QED BY <2>1, <2>2
<1> QED BY <1>1, <1>2, <1>3 DEF JobInv

\* What is true of such a job throughout Runtime::run.
THEOREM JobInvariant == ConsumersFirst /\ Spec => []JobInv
<1> SUFFICES ASSUME ConsumersFirst PROVE Spec => []JobInv
  OBVIOUS
<1>1. Init => JobInv
  <2> SUFFICES ASSUME Init PROVE JobInv
    OBVIOUS
  <2>1. Started
    <3>1. \A w \in Workers : StageOf[w] \in Nat /\ StageOf[w] >= 1
      BY RuntimeAssumption DEF Stages
    <3> QED BY <3>1 DEF Init, Started
  <2>2. Undisturbed
    BY DEF Init, Undisturbed, EpiloguePcs
  <2> QED BY <2>1, <2>2 DEF JobInv, Init
<1>2. RuntimeInv /\ DataInv /\ JobInv /\ [Next]_vars => JobInv'
  BY JobStep
<1> QED BY <1>1, <1>2, RuntimeInvariant, DataInvariant, PTL DEF Spec

\* For every pipeline whose spec lists consumers first: a job that is stopped
\* without a failure or a signal has consumed or dropped for its schema every
\* payload its sources produced (runtime.cc, the active-worker count).
THEOREM JobDrainsWhenConsumersFirst == ConsumersFirst /\ Spec => []JobStopsDrained
<1>1. JobInv => JobStopsDrained
  BY DEF JobInv, JobStopsDrained
<1> QED BY <1>1, JobInvariant, PTL
=============================================================================
