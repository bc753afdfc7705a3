--------------------------- MODULE FlowPathProofs ---------------------------
(***************************************************************************)
(* Proofs about FlowPath, FlowSpec and Workload, for any files, names and  *)
(* settings: normalization is deterministic, flowctl's checks imply the    *)
(* runtime's, and a pod template changes exactly with its spec.            *)
(***************************************************************************)
EXTENDS FlowPath, FiniteSetTheorems, SequenceTheorems, TLAPS

\* The runtime refuses a spec exactly for what only the runtime checks.
Starts(s) == RuntimeAccepts(s) <=> ~OnlyRuntimeRefuses(s)

\* The restart policy of the pods of each kind of workload.
RestartOf(k, spec) ==
    IF k \in {"Deployment", "DaemonSet"} THEN Absent ELSE restartPolicyFromSpec(spec.kubernetes)

\* What is stored came from a file, by way of flowctl if it says so.
StoredOk ==
    /\ stored \in Storable \cup {Absent}
    /\ checked \in BOOLEAN
    /\ checked /\ stored # Absent => Starts(stored)
\* The file is as it was when flowctl run checked it.
FileOk ==
    /\ file \in Files \cup {Absent}
    /\ started # Absent => started = file /\ Checked # {}
\* Specs that were applied were stored once.
VettedOk ==
    \A s \in DOMAIN vetted :
        /\ s \in Storable /\ s.version <= VersionOf(stored)
        /\ vetted[s] \in BOOLEAN
        /\ vetted[s] => Starts(s)
\* Every workload is rendered from the spec it names.
Rendered(k, w) ==
    /\ w.kind = k /\ w.label = w.spec.name
    /\ w.template \in runtimePodTemplate(w.spec, RestartOf(k, w.spec))
ObjectsOk ==
    /\ objects = [k \in Kinds |-> objects[k]]
    /\ \A k \in Kinds : objects[k] # Absent =>
          Rendered(k, objects[k]) /\ objects[k].spec \in DOMAIN vetted

\* The ConfigMap is that of a spec that was applied, none of the workloads is newer.
ConfigOk ==
    /\ config # Absent => config.label = Flow /\ config.data \in DOMAIN vetted
    /\ \A k \in Kinds : objects[k] # Absent =>
          config # Absent /\ objects[k].spec.version <= config.data.version

PathInv == StoredOk /\ FileOk /\ VettedOk /\ ObjectsOk /\ ConfigOk

-----------------------------------------------------------------------------
(* Rearrangements. *)

\* An order of positions is one to one and leaves none out.
LEMMA PermIsBijection ==
    ASSUME NEW n \in Nat, NEW p \in SetToSeqs(1 .. n)
    PROVE  /\ p \in [1 .. n -> 1 .. n]
           /\ \A i, j \in 1 .. n : p[i] = p[j] => i = j
           /\ \A k \in 1 .. n : \E i \in 1 .. n : p[i] = k
<1>1. IsFiniteSet(1 .. n) /\ Cardinality(1 .. n) = n
  BY FS_Interval
<1>2. p \in [1 .. n -> 1 .. n] /\ \A i, j \in 1 .. n : p[i] = p[j] => i = j
  BY <1>1 DEF SetToSeqs
<1>3. p \in Injection(1 .. n, 1 .. n)
  BY <1>2 DEF Injection, IsInjective
<1>4. p \in Surjection(1 .. n, 1 .. n)
  BY <1>1, <1>3, FS_Injection
<1> QED
  BY <1>2, <1>4 DEF Surjection

\* Its positions, the other way round.
LEMMA PermOf ==
    ASSUME NEW n \in Nat, NEW p \in [1 .. n -> 1 .. n],
           \A i, j \in 1 .. n : p[i] = p[j] => i = j
    PROVE  p \in SetToSeqs(1 .. n)
<1>1. Cardinality(1 .. n) = n
  BY FS_Interval
<1> QED
  BY <1>1 DEF SetToSeqs

\* A listing of a sequence: which positions it takes.
LEMMA ListingBy ==
    ASSUME NEW S, NEW s \in Seq(S), NEW t
    PROVE  t \in Listings(s) <=>
             \E p \in SetToSeqs(1 .. Len(s)) : t = [k \in 1 .. Len(s) |-> s[p[k]]]
<1>1. DOMAIN s = 1 .. Len(s)
  OBVIOUS
<1> QED
  BY <1>1 DEF Listings

\* A listing has the elements of the sequence, each as often.
LEMMA ListingKeeps ==
    ASSUME NEW S, NEW s \in Seq(S), NEW t \in Listings(s)
    PROVE  /\ t \in Seq(S) /\ Len(t) = Len(s) /\ DOMAIN t = 1 .. Len(s)
           /\ ToSet(t) = ToSet(s) /\ NamesOf(t) = NamesOf(s)
           /\ Distinct(t) <=> Distinct(s)
<1>1. PICK p \in SetToSeqs(1 .. Len(s)) : t = [k \in 1 .. Len(s) |-> s[p[k]]]
  BY ListingBy
<1>2. /\ Len(s) \in Nat /\ DOMAIN s = 1 .. Len(s)
      /\ \A k \in 1 .. Len(s) : s[k] \in S
  OBVIOUS
<1>3. /\ p \in [1 .. Len(s) -> 1 .. Len(s)]
      /\ \A i, j \in 1 .. Len(s) : p[i] = p[j] => i = j
      /\ \A k \in 1 .. Len(s) : \E i \in 1 .. Len(s) : p[i] = k
  BY <1>2, PermIsBijection
<1>4. t \in Seq(S) /\ Len(t) = Len(s) /\ DOMAIN t = 1 .. Len(s)
  BY <1>1, <1>2, <1>3
<1>5. \A k \in 1 .. Len(s) : t[k] = s[p[k]]
  BY <1>1
<1>6. \A k \in 1 .. Len(s) : \E i \in 1 .. Len(s) : t[i] = s[k]
  BY <1>3, <1>5
<1>7. \A i \in 1 .. Len(s) : \E k \in 1 .. Len(s) : t[i] = s[k]
  BY <1>3, <1>5
<1>8. ToSet(t) = ToSet(s)
  <2>1. ToSet(t) = {t[i] : i \in 1 .. Len(s)} /\ ToSet(s) = {s[i] : i \in 1 .. Len(s)}
    BY <1>2, <1>4 DEF ToSet
  <2> QED
    BY <1>6, <1>7, <2>1
<1>9. NamesOf(t) = NamesOf(s)
  <2>1. /\ NamesOf(t) = {t[i].name : i \in 1 .. Len(s)}
        /\ NamesOf(s) = {s[i].name : i \in 1 .. Len(s)}
    BY <1>2, <1>4 DEF NamesOf
  <2>2. \A k \in 1 .. Len(s) : \E i \in 1 .. Len(s) : s[k].name = t[i].name
    BY <1>6
  <2>3. \A i \in 1 .. Len(s) : \E k \in 1 .. Len(s) : t[i].name = s[k].name
    BY <1>7
  <2> QED
    BY <2>1, <2>2, <2>3
<1>10. ASSUME Distinct(s) PROVE Distinct(t)
  <2> SUFFICES ASSUME NEW i \in 1 .. Len(s), NEW j \in 1 .. Len(s), t[i].name = t[j].name
               PROVE  i = j
    BY <1>4 DEF Distinct
  <2>1. s[p[i]].name = s[p[j]].name /\ p[i] \in 1 .. Len(s) /\ p[j] \in 1 .. Len(s)
    BY <1>3, <1>5
  <2>2. p[i] = p[j]
    BY <1>2, <1>10, <2>1 DEF Distinct
  <2> QED
    BY <1>3, <2>2
<1>11. ASSUME Distinct(t) PROVE Distinct(s)
  <2> SUFFICES ASSUME NEW i \in 1 .. Len(s), NEW j \in 1 .. Len(s), s[i].name = s[j].name
               PROVE  i = j
    BY <1>2 DEF Distinct
  <2>1. PICK a \in 1 .. Len(s) : p[a] = i
    BY <1>3
  <2>2. PICK b \in 1 .. Len(s) : p[b] = j
    BY <1>3
  <2>3. a = b
    BY <1>4, <1>5, <1>11, <2>1, <2>2 DEF Distinct
  <2> QED
    BY <2>1, <2>2, <2>3
<1> QED
  BY <1>4, <1>8, <1>9, <1>10, <1>11

\* Listings of a listing are those of the sequence, one way.
LEMMA ListingsWithin ==
    ASSUME NEW S, NEW s \in Seq(S), NEW t \in Listings(s), NEW u \in Listings(t)
    PROVE  u \in Listings(s)
<1>1. PICK p \in SetToSeqs(1 .. Len(s)) : t = [k \in 1 .. Len(s) |-> s[p[k]]]
  BY ListingBy
<1>2. t \in Seq(S) /\ Len(t) = Len(s)
  BY ListingKeeps
<1>3. PICK q \in SetToSeqs(1 .. Len(s)) : u = [k \in 1 .. Len(s) |-> t[q[k]]]
  BY <1>2, ListingBy
<1>4. Len(s) \in Nat
  OBVIOUS
<1>5. /\ p \in [1 .. Len(s) -> 1 .. Len(s)] /\ q \in [1 .. Len(s) -> 1 .. Len(s)]
      /\ \A i, j \in 1 .. Len(s) : p[i] = p[j] => i = j
      /\ \A i, j \in 1 .. Len(s) : q[i] = q[j] => i = j
  BY <1>4, PermIsBijection
<1>6. PICK r : r = [k \in 1 .. Len(s) |-> p[q[k]]]
  OBVIOUS
<1>7. r \in [1 .. Len(s) -> 1 .. Len(s)] /\ \A i, j \in 1 .. Len(s) : r[i] = r[j] => i = j
  BY <1>5, <1>6
<1>8. r \in SetToSeqs(1 .. Len(s))
  BY <1>4, <1>7, PermOf
<1>9. u = [k \in 1 .. Len(s) |-> s[r[k]]]
  BY <1>1, <1>3, <1>5, <1>6
<1> QED
  BY <1>8, <1>9, ListingBy

\* A sequence is a listing of each of its listings.
LEMMA ListedBack ==
    ASSUME NEW S, NEW s \in Seq(S), NEW t \in Listings(s)
    PROVE  s \in Listings(t)
<1>1. PICK n : n = Len(s)
  OBVIOUS
<1>2. n \in Nat /\ s = [k \in 1 .. n |-> s[k]]
  BY <1>1
<1>3. PICK p \in SetToSeqs(1 .. n) : t = [k \in 1 .. n |-> s[p[k]]]
  BY <1>1, ListingBy
<1>4. t \in Seq(S) /\ Len(t) = n
  BY <1>1, ListingKeeps
<1>5. /\ p \in [1 .. n -> 1 .. n]
      /\ \A i, j \in 1 .. n : p[i] = p[j] => i = j
      /\ \A k \in 1 .. n : \E i \in 1 .. n : p[i] = k
  BY <1>2, PermIsBijection
<1>6. PICK r : r = [k \in 1 .. n |-> CHOOSE i \in 1 .. n : p[i] = k]
  OBVIOUS
<1>7. \A k \in 1 .. n : r[k] \in 1 .. n /\ p[r[k]] = k
  BY <1>5, <1>6
<1>8. r \in [1 .. n -> 1 .. n]
  BY <1>6, <1>7
<1>9. \A i, j \in 1 .. n : r[i] = r[j] => i = j
  BY <1>7
<1>10. r \in SetToSeqs(1 .. n)
  BY <1>2, <1>8, <1>9, PermOf
<1>11. \A k \in 1 .. n : t[r[k]] = s[k]
  BY <1>3, <1>7
<1>12. s = [k \in 1 .. n |-> t[r[k]]]
  BY <1>2, <1>11
<1> QED
  BY <1>4, <1>10, <1>12, ListingBy

\* However a sequence is listed, it has the same listings and the same sorted ones.
LEMMA SameListings ==
    ASSUME NEW S, NEW s \in Seq(S), NEW t \in Listings(s)
    PROVE  Listings(t) = Listings(s) /\ SortByName(t) = SortByName(s)
<1>1. t \in Seq(S) /\ s \in Listings(t)
  BY ListingKeeps, ListedBack
<1>2. Listings(t) \subseteq Listings(s)
  BY ListingsWithin
<1>3. Listings(s) \subseteq Listings(t)
  BY <1>1, ListingsWithin
<1> QED
  BY <1>2, <1>3 DEF SortByName

-----------------------------------------------------------------------------
(* Sorting: the place of an element is the number of those before it. *)

\* The things in the list t whose number is smaller than that of the k-th.
Before(t, n, rank, k) == {t[i] : i \in {j \in 1 .. n : rank[t[j]] < rank[t[k]]}}

\* Among things listed once, in strictly ascending order of a number, the place
\* of a thing is fixed by how many have a smaller number.
LEMMA PlaceCounts ==
    ASSUME NEW n \in Nat, NEW t, DOMAIN t = 1 .. n, NEW rank,
           \A i \in 1 .. n : rank[t[i]] \in Nat,
           \A i, j \in 1 .. n : i < j => rank[t[i]] < rank[t[j]],
           NEW k \in 1 .. n
    PROVE  Cardinality(Before(t, n, rank, k)) = k - 1
<1>1. PICK L : L = Before(t, n, rank, k)
  OBVIOUS
<1>2. \A i \in 1 .. n : rank[t[i]] < rank[t[k]] <=> i < k
  <2> SUFFICES ASSUME NEW i \in 1 .. n PROVE rank[t[i]] < rank[t[k]] <=> i < k
    OBVIOUS
  <2>1. CASE i < k
    BY <2>1
  <2>2. CASE i = k
    BY <2>2
  <2>3. CASE k < i
    <3>1. rank[t[k]] < rank[t[i]]
      BY <2>3
    <3> QED
      BY <2>3, <3>1
  <2> QED
    BY <2>1, <2>2, <2>3
<1>3. PICK f : f = [i \in 1 .. k - 1 |-> t[i]]
  OBVIOUS
<1>4. f \in [1 .. k - 1 -> L]
  BY <1>1, <1>2, <1>3 DEF Before
<1>5. ASSUME NEW i \in 1 .. k - 1, NEW j \in 1 .. k - 1, f[i] = f[j] PROVE i = j
  <2>1. i \in 1 .. n /\ j \in 1 .. n /\ t[i] = t[j]
    BY <1>3, <1>5
  <2>2. rank[t[i]] = rank[t[j]] /\ rank[t[i]] \in Nat
    BY <2>1
  <2>3. ~(i < j) /\ ~(j < i)
    BY <2>1, <2>2
  <2> QED
    BY <2>1, <2>3
<1>6. \A x \in L : \E i \in 1 .. k - 1 : f[i] = x
  <2> SUFFICES ASSUME NEW x \in L PROVE \E i \in 1 .. k - 1 : f[i] = x
    OBVIOUS
  <2>1. PICK i \in 1 .. n : x = t[i] /\ rank[t[i]] < rank[t[k]]
    BY <1>1 DEF Before
  <2>2. i \in 1 .. k - 1
    BY <1>2, <2>1
  <2> QED
    BY <1>3, <2>1, <2>2
<1>7. f \in Bijection(1 .. k - 1, L)
  <2>1. f \in Injection(1 .. k - 1, L)
    BY <1>4, <1>5 DEF Injection, IsInjective
  <2>2. f \in Surjection(1 .. k - 1, L)
    BY <1>4, <1>6 DEF Surjection
  <2> QED
    BY <2>1, <2>2 DEF Bijection
<1>8. IsFiniteSet(1 .. k - 1) /\ Cardinality(1 .. k - 1) = k - 1
  BY FS_Interval
<1>9. IsFiniteSet(L) /\ Cardinality(L) = k - 1
  BY <1>7, <1>8, FS_Bijection DEF ExistsBijection
<1> QED
  BY <1>1, <1>9

\* So there is one way to list them.
LEMMA OneAscending ==
    ASSUME NEW n \in Nat, NEW s, NEW t, s = [i \in 1 .. n |-> s[i]], t = [i \in 1 .. n |-> t[i]],
           {s[i] : i \in 1 .. n} = {t[i] : i \in 1 .. n}, NEW rank,
           \A i \in 1 .. n : rank[s[i]] \in Nat,
           \A i \in 1 .. n : rank[t[i]] \in Nat,
           \A i, j \in 1 .. n : i < j => rank[s[i]] < rank[s[j]],
           \A i, j \in 1 .. n : i < j => rank[t[i]] < rank[t[j]]
    PROVE  s = t
<1>1. ASSUME NEW k \in 1 .. n PROVE s[k] = t[k]
  <2>0. /\ n \in Nat /\ k \in 1 .. n
        /\ \A i \in 1 .. n : rank[s[i]] \in Nat
        /\ \A i \in 1 .. n : rank[t[i]] \in Nat
        /\ \A i, j \in 1 .. n : i < j => rank[s[i]] < rank[s[j]]
        /\ \A i, j \in 1 .. n : i < j => rank[t[i]] < rank[t[j]]
    OBVIOUS
  <2>1. PICK j \in 1 .. n : t[j] = s[k]
    OBVIOUS
  <2>2. DOMAIN s = 1 .. n /\ DOMAIN t = 1 .. n
    OBVIOUS
  <2>3. Before(s, n, rank, k) = Before(t, n, rank, j)
    <3>1. \A i \in 1 .. n : \E l \in 1 .. n : s[i] = t[l]
      OBVIOUS
    <3>2. \A i \in 1 .. n : \E l \in 1 .. n : t[i] = s[l]
      OBVIOUS
    <3>3. ASSUME NEW x \in Before(s, n, rank, k) PROVE x \in Before(t, n, rank, j)
      <4>1. PICK i \in 1 .. n : x = s[i] /\ rank[s[i]] < rank[s[k]]
        BY <3>3 DEF Before
      <4>2. PICK l \in 1 .. n : s[i] = t[l]
        BY <3>1
      <4> QED
        BY <2>1, <4>1, <4>2 DEF Before
    <3>4. ASSUME NEW x \in Before(t, n, rank, j) PROVE x \in Before(s, n, rank, k)
      <4>1. PICK i \in 1 .. n : x = t[i] /\ rank[t[i]] < rank[t[j]]
        BY <3>4 DEF Before
      <4>2. PICK l \in 1 .. n : t[i] = s[l]
        BY <3>2
      <4> QED
        BY <2>1, <4>1, <4>2 DEF Before
    <3> QED
      BY <3>3, <3>4
  <2>4. Cardinality(Before(s, n, rank, k)) = k - 1
    BY ONLY <2>0, <2>2, PlaceCounts
  <2>5. Cardinality(Before(t, n, rank, j)) = j - 1
    BY ONLY <2>0, <2>2, PlaceCounts
  <2>6. j = k
    BY <2>3, <2>4, <2>5
  <2> QED
    BY <2>1, <2>6
<1> QED
  BY <1>1

\* sort.Slice has one result for a list without a name twice.
LEMMA SortedOnce ==
    ASSUME NEW S, NEW s \in Seq(S), Distinct(s), NamesOf(s) \subseteq DOMAIN Rank,
           NEW t \in SortByName(s), NEW u \in SortByName(s)
    PROVE  t = u
<1>1. PICK n : n = Len(s)
  OBVIOUS
<1>2. n \in Nat
  BY <1>1
<1>3. PICK rank : rank = [x \in ToSet(s) |-> Rank[x.name]]
  OBVIOUS
<1>4. ASSUME NEW v \in SortByName(s)
      PROVE  /\ v = [i \in 1 .. n |-> v[i]] /\ {v[i] : i \in 1 .. n} = ToSet(s)
             /\ \A i \in 1 .. n : rank[v[i]] \in Nat
             /\ \A i, j \in 1 .. n : i < j => rank[v[i]] < rank[v[j]]
  <2>1. v \in Listings(s) /\ \A i, j \in DOMAIN v : i < j => Rank[v[i].name] <= Rank[v[j].name]
    BY <1>4 DEF SortByName
  <2>2. /\ v \in Seq(S) /\ Len(v) = n /\ DOMAIN v = 1 .. n
        /\ ToSet(v) = ToSet(s) /\ NamesOf(v) = NamesOf(s) /\ Distinct(v)
    BY <1>1, <2>1, ListingKeeps
  <2>3. v = [i \in 1 .. n |-> v[i]]
    BY <2>2
  <2>4. {v[i] : i \in 1 .. n} = ToSet(s)
    BY <2>2 DEF ToSet
  <2>5. \A i \in 1 .. n : v[i].name \in DOMAIN Rank
    BY <2>2 DEF NamesOf
  <2>6. \A i \in 1 .. n : rank[v[i]] = Rank[v[i].name]
    BY <1>3, <2>4
  <2>7. Rank \in [DOMAIN Rank -> Nat] /\ \A a, b \in DOMAIN Rank : Rank[a] = Rank[b] => a = b
    BY FilesAssumption DEF IsInjective
  <2>8. \A i \in 1 .. n : rank[v[i]] \in Nat
    BY <2>5, <2>6, <2>7
  <2>9. ASSUME NEW i \in 1 .. n, NEW j \in 1 .. n, i < j PROVE rank[v[i]] < rank[v[j]]
    <3>1. Rank[v[i].name] <= Rank[v[j].name]
      BY <2>1, <2>2, <2>9
    <3>2. v[i].name # v[j].name
      BY <2>2, <2>9 DEF Distinct
    <3>3. Rank[v[i].name] # Rank[v[j].name]
      BY <2>5, <2>7, <3>2
    <3>4. Rank[v[i].name] \in Nat /\ Rank[v[j].name] \in Nat
      BY <2>5, <2>7
    <3> QED
      BY <2>6, <3>1, <3>3, <3>4
  <2> QED
    BY <2>3, <2>4, <2>8, <2>9
<1>5. /\ t = [i \in 1 .. n |-> t[i]] /\ u = [i \in 1 .. n |-> u[i]]
      /\ {t[i] : i \in 1 .. n} = {u[i] : i \in 1 .. n}
      /\ \A i \in 1 .. n : rank[t[i]] \in Nat
      /\ \A i \in 1 .. n : rank[u[i]] \in Nat
      /\ \A i, j \in 1 .. n : i < j => rank[t[i]] < rank[t[j]]
      /\ \A i, j \in 1 .. n : i < j => rank[u[i]] < rank[u[j]]
  BY <1>4
<1> QED
  BY ONLY <1>2, <1>5, OneAscending

\* A list of a set's elements, each once.
LEMMA ListsAll ==
    ASSUME NEW K, IsFiniteSet(K), NEW n, n = Cardinality(K), NEW o \in SetToSeqs(K)
    PROVE  /\ n \in Nat /\ o \in [1 .. n -> K] /\ {o[i] : i \in 1 .. n} = K
           /\ \A i, j \in 1 .. n : o[i] = o[j] => i = j
<1>1. n \in Nat
  BY FS_CardinalityType
<1>2. o \in [1 .. n -> K] /\ \A i, j \in 1 .. n : o[i] = o[j] => i = j
  BY DEF SetToSeqs
<1>3. o \in Injection(1 .. n, K)
  BY <1>2 DEF Injection, IsInjective
<1>4. Cardinality(1 .. n) = n
  BY <1>1, FS_Interval
<1>5. o \in Surjection(1 .. n, K)
  BY <1>3, <1>4, FS_Injection
<1> QED
  BY <1>1, <1>2, <1>5 DEF Surjection

\* Variables have one order.
LEMMA SortedKeysOnce ==
    ASSUME NEW K, IsFiniteSet(K), K \subseteq DOMAIN Rank, NEW o \in Sorted(K), NEW u \in Sorted(K)
    PROVE  o = u
<1>1. PICK n : n = Cardinality(K)
  OBVIOUS
<1>2. Rank \in [DOMAIN Rank -> Nat]
  BY FilesAssumption
<1>3. ASSUME NEW v \in Sorted(K)
      PROVE  /\ n \in Nat /\ v = [i \in 1 .. n |-> v[i]] /\ {v[i] : i \in 1 .. n} = K
             /\ \A i \in 1 .. n : Rank[v[i]] \in Nat
             /\ \A i, j \in 1 .. n : i < j => Rank[v[i]] < Rank[v[j]]
  <2>1. v \in SetToSeqs(K) /\ \A i, j \in DOMAIN v : i < j => Rank[v[i]] < Rank[v[j]]
    BY <1>3 DEF Sorted
  <2>2. n \in Nat /\ v \in [1 .. n -> K] /\ {v[i] : i \in 1 .. n} = K
    BY <1>1, <2>1, ListsAll
  <2>3. \A i \in 1 .. n : Rank[v[i]] \in Nat
    BY <1>2, <2>2
  <2>4. v = [i \in 1 .. n |-> v[i]] /\ DOMAIN v = 1 .. n
    BY <2>2
  <2> QED
    BY <2>1, <2>2, <2>3, <2>4
<1>4. /\ n \in Nat /\ o = [i \in 1 .. n |-> o[i]] /\ u = [i \in 1 .. n |-> u[i]]
      /\ {o[i] : i \in 1 .. n} = {u[i] : i \in 1 .. n}
      /\ \A i \in 1 .. n : Rank[o[i]] \in Nat
      /\ \A i \in 1 .. n : Rank[u[i]] \in Nat
      /\ \A i, j \in 1 .. n : i < j => Rank[o[i]] < Rank[o[j]]
      /\ \A i, j \in 1 .. n : i < j => Rank[u[i]] < Rank[u[j]]
  BY <1>3
<1> QED
  BY ONLY <1>4, OneAscending

-----------------------------------------------------------------------------
(* Specs: what normalizing and storing leave alone. *)

\* Other queues and stages in a spec.
LEMMA Replaced ==
    ASSUME NEW f, IsSpec(f), NEW q, NEW st, NEW s, s = Relisted(f, q, st)
    PROVE  /\ IsSpec(s) /\ s.queues = q /\ s.stages = st
           /\ s.name = f.name /\ s.version = f.version /\ s.execution = f.execution
           /\ s.env = f.env /\ s.kubernetes = f.kubernetes
           /\ s.kubernetes_options = f.kubernetes_options
<1>1. s = [name |-> f.name, version |-> f.version, queues |-> q, stages |-> st,
           execution |-> f.execution, env |-> f.env, kubernetes |-> f.kubernetes,
           kubernetes_options |-> f.kubernetes_options]
  BY DEF IsSpec, Relisted
<1> QED
  BY <1>1 DEF IsSpec

\* Another name and version in a spec.
LEMMA Renamed ==
    ASSUME NEW f, IsSpec(f), NEW n, NEW v, NEW s, s = Filed(f, n, v)
    PROVE  /\ IsSpec(s) /\ s.name = n /\ s.version = v
           /\ s.queues = f.queues /\ s.stages = f.stages /\ s.env = f.env
           /\ s.kubernetes = f.kubernetes
<1>1. s = [name |-> n, version |-> v, queues |-> f.queues, stages |-> f.stages,
           execution |-> f.execution, env |-> f.env, kubernetes |-> f.kubernetes,
           kubernetes_options |-> f.kubernetes_options]
  BY DEF IsSpec, Filed
<1> QED
  BY <1>1 DEF IsSpec

\* The default is a capacity, and changes nothing else.
LEMMA DefaultCapacity ==
    ASSUME NEW q, q = Queue(q.name, q.type, q.capacity, q.schema_id)
    PROVE  /\ Defaulted(q).name = q.name /\ Defaulted(q).schema_id = q.schema_id
           /\ Defaulted(q).capacity # 0
  BY DEF Defaulted, Queue

\* What the assumption says of a file.
LEMMA FileFacts ==
    ASSUME NEW f \in Files
    PROVE  /\ IsSpec(f)
           /\ f.queues \in Seq(ToSet(f.queues)) /\ f.stages \in Seq(ToSet(f.stages))
           /\ \A q \in ToSet(f.queues) : q = Queue(q.name, q.type, q.capacity, q.schema_id)
           /\ NamesOf(f.queues) \subseteq DOMAIN Rank /\ NamesOf(f.stages) \subseteq DOMAIN Rank
           /\ DOMAIN f.env \subseteq DOMAIN Rank /\ IsFiniteSet(DOMAIN f.env)
  BY FilesAssumption

\* The parts of a normalized spec.
LEMMA NormalizedParts ==
    ASSUME NEW f \in Files, NEW s \in Normalize(f)
    PROVE  /\ IsSpec(s) /\ s.name = f.name /\ s.env = f.env
           /\ s.stages \in Listings(f.stages)
           /\ \E qs \in Listings(f.queues) : s.queues = [k \in DOMAIN qs |-> Defaulted(qs[k])]
<1>1. PICK qs \in SortByName(f.queues), ss \in SortByName(f.stages) :
        s = Relisted(f, [k \in DOMAIN qs |-> Defaulted(qs[k])], ss)
  BY DEF Normalize
<1>2. PICK q : q = [k \in DOMAIN qs |-> Defaulted(qs[k])]
  OBVIOUS
<1>3. s = Relisted(f, q, ss)
  BY <1>1, <1>2
<1>4. IsSpec(f)
  BY FileFacts
<1>5. IsSpec(s) /\ s.queues = q /\ s.stages = ss /\ s.name = f.name /\ s.env = f.env
  BY ONLY <1>3, <1>4, Replaced
<1>6. qs \in Listings(f.queues) /\ ss \in Listings(f.stages)
  BY DEF SortByName
<1> QED
  BY <1>2, <1>5, <1>6

\* The queues of a normalized spec: those of the file, with capacities.
LEMMA NormalizedQueues ==
    ASSUME NEW f \in Files, NEW s \in Normalize(f)
    PROVE  /\ NamesOf(s.queues) = NamesOf(f.queues)
           /\ Distinct(s.queues) <=> Distinct(f.queues)
           /\ \A q \in ToSet(s.queues) : q.capacity # 0
<1>1. PICK qs \in Listings(f.queues) : s.queues = [k \in DOMAIN qs |-> Defaulted(qs[k])]
  BY NormalizedParts
<1>2. PICK n : n = Len(f.queues)
  OBVIOUS
<1>3. f.queues \in Seq(ToSet(f.queues))
  BY FileFacts
<1>4. /\ qs \in Seq(ToSet(f.queues)) /\ DOMAIN qs = 1 .. n /\ ToSet(qs) = ToSet(f.queues)
      /\ NamesOf(qs) = NamesOf(f.queues) /\ (Distinct(qs) <=> Distinct(f.queues))
  BY <1>2, <1>3, ListingKeeps
<1>5. \A k \in 1 .. n : qs[k] = Queue(qs[k].name, qs[k].type, qs[k].capacity, qs[k].schema_id)
  BY <1>4, FileFacts DEF ToSet
<1>6. DOMAIN s.queues = 1 .. n /\ \A k \in 1 .. n : s.queues[k] = Defaulted(qs[k])
  BY <1>1, <1>4
<1>7. \A k \in 1 .. n : s.queues[k].name = qs[k].name /\ s.queues[k].capacity # 0
  BY <1>5, <1>6, DefaultCapacity
<1>8. NamesOf(s.queues) = NamesOf(qs)
  BY <1>4, <1>6, <1>7 DEF NamesOf
<1>9. Distinct(s.queues) <=> Distinct(qs)
  BY <1>4, <1>6, <1>7 DEF Distinct
<1>10. \A q \in ToSet(s.queues) : q.capacity # 0
  BY <1>6, <1>7 DEF ToSet
<1> QED
  BY <1>4, <1>8, <1>9, <1>10

\* Its stages: those of the file.
LEMMA NormalizedStages ==
    ASSUME NEW f \in Files, NEW s \in Normalize(f)
    PROVE  /\ ToSet(s.stages) = ToSet(f.stages) /\ NamesOf(s.stages) = NamesOf(f.stages)
           /\ Distinct(s.stages) <=> Distinct(f.stages)
           /\ s.stages = <<>> <=> f.stages = <<>>
<1>1. s.stages \in Listings(f.stages) /\ f.stages \in Seq(ToSet(f.stages))
  BY NormalizedParts, FileFacts
<1>2. PICK a, b, S : a = f.stages /\ b = s.stages /\ S = ToSet(f.stages)
  OBVIOUS
<1>3. a \in Seq(S) /\ b \in Listings(a)
  BY <1>1, <1>2
<1>4. /\ b \in Seq(S) /\ Len(b) = Len(a)
      /\ ToSet(b) = ToSet(a) /\ NamesOf(b) = NamesOf(a) /\ (Distinct(b) <=> Distinct(a))
  BY <1>3, ListingKeeps
<1>5. b = <<>> <=> a = <<>>
  BY <1>3, <1>4
<1> QED
  BY <1>2, <1>4, <1>5

\* Validate sees no difference between a file and what Normalize makes of it.
LEMMA NormalizeKeepsValid ==
    ASSUME NEW f \in Files, NEW s \in Normalize(f)
    PROVE  Validate(s) <=> Validate(f)
<1>1. /\ s.name = f.name /\ NamesOf(s.queues) = NamesOf(f.queues)
      /\ NamesOf(s.stages) = NamesOf(f.stages) /\ ToSet(s.stages) = ToSet(f.stages)
  BY NormalizedParts, NormalizedQueues, NormalizedStages
<1>2. /\ Distinct(s.queues) <=> Distinct(f.queues)
      /\ Distinct(s.stages) <=> Distinct(f.stages)
      /\ s.stages = <<>> <=> f.stages = <<>>
  BY NormalizedQueues, NormalizedStages
<1> QED
  BY <1>1, <1>2 DEF Validate

\* The runtime refuses a valid spec for what only the runtime checks and for a
\* queue without capacity, and for nothing else.
LEMMA ValidStarts ==
    ASSUME NEW s, Validate(s)
    PROVE  RuntimeAccepts(s) <=>
             ~OnlyRuntimeRefuses(s) /\ \A q \in ToSet(s.queues) : q.capacity # 0
<1>1. QueuesAccepted(s) <=> \A q \in ToSet(s.queues) : q.capacity # 0 /\ QueueSupported(q)
  BY DEF QueuesAccepted, Validate
<1>2. ASSUME NEW x \in ToSet(s.stages) PROVE StageAccepted(s, x) <=> StageSupported(s, x)
  BY <1>2 DEF Validate, StageAccepted, QueuesFound
<1> QED
  BY <1>1, <1>2 DEF RuntimeAccepts, OnlyRuntimeRefuses

\* The runtime looks at queues, stages and pinned CPUs only.
LEMMA StartsByParts ==
    ASSUME NEW s, NEW t, s.queues = t.queues, s.stages = t.stages, s.kubernetes = t.kubernetes
    PROVE  Starts(s) <=> Starts(t)
<1>1. QueuesAccepted(s) <=> QueuesAccepted(t)
  BY DEF QueuesAccepted
<1>2. ASSUME NEW x PROVE StageSupported(s, x) <=> StageSupported(t, x)
  BY DEF StageSupported, ResolveCpuPinning
<1>3. ASSUME NEW x PROVE StageAccepted(s, x) <=> StageAccepted(t, x)
  BY <1>2 DEF StageAccepted, QueuesFound
<1> QED
  BY <1>1, <1>2, <1>3 DEF Starts, RuntimeAccepts, OnlyRuntimeRefuses

-----------------------------------------------------------------------------
(* Pod templates. *)

\* Where two maps are merged, the second one is seen beside the first.
LEMMA Beside ==
    ASSUME NEW f, NEW g, NEW x \in DOMAIN g, x \notin DOMAIN f
    PROVE  x \in DOMAIN Over(f, g) /\ Over(f, g)[x] = g[x]
  BY DEF Over

\* A map of one entry.
LEMMA OneEntry ==
    ASSUME NEW x, NEW v PROVE x \in DOMAIN Entry(x, v) /\ Entry(x, v)[x] = v /\ DOMAIN Entry(x, v) = {x}
  BY DEF Entry

\* A template, with the fields that are rendered.
IsTemplate(t) ==
    t = [labels |-> t.labels, annotations |-> t.annotations, image |-> t.image, pull |-> t.pull,
         restart |-> t.restart, env |-> t.env, config |-> t.config, requests |-> t.requests,
         secrets |-> t.secrets]

\* The flow's label, the checksum of its spec and its variables.
Marked(t, spec) ==
    /\ flowLabelKey \in DOMAIN t.labels /\ t.labels[flowLabelKey] = spec.name
    /\ runtimeConfigHashKey \in DOMAIN t.annotations
    /\ t.annotations[runtimeConfigHashKey] = Checksum(spec)
    /\ t.env \in runtimeEnv(spec.env)

\* Requests and the profile leave the marks.
LEMMA ResourcesKeepMarks ==
    ASSUME NEW t, IsTemplate(t), NEW spec, Marked(t, spec), NEW r, NEW u,
           u = applyResourceIntent(t, r)
    PROVE  IsTemplate(u) /\ Marked(u, spec)
<1>1. CASE r = Absent
  BY <1>1 DEF applyResourceIntent
<1>2. CASE r # Absent
  <2>1. PICK a, q : /\ a = IF r.profile \in {Absent, ""} THEN t.annotations
                           ELSE Over(Entry(resourceProfileKey, r.profile), t.annotations)
                    /\ q = [k \in {b \in DOMAIN r.amounts : r.amounts[b] > 0} |-> r.amounts[k]]
    OBVIOUS
  <2>2. u = [t EXCEPT !.annotations = a, !.requests = q]
    BY <1>2, <2>1 DEF applyResourceIntent
  <2>3. u = [labels |-> t.labels, annotations |-> a, image |-> t.image, pull |-> t.pull,
             restart |-> t.restart, env |-> t.env, config |-> t.config, requests |-> q,
             secrets |-> t.secrets]
    BY <2>2 DEF IsTemplate
  <2>4. IsTemplate(u) /\ u.labels = t.labels /\ u.annotations = a /\ u.env = t.env
    BY <2>3 DEF IsTemplate
  <2>5. /\ runtimeConfigHashKey \in DOMAIN a
        /\ a[runtimeConfigHashKey] = t.annotations[runtimeConfigHashKey]
    <3>1. runtimeConfigHashKey # resourceProfileKey
      BY DEF runtimeConfigHashKey, resourceProfileKey
    <3>2. runtimeConfigHashKey \in DOMAIN t.annotations
      BY DEF Marked
    <3>3. CASE r.profile \in {Absent, ""}
      BY <2>1, <3>2, <3>3
    <3>4. CASE r.profile \notin {Absent, ""}
      <4>1. PICK m : m = Entry(resourceProfileKey, r.profile)
        OBVIOUS
      <4>2. runtimeConfigHashKey \notin DOMAIN m
        BY <3>1, <4>1, OneEntry
      <4>3. a = Over(m, t.annotations)
        BY <2>1, <3>4, <4>1
      <4> QED
        BY <3>2, <4>2, <4>3, Beside
    <3> QED
      BY <3>3, <3>4
  <2> QED
    BY <2>4, <2>5 DEF Marked
<1> QED
  BY <1>1, <1>2

\* A flow's own labels and annotations leave the marks.
LEMMA OptionsKeepMarks ==
    ASSUME NEW t, IsTemplate(t), NEW spec, Marked(t, spec), NEW o, NEW u,
           u = applyKubernetesOptions(t, o)
    PROVE  IsTemplate(u) /\ Marked(u, spec)
<1>1. CASE o = Absent
  BY <1>1 DEF applyKubernetesOptions
<1>2. CASE o # Absent
  <2>1. PICK l, a, s : /\ l = Without(o.pod_labels, {flowLabelKey})
                       /\ a = Without(o.pod_annotations, {runtimeConfigHashKey})
                       /\ s = SelectSeq(o.image_pull_secrets, LAMBDA x : x # "")
    OBVIOUS
  <2>2. u = [t EXCEPT !.labels = Over(l, t.labels), !.annotations = Over(a, t.annotations),
                      !.secrets = s]
    BY <1>2, <2>1 DEF applyKubernetesOptions
  <2>3. u = [labels |-> Over(l, t.labels), annotations |-> Over(a, t.annotations), image |-> t.image,
             pull |-> t.pull, restart |-> t.restart, env |-> t.env, config |-> t.config,
             requests |-> t.requests, secrets |-> s]
    BY <2>2 DEF IsTemplate
  <2>4. /\ IsTemplate(u) /\ u.labels = Over(l, t.labels) /\ u.annotations = Over(a, t.annotations)
        /\ u.env = t.env
    BY <2>3 DEF IsTemplate
  <2>5. flowLabelKey \notin DOMAIN l /\ runtimeConfigHashKey \notin DOMAIN a
    BY <2>1 DEF Without
  <2>6. flowLabelKey \in DOMAIN t.labels /\ runtimeConfigHashKey \in DOMAIN t.annotations
    BY DEF Marked
  <2>7. /\ flowLabelKey \in DOMAIN Over(l, t.labels)
        /\ Over(l, t.labels)[flowLabelKey] = t.labels[flowLabelKey]
    BY <2>5, <2>6, Beside
  <2>8. /\ runtimeConfigHashKey \in DOMAIN Over(a, t.annotations)
        /\ Over(a, t.annotations)[runtimeConfigHashKey] = t.annotations[runtimeConfigHashKey]
    BY <2>5, <2>6, Beside
  <2> QED
    BY <2>4, <2>7, <2>8 DEF Marked
<1> QED
  BY <1>1, <1>2

\* The controller's own variables: each once, the switch first.
LEMMA FixedOnce ==
    /\ FixedEnv \in Seq(ToSet(FixedEnv)) /\ Len(FixedEnv) >= 1
    /\ FixedEnv[1] = <<"FLOWPIPE_OBSERVABILITY_ENABLED", Text(Observed)>>
    /\ \A i, j \in 1 .. Len(FixedEnv) : FixedEnv[i][1] = FixedEnv[j][1] => i = j
<1>1. PICK a, b, c, d, e :
        /\ a = <<"FLOWPIPE_OBSERVABILITY_ENABLED", Text(Observed)>>
        /\ b = <<"FLOWPIPE_METRICS_ENABLED", "true">> /\ c = <<"FLOWPIPE_TRACING_ENABLED", "true">>
        /\ d = <<"FLOWPIPE_LOGS_ENABLED", "true">> /\ e = <<"OTEL_EXPORTER_OTLP_ENDPOINT", Endpoint>>
  OBVIOUS
<1>2. FixedEnv = IF Observed THEN <<a, b, c, d, e>> ELSE <<a>>
  BY <1>1 DEF FixedEnv
<1>3. /\ a[1] = "FLOWPIPE_OBSERVABILITY_ENABLED" /\ b[1] = "FLOWPIPE_METRICS_ENABLED"
      /\ c[1] = "FLOWPIPE_TRACING_ENABLED" /\ d[1] = "FLOWPIPE_LOGS_ENABLED"
      /\ e[1] = "OTEL_EXPORTER_OTLP_ENDPOINT"
  BY <1>1
<1>4. CASE Observed
  <2>1. PICK s : s = <<a, b, c, d, e>>
    OBVIOUS
  <2>2. /\ s \in Seq({a, b, c, d, e}) /\ Len(s) = 5
        /\ s[1] = a /\ s[2] = b /\ s[3] = c /\ s[4] = d /\ s[5] = e
    BY <2>1
  <2>3. s \in Seq(ToSet(s))
    BY <2>2 DEF ToSet
  <2>4. \A i, j \in 1 .. 5 : s[i][1] = s[j][1] => i = j
    BY <1>3, <2>2
  <2>5. FixedEnv = s
    BY ONLY <1>2, <1>4, <2>1
  <2> QED
    <3>1. Len(s) >= 1 /\ 1 .. Len(s) = 1 .. 5
      BY ONLY <2>2
    <3>2. s[1] = <<"FLOWPIPE_OBSERVABILITY_ENABLED", Text(Observed)>>
      BY ONLY <1>1, <2>2
    <3> QED
      BY ONLY <2>3, <2>4, <2>5, <3>1, <3>2
<1>5. CASE ~Observed
  <2>1. PICK s : s = <<a>>
    OBVIOUS
  <2>2. s \in Seq(ToSet(s)) /\ Len(s) = 1 /\ s[1] = a
    BY <2>1 DEF ToSet
  <2> QED
    BY <1>1, <1>2, <1>5, <2>1, <2>2
<1> QED
  BY <1>4, <1>5

\* A flow's variables have one rendering.
LEMMA EnvOnce ==
    ASSUME NEW extra, IsFiniteSet(DOMAIN extra), DOMAIN extra \subseteq DOMAIN Rank,
           NEW e \in runtimeEnv(extra), NEW u \in runtimeEnv(extra)
    PROVE  e = u
<1>1. PICK K : K = Added(extra)
  OBVIOUS
<1>2. IsFiniteSet(K) /\ K \subseteq DOMAIN Rank
  <2>1. K \subseteq DOMAIN extra
    BY <1>1 DEF Added
  <2> QED
    BY <2>1, FS_Subset
<1>3. PICK o \in Sorted(K) : e = EnvOf(extra, o)
  BY <1>1 DEF runtimeEnv
<1>4. PICK p \in Sorted(K) : u = EnvOf(extra, p)
  BY <1>1 DEF runtimeEnv
<1>5. o = p
  BY <1>2, SortedKeysOnce
<1> QED
  BY <1>3, <1>4, <1>5

\* In it no variable is set twice, and the controller's switch is there.
LEMMA EnvSetsOnce ==
    ASSUME NEW extra, IsFiniteSet(DOMAIN extra), NEW e \in runtimeEnv(extra)
    PROVE  /\ \A i, j \in DOMAIN e : e[i][1] = e[j][1] => i = j
           /\ <<"FLOWPIPE_OBSERVABILITY_ENABLED", Text(Observed)>> \in ToSet(e)
<1>1. PICK K, n, m, F : /\ K = Added(extra) /\ n = Cardinality(K) /\ F = FixedEnv
                        /\ m = Len(FixedEnv)
  OBVIOUS
<1>2. IsFiniteSet(K)
  <2>1. K \subseteq DOMAIN extra
    BY <1>1 DEF Added
  <2> QED
    BY <2>1, FS_Subset
<1>3. PICK o \in Sorted(K) : e = EnvOf(extra, o)
  BY <1>1 DEF runtimeEnv
<1>4. /\ n \in Nat /\ o \in [1 .. n -> K]
      /\ \A i, j \in 1 .. n : o[i] = o[j] => i = j
  <2>1. o \in SetToSeqs(K)
    BY DEF Sorted
  <2> QED
    BY <1>1, <1>2, <2>1, ListsAll
<1>5. PICK t : t = [j \in 1 .. n |-> <<o[j], extra[o[j]]>>]
  OBVIOUS
<1>6. e = F \o t
  <2>1. DOMAIN o = 1 .. n
    BY <1>4
  <2> QED
    BY <1>1, <1>3, <1>5, <2>1 DEF EnvOf
<1>7. PICK S : S = ToSet(F) \cup {<<o[j], extra[o[j]]>> : j \in 1 .. n}
  OBVIOUS
<1>8. /\ F \in Seq(ToSet(F)) /\ Len(F) = m /\ m >= 1 /\ m \in Nat
      /\ F[1] = <<"FLOWPIPE_OBSERVABILITY_ENABLED", Text(Observed)>>
      /\ \A i, j \in 1 .. m : F[i][1] = F[j][1] => i = j
  BY <1>1, FixedOnce
<1>9. F \in Seq(S)
  BY <1>7, <1>8
<1>10. t \in Seq(S) /\ Len(t) = n
  BY <1>4, <1>5, <1>7
<1>11. /\ e \in Seq(S) /\ Len(e) = m + n
       /\ \A i \in 1 .. m + n : e[i] = IF i <= m THEN F[i] ELSE t[i - m]
  <2>1. /\ F \o t \in Seq(S) /\ Len(F \o t) = Len(F) + Len(t)
        /\ \A i \in 1 .. Len(F) + Len(t) :
              (F \o t)[i] = IF i <= Len(F) THEN F[i] ELSE t[i - Len(F)]
    BY ONLY <1>9, <1>10, ConcatProperties
  <2>2. Len(F) = m /\ Len(t) = n
    BY <1>8, <1>10
  <2> QED
    BY ONLY <1>6, <2>1, <2>2
<1>12. \A i \in 1 .. n : t[i][1] = o[i] /\ t[i][1] \in K
  BY <1>4, <1>5
<1>13. \A i \in 1 .. m : F[i][1] \notin K
  BY <1>1, <1>8 DEF Added
<1>14. ASSUME NEW i \in 1 .. m + n, NEW j \in 1 .. m + n, e[i][1] = e[j][1] PROVE i = j
  <2>1. CASE i <= m /\ j <= m
    <3>1. F[i][1] = F[j][1] /\ i \in 1 .. m /\ j \in 1 .. m
      BY <1>8, <1>11, <1>14, <2>1
    <3> QED
      BY <1>8, <3>1
  <2>2. CASE i > m /\ j > m
    <3>1. i - m \in 1 .. n /\ j - m \in 1 .. n
      BY <1>4, <1>8, <2>2
    <3>2. t[i - m][1] = t[j - m][1]
      BY <1>8, <1>11, <1>14, <2>2
    <3>3. i - m = j - m
      BY <1>4, <1>12, <3>1, <3>2
    <3> QED
      BY <1>8, <3>3
  <2>3. CASE i <= m /\ j > m
    <3>1. i \in 1 .. m /\ j - m \in 1 .. n
      BY <1>4, <1>8, <2>3
    <3>2. F[i][1] = t[j - m][1]
      BY <1>8, <1>11, <1>14, <2>3
    <3> QED
      BY <1>12, <1>13, <3>1, <3>2
  <2>4. CASE i > m /\ j <= m
    <3>1. j \in 1 .. m /\ i - m \in 1 .. n
      BY <1>4, <1>8, <2>4
    <3>2. F[j][1] = t[i - m][1]
      BY <1>8, <1>11, <1>14, <2>4
    <3> QED
      BY <1>12, <1>13, <3>1, <3>2
  <2> QED
    BY <1>8, <2>1, <2>2, <2>3, <2>4
<1>15. e[1] = F[1] /\ 1 \in DOMAIN e /\ DOMAIN e = 1 .. m + n
  BY <1>4, <1>8, <1>11
<1> QED
  BY <1>8, <1>14, <1>15 DEF ToSet

\* A template has the marks of its spec.
LEMMA TemplateMarked ==
    ASSUME NEW spec, NEW restart, NEW t \in runtimePodTemplate(spec, restart)
    PROVE  Marked(t, spec)
<1>1. PICK env \in runtimeEnv(spec.env) :
        t = applyKubernetesOptions(
              applyResourceIntent(
                [labels |-> Entry(flowLabelKey, spec.name),
                 annotations |-> Entry(runtimeConfigHashKey, Checksum(spec)),
                 image |-> spec.kubernetes.image, pull |-> pullPolicyFromSpec(spec.kubernetes),
                 restart |-> restart, env |-> env, config |-> <<spec.name, "config">>,
                 requests |-> <<>>, secrets |-> <<>>],
                spec.kubernetes.resources),
              spec.kubernetes_options)
  BY DEF runtimePodTemplate
<1>2. PICK b : b =
        [labels |-> Entry(flowLabelKey, spec.name),
         annotations |-> Entry(runtimeConfigHashKey, Checksum(spec)),
         image |-> spec.kubernetes.image, pull |-> pullPolicyFromSpec(spec.kubernetes),
         restart |-> restart, env |-> env, config |-> <<spec.name, "config">>,
         requests |-> <<>>, secrets |-> <<>>]
  OBVIOUS
<1>3. PICK c : c = applyResourceIntent(b, spec.kubernetes.resources)
  OBVIOUS
<1>4. t = applyKubernetesOptions(c, spec.kubernetes_options)
  BY <1>1, <1>2, <1>3
<1>5. IsTemplate(b)
  BY <1>2 DEF IsTemplate
<1>6. /\ b.labels = Entry(flowLabelKey, spec.name)
      /\ b.annotations = Entry(runtimeConfigHashKey, Checksum(spec)) /\ b.env = env
  BY <1>2
<1>7. Marked(b, spec)
  BY <1>6, OneEntry DEF Marked
<1>8. IsTemplate(c) /\ Marked(c, spec)
  BY <1>3, <1>5, <1>7, ResourcesKeepMarks
<1> QED
  BY <1>4, <1>8, OptionsKeepMarks

\* A spec has one template, for each restart policy.
LEMMA TemplateOnce ==
    ASSUME NEW spec, NEW restart, IsFiniteSet(DOMAIN spec.env), DOMAIN spec.env \subseteq DOMAIN Rank,
           NEW t \in runtimePodTemplate(spec, restart), NEW u \in runtimePodTemplate(spec, restart)
    PROVE  t = u
<1>1. \A e, f \in runtimeEnv(spec.env) : e = f
  BY EnvOnce
<1> QED
  BY <1>1 DEF runtimePodTemplate

-----------------------------------------------------------------------------
(* The steps. *)

\* What is stored has a file's queues, stages and variables.
LEMMA StorableFacts ==
    ASSUME NEW s \in Storable
    PROVE  /\ s # Absent /\ s.name = Flow /\ s.version \in 1 .. MaxVersion
           /\ DOMAIN s.env \subseteq DOMAIN Rank /\ IsFiniteSet(DOMAIN s.env)
<1>1. PICK f \in Sent, v \in 1 .. MaxVersion : s = Filed(f, Flow, v)
  BY DEF Storable
<1>2. IsSpec(f) /\ DOMAIN f.env \subseteq DOMAIN Rank /\ IsFiniteSet(DOMAIN f.env)
  <2>1. CASE f \in Files
    BY <2>1, FileFacts
  <2>2. CASE f \notin Files
    <3>1. PICK g \in Files : f \in Normalize(g)
      BY <1>1, <2>2 DEF Sent
    <3>2. IsSpec(f) /\ f.env = g.env
      BY <3>1, NormalizedParts
    <3> QED
      BY <3>2, FileFacts
  <2> QED
    BY <2>1, <2>2
<1>3. s.name = Flow /\ s.version = v /\ s.env = f.env
  BY ONLY <1>1, <1>2, Renamed
<1>4. s # Absent
  BY FilesAssumption
<1> QED
  BY <1>2, <1>3, <1>4

\* Storing a spec makes it the flow's next version.
LEMMA StoreStep ==
    ASSUME StoredOk, NEW s \in Sent, NEW name, Store(name, s)
    PROVE  /\ stored' \in Storable
           /\ VersionOf(stored)' = VersionOf(stored) + 1 /\ VersionOf(stored) \in Nat
           /\ Starts(stored)' <=> Starts(s)
<1>1. PICK v, u : v = VersionOf(stored) + 1 /\ u = stored'
  OBVIOUS
<1>2. VersionOf(stored) \in Nat
  BY StorableFacts, FilesAssumption DEF StoredOk, VersionOf
<1>3. v \in 1 .. MaxVersion
  BY <1>1, <1>2, FilesAssumption DEF Store
<1>4. u = Filed(s, Flow, v)
  BY <1>1 DEF Store
<1>5. u \in Storable
  BY <1>3, <1>4 DEF Storable
<1>6. IsSpec(s)
  BY FileFacts, NormalizedParts DEF Sent
<1>7. u.version = v /\ u.queues = s.queues /\ u.stages = s.stages /\ u.kubernetes = s.kubernetes
  BY ONLY <1>4, <1>6, Renamed
<1>8. VersionOf(stored)' = v
  BY <1>1, <1>5, <1>7, StorableFacts DEF VersionOf
<1>9. Starts(u) <=> Starts(s)
  BY <1>7, StartsByParts
<1>10. Starts(stored)' <=> Starts(u)
  BY <1>1 DEF Starts, RuntimeAccepts, QueuesAccepted, StageAccepted, OnlyRuntimeRefuses
<1> QED
  BY <1>1, <1>2, <1>5, <1>8, <1>9, <1>10

\* What a command goes on with starts.
LEMMA CheckedFacts ==
    ASSUME file \in Files \cup {Absent}, NEW s \in Checked
    PROVE  file \in Files /\ s \in Normalize(file) /\ Validate(s) /\ Starts(s) /\ s \in Sent
<1>1. file \in Files /\ s \in Normalize(file) /\ Validate(s)
  BY DEF Checked, LoadFlowSpec
<1>2. \A q \in ToSet(s.queues) : q.capacity # 0
  BY <1>1, NormalizedQueues
<1> QED
  BY <1>1, <1>2, ValidStarts DEF Sent, Starts

\* A version more leaves what was applied as it was.
LEMMA VettedStays ==
    ASSUME VettedOk, vetted' = vetted, VersionOf(stored)' = VersionOf(stored) + 1,
           VersionOf(stored) \in Nat
    PROVE  VettedOk'
<1> SUFFICES ASSUME NEW s \in DOMAIN vetted
             PROVE  /\ s \in Storable /\ s.version <= VersionOf(stored)'
                    /\ vetted[s] \in BOOLEAN /\ (vetted[s] => Starts(s))
  BY DEF VettedOk
<1>1. /\ s \in Storable /\ s.version <= VersionOf(stored)
      /\ vetted[s] \in BOOLEAN /\ (vetted[s] => Starts(s))
  BY DEF VettedOk
<1>2. s.version \in Nat
  BY <1>1, StorableFacts, FilesAssumption
<1> QED
  BY <1>1, <1>2

\* A workload is left as it is or rendered from the spec.
Applied(spec, old, new) ==
    /\ new = [k \in Kinds |-> new[k]]
    /\ \A k \in Kinds : new[k] = old[k] \/ (Rendered(k, new[k]) /\ new[k].spec = spec)

\* A workload is rendered from its spec.
LEMMA ObjectRendered ==
    ASSUME NEW kind, NEW name, NEW spec, NEW restart, restart = RestartOf(kind, spec),
           NEW w \in Object(kind, name, spec, restart)
    PROVE  Rendered(kind, w) /\ w.spec = spec
<1>1. PICK t \in runtimePodTemplate(spec, restart) :
        w = [kind |-> kind, name |-> name, label |-> spec.name, template |-> t, schedule |-> Absent,
             concurrency |-> Absent, spec |-> spec]
  BY DEF Object
<1>2. w.kind = kind /\ w.label = spec.name /\ w.template = t /\ w.spec = spec
  BY ONLY <1>1
<1> QED
  BY <1>2 DEF Rendered

\* So is one with a schedule.
LEMMA CronRendered ==
    ASSUME NEW kind, NEW name, NEW spec, NEW restart, restart = RestartOf(kind, spec),
           NEW w \in Object(kind, name, spec, restart), NEW cron,
           NEW v, v = Scheduled(w, cron)
    PROVE  Rendered(kind, v) /\ v.spec = spec
<1>1. PICK t \in runtimePodTemplate(spec, restart) :
        w = [kind |-> kind, name |-> name, label |-> spec.name, template |-> t, schedule |-> Absent,
             concurrency |-> Absent, spec |-> spec]
  BY DEF Object
<1>2. PICK l, a, b : /\ l = spec.name /\ a = cron.schedule
                     /\ b = cronConcurrencyPolicyFromSpec(cron.concurrency)
  OBVIOUS
<1>3. w = [kind |-> kind, name |-> name, label |-> l, template |-> t, schedule |-> Absent,
           concurrency |-> Absent, spec |-> spec]
  BY ONLY <1>1, <1>2
<1>4. v = [kind |-> kind, name |-> name, label |-> l, template |-> t, schedule |-> a,
           concurrency |-> b, spec |-> spec]
  <2>1. v = [w EXCEPT !.schedule = a, !.concurrency = b]
    BY ONLY <1>2, v = Scheduled(w, cron) DEF Scheduled
  <2> QED
    BY ONLY <1>3, <2>1
<1>5. v.kind = kind /\ v.label = spec.name /\ v.template = t /\ v.spec = spec
  BY ONLY <1>2, <1>4
<1> QED
  BY <1>5 DEF Rendered

\* Setting one workload to what it was, or to one rendered from the spec.
LEMMA SetOne ==
    ASSUME NEW old, old = [k \in Kinds |-> old[k]], NEW kind \in Kinds, NEW w, NEW spec,
           NEW new, new = [old EXCEPT ![kind] = w],
           w = old[kind] \/ (Rendered(kind, w) /\ w.spec = spec)
    PROVE  Applied(spec, old, new)
<1>1. DOMAIN old = Kinds
  OBVIOUS
<1>2. \A k \in Kinds : new[k] = IF k = kind THEN w ELSE old[k]
  BY <1>1
<1>3. new = [k \in Kinds |-> new[k]]
  BY <1>1
<1> QED
  BY <1>2, <1>3 DEF Applied

\* Whatever kind of workload is applied.
LEMMA WorkloadApplied ==
    ASSUME NEW old, old = [k \in Kinds |-> old[k]], NEW spec, NEW new \in applyWorkload(spec, old)
    PROVE  Applied(spec, old, new)
<1>1. CASE new \in applyDeployment(spec, old)
  <2>1. PICK w \in Object("Deployment", <<spec.name, "runtime">>, spec, Absent) :
          new = [old EXCEPT !["Deployment"] = w]
    BY <1>1 DEF applyDeployment
  <2>2. RestartOf("Deployment", spec) = Absent /\ "Deployment" \in Kinds
    BY DEF RestartOf, Kinds
  <2>3. Rendered("Deployment", w) /\ w.spec = spec
    BY ONLY <2>1, <2>2, ObjectRendered
  <2> QED
    BY <2>1, <2>2, <2>3, SetOne
<1>2. CASE new \in applyDaemonSet(spec, old)
  <2>1. PICK w \in Object("DaemonSet", <<spec.name, "runtime">>, spec, Absent) :
          new = [old EXCEPT !["DaemonSet"] = w]
    BY <1>2 DEF applyDaemonSet
  <2>2. RestartOf("DaemonSet", spec) = Absent /\ "DaemonSet" \in Kinds
    BY DEF RestartOf, Kinds
  <2>3. Rendered("DaemonSet", w) /\ w.spec = spec
    BY ONLY <2>1, <2>2, ObjectRendered
  <2> QED
    BY <2>1, <2>2, <2>3, SetOne
<1>3. CASE new \in applyJob(spec, old)
  <2>1. PICK w \in Object("Job", <<spec.name>>, spec, restartPolicyFromSpec(spec.kubernetes)) :
          new = [old EXCEPT !["Job"] = IF old["Job"] = Absent THEN w ELSE old["Job"]]
    BY <1>3 DEF applyJob
  <2>2. RestartOf("Job", spec) = restartPolicyFromSpec(spec.kubernetes) /\ "Job" \in Kinds
    BY DEF RestartOf, Kinds
  <2>3. Rendered("Job", w) /\ w.spec = spec
    BY ONLY <2>1, <2>2, ObjectRendered
  <2>4. PICK x : x = IF old["Job"] = Absent THEN w ELSE old["Job"]
    OBVIOUS
  <2>5. new = [old EXCEPT !["Job"] = x] /\ (x = old["Job"] \/ (Rendered("Job", x) /\ x.spec = spec))
    BY <2>1, <2>3, <2>4
  <2> QED
    BY ONLY <2>2, <2>5, SetOne, old = [k \in Kinds |-> old[k]]
<1>4. CASE new \in applyCronJob(spec, old)
  <2>1. PICK w \in Object("CronJob", <<spec.name>>, spec, restartPolicyFromSpec(spec.kubernetes)) :
          new = [old EXCEPT !["CronJob"] = Scheduled(w, spec.kubernetes_options.cron)]
    BY <1>4 DEF applyCronJob
  <2>2. RestartOf("CronJob", spec) = restartPolicyFromSpec(spec.kubernetes) /\ "CronJob" \in Kinds
    BY DEF RestartOf, Kinds
  <2>3. PICK x : x = Scheduled(w, spec.kubernetes_options.cron)
    OBVIOUS
  <2>4. new = [old EXCEPT !["CronJob"] = x]
    BY ONLY <2>1, <2>3
  <2>5. Rendered("CronJob", x) /\ x.spec = spec
    <3>1. PICK k, n, r : /\ k = "CronJob" /\ n = <<spec.name>>
                         /\ r = restartPolicyFromSpec(spec.kubernetes)
      OBVIOUS
    <3>2. w \in Object(k, n, spec, r) /\ r = RestartOf(k, spec)
      BY ONLY <2>1, <2>2, <3>1
    <3>3. Rendered(k, x) /\ x.spec = spec
      BY ONLY <2>3, <3>2, CronRendered
    <3> QED
      BY ONLY <3>1, <3>3
  <2> QED
    BY ONLY <2>2, <2>4, <2>5, SetOne, old = [k \in Kinds |-> old[k]]
<1> QED
  BY <1>1, <1>2, <1>3, <1>4 DEF applyWorkload

\* ensureRuntime writes the ConfigMap, whatever becomes of the workload.
LEMMA RuntimeEnsured ==
    ASSUME NEW old, old = [k \in Kinds |-> old[k]], NEW spec, NEW r \in ensureRuntime(spec, old)
    PROVE  r.config = ConfigMap(spec) /\ Applied(spec, old, r.objects)
<1>1. PICK o \in {old} \cup applyWorkload(spec, old) : r = [config |-> ConfigMap(spec), objects |-> o]
  BY DEF ensureRuntime
<1>2. Applied(spec, old, o)
  <2>1. CASE o = old
    BY <2>1 DEF Applied
  <2>2. CASE o \in applyWorkload(spec, old)
    BY ONLY <2>2, WorkloadApplied, old = [k \in Kinds |-> old[k]]
  <2> QED
    BY <1>1, <2>1, <2>2
<1> QED
  BY <1>1, <1>2

\* StoredOk and VettedOk after any of the three ways to store a spec.
LEMMA StoreKeeps ==
    ASSUME StoredOk, VettedOk, NEW s \in Sent, NEW name, Store(name, s), vetted' = vetted,
           checked' \in BOOLEAN, checked' => Starts(s)
    PROVE  StoredOk' /\ VettedOk'
<1>1. /\ stored' \in Storable
      /\ VersionOf(stored)' = VersionOf(stored) + 1 /\ VersionOf(stored) \in Nat
      /\ Starts(stored)' <=> Starts(s)
  BY StoreStep
<1> QED
  BY <1>1, VettedStays DEF StoredOk

\* Checked reads the file only.
LEMMA FileStays ==
    ASSUME FileOk, UNCHANGED <<file, started>> PROVE FileOk'
<1>1. Checked' = Checked
  BY DEF Checked, LoadFlowSpec
<1> QED
  BY <1>1 DEF FileOk

\* The workloads, the ConfigMap and what was applied to them.
LEMMA ObjectsStay ==
    ASSUME ObjectsOk, ConfigOk, UNCHANGED <<config, objects, vetted>>
    PROVE  ObjectsOk' /\ ConfigOk'
  BY DEF ObjectsOk, ConfigOk

\* A reconcile pass.
LEMMA ReconcileKeeps ==
    ASSUME PathInv, Reconcile
    PROVE  /\ VettedOk' /\ ObjectsOk' /\ ConfigOk' /\ stored \in Storable
           /\ Applied(stored, objects, objects')
<1>1. stored \in Storable /\ checked \in BOOLEAN /\ (checked => Starts(stored))
  BY DEF PathInv, StoredOk, Reconcile
<1>2. PICK new, d, c : new = objects' /\ d = vetted' /\ c = config'
  OBVIOUS
<1>3. objects = [k \in Kinds |-> objects[k]]
  BY DEF PathInv, ObjectsOk
<1>4. c = ConfigMap(stored) /\ Applied(stored, objects, new)
  <2>1. PICK r \in ensureRuntime(stored, objects) : c = r.config /\ new = r.objects
    BY <1>2 DEF Reconcile
  <2> QED
    BY ONLY <1>3, <2>1, RuntimeEnsured
<1>5. /\ DOMAIN d = {stored} \cup DOMAIN vetted
      /\ d[stored] = checked
      /\ \A s \in DOMAIN vetted : s # stored => d[s] = vetted[s]
  <2>1. PICK m : m = Entry(stored, checked)
    OBVIOUS
  <2>2. d = Over(m, vetted)
    BY <1>2, <2>1 DEF Reconcile
  <2>3. DOMAIN m = {stored} /\ m[stored] = checked
    BY <2>1, OneEntry
  <2> QED
    BY ONLY <2>2, <2>3 DEF Over
<1>6. VersionOf(stored)' = VersionOf(stored) /\ stored.version <= VersionOf(stored)
  <2>1. stored # Absent /\ stored.version \in Nat
    BY <1>1, StorableFacts, FilesAssumption
  <2> QED
    BY <2>1 DEF VersionOf, Reconcile
<1>7. VettedOk'
  <2> SUFFICES ASSUME NEW s \in DOMAIN d
               PROVE  /\ s \in Storable /\ s.version <= VersionOf(stored)
                      /\ d[s] \in BOOLEAN /\ (d[s] => Starts(s))
    BY <1>2, <1>6 DEF VettedOk
  <2>1. CASE s = stored
    BY <1>1, <1>5, <1>6, <2>1
  <2>2. CASE s # stored
    <3>1. s \in DOMAIN vetted /\ d[s] = vetted[s]
      BY <1>5, <2>2
    <3> QED
      BY <3>1 DEF PathInv, VettedOk
  <2> QED
    BY <2>1, <2>2
<1>8. ObjectsOk'
  <2>1. new = [k \in Kinds |-> new[k]]
    BY <1>4 DEF Applied
  <2>2. ASSUME NEW k \in Kinds, new[k] # Absent
        PROVE  Rendered(k, new[k]) /\ new[k].spec \in DOMAIN d
    <3>1. CASE new[k] = objects[k]
      <4>1. Rendered(k, objects[k]) /\ objects[k].spec \in DOMAIN vetted
        BY <2>2, <3>1 DEF PathInv, ObjectsOk
      <4> QED
        BY ONLY <1>5, <3>1, <4>1
    <3>2. CASE Rendered(k, new[k]) /\ new[k].spec = stored
      BY ONLY <1>5, <3>2
    <3> QED
      BY <1>4, <2>2, <3>1, <3>2 DEF Applied
  <2> QED
    BY <1>2, <2>1, <2>2 DEF ObjectsOk
<1>9. ConfigOk'
  <2>1. c # Absent /\ c.label = Flow /\ c.data = stored
    <3>1. stored.name = Flow
      BY <1>1, StorableFacts
    <3> QED
      BY <1>1, <1>4, <3>1, FilesAssumption DEF ConfigMap
  <2>2. ASSUME NEW k \in Kinds, new[k] # Absent PROVE new[k].spec.version <= stored.version
    <3>1. VersionOf(stored) = stored.version /\ stored.version \in Nat
      BY <1>1, StorableFacts, FilesAssumption DEF VersionOf
    <3>2. CASE new[k] = objects[k]
      <4>1. objects[k].spec \in DOMAIN vetted
        BY <2>2, <3>2 DEF PathInv, ObjectsOk
      <4>2. objects[k].spec.version <= VersionOf(stored)
        BY <4>1 DEF PathInv, VettedOk
      <4> QED
        BY ONLY <3>1, <3>2, <4>2
    <3>3. CASE new[k].spec = stored
      BY ONLY <3>1, <3>3
    <3> QED
      BY <1>4, <3>2, <3>3 DEF Applied
  <2> QED
    BY <1>2, <1>5, <2>1, <2>2 DEF ConfigOk
<1> QED
  BY <1>1, <1>2, <1>4, <1>7, <1>8, <1>9

\* The inductive invariant: every file, spec and workload on the way is what the
\* step before it made.
LEMMA PathInvariant == Spec => []PathInv
<1>1. Init => PathInv
  <2> SUFFICES ASSUME Init PROVE PathInv
    OBVIOUS
  <2>1. StoredOk /\ FileOk
    BY DEF Init, StoredOk, FileOk
  <2>2. VettedOk
    BY DEF Init, VettedOk
  <2>3. ObjectsOk /\ ConfigOk
    BY DEF Init, ObjectsOk, ConfigOk
  <2> QED
    BY <2>1, <2>2, <2>3 DEF PathInv
<1>2. PathInv /\ [Next]_vars => PathInv'
  <2> SUFFICES ASSUME PathInv, [Next]_vars PROVE PathInv'
    OBVIOUS
  <2>0. StoredOk /\ FileOk /\ VettedOk /\ ObjectsOk /\ ConfigOk /\ file \in Files \cup {Absent}
    BY DEF PathInv, FileOk
  <2>1. ASSUME NEW f \in Files \cup {Absent}, Edit(f) PROVE PathInv'
    <3>1. StoredOk'
      BY <2>0, <2>1 DEF Edit, StoredOk, Starts
    <3>2. FileOk'
      BY <2>1 DEF Edit, FileOk
    <3>3. VettedOk' /\ ObjectsOk' /\ ConfigOk'
      BY <2>0, <2>1, ObjectsStay DEF Edit, VettedOk, VersionOf
    <3> QED
      BY <3>1, <3>2, <3>3 DEF PathInv
  <2>2. CASE submit
    <3>1. PICK s \in Checked : Store(s.name, s)
      BY <2>2 DEF submit
    <3>2. s \in Sent /\ Starts(s)
      BY <2>0, <3>1, CheckedFacts
    <3>3. StoredOk' /\ VettedOk'
      BY <2>0, <2>2, <3>1, <3>2, StoreKeeps DEF submit
    <3>4. FileOk' /\ ObjectsOk' /\ ConfigOk'
      BY <2>0, <2>2, FileStays, ObjectsStay DEF submit
    <3> QED
      BY <3>3, <3>4 DEF PathInv
  <2>3. CASE CreateFlow
    <3>1. PICK s \in LoadFlowSpec : Store(s.name, s)
      BY <2>3 DEF CreateFlow
    <3>2. s \in Sent
      BY <2>0, <3>1 DEF LoadFlowSpec, Sent
    <3>3. StoredOk' /\ VettedOk'
      <4>1. vetted' = vetted /\ checked' \in BOOLEAN /\ (checked' => Starts(s))
        BY <2>3 DEF CreateFlow
      <4> QED
        BY <2>0, <3>1, <3>2, <4>1, StoreKeeps
    <3>4. UNCHANGED <<file, started>> /\ UNCHANGED <<config, objects, vetted>>
      BY <2>3 DEF CreateFlow
    <3>5. FileOk' /\ ObjectsOk' /\ ConfigOk'
      BY ONLY <2>0, <3>4, FileStays, ObjectsStay
    <3> QED
      BY <3>3, <3>5 DEF PathInv
  <2>4. CASE run
    <3>1. FileOk'
      <4>1. Checked' = Checked /\ Checked # {}
        BY <2>4 DEF run, Checked, LoadFlowSpec
      <4> QED
        BY <2>0, <2>4, <4>1 DEF run, FileOk
    <3>2. StoredOk'
      BY <2>0, <2>4 DEF run, StoredOk, Starts
    <3>3. VettedOk' /\ ObjectsOk' /\ ConfigOk'
      BY <2>0, <2>4, ObjectsStay DEF run, VettedOk, VersionOf
    <3> QED
      BY <3>1, <3>2, <3>3 DEF PathInv
  <2>5. CASE Reconcile
    <3>1. VettedOk' /\ ObjectsOk' /\ ConfigOk'
      BY <2>5, ReconcileKeeps
    <3>2. FileOk'
      BY <2>0, <2>5, FileStays DEF Reconcile
    <3>3. StoredOk'
      BY <2>0, <2>5 DEF Reconcile, StoredOk, Starts
    <3> QED
      BY <3>1, <3>2, <3>3 DEF PathInv
  <2>6. ASSUME NEW n \in Names, update(n) PROVE PathInv'
    <3>1. PICK s \in Checked : Store(IF n = "" THEN s.name ELSE n, s)
      BY <2>6 DEF update
    <3>2. s \in Sent /\ Starts(s)
      BY <2>0, <3>1, CheckedFacts
    <3>3. PICK name : name = IF n = "" THEN s.name ELSE n
      OBVIOUS
    <3>4. Store(name, s)
      BY <3>1, <3>3
    <3>5. StoredOk' /\ VettedOk'
      BY <2>0, <2>6, <3>2, <3>4, StoreKeeps DEF update
    <3>6. FileOk' /\ ObjectsOk' /\ ConfigOk'
      BY <2>0, <2>6, FileStays, ObjectsStay DEF update
    <3> QED
      BY <3>5, <3>6 DEF PathInv
  <2>7. CASE UNCHANGED vars
    <3>1. FileOk'
      BY <2>0, <2>7, FileStays DEF vars
    <3>2. StoredOk'
      BY <2>0, <2>7 DEF vars, StoredOk, Starts
    <3>3. VettedOk' /\ ObjectsOk' /\ ConfigOk'
      BY <2>0, <2>7, ObjectsStay DEF vars, VettedOk, VersionOf
    <3> QED
      BY <3>1, <3>2, <3>3 DEF PathInv
  <2> QED
    BY <2>1, <2>2, <2>3, <2>4, <2>5, <2>6, <2>7 DEF Next
<1> QED
  BY <1>1, <1>2, PTL DEF Spec

-----------------------------------------------------------------------------
(* The theorems. *)

\* Types: a stored spec carries the flow's name and a version, and a workload
\* a spec of a version that was stored.
THEOREM PathTypes == Spec => []TypeOK
<1>1. PathInv => TypeOK
  <2> SUFFICES ASSUME PathInv PROVE TypeOK
    OBVIOUS
  <2>1. /\ file \in Files \cup {Absent} /\ checked \in BOOLEAN /\ started \in Files \cup {Absent}
        /\ stored # Absent => stored.version \in 1 .. MaxVersion /\ stored.name = Flow
    BY StorableFacts DEF PathInv, StoredOk, FileOk
  <2>2. /\ DOMAIN objects = Kinds
        /\ \A k \in Kinds : objects[k] # Absent => objects[k].kind = k /\ objects[k].spec \in DOMAIN vetted
    BY DEF PathInv, ObjectsOk, Rendered
  <2>3. config # Absent => config.label = Flow /\ config.data \in DOMAIN vetted
    BY DEF PathInv, ConfigOk
  <2>4. ASSUME NEW s \in DOMAIN vetted
        PROVE  s.version \in 1 .. VersionOf(stored) /\ vetted[s] \in BOOLEAN
    <3>1. s \in Storable /\ s.version <= VersionOf(stored) /\ vetted[s] \in BOOLEAN
      BY DEF PathInv, VettedOk
    <3>2. s.version \in Nat /\ s.version >= 1
      BY <3>1, StorableFacts, FilesAssumption
    <3>3. VersionOf(stored) \in Nat
      BY StorableFacts, FilesAssumption DEF PathInv, StoredOk, VersionOf
    <3> QED
      BY <3>1, <3>2, <3>3
  <2> QED
    BY <2>1, <2>2, <2>3, <2>4 DEF TypeOK
<1> QED
  BY <1>1, PathInvariant, PTL

\* The checks of flowctl and of the runtime agree where both make them: a pod
\* starts on a ConfigMap no older than its workload, which the runtime refuses
\* exactly for what only the runtime checks, if flowctl submit or update sent it;
\* the file of flowctl run it refuses also for a queue without capacity.
THEOREM CheckedSpecsStart == Spec => []CheckedFlowsStart
<1>1. PathInv => CheckedFlowsStart
  <2> SUFFICES ASSUME PathInv PROVE CheckedFlowsStart
    OBVIOUS
  <2>1. ASSUME config # Absent, vetted[config.data]
        PROVE  RuntimeAccepts(config.data) <=> ~OnlyRuntimeRefuses(config.data)
    BY <2>1 DEF PathInv, ConfigOk, VettedOk, Starts
  <2>2. ASSUME started # Absent
        PROVE  RuntimeAccepts(started) <=>
                   ~OnlyRuntimeRefuses(started) /\ \A q \in ToSet(started.queues) : q.capacity # 0
    <3>0. started = file /\ Checked # {}
      BY <2>2 DEF PathInv, FileOk
    <3>1. PICK s \in Checked : TRUE
      BY <3>0
    <3>2. file \in Files /\ s \in Normalize(file) /\ Validate(s)
      BY CheckedFacts DEF PathInv, FileOk
    <3>3. Validate(file)
      BY <3>2, NormalizeKeepsValid
    <3> QED
      BY <3>0, <3>3, ValidStarts
  <2>3. \A k \in Kinds : objects[k] # Absent =>
          config # Absent /\ objects[k].spec.version <= config.data.version
    BY DEF PathInv, ConfigOk
  <2> QED
    BY <2>1, <2>2, <2>3 DEF CheckedFlowsStart
<1> QED
  BY <1>1, PathInvariant, PTL

\* A file whose names are unique has one normal form.
LEMMA NormalizedOnce ==
    ASSUME NEW f \in Files, Distinct(f.queues), Distinct(f.stages),
           NEW s \in Normalize(f), NEW t \in Normalize(f)
    PROVE  s = t
<1>1. PICK qs \in SortByName(f.queues), ss \in SortByName(f.stages) :
        s = Relisted(f, [k \in DOMAIN qs |-> Defaulted(qs[k])], ss)
  BY DEF Normalize
<1>2. PICK qt \in SortByName(f.queues), st \in SortByName(f.stages) :
        t = Relisted(f, [k \in DOMAIN qt |-> Defaulted(qt[k])], st)
  BY DEF Normalize
<1>3. /\ f.queues \in Seq(ToSet(f.queues)) /\ f.stages \in Seq(ToSet(f.stages))
      /\ NamesOf(f.queues) \subseteq DOMAIN Rank /\ NamesOf(f.stages) \subseteq DOMAIN Rank
  BY FileFacts
<1>4. qs = qt
  BY <1>3, SortedOnce
<1>5. ss = st
  BY <1>3, SortedOnce
<1> QED
  BY <1>1, <1>2, <1>4, <1>5

\* A file that is listed in another order has the same normal forms.
LEMMA RelistedSame ==
    ASSUME NEW f \in Files, NEW q \in Listings(f.queues), NEW st \in Listings(f.stages)
    PROVE  Normalize(Relisted(f, q, st)) = Normalize(f)
<1>1. PICK g : g = Relisted(f, q, st)
  OBVIOUS
<1>2. /\ IsSpec(f) /\ f.queues \in Seq(ToSet(f.queues)) /\ f.stages \in Seq(ToSet(f.stages))
  BY FileFacts
<1>3. /\ IsSpec(g) /\ g.queues = q /\ g.stages = st
      /\ g.name = f.name /\ g.version = f.version /\ g.execution = f.execution
      /\ g.env = f.env /\ g.kubernetes = f.kubernetes
      /\ g.kubernetes_options = f.kubernetes_options
  BY ONLY <1>1, <1>2, Replaced
<1>4. ASSUME NEW a, NEW b PROVE Relisted(g, a, b) = Relisted(f, a, b)
  <2>1. PICK x, y : x = Relisted(g, a, b) /\ y = Relisted(f, a, b)
    OBVIOUS
  <2>2. /\ IsSpec(x) /\ x.queues = a /\ x.stages = b
        /\ x.name = g.name /\ x.version = g.version /\ x.execution = g.execution
        /\ x.env = g.env /\ x.kubernetes = g.kubernetes
        /\ x.kubernetes_options = g.kubernetes_options
    BY ONLY <1>3, <2>1, Replaced
  <2>3. /\ IsSpec(y) /\ y.queues = a /\ y.stages = b
        /\ y.name = f.name /\ y.version = f.version /\ y.execution = f.execution
        /\ y.env = f.env /\ y.kubernetes = f.kubernetes
        /\ y.kubernetes_options = f.kubernetes_options
    BY ONLY <1>2, <2>1, Replaced
  <2>4. x = y
    BY ONLY <1>3, <2>2, <2>3 DEF IsSpec
  <2> QED
    BY ONLY <2>1, <2>4
<1>5. SortByName(q) = SortByName(f.queues) /\ SortByName(st) = SortByName(f.stages)
  BY <1>2, SameListings
<1>6. Normalize(g) = Normalize(f)
  BY ONLY <1>3, <1>4, <1>5 DEF Normalize
<1> QED
  BY ONLY <1>1, <1>6

\* cli/README.md, "Deterministic normalization": in whatever order a valid file
\* lists its queues and stages, flowctl sends one and the same spec.
THEOREM NormalizationIsDeterministic == Spec => []DeterministicNormalization
<1>1. PathInv => DeterministicNormalization
  <2> SUFFICES ASSUME PathInv, NEW sent \in Checked,
                      NEW q \in Listings(file.queues), NEW s \in Listings(file.stages)
               PROVE  Normalize(Relisted(file, q, s)) = {sent}
    BY DEF DeterministicNormalization
  <2>1. file \in Files /\ sent \in Normalize(file) /\ Validate(sent)
    BY CheckedFacts DEF PathInv, FileOk
  <2>2. Distinct(file.queues) /\ Distinct(file.stages)
    BY <2>1, NormalizeKeepsValid DEF Validate
  <2>3. Normalize(file) = {sent}
    BY <2>1, <2>2, NormalizedOnce
  <2> QED
    BY <2>1, <2>3, RelistedSame
<1> QED
  BY <1>1, PathInvariant, PTL

\* Pods keep the label they are selected by, and the controller's settings hold:
\* whatever labels, annotations and variables a flow sets.
THEOREM PodsStayTheFlows == Spec => []PodsFoundAndConfigured
<1>1. PathInv => PodsFoundAndConfigured
  <2> SUFFICES ASSUME PathInv, NEW k \in Kinds, objects[k] # Absent, NEW t, t = objects[k].template
               PROVE  /\ objects[k].label = Flow /\ t.labels[flowLabelKey] = Flow
                      /\ \A i, j \in DOMAIN t.env : t.env[i][1] = t.env[j][1] => i = j
                      /\ <<"FLOWPIPE_OBSERVABILITY_ENABLED", Text(Observed)>> \in ToSet(t.env)
    BY DEF PodsFoundAndConfigured
  <2>1. PICK s, r : s = objects[k].spec /\ r = RestartOf(k, objects[k].spec)
    OBVIOUS
  <2>2. s \in Storable /\ objects[k].label = s.name /\ t \in runtimePodTemplate(s, r)
    BY <2>1 DEF PathInv, ObjectsOk, VettedOk, Rendered
  <2>3. s.name = Flow /\ IsFiniteSet(DOMAIN s.env)
    BY <2>2, StorableFacts
  <2>4. Marked(t, s)
    BY <2>2, TemplateMarked
  <2>5. t.labels[flowLabelKey] = Flow /\ t.env \in runtimeEnv(s.env)
    BY <2>3, <2>4 DEF Marked
  <2>6. PICK e : e = t.env
    OBVIOUS
  <2>7. /\ \A i, j \in DOMAIN e : e[i][1] = e[j][1] => i = j
        /\ <<"FLOWPIPE_OBSERVABILITY_ENABLED", Text(Observed)>> \in ToSet(e)
    BY <2>3, <2>5, <2>6, EnvSetsOnce
  <2> QED
    BY ONLY <2>2, <2>3, <2>5, <2>6, <2>7
<1> QED
  BY <1>1, PathInvariant, PTL

\* README.md, "Restart-on-change": when a workload is applied again, its pod
\* template changes exactly if the spec it is rendered from did.
THEOREM TemplatesFollowSpecs == Spec => RestartExactlyOnChange
<1> DEFINE Follows ==
        \A k \in Kinds : objects[k] # Absent =>
            (objects'[k].template # objects[k].template <=> objects'[k].spec # objects[k].spec)
<1>1. PathInv /\ [Next]_vars => [Follows]_vars
  <2> SUFFICES ASSUME PathInv, Next PROVE Follows
    OBVIOUS
  <2>1. CASE objects' = objects
    BY <2>1
  <2>2. CASE Reconcile
    <3> SUFFICES ASSUME NEW k \in Kinds, objects[k] # Absent
                 PROVE  objects'[k].template # objects[k].template <=>
                            objects'[k].spec # objects[k].spec
      OBVIOUS
    <3>1. PICK w, v : w = objects[k] /\ v = objects'[k]
      OBVIOUS
    <3>2. v = w \/ (Rendered(k, v) /\ v.spec = stored)
      BY <2>2, <3>1, ReconcileKeeps DEF Applied
    <3>3. Rendered(k, w) /\ w.spec \in Storable
      BY <3>1 DEF PathInv, ObjectsOk, VettedOk
    <3>4. CASE v = w
      BY <3>1, <3>4
    <3>5. CASE Rendered(k, v) /\ v.spec = stored
      <4>1. ASSUME v.spec = w.spec PROVE v.template = w.template
        <5>1. PICK s, r, x, y : /\ s = w.spec /\ r = RestartOf(k, w.spec)
                                /\ x = w.template /\ y = v.template
          OBVIOUS
        <5>2. x \in runtimePodTemplate(s, r) /\ y \in runtimePodTemplate(s, r)
          BY <3>3, <3>5, <4>1, <5>1 DEF Rendered
        <5>3. DOMAIN s.env \subseteq DOMAIN Rank /\ IsFiniteSet(DOMAIN s.env)
          BY <3>3, <5>1, StorableFacts
        <5>4. x = y
          BY ONLY <5>2, <5>3, TemplateOnce
        <5> QED
          BY <5>1, <5>4
      <4>2. ASSUME v.template = w.template PROVE v.spec = w.spec
        <5>1. Marked(w.template, w.spec) /\ Marked(v.template, v.spec)
          BY <3>3, <3>5, TemplateMarked DEF Rendered
        <5>2. Checksum(w.spec) = Checksum(v.spec)
          BY <4>2, <5>1 DEF Marked
        <5> QED
          BY <5>2 DEF Checksum
      <4> QED
        BY <3>1, <4>1, <4>2
    <3> QED
      BY <3>2, <3>4, <3>5
  <2>3. objects' = objects \/ Reconcile
    BY DEF Next, Edit, submit, CreateFlow, run, update
  <2> QED
    BY <2>1, <2>2, <2>3
<1> QED
  BY <1>1, PathInvariant, PTL DEF RestartExactlyOnChange, Spec
=============================================================================
