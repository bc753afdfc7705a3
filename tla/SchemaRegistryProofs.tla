------------------------ MODULE SchemaRegistryProofs ------------------------
(***************************************************************************)
(* What the schema registry keeps for every set of ids, payloads and       *)
(* concurrent calls and every width of the version field: types, kept      *)
(* versions, a pointer that resolves, and fresh reads.                     *)
(***************************************************************************)
EXTENDS SchemaRegistry, TLAPS

\* The conversion yields a uint32 and changes no number that is one.
LEMMA ConversionFacts ==
    \A v \in Nat : ToUint32(v) \in uint32 /\ (v < Wrap => ToUint32(v) = v)
  BY RegistryAssumption DEF ToUint32, uint32

LEMMA Uint32Facts == uint32 \subseteq Nat /\ 0 \in uint32
  BY RegistryAssumption DEF uint32

\* A stored schema is not the missing one.
LEMMA StoredFacts == \A s \in Stored : s # Missing /\ s.version \in uint32
  BY RegistryAssumption DEF Stored, Missing

\* A complete request, stamped, can be stored.
LEMMA StampFacts ==
    ASSUME NEW s \in Contents, Complete(s), NEW v \in uint32
    PROVE  [format |-> s.format, raw |-> s.raw, version |-> v] \in Stored
  BY DEF Contents, Complete, Stored

LEMMA TypeInit == Init => TypeOK
  BY RegistryAssumption, Uint32Facts DEF Init, TypeOK, NoData, Contents

\* A call that returns keeps the types, whatever it does to the keys.
LEMMA ReturnTypes ==
    ASSUME TypeOK, NEW c \in Calls, NEW r \in SUBSET Stored, Return(c, r),
           active' \in [Ids -> 0 .. MaxVersion],
           stored' \in [Ids -> [uint32 -> Stored \cup {Missing}]],
           acked' \subseteq [id : Ids, schema : Stored],
           known' \in [Calls -> SUBSET uint32]
    PROVE  TypeOK'
  <1>1. NoData \in Contents
    BY DEF NoData, Contents
  <1>2. /\ pc' \in [Calls -> {"idle", "commit", "getActive", "getSchema"}]
        /\ id' \in [Calls -> Ids \cup {Unspecified}]
        /\ data' \in [Calls -> Contents]
        /\ reply' \in [Calls -> SUBSET Stored]
    BY <1>1 DEF TypeOK, Return
  <1>3. seen' \in [Calls -> Nat]
    BY RegistryAssumption DEF TypeOK, Return
  <1>4. ASSUME NEW d \in Calls
        PROVE  /\ pc'[d] # "idle" => id'[d] \in Ids
               /\ pc'[d] = "commit" => seen'[d] < MaxVersion
               /\ pc'[d] = "commit" =>
                    data'[d].format # Unspecified /\ data'[d].raw # Unspecified
               /\ pc'[d] = "getSchema" => seen'[d] \in uint32
    <2>1. CASE d = c
      BY <2>1 DEF TypeOK, Return
    <2>2. CASE d # c
      BY <2>2 DEF TypeOK, Return
    <2> QED BY <2>1, <2>2
  <1> QED BY <1>2, <1>3, <1>4 DEF TypeOK

\* A call that begins keeps the types.
LEMMA BeginTypes ==
    ASSUME TypeOK, NEW c \in Calls, NEW i \in Ids, NEW s \in Contents,
           NEW q \in {"commit", "getActive", "getSchema"}, NEW v \in Nat,
           Begin(c, q, i, s, v),
           q = "commit" => v < MaxVersion /\ s.format # Unspecified /\ s.raw # Unspecified,
           q = "getSchema" => v \in uint32,
           UNCHANGED <<keyVars, acked>>, known' \in [Calls -> SUBSET uint32]
    PROVE  TypeOK'
  <1>1. /\ pc' \in [Calls -> {"idle", "commit", "getActive", "getSchema"}]
        /\ id' \in [Calls -> Ids \cup {Unspecified}]
        /\ data' \in [Calls -> Contents]
        /\ seen' \in [Calls -> Nat]
        /\ reply' \in [Calls -> SUBSET Stored]
    BY DEF TypeOK, Begin
  <1>2. ASSUME NEW d \in Calls
        PROVE  /\ pc'[d] # "idle" => id'[d] \in Ids
               /\ pc'[d] = "commit" => seen'[d] < MaxVersion
               /\ pc'[d] = "commit" =>
                    data'[d].format # Unspecified /\ data'[d].raw # Unspecified
               /\ pc'[d] = "getSchema" => seen'[d] \in uint32
    <2>1. CASE d = c
      BY <2>1 DEF TypeOK, Begin
    <2>2. CASE d # c
      BY <2>2 DEF TypeOK, Begin
    <2> QED BY <2>1, <2>2
  <1> QED BY <1>1, <1>2 DEF TypeOK, keyVars

\* Every step of every call and every delete keep the types.
LEMMA TypeStep == TypeOK /\ [Next]_vars => TypeOK'
  <1> SUFFICES ASSUME TypeOK, [Next]_vars PROVE TypeOK'
    OBVIOUS
  <1> USE RegistryAssumption, Uint32Facts, ConversionFacts
  <1>a. ASSUME NEW i \in Ids PROVE Acknowledged(i) \subseteq uint32
    BY StoredFacts DEF Acknowledged, TypeOK
  <1>b. ASSUME NEW c \in Calls, Return(c, {}), UNCHANGED <<keyVars, acked, known>>
        PROVE  TypeOK'
    BY <1>b, ReturnTypes DEF TypeOK, keyVars
  <1>1. ASSUME NEW c \in Calls, Commit(c) PROVE TypeOK'
    <2> DEFINE v == NextVersion(seen[c])
               s == [format |-> data[c].format, raw |-> data[c].raw,
                     version |-> ToUint32(v)]
    <2>a. seen[c] \in Nat /\ seen[c] < MaxVersion
      BY <1>1 DEF Commit, TypeOK
    <2>b. id[c] \in Ids /\ data[c] \in Contents /\ Complete(data[c])
      BY <1>1 DEF Commit, TypeOK, Complete
    <2>1. /\ id[c] \in Ids /\ v \in 0 .. MaxVersion /\ ToUint32(v) \in uint32
          /\ data[c] \in Contents /\ Complete(data[c])
      BY <2>a, <2>b DEF NextVersion
    <2>2. s \in Stored
      BY <2>1, StampFacts
    <2>3. /\ stored' = [stored EXCEPT ![id[c]][ToUint32(v)] = s]
          /\ active' = [active EXCEPT ![id[c]] = v]
          /\ known' = [d \in Calls |-> IF v >= Wrap /\ id[d] = id[c] THEN {} ELSE known[d]]
      BY <1>1 DEF Commit, Pointer
    <2>4. stored' \in [Ids -> [uint32 -> Stored \cup {Missing}]]
      BY <2>1, <2>2, <2>3 DEF TypeOK
    <2>5. /\ active' \in [Ids -> 0 .. MaxVersion]
          /\ known' \in [Calls -> SUBSET uint32]
      BY <2>1, <2>3 DEF TypeOK
    <2>6. \/ acked' = acked \cup {[id |-> id[c], schema |-> s]} /\ Return(c, {s})
          \/ Return(c, {}) /\ acked' = acked
      BY <1>1 DEF Commit
    <2>7. acked' \subseteq [id : Ids, schema : Stored]
      BY <2>1, <2>2, <2>6 DEF TypeOK
    <2>8. CASE Return(c, {s})
      BY <2>2, <2>4, <2>5, <2>7, <2>8, ReturnTypes
    <2>9. CASE Return(c, {})
      BY <2>4, <2>5, <2>7, <2>9, ReturnTypes
    <2> QED BY <2>6, <2>8, <2>9
  <1>2. ASSUME NEW c \in Calls, CommitRefused(c) PROVE TypeOK'
    BY <1>2, <1>b DEF CommitRefused
  <1>3. ASSUME NEW c \in Calls, GetActive(c) PROVE TypeOK'
    <2>1. CASE active[id[c]] = 0
      BY <1>3, <2>1, <1>b DEF GetActive
    <2>2. CASE active[id[c]] # 0
      <3>1. /\ seen' = [seen EXCEPT ![c] = ToUint32(active[id[c]])]
            /\ pc' = [pc EXCEPT ![c] = "getSchema"]
            /\ UNCHANGED <<id, data, reply, active, stored, acked, known>>
        BY <1>3, <2>2 DEF GetActive, keyVars
      <3>2. id[c] \in Ids /\ active[id[c]] \in 0 .. MaxVersion
        BY <1>3 DEF GetActive, TypeOK
      <3>3. ToUint32(active[id[c]]) \in uint32
        BY <3>2
      <3>4. /\ pc' \in [Calls -> {"idle", "commit", "getActive", "getSchema"}]
            /\ seen' \in [Calls -> Nat]
        BY <3>1, <3>3 DEF TypeOK
      <3>5. ASSUME NEW d \in Calls
            PROVE  /\ pc'[d] # "idle" => id'[d] \in Ids
                   /\ pc'[d] = "commit" => seen'[d] < MaxVersion
                   /\ pc'[d] = "commit" =>
                        data'[d].format # Unspecified /\ data'[d].raw # Unspecified
                   /\ pc'[d] = "getSchema" => seen'[d] \in uint32
        <4>1. CASE d = c
          BY <4>1, <3>1, <3>2, <3>3 DEF TypeOK
        <4>2. CASE d # c
          BY <4>2, <3>1 DEF TypeOK
        <4> QED BY <4>1, <4>2
      <3> QED BY <3>1, <3>4, <3>5 DEF TypeOK
    <2> QED BY <2>1, <2>2
  <1>4. ASSUME NEW c \in Calls, GetSchema(c) PROVE TypeOK'
    <2>a. id[c] \in Ids /\ seen[c] \in uint32
      BY <1>4 DEF GetSchema, TypeOK
    <2>1. {stored[id[c]][seen[c]]} \ {Missing} \in SUBSET Stored
      BY <2>a DEF TypeOK
    <2> QED BY <1>4, <2>1, ReturnTypes DEF GetSchema, TypeOK, keyVars
  <1>5. ASSUME NEW c \in Calls, Fail(c) PROVE TypeOK'
    BY <1>5, <1>b DEF Fail
  <1>6. ASSUME NEW c \in Calls, NEW s \in Contents, RefuseSchema(c, s) PROVE TypeOK'
    BY <1>6, <1>b DEF RefuseSchema
  <1>c. NoData \in Contents
    BY DEF NoData, Contents
  <1>7. ASSUME NEW c \in Calls, NEW i \in Ids, NEW s \in Contents, CreateSchema(c, i, s)
        PROVE  TypeOK'
    <2>1. known' \in [Calls -> SUBSET uint32]
      BY <1>7 DEF CreateSchema, TypeOK
    <2>2. active[i] \in 0 .. MaxVersion /\ active[i] < MaxVersion
      BY <1>7 DEF CreateSchema, TypeOK
    <2> QED BY <1>7, <2>1, <2>2, BeginTypes DEF CreateSchema, Complete
  <1>8. ASSUME NEW c \in Calls, NEW i \in Ids, GetActiveSchema(c, i) PROVE TypeOK'
    <2>1. known' \in [Calls -> SUBSET uint32]
      BY <1>8, <1>a DEF GetActiveSchema, TypeOK
    <2> QED BY <1>8, <1>c, <2>1, BeginTypes DEF GetActiveSchema
  <1>9. ASSUME NEW c \in Calls, NEW i \in Ids, NEW v \in uint32, GetSchemaVersion(c, i, v)
        PROVE  TypeOK'
    <2>1. known' \in [Calls -> SUBSET uint32]
      BY <1>9 DEF GetSchemaVersion, TypeOK
    <2> QED BY <1>9, <1>c, <2>1, BeginTypes DEF GetSchemaVersion
  <1>10. ASSUME NEW c \in Calls, NEW i \in Ids, ListSchemaVersions(c, i) PROVE TypeOK'
    <2>1. {stored[i][v] : v \in uint32} \ {Missing} \in SUBSET Stored
      BY DEF TypeOK
    <2>2. known' \in [Calls -> SUBSET uint32]
      BY <1>10, <1>a DEF ListSchemaVersions, TypeOK
    <2> QED BY <1>10, <2>1, <2>2, ReturnTypes DEF ListSchemaVersions, TypeOK, keyVars
  <1>11. ASSUME NEW i \in Ids, DeleteSchema(i) PROVE TypeOK'
    <2>1. /\ active' \in [Ids -> 0 .. MaxVersion]
          /\ known' \in [Calls -> SUBSET uint32]
      BY <1>11 DEF DeleteSchema, TypeOK
    <2>2. stored' \in [Ids -> [uint32 -> Stored \cup {Missing}]]
      BY <1>11 DEF DeleteSchema, TypeOK
    <2> QED BY <1>11, <2>1, <2>2 DEF DeleteSchema, TypeOK
  <1>12. CASE UNCHANGED vars
    BY <1>12 DEF vars, TypeOK
  <1> QED BY <1>1, <1>2, <1>3, <1>4, <1>5, <1>6, <1>7, <1>8, <1>9, <1>10, <1>11, <1>12
          DEF Next, Step, Start

\* The keys and the acknowledgements are all that two invariants speak of.
KeysOK == KeptUntilWrap /\ ActiveResolves

LEMMA KeysInit == Init => KeysOK
  BY RegistryAssumption DEF Init, KeysOK, KeptUntilWrap, ActiveResolves, Missing

\* Only a committed registration and a delete change keys.
LEMMA KeysStep == TypeOK /\ KeysOK /\ [Next]_vars => KeysOK'
  <1> SUFFICES ASSUME TypeOK, KeysOK, [Next]_vars PROVE KeysOK'
    OBVIOUS
  <1> USE RegistryAssumption, Uint32Facts, ConversionFacts
  <1>1. CASE UNCHANGED <<active, stored, acked>>
    BY <1>1 DEF KeysOK, KeptUntilWrap, ActiveResolves
  <1>2. ASSUME NEW c \in Calls, Commit(c) PROVE KeysOK'
    <2> DEFINE i == id[c]
               v == active[i] + 1
               s == [format |-> data[c].format, raw |-> data[c].raw,
                     version |-> ToUint32(v)]
    <2>1. i \in Ids /\ active[i] \in Nat /\ v \in Nat /\ ToUint32(v) \in uint32
      BY <1>2 DEF Commit, TypeOK
    <2>2. s \in Stored
      BY <1>2, <2>1, StampFacts DEF Commit, TypeOK, Complete
    <2>3. /\ stored' = [stored EXCEPT ![i][ToUint32(v)] = s]
          /\ active' = [active EXCEPT ![i] = v]
          /\ acked' \subseteq acked \cup {[id |-> i, schema |-> s]}
      BY <1>2 DEF Commit, StillActive, NextVersion, Pointer
    <2> HIDE DEF i, v, s
    <2>4. s # Missing /\ s.version = ToUint32(v)
      BY <2>2, StoredFacts DEF s
    <2>5. /\ active'[i] = v /\ stored'[i][ToUint32(v)] = s
          /\ \A w \in uint32 : w # ToUint32(v) => stored'[i][w] = stored[i][w]
          /\ \A j \in Ids : j # i => active'[j] = active[j] /\ stored'[j] = stored[j]
      BY <2>1, <2>3 DEF TypeOK
    <2>6. ASSUME NEW j \in Ids, active'[j] < Wrap
          PROVE  /\ \A w \in uint32 : stored'[j][w] # Missing <=> w \in 1 .. active'[j]
                 /\ \A a \in acked' : a.id = j => stored'[j][a.schema.version] = a.schema
      <3>1. CASE j # i
        BY <3>1, <2>3, <2>5, <2>6 DEF KeysOK, KeptUntilWrap
      <3>2. CASE j = i
        <4>1. v < Wrap /\ active[i] < Wrap /\ ToUint32(v) = v /\ v \in uint32
          BY <2>1, <2>5, <2>6, <3>2 DEF v
        <4>2. ASSUME NEW w \in uint32
              PROVE  stored'[i][w] # Missing <=> w \in 1 .. v
          BY <2>1, <2>4, <2>5, <4>1 DEF KeysOK, KeptUntilWrap, v
        <4>3. ASSUME NEW a \in acked', a.id = i
              PROVE  stored'[i][a.schema.version] = a.schema
          <5>1. CASE a \in acked
            <6>1. a.schema \in Stored /\ a.schema.version \in uint32 /\ a.schema # Missing
              BY <5>1, StoredFacts DEF TypeOK
            <6>2. stored[i][a.schema.version] = a.schema
              BY <2>1, <4>1, <4>3, <5>1 DEF KeysOK, KeptUntilWrap
            <6>3. a.schema.version \in 1 .. active[i]
              BY <2>1, <4>1, <6>1, <6>2 DEF KeysOK, KeptUntilWrap
            <6> QED BY <2>1, <2>5, <4>1, <6>1, <6>2, <6>3 DEF v
          <5>2. CASE a = [id |-> i, schema |-> s]
            BY <5>2, <2>4, <2>5
          <5> QED BY <2>3, <4>3, <5>1, <5>2
        <4> QED BY <2>5, <3>2, <4>2, <4>3
      <3> QED BY <3>1, <3>2
    <2>7. ASSUME NEW j \in Ids
          PROVE  /\ active'[j] # 0 => stored'[j][ToUint32(active'[j])] # Missing
                 /\ \A w \in uint32 : stored'[j][w] # Missing => stored'[j][w].version = w
      <3>1. CASE j # i
        BY <3>1, <2>5 DEF KeysOK, ActiveResolves
      <3>2. CASE j = i
        BY <3>2, <2>1, <2>4, <2>5 DEF KeysOK, ActiveResolves
      <3> QED BY <3>1, <3>2
    <2> QED BY <2>6, <2>7 DEF KeysOK, KeptUntilWrap, ActiveResolves
  <1>3. ASSUME NEW i \in Ids, DeleteSchema(i) PROVE KeysOK'
    <2>1. ASSUME NEW j \in Ids
          PROVE  IF j \in Covers[i]
                 THEN active'[j] = 0 /\ stored'[j] = [w \in uint32 |-> Missing]
                 ELSE active'[j] = active[j] /\ stored'[j] = stored[j]
      BY <1>3 DEF DeleteSchema
    <2>2. acked' = {a \in acked : a.id \notin Covers[i]}
      BY <1>3 DEF DeleteSchema
    <2>3. KeptUntilWrap'
      BY <2>1, <2>2 DEF KeysOK, KeptUntilWrap
    <2>4. ASSUME NEW j \in Ids
          PROVE  /\ active'[j] # 0 => stored'[j][ToUint32(active'[j])] # Missing
                 /\ \A w \in uint32 : stored'[j][w] # Missing => stored'[j][w].version = w
      <3>1. CASE j \in Covers[i]
        BY <2>1, <3>1
      <3>2. CASE j \notin Covers[i]
        BY <2>1, <3>2 DEF KeysOK, ActiveResolves
      <3> QED BY <3>1, <3>2
    <2> QED BY <2>3, <2>4 DEF KeysOK, ActiveResolves
  <1> QED BY <1>1, <1>2, <1>3
          DEF Next, Step, Start, vars, keyVars, CommitRefused, GetActive, GetSchema, Fail,
              RefuseSchema, CreateSchema, GetActiveSchema, GetSchemaVersion,
              ListSchemaVersions

(***************************************************************************)
(* What a call that will read the newest schema may rely on: until it has  *)
(* read the pointer, the pointer is not behind a version it must see; then *)
(* neither is the version it read.                                         *)
(***************************************************************************)
ReadsFresh ==
    \A c \in Calls :
        /\ pc[c] = "commit" => known[c] = {}
        /\ pc[c] = "getActive" =>
              \A v \in known[c] : active[id[c]] < Wrap /\ v <= active[id[c]]
        /\ pc[c] = "getSchema" => \A v \in known[c] : v <= seen[c]

IInv == TypeOK /\ KeysOK /\ ReadsFresh /\ FreshReply

\* Acknowledged versions are not ahead of the pointer, which has not wrapped.
LEMMA AcknowledgedFacts ==
    ASSUME TypeOK, KeysOK, NEW i \in Ids, NEW v \in Acknowledged(i)
    PROVE  v \in 1 .. active[i] /\ active[i] < Wrap
  <1>1. ~(active[i] >= Wrap) /\ \E a \in acked : a.id = i /\ v = a.schema.version
    BY DEF Acknowledged
  <1>2. PICK a \in acked : a.id = i /\ v = a.schema.version
    BY <1>1
  <1>3. a.schema # Missing /\ v \in uint32 /\ active[i] < Wrap
    BY <1>1, <1>2, StoredFacts, RegistryAssumption DEF TypeOK
  <1>4. stored[i][v] = a.schema
    BY <1>2, <1>3 DEF KeysOK, KeptUntilWrap
  <1> QED BY <1>3, <1>4 DEF KeysOK, KeptUntilWrap

\* A call whose own state a step leaves alone, while the step forgets some of
\* what it must see or moves the pointer on, reads as fresh as before.
LEMMA OthersFresh ==
    ASSUME IInv, NEW d \in Calls,
           pc'[d] = pc[d], id'[d] = id[d], seen'[d] = seen[d], reply'[d] = reply[d],
           known'[d] \subseteq known[d],
           pc[d] = "getActive" => \/ known'[d] = {}
                                  \/ active'[id[d]] = active[id[d]]
                                  \/ /\ active'[id[d]] = active[id[d]] + 1
                                     /\ active'[id[d]] < Wrap
    PROVE  /\ pc'[d] = "commit" => known'[d] = {}
           /\ pc'[d] = "getActive" =>
                \A v \in known'[d] : active'[id'[d]] < Wrap /\ v <= active'[id'[d]]
           /\ pc'[d] = "getSchema" => \A v \in known'[d] : v <= seen'[d]
           /\ reply'[d] # {} => \E s \in reply'[d] : \A v \in known'[d] : s.version >= v
  <1>1. pc'[d] = "commit" => known'[d] = {}
    BY DEF IInv, ReadsFresh
  <1>2. ASSUME pc[d] = "getActive", NEW v \in known'[d]
        PROVE  active'[id'[d]] < Wrap /\ v <= active'[id'[d]]
    <2>1. active[id[d]] < Wrap /\ v <= active[id[d]]
      BY <1>2 DEF IInv, ReadsFresh
    <2>a. id[d] \in Ids /\ known[d] \subseteq uint32
      BY <1>2 DEF IInv, TypeOK
    <2>b. active[id[d]] \in 0 .. MaxVersion
      BY <2>a DEF IInv, TypeOK
    <2>2. active[id[d]] \in Nat /\ v \in Nat
      BY <1>2, <2>a, <2>b, Uint32Facts, RegistryAssumption
    <2> QED BY <1>2, <2>1, <2>2, RegistryAssumption
  <1>3. pc'[d] = "getSchema" => \A v \in known'[d] : v <= seen'[d]
    BY DEF IInv, ReadsFresh
  <1>4. reply'[d] # {} => \E s \in reply'[d] : \A v \in known'[d] : s.version >= v
    BY DEF IInv, FreshReply
  <1> QED BY <1>1, <1>2, <1>3, <1>4

\* What must hold of a call for ReadsFresh and FreshReply.
Fresh(c) ==
    /\ pc[c] = "commit" => known[c] = {}
    /\ pc[c] = "getActive" =>
          \A v \in known[c] : active[id[c]] < Wrap /\ v <= active[id[c]]
    /\ pc[c] = "getSchema" => \A v \in known[c] : v <= seen[c]
    /\ reply[c] # {} => \E s \in reply[c] : \A v \in known[c] : s.version >= v

\* A call that returns nothing promises nothing.
LEMMA ReturnNothing ==
    ASSUME IInv, NEW c \in Calls, Return(c, {}), NEW d \in Calls,
           UNCHANGED <<active, known>>
    PROVE  Fresh(d)'
  <1>1. CASE d = c
    BY <1>1 DEF Return, IInv, TypeOK, Fresh
  <1>2. CASE d # c
    <2>1. /\ pc'[d] = pc[d] /\ id'[d] = id[d] /\ seen'[d] = seen[d]
          /\ reply'[d] = reply[d]
      BY <1>2 DEF Return, IInv, TypeOK
    <2> QED BY <2>1, OthersFresh DEF Fresh
  <1> QED BY <1>1, <1>2

\* A call that begins leaves every other one as it was.
LEMMA BeginOthers ==
    ASSUME IInv, NEW c \in Calls, NEW i, NEW s, NEW q, NEW v, Begin(c, q, i, s, v),
           NEW d \in Calls, d # c, NEW k, known' = [known EXCEPT ![c] = k],
           UNCHANGED active
    PROVE  Fresh(d)'
  <1>1. /\ pc'[d] = pc[d] /\ id'[d] = id[d] /\ seen'[d] = seen[d]
        /\ reply'[d] = reply[d] /\ known'[d] = known[d]
    BY DEF Begin, IInv, TypeOK
  <1> QED BY <1>1, OthersFresh DEF Fresh

\* Reads stay fresh.
LEMMA FreshStep == IInv /\ [Next]_vars => \A d \in Calls : Fresh(d)'
  <1> SUFFICES ASSUME IInv, [Next]_vars, NEW d \in Calls PROVE Fresh(d)'
    OBVIOUS
  <1> USE RegistryAssumption, Uint32Facts, ConversionFacts
  <1>1. ASSUME NEW c \in Calls, Commit(c) PROVE Fresh(d)'
    <2> DEFINE v == seen[c] + 1
    <2>1. /\ id[c] \in Ids /\ known[c] = {} /\ v \in Nat /\ v = active[id[c]] + 1
          /\ active \in [Ids -> 0 .. MaxVersion]
      BY <1>1 DEF Commit, StillActive, IInv, TypeOK, ReadsFresh
    <2>2. /\ active' = [active EXCEPT ![id[c]] = v]
          /\ known' = [e \in Calls |-> IF v >= Wrap /\ id[e] = id[c] THEN {} ELSE known[e]]
          /\ \E r : Return(c, r)
      BY <1>1 DEF Commit, NextVersion, Pointer
    <2> HIDE DEF v
    <2>3. CASE d = c
      BY <2>1, <2>2, <2>3 DEF Return, IInv, TypeOK, Fresh
    <2>4. CASE d # c
      <3>1. /\ pc'[d] = pc[d] /\ id'[d] = id[d] /\ seen'[d] = seen[d]
            /\ reply'[d] = reply[d]
        BY <2>2, <2>4 DEF Return, IInv, TypeOK
      <3>2. known'[d] \subseteq known[d]
        BY <2>2
      <3>3. pc[d] = "getActive" => id[d] \in Ids
        BY DEF IInv, TypeOK
      <3>4. pc[d] = "getActive" => \/ known'[d] = {}
                                   \/ active'[id[d]] = active[id[d]]
                                   \/ /\ active'[id[d]] = active[id[d]] + 1
                                      /\ active'[id[d]] < Wrap
        BY <2>1, <2>2, <3>3
      <3> QED BY <3>1, <3>2, <3>4, OthersFresh DEF Fresh
    <2> QED BY <2>3, <2>4
  <1>2. ASSUME NEW c \in Calls, CommitRefused(c) \/ Fail(c) PROVE Fresh(d)'
    BY <1>2, ReturnNothing DEF CommitRefused, Fail, keyVars
  <1>3. ASSUME NEW c \in Calls, GetActive(c) PROVE Fresh(d)'
    <2>1. CASE active[id[c]] = 0
      BY <1>3, <2>1, ReturnNothing DEF GetActive, keyVars
    <2>2. CASE active[id[c]] # 0
      <3>1. /\ seen' = [seen EXCEPT ![c] = ToUint32(active[id[c]])]
            /\ pc' = [pc EXCEPT ![c] = "getSchema"]
            /\ UNCHANGED <<id, reply, active, known>>
        BY <1>3, <2>2 DEF GetActive, keyVars
      <3>2. CASE d = c
        <4>1. id[c] \in Ids /\ active[id[c]] \in Nat
          BY <1>3 DEF GetActive, IInv, TypeOK
        <4>2. \A v \in known[c] : active[id[c]] < Wrap /\ v <= active[id[c]]
          BY <1>3 DEF GetActive, IInv, ReadsFresh
        <4>3. pc'[c] = "getSchema" /\ seen'[c] = ToUint32(active[id[c]])
          BY <3>1 DEF IInv, TypeOK
        <4>4. \A v \in known[c] : v <= seen'[c]
          BY <4>1, <4>2, <4>3
        <4> QED BY <3>1, <3>2, <4>3, <4>4 DEF IInv, FreshReply, Fresh
      <3>3. CASE d # c
        <4>1. pc'[d] = pc[d] /\ seen'[d] = seen[d]
          BY <3>1, <3>3 DEF IInv, TypeOK
        <4> QED BY <3>1, <4>1, OthersFresh DEF Fresh
      <3> QED BY <3>2, <3>3
    <2> QED BY <2>1, <2>2
  <1>4. ASSUME NEW c \in Calls, GetSchema(c) PROVE Fresh(d)'
    <2> DEFINE r == {stored[id[c]][seen[c]]} \ {Missing}
    <2>1. Return(c, r) /\ UNCHANGED <<active, known>>
      BY <1>4 DEF GetSchema, keyVars
    <2>2. CASE d = c
      <3>1. pc'[c] = "idle" /\ reply'[c] = r
        BY <2>1 DEF Return, IInv, TypeOK
      <3>2. id[c] \in Ids /\ seen[c] \in uint32 /\ \A v \in known[c] : v <= seen[c]
        BY <1>4 DEF GetSchema, IInv, TypeOK, ReadsFresh
      <3>3. known[c] \subseteq Nat
        BY DEF IInv, TypeOK
      <3>4. ASSUME NEW s \in r PROVE s.version = seen[c]
        BY <3>2 DEF IInv, KeysOK, ActiveResolves
      <3>5. reply'[c] # {} => \E s \in reply'[c] : \A v \in known'[c] : s.version >= v
        BY <2>1, <3>1, <3>2, <3>3, <3>4
      <3> QED BY <2>2, <3>1, <3>5 DEF Fresh
    <2>3. CASE d # c
      <3>1. /\ pc'[d] = pc[d] /\ id'[d] = id[d] /\ seen'[d] = seen[d]
            /\ reply'[d] = reply[d]
        BY <2>1, <2>3 DEF Return, IInv, TypeOK
      <3> QED BY <2>1, <3>1, OthersFresh DEF Fresh
    <2> QED BY <2>2, <2>3
  <1>5. ASSUME NEW c \in Calls, NEW s \in Contents, RefuseSchema(c, s) PROVE Fresh(d)'
    BY <1>5, ReturnNothing DEF RefuseSchema, keyVars
  <1>6. ASSUME NEW c \in Calls, NEW i \in Ids, NEW s \in Contents, CreateSchema(c, i, s)
        PROVE  Fresh(d)'
    <2>1. CASE d = c
      BY <1>6, <2>1 DEF CreateSchema, Begin, IInv, TypeOK, Fresh
    <2>2. CASE d # c
      BY <1>6, <2>2, BeginOthers DEF CreateSchema, keyVars
    <2> QED BY <2>1, <2>2
  <1>7. ASSUME NEW c \in Calls, NEW i \in Ids, GetActiveSchema(c, i) PROVE Fresh(d)'
    <2>1. CASE d = c
      <3>1. /\ pc'[c] = "getActive" /\ id'[c] = i /\ reply'[c] = {}
            /\ known'[c] = Acknowledged(i) /\ active' = active
        BY <1>7 DEF GetActiveSchema, Begin, IInv, TypeOK, keyVars
      <3>2. \A v \in Acknowledged(i) : active[i] < Wrap /\ v <= active[i]
        BY AcknowledgedFacts DEF IInv
      <3> QED BY <2>1, <3>1, <3>2 DEF Fresh
    <2>2. CASE d # c
      BY <1>7, <2>2, BeginOthers DEF GetActiveSchema, keyVars
    <2> QED BY <2>1, <2>2
  <1>8. ASSUME NEW c \in Calls, NEW i \in Ids, NEW v \in uint32, GetSchemaVersion(c, i, v)
        PROVE  Fresh(d)'
    <2>1. CASE d = c
      BY <1>8, <2>1 DEF GetSchemaVersion, Begin, IInv, TypeOK, Fresh
    <2>2. CASE d # c
      BY <1>8, <2>2, BeginOthers DEF GetSchemaVersion, keyVars
    <2> QED BY <2>1, <2>2
  <1>9. ASSUME NEW c \in Calls, NEW i \in Ids, ListSchemaVersions(c, i) PROVE Fresh(d)'
    <2> DEFINE r == {stored[i][v] : v \in uint32} \ {Missing}
    <2>1. /\ Return(c, r) /\ active' = active
          /\ known' = [known EXCEPT ![c] = Acknowledged(i)]
      BY <1>9 DEF ListSchemaVersions, keyVars
    <2>2. CASE d = c
      <3>1. pc'[c] = "idle" /\ reply'[c] = r /\ known'[c] = Acknowledged(i)
        BY <2>1 DEF Return, IInv, TypeOK
      <3>2. ASSUME NEW w \in Acknowledged(i)
            PROVE  \E s \in r : \A v \in Acknowledged(i) : s.version >= v
        <4>1. /\ active[i] \in Nat /\ active[i] < Wrap /\ w \in 1 .. active[i]
              /\ \A v \in Acknowledged(i) : v \in 1 .. active[i]
          BY <3>2, AcknowledgedFacts DEF IInv, TypeOK
        <4>2. active[i] \in uint32 /\ active[i] \in 1 .. active[i]
          BY <4>1 DEF uint32
        <4>3. stored[i][active[i]] \in r /\ stored[i][active[i]].version = active[i]
          BY <4>1, <4>2 DEF IInv, KeysOK, KeptUntilWrap, ActiveResolves
        <4> QED BY <4>1, <4>3
      <3>3. r # {} => \E s \in r : \A v \in Acknowledged(i) : s.version >= v
        BY <3>2
      <3> QED BY <2>2, <3>1, <3>3 DEF Fresh
    <2>3. CASE d # c
      <3>1. /\ pc'[d] = pc[d] /\ id'[d] = id[d] /\ seen'[d] = seen[d]
            /\ reply'[d] = reply[d] /\ known'[d] = known[d]
        BY <2>1, <2>3 DEF Return, IInv, TypeOK
      <3> QED BY <2>1, <3>1, OthersFresh DEF Fresh
    <2> QED BY <2>2, <2>3
  <1>10. ASSUME NEW i \in Ids, DeleteSchema(i) PROVE Fresh(d)'
    <2>1. /\ UNCHANGED <<pc, id, seen, reply>>
          /\ active' = [j \in Ids |-> IF j \in Covers[i] THEN 0 ELSE active[j]]
          /\ known' = [c \in Calls |-> IF id[c] \in Covers[i] THEN {} ELSE known[c]]
      BY <1>10 DEF DeleteSchema
    <2>2. pc[d] = "getActive" => id[d] \in Ids
      BY DEF IInv, TypeOK
    <2>3. /\ known'[d] \subseteq known[d]
          /\ pc[d] = "getActive" =>
               known'[d] = {} \/ active'[id[d]] = active[id[d]]
      BY <2>1, <2>2
    <2> QED BY <2>1, <2>3, OthersFresh DEF Fresh
  <1>11. CASE UNCHANGED vars
    BY <1>11, OthersFresh DEF Fresh, vars
  <1> QED BY <1>1, <1>2, <1>3, <1>4, <1>5, <1>6, <1>7, <1>8, <1>9, <1>10, <1>11
          DEF Next, Step, Start

\* The inductive invariant holds throughout.
LEMMA Inductive == Spec => []IInv
  <1>1. Init => IInv
    <2>1. Init => ReadsFresh /\ FreshReply
      BY DEF Init, ReadsFresh, FreshReply
    <2> QED BY <2>1, TypeInit, KeysInit DEF IInv
  <1>2. IInv /\ [Next]_vars => IInv'
    <2> SUFFICES ASSUME IInv, [Next]_vars PROVE IInv'
      OBVIOUS
    <2>1. TypeOK' /\ KeysOK'
      BY TypeStep, KeysStep DEF IInv
    <2>2. \A d \in Calls : Fresh(d)'
      BY FreshStep
    <2>3. ReadsFresh' /\ FreshReply'
      BY <2>2 DEF Fresh, ReadsFresh, FreshReply
    <2> QED BY <2>1, <2>3 DEF IInv
  <1> QED BY <1>1, <1>2, PTL DEF Spec

\* Types: version fields and version keys stay within 32 bits.
THEOREM RegistryTypes == Spec => []TypeOK
  <1>1. IInv => TypeOK
    BY DEF IInv
  <1> QED BY <1>1, Inductive, PTL

\* Below 2^32 versions nothing acknowledged by createSchemaVersion is lost or
\* overwritten, however many registrations race.
THEOREM RegistryKeeps == Spec => []KeptUntilWrap
  <1>1. IInv => KeptUntilWrap
    BY DEF IInv, KeysOK
  <1> QED BY <1>1, Inductive, PTL

\* The active pointer always resolves to a stored schema.
THEOREM RegistryResolves == Spec => []ActiveResolves
  <1>1. IInv => ActiveResolves
    BY DEF IInv, KeysOK
  <1> QED BY <1>1, Inductive, PTL

\* GetSchema and ListSchemaVersions never answer with less than was
\* acknowledged before they were asked.
THEOREM RegistryFresh == Spec => []FreshReply
  <1>1. IInv => FreshReply
    BY DEF IInv
  <1> QED BY <1>1, Inductive, PTL
=============================================================================
