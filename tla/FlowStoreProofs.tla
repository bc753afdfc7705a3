------------------------- MODULE FlowStoreProofs -------------------------
(***************************************************************************)
(* What the flow store keeps for every set of flows, specs and concurrent  *)
(* calls: types, intact versions until a rollback, and untorn reads.       *)
(***************************************************************************)
EXTENDS FlowStore, TLAPS

\* None is not a stored spec, and a stored spec has a version.
LEMMA StoredFacts ==
    \A s \in Stored : s # None /\ s.version \in Versions /\ s.data \in Specs
  BY NoneAssumption DEF Stored

\* A version is positive and at most the bound.
LEMMA VersionFacts ==
    \A v \in Versions : v \in 0 .. MaxVersion /\ v # 0 /\ v \in Nat
  BY StoreAssumption DEF Versions

LEMMA TypeInit == Init => TypeOK
  BY StoreAssumption DEF Init, TypeOK, Versions

\* A call that returns an error keeps the types, whatever it does to the keys.
LEMMA ErrorTypes ==
    ASSUME TypeOK, NEW c \in Calls, Error(c),
           active' \in [Names -> 0 .. MaxVersion],
           spec' \in [Names -> [Versions -> Stored \cup {None}]],
           acked' \subseteq Ack, rolledBack' \subseteq Names
    PROVE  TypeOK'
  <1>1. /\ pc' = [pc EXCEPT ![c] = "idle"]
        /\ name' = [name EXCEPT ![c] = None]
        /\ data' = [data EXCEPT ![c] = None]
        /\ reply' = [reply EXCEPT ![c] = None]
        /\ seen' = [seen EXCEPT ![c] = 0]
    BY DEF Error, Return
  <1>2. /\ pc' \in [Calls -> {"idle", "commit", "putActive", "getActive", "getSpec"}]
        /\ name' \in [Calls -> Names \cup {None}]
        /\ data' \in [Calls -> Specs \cup {None}]
        /\ reply' \in [Calls -> Stored \cup {None}]
    BY <1>1 DEF TypeOK
  <1>3. seen' \in [Calls -> 0 .. MaxVersion]
    BY <1>1, StoreAssumption DEF TypeOK
  <1>4. ASSUME NEW d \in Calls
        PROVE  /\ pc'[d] # "idle" => name'[d] \in Names
               /\ pc'[d] = "commit" => data'[d] \in Specs /\ seen'[d] + 1 \in Versions
               /\ pc'[d] \in {"putActive", "getSpec"} => seen'[d] \in Versions
    <2>1. CASE d = c
      BY <1>1, <2>1 DEF TypeOK
    <2>2. CASE d # c
      BY <1>1, <2>2 DEF TypeOK
    <2> QED BY <2>1, <2>2
  <1> QED BY <1>2, <1>3, <1>4 DEF TypeOK

\* Every step of every call and every delete keep the types.
LEMMA TypeStep == TypeOK /\ [Next]_vars => TypeOK'
  <1> SUFFICES ASSUME TypeOK, [Next]_vars PROVE TypeOK'
    OBVIOUS
  <1> USE StoreAssumption, VersionFacts
  <1>1. ASSUME NEW c \in Calls, Commit(c) PROVE TypeOK'
    <2> DEFINE v == NextVersion(seen[c])
               s == [data |-> data[c], version |-> v]
    <2>1. v \in Versions /\ s \in Stored /\ name[c] \in Names
      BY <1>1 DEF Commit, TypeOK, NextVersion, Stored
    <2>2. [name |-> name[c], spec |-> s] \in Ack
      BY <2>1 DEF Ack
    <2> HIDE DEF v, s
    <2>3. /\ active' \in [Names -> 0 .. MaxVersion]
          /\ spec' \in [Names -> [Versions -> Stored \cup {None}]]
          /\ acked' \subseteq Ack
          /\ rolledBack' \subseteq Names
      BY <1>1, <2>1, <2>2 DEF Commit, TypeOK, v, s, Error
    <2>4. CASE Return(c, s) /\ seen' = [seen EXCEPT ![c] = v]
      BY <2>1, <2>3, <2>4 DEF Return, TypeOK
    <2>5. CASE Error(c)
      BY <2>3, <2>5, ErrorTypes
    <2> QED BY <1>1, <2>4, <2>5 DEF Commit, v, s
  <1>2. ASSUME NEW c \in Calls, CommitRefused(c) \/ Fail(c) PROVE TypeOK'
    <2>1. Error(c) /\ UNCHANGED <<active, spec, acked, rolledBack>>
      BY <1>2 DEF CommitRefused, Fail, keyVars, histVars
    <2>2. /\ active' \in [Names -> 0 .. MaxVersion]
          /\ spec' \in [Names -> [Versions -> Stored \cup {None}]]
          /\ acked' \subseteq Ack /\ rolledBack' \subseteq Names
      BY <2>1 DEF TypeOK
    <2> QED BY <2>1, <2>2, ErrorTypes
  <1>3. ASSUME NEW c \in Calls, PutActive(c) PROVE TypeOK'
    <2>1. CASE pc' = [pc EXCEPT ![c] = "getActive"] /\ UNCHANGED callVars
      BY <1>3, <2>1 DEF PutActive, TypeOK, callVars
    <2>2. CASE Error(c)
      <3>1. /\ active' \in [Names -> 0 .. MaxVersion]
            /\ spec' \in [Names -> [Versions -> Stored \cup {None}]]
            /\ acked' \subseteq Ack /\ rolledBack' \subseteq Names
        BY <1>3 DEF PutActive, TypeOK
      <3> QED BY <2>2, <3>1, ErrorTypes
    <2> QED BY <1>3, <2>1, <2>2 DEF PutActive
  <1>4. ASSUME NEW c \in Calls, GetActive(c) PROVE TypeOK'
    <2>1. CASE active[name[c]] = 0
      <3>1. Error(c) /\ UNCHANGED <<active, spec, acked, rolledBack>>
        BY <1>4, <2>1 DEF GetActive, keyVars, histVars
      <3>2. /\ active' \in [Names -> 0 .. MaxVersion]
            /\ spec' \in [Names -> [Versions -> Stored \cup {None}]]
            /\ acked' \subseteq Ack /\ rolledBack' \subseteq Names
        BY <3>1 DEF TypeOK
      <3> QED BY <3>1, <3>2, ErrorTypes
    <2>2. CASE active[name[c]] # 0
      <3>1. name[c] \in Names /\ active[name[c]] \in Versions
        BY <1>4, <2>2 DEF GetActive, TypeOK, Versions
      <3> QED BY <1>4, <2>2, <3>1 DEF GetActive, TypeOK, keyVars, histVars
    <2> QED BY <2>1, <2>2
  <1>5. ASSUME NEW c \in Calls, GetSpec(c) PROVE TypeOK'
    <2>1. spec[name[c]][ReadVersion(c)] \in Stored \cup {None}
      BY <1>5 DEF GetSpec, TypeOK, ReadVersion
    <2> QED BY <1>5, <2>1 DEF GetSpec, Return, TypeOK, keyVars, histVars
  <1>6. ASSUME NEW c \in Calls, NEW n \in Names, Start(c, n) PROVE TypeOK'
    <2>1. CASE StartGet(c, n)
      BY <2>1 DEF StartGet, Begin, TypeOK, keyVars, histVars
    <2>2. ASSUME NEW s \in Specs, StartNewVersion(c, n, s) PROVE TypeOK'
      BY <2>2 DEF StartNewVersion, Begin, TypeOK, keyVars, histVars
    <2>3. ASSUME NEW v \in Versions, StartRollback(c, n, v) PROVE TypeOK'
      BY <2>3 DEF StartRollback, Begin, TypeOK, keyVars, histVars
    <2> QED BY <1>6, <2>1, <2>2, <2>3 DEF Start
  <1>7. ASSUME NEW n \in Names, DeleteFlow(n) PROVE TypeOK'
    BY <1>7 DEF DeleteFlow, TypeOK, callVars
  <1>8. CASE UNCHANGED vars
    BY <1>8 DEF TypeOK, vars
  <1> QED BY <1>1, <1>2, <1>3, <1>4, <1>5, <1>6, <1>7, <1>8 DEF Next, Step

\* Type correctness of the store for every number of concurrent API calls.
THEOREM StoreTypeCorrect == Spec => []TypeOK
  BY TypeInit, TypeStep, PTL DEF Spec

-----------------------------------------------------------------------------
\* The empty store is intact.
LEMMA IntactInit == Init => IntactUntilRollback
  BY VersionFacts, StoreAssumption DEF Init, IntactUntilRollback, Intact, Versions

\* A commit whose comparison succeeds extends the versions by exactly one and
\* leaves every acknowledged version alone.
LEMMA IntactCommit ==
    ASSUME TypeOK, IntactUntilRollback, NEW c \in Calls, Commit(c)
    PROVE  IntactUntilRollback'
  <1> DEFINE k == name[c]
             v == seen[c] + 1
             s == [data |-> data[c], version |-> v]
  <1>1. /\ k \in Names /\ v \in Versions /\ s \in Stored
        /\ active[k] = seen[c] /\ active[k] \in Nat /\ v = active[k] + 1
    BY StoreAssumption DEF Commit, StillActive, TypeOK, Stored
  <1>2. s # None /\ s.version = v
    BY <1>1, StoredFacts
  <1>3. /\ spec' = [spec EXCEPT ![k][v] = s]
        /\ active' = [active EXCEPT ![k] = v]
        /\ rolledBack' = rolledBack
        /\ acked' \subseteq acked \cup {[name |-> k, spec |-> s]}
    BY DEF Commit, NextVersion
  <1> SUFFICES ASSUME NEW n \in Names \ rolledBack PROVE Intact(n)'
    BY <1>3 DEF IntactUntilRollback
  <1>4. Intact(n)
    BY DEF IntactUntilRollback
  <1> HIDE DEF k, v, s
  <1>5. CASE n # k
    <2>1. spec'[n] = spec[n] /\ active'[n] = active[n]
      BY <1>1, <1>3, <1>5 DEF TypeOK
    <2>2. \A a \in acked' : a.name = n => a \in acked
      BY <1>3, <1>5
    <2> QED BY <1>4, <2>1, <2>2 DEF Intact
  <1>6. CASE n = k
    <2>1. /\ active'[n] = v
          /\ spec'[n][v] = s
          /\ \A u \in Versions \ {v} : spec'[n][u] = spec[n][u]
      BY <1>1, <1>3, <1>6 DEF TypeOK
    <2>2. ASSUME NEW u \in Versions PROVE spec'[n][u] # None <=> u <= v
      BY <1>1, <1>2, <1>4, <1>6, <2>1, VersionFacts DEF Intact
    <2>3. ASSUME NEW a \in acked', a.name = n PROVE spec'[n][a.spec.version] = a.spec
      <3>1. CASE a = [name |-> k, spec |-> s]
        BY <1>2, <2>1, <3>1
      <3>2. CASE a \in acked
        <4>1. a.spec \in Stored /\ a.spec.version \in Versions /\ a.spec # None
          BY <3>2, StoredFacts DEF TypeOK, Ack
        <4>2. spec[n][a.spec.version] = a.spec
          BY <1>4, <2>3, <3>2 DEF Intact
        <4>3. a.spec.version <= active[k]
          BY <1>4, <1>6, <4>1, <4>2 DEF Intact
        <4>4. a.spec.version # v
          BY <1>1, <4>1, <4>3, VersionFacts
        <4> QED BY <2>1, <4>1, <4>2, <4>4
      <3> QED BY <1>3, <2>3, <3>1, <3>2
    <2> QED BY <2>1, <2>2, <2>3 DEF Intact
  <1> QED BY <1>5, <1>6

\* A rollback only touches a flow that it marks; a delete empties whole flows.
LEMMA IntactStep ==
    TypeOK /\ IntactUntilRollback /\ [Next]_vars => IntactUntilRollback'
  <1> SUFFICES ASSUME TypeOK, IntactUntilRollback, [Next]_vars
               PROVE  IntactUntilRollback'
    OBVIOUS
  <1>1. ASSUME UNCHANGED <<active, spec, acked, rolledBack>>
        PROVE  IntactUntilRollback'
    BY <1>1 DEF IntactUntilRollback, Intact
  <1>2. ASSUME NEW c \in Calls, Step(c) PROVE IntactUntilRollback'
    <2>1. CASE Commit(c)
      BY <2>1, IntactCommit
    <2>2. CASE CommitRefused(c) \/ GetActive(c) \/ GetSpec(c) \/ Fail(c)
      BY <1>1, <2>2 DEF CommitRefused, GetActive, GetSpec, Fail, keyVars, histVars
    <2>3. CASE PutActive(c)
      <3> SUFFICES ASSUME NEW n \in Names \ rolledBack' PROVE Intact(n)'
        BY DEF IntactUntilRollback
      <3>1. n \notin rolledBack /\ n # name[c]
        BY <2>3 DEF PutActive
      <3>2. active'[n] = active[n] /\ spec' = spec /\ acked' = acked
        BY <2>3, <3>1 DEF PutActive, TypeOK
      <3> QED BY <3>1, <3>2 DEF IntactUntilRollback, Intact
    <2> QED BY <1>2, <2>1, <2>2, <2>3 DEF Step
  <1>3. ASSUME NEW c \in Calls, NEW n \in Names, Start(c, n)
        PROVE  IntactUntilRollback'
    BY <1>1, <1>3 DEF Start, StartGet, StartNewVersion, StartRollback, keyVars, histVars
  <1>4. ASSUME NEW d \in Names, DeleteFlow(d) PROVE IntactUntilRollback'
    <2> SUFFICES ASSUME NEW n \in Names \ rolledBack' PROVE Intact(n)'
      BY DEF IntactUntilRollback
    <2>1. Intact(n)
      BY <1>4 DEF DeleteFlow, IntactUntilRollback
    <2>2. CASE n \in Covers[d]
      <3>1. active'[n] = 0 /\ \A v \in Versions : spec'[n][v] = None
        BY <1>4, <2>2 DEF DeleteFlow
      <3>2. \A a \in acked' : a.name # n
        BY <1>4, <2>2 DEF DeleteFlow
      <3>3. \A v \in Versions : ~(v <= 0)
        BY VersionFacts
      <3> QED BY <3>1, <3>2, <3>3 DEF Intact
    <2>3. CASE n \notin Covers[d]
      <3>1. active'[n] = active[n] /\ spec'[n] = spec[n] /\ acked' \subseteq acked
        BY <1>4, <2>3 DEF DeleteFlow
      <3> QED BY <2>1, <3>1 DEF Intact
    <2> QED BY <2>2, <2>3
  <1>5. CASE UNCHANGED vars
    BY <1>1, <1>5 DEF vars
  <1> QED BY <1>2, <1>3, <1>4, <1>5 DEF Next

\* createNewVersion's compare-and-swap, for any number of concurrent calls: as
\* long as a flow is not rolled back its versions are exactly 1..active and no
\* acknowledged version is ever lost or overwritten.
THEOREM VersionsIntact == Spec => []IntactUntilRollback
  <1>1. Init => TypeOK /\ IntactUntilRollback
    BY TypeInit, IntactInit
  <1>2. (TypeOK /\ IntactUntilRollback) /\ [Next]_vars
            => (TypeOK /\ IntactUntilRollback)'
    BY TypeStep, IntactStep
  <1> QED BY <1>1, <1>2, PTL DEF Spec

-----------------------------------------------------------------------------
\* A call that is under way has returned nothing yet.
NoReplyYet == \A c \in Calls : pc[c] # "idle" => reply[c] = None
ReadInv == TypeOK /\ NoTornRead /\ NoReplyYet

\* Every step keeps reads untorn; the version a call reports changes only
\* while it has no reply.
LEMMA ReadStep == ReadInv /\ [Next]_vars => ReadInv'
  <1> SUFFICES ASSUME ReadInv, [Next]_vars PROVE ReadInv'
    OBVIOUS
  <1>t. TypeOK /\ TypeOK'
    BY TypeStep DEF ReadInv
  <1> DEFINE Labels == \A n \in Names, v \in Versions :
                           spec[n][v] # None => spec[n][v].version = v
             Replies == \A c \in Calls : reply[c] # None => reply[c].version = seen[c]
  <1>i. Labels /\ Replies /\ NoReplyYet
    BY DEF ReadInv, NoTornRead
  <1> SUFFICES Labels' /\ Replies' /\ NoReplyYet'
    BY <1>t DEF ReadInv, NoTornRead
  <1>e. ASSUME NEW c \in Calls, Error(c) PROVE Replies' /\ NoReplyYet'
    BY <1>e, <1>t, <1>i DEF Error, Return, TypeOK, NoReplyYet
  <1>1. ASSUME NEW c \in Calls, Commit(c) PROVE Labels' /\ Replies' /\ NoReplyYet'
    <2> DEFINE k == name[c]
               v == seen[c] + 1
               s == [data |-> data[c], version |-> v]
    <2>1. k \in Names /\ v \in Versions /\ s.version = v
      BY <1>1, <1>t DEF Commit, TypeOK
    <2>2. spec' = [spec EXCEPT ![k][v] = s]
      BY <1>1 DEF Commit, NextVersion
    <2>3. (Return(c, s) /\ seen' = [seen EXCEPT ![c] = v]) \/ Error(c)
      BY <1>1 DEF Commit, NextVersion
    <2> HIDE DEF k, v, s
    <2>4. Labels'
      BY <1>t, <1>i, <2>1, <2>2 DEF TypeOK
    <2>5. CASE Return(c, s) /\ seen' = [seen EXCEPT ![c] = v]
      BY <1>t, <1>i, <2>1, <2>4, <2>5 DEF Return, TypeOK, NoReplyYet
    <2> QED BY <1>e, <2>3, <2>4, <2>5
  <1>2. ASSUME NEW c \in Calls, CommitRefused(c) \/ Fail(c)
        PROVE  Labels' /\ Replies' /\ NoReplyYet'
    <2>1. Error(c) /\ spec' = spec
      BY <1>2 DEF CommitRefused, Fail, keyVars
    <2> QED BY <1>e, <1>i, <2>1
  <1>3. ASSUME NEW c \in Calls, PutActive(c) PROVE Labels' /\ Replies' /\ NoReplyYet'
    <2>1. Labels'
      BY <1>3, <1>i DEF PutActive
    <2>2. CASE pc' = [pc EXCEPT ![c] = "getActive"] /\ UNCHANGED callVars
      BY <1>3, <1>t, <1>i, <2>1, <2>2 DEF PutActive, callVars, TypeOK, NoReplyYet
    <2> QED BY <1>3, <1>e, <2>1, <2>2 DEF PutActive
  <1>4. ASSUME NEW c \in Calls, GetActive(c) PROVE Labels' /\ Replies' /\ NoReplyYet'
    <2>1. Labels'
      BY <1>4, <1>i DEF GetActive, keyVars
    <2>2. CASE /\ seen' = [seen EXCEPT ![c] = active[name[c]]]
               /\ pc' = [pc EXCEPT ![c] = "getSpec"]
               /\ UNCHANGED <<name, data, reply>>
      <3>1. reply'[c] = None
        BY <1>4, <1>i, <2>2 DEF GetActive, NoReplyYet
      <3> QED BY <1>t, <1>i, <2>1, <2>2, <3>1 DEF TypeOK, NoReplyYet
    <2> QED BY <1>4, <1>e, <2>1, <2>2 DEF GetActive
  <1>5. ASSUME NEW c \in Calls, GetSpec(c) PROVE Labels' /\ Replies' /\ NoReplyYet'
    <2> DEFINE r == spec[name[c]][seen[c]]
    <2>1. Return(c, r) /\ spec' = spec /\ seen' = seen
      BY <1>5 DEF GetSpec, ReadVersion, keyVars
    <2>2. name[c] \in Names /\ seen[c] \in Versions
      BY <1>5, <1>t DEF GetSpec, TypeOK
    <2>3. r # None => r.version = seen[c]
      BY <1>i, <2>2
    <2> HIDE DEF r
    <2> QED BY <1>t, <1>i, <2>1, <2>3 DEF Return, TypeOK, NoReplyYet
  <1>6. ASSUME NEW c \in Calls, NEW n \in Names, Start(c, n)
        PROVE  Labels' /\ Replies' /\ NoReplyYet'
    <2>1. ASSUME NEW req, NEW m, NEW s, NEW v, Begin(c, req, m, s, v), spec' = spec
          PROVE  Labels' /\ Replies' /\ NoReplyYet'
      BY <1>t, <1>i, <2>1 DEF Begin, TypeOK, NoReplyYet
    <2> QED BY <1>6, <2>1 DEF Start, StartGet, StartNewVersion, StartRollback, keyVars
  <1>7. ASSUME NEW n \in Names, DeleteFlow(n) PROVE Labels' /\ Replies' /\ NoReplyYet'
    BY <1>7, <1>t, <1>i DEF DeleteFlow, callVars, TypeOK, NoReplyYet
  <1>8. CASE UNCHANGED vars
    BY <1>8, <1>i DEF vars, NoReplyYet
  <1> QED BY <1>1, <1>2, <1>3, <1>4, <1>5, <1>6, <1>7, <1>8 DEF Next, Step

\* GetFlow's two unsynchronised reads never pair a version with another
\* version's spec, whatever creates, rollbacks and deletes run in between.
THEOREM ReadsUntorn == Spec => []NoTornRead
  <1>1. Init => ReadInv
    BY TypeInit, VersionFacts DEF Init, ReadInv, NoTornRead, NoReplyYet
  <1>2. ReadInv => NoTornRead
    BY DEF ReadInv
  <1> QED BY <1>1, <1>2, ReadStep, PTL DEF Spec
=============================================================================
