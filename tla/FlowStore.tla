----------------------------- MODULE FlowStore -----------------------------
(***************************************************************************)
(* The API server's versioned flow store (api/internal/store/etcd.go): an  *)
(* active pointer and immutable spec versions per flow, kept in etcd and   *)
(* changed by concurrent API calls.  Every etcd request is atomic; a call  *)
(* makes several, and other calls run in between.  The status key belongs  *)
(* to the controller (FlowController).                                     *)
(***************************************************************************)
EXTENDS Naturals, FiniteSets

CONSTANTS
    Names,          \* flow names
    Covers,         \* per name: the names whose keys start with its flowPrefix
    Specs,          \* spec contents, the version field left out
    None,           \* no such key, no such value
    Calls,          \* concurrent API calls
    MaxVersion      \* model bound: no version above this one is created

ASSUME StoreAssumption ==
    /\ Covers \in [Names -> SUBSET Names]
    /\ \A n \in Names : n \in Covers[n]
    /\ MaxVersion \in Nat

Versions == 1 .. MaxVersion

\* A stored spec carries the version the server gave it.
Stored == [data : Specs, version : Versions]

ASSUME NoneAssumption == None \notin Stored

VARIABLES
    active,         \* .../active: a version, 0 when the key is missing
    spec,           \* .../versions/<v>/spec
    pc,             \* per call: the etcd request it makes next
    name,           \* per call: the flow it is about
    data,           \* per call: the spec it submits
    seen,           \* per call: the version it read, or was asked for
    reply,          \* per call: the spec it returned last, or None
    acked,          \* history: versions acknowledged to a caller and not deleted
    rolledBack      \* history: flows whose pointer was moved by a rollback

keyVars == <<active, spec>>
callVars == <<name, data, seen, reply>>
histVars == <<acked, rolledBack>>
vars == <<active, spec, pc, name, data, seen, reply, acked, rolledBack>>

Ack == [name : Names, spec : Stored]

TypeOK ==
    /\ active \in [Names -> 0 .. MaxVersion]
    /\ spec \in [Names -> [Versions -> Stored \cup {None}]]
    /\ pc \in [Calls -> {"idle", "commit", "putActive", "getActive", "getSpec"}]
    /\ name \in [Calls -> Names \cup {None}]
    /\ data \in [Calls -> Specs \cup {None}]
    /\ seen \in [Calls -> 0 .. MaxVersion]
    /\ \A c \in Calls :
          /\ pc[c] # "idle" => name[c] \in Names
          /\ pc[c] = "commit" => data[c] \in Specs /\ seen[c] + 1 \in Versions
          /\ pc[c] \in {"putActive", "getSpec"} => seen[c] \in Versions
    /\ reply \in [Calls -> Stored \cup {None}]
    /\ acked \subseteq Ack
    /\ rolledBack \subseteq Names

Init ==
    /\ active = [n \in Names |-> 0]
    /\ spec = [n \in Names |-> [v \in Versions |-> None]]
    /\ pc = [c \in Calls |-> "idle"]
    /\ name = [c \in Calls |-> None]
    /\ data = [c \in Calls |-> None]
    /\ seen = [c \in Calls |-> 0]
    /\ reply = [c \in Calls |-> None]
    /\ acked = {} /\ rolledBack = {}

\* A call starts: its arguments, what it has read, and its first request.
Begin(c, request, n, s, v) ==
    /\ pc[c] = "idle"
    /\ pc' = [pc EXCEPT ![c] = request]
    /\ name' = [name EXCEPT ![c] = n]
    /\ data' = [data EXCEPT ![c] = s]
    /\ seen' = [seen EXCEPT ![c] = v]
    /\ reply' = [reply EXCEPT ![c] = None]

\* A call returns a spec, or None; it holds nothing any more.
Return(c, r) ==
    /\ pc' = [pc EXCEPT ![c] = "idle"]
    /\ name' = [name EXCEPT ![c] = None]
    /\ data' = [data EXCEPT ![c] = None]
    /\ reply' = [reply EXCEPT ![c] = r]

\* A call returns an error.
Error(c) == Return(c, None) /\ seen' = [seen EXCEPT ![c] = 0]

\* Seeded faults: the version is not advanced, a blind write instead of a
\* comparison.
SameVersion(v) == v
NotCompared(c) == TRUE

\* The version after the one read from the active key.
NextVersion(v) == v + 1

\* The condition of the transaction: the active key is still missing, or still
\* has the value that was read.
StillActive(c) == active[name[c]] = seen[c]

\* CreateFlow and UpdateFlow begin createNewVersion by reading the active key.
StartNewVersion(c, n, s) ==
    /\ active[n] + 1 \in Versions
    /\ Begin(c, "commit", n, s, active[n])
    /\ UNCHANGED <<keyVars, histVars>>

\* The transaction writes the spec, stamped with its version, and the pointer.
\* The caller gets the new version, or an error from etcd although the
\* transaction took effect.
Commit(c) ==
    LET v == NextVersion(seen[c])
        s == [data |-> data[c], version |-> v]
    IN  /\ pc[c] = "commit" /\ StillActive(c)
        /\ spec' = [spec EXCEPT ![name[c]][v] = s]
        /\ active' = [active EXCEPT ![name[c]] = v]
        /\ \/ /\ acked' = acked \cup {[name |-> name[c], spec |-> s]}
              /\ seen' = [seen EXCEPT ![c] = v]
              /\ Return(c, s)
           \/ Error(c) /\ UNCHANGED acked
        /\ UNCHANGED rolledBack

\* "modified concurrently".
CommitRefused(c) ==
    /\ pc[c] = "commit" /\ ~StillActive(c)
    /\ Error(c)
    /\ UNCHANGED <<keyVars, histVars>>

\* RollbackFlow checks that the version exists, or returns an error at once ...
StartRollback(c, n, v) ==
    /\ spec[n][v] # None
    /\ Begin(c, "putActive", n, None, v)
    /\ UNCHANGED <<keyVars, histVars>>

\* ... then puts the pointer, unconditionally, and ends like GetFlow.  The put
\* too may take effect and report an error.
PutActive(c) ==
    /\ pc[c] = "putActive"
    /\ active' = [active EXCEPT ![name[c]] = seen[c]]
    /\ rolledBack' = rolledBack \cup {name[c]}
    /\ \/ pc' = [pc EXCEPT ![c] = "getActive"] /\ UNCHANGED callVars
       \/ Error(c)
    /\ UNCHANGED <<spec, acked>>

\* GetFlow: the pointer, then the spec it pointed at.
StartGet(c, n) ==
    /\ Begin(c, "getActive", n, None, 0)
    /\ UNCHANGED <<keyVars, histVars>>

GetActive(c) ==
    /\ pc[c] = "getActive"
    /\ IF active[name[c]] = 0
       THEN Error(c)
       ELSE /\ seen' = [seen EXCEPT ![c] = active[name[c]]]
            /\ pc' = [pc EXCEPT ![c] = "getSpec"]
            /\ UNCHANGED <<name, data, reply>>
    /\ UNCHANGED <<keyVars, histVars>>

\* Seeded fault: the spec of whatever version is active by now.
LatestVersion(c) == IF active[name[c]] = 0 THEN seen[c] ELSE active[name[c]]
\* The version whose spec key GetFlow reads.
ReadVersion(c) == seen[c]

\* The spec may be gone by now ("spec missing").
GetSpec(c) ==
    /\ pc[c] = "getSpec"
    /\ Return(c, spec[name[c]][ReadVersion(c)])
    /\ UNCHANGED <<keyVars, seen, histVars>>

\* A request fails without effect: the call returns the error.
Fail(c) ==
    /\ pc[c] # "idle"
    /\ Error(c)
    /\ UNCHANGED <<keyVars, histVars>>

\* DeleteFlow deletes every key that starts with /flowpipe/flows/<name>.
DeleteFlow(n) ==
    /\ active' = [m \in Names |-> IF m \in Covers[n] THEN 0 ELSE active[m]]
    /\ spec' = [m \in Names |-> IF m \in Covers[n] THEN [v \in Versions |-> None] ELSE spec[m]]
    /\ acked' = {a \in acked : a.name \notin Covers[n]}
    /\ UNCHANGED <<pc, callVars, rolledBack>>

Step(c) ==
    \/ Commit(c) \/ CommitRefused(c) \/ PutActive(c)
    \/ GetActive(c) \/ GetSpec(c) \/ Fail(c)

Start(c, n) ==
    \/ StartGet(c, n)
    \/ \E s \in Specs : StartNewVersion(c, n, s)
    \/ \E v \in Versions : StartRollback(c, n, v)

Next ==
    \/ \E c \in Calls : Step(c)
    \/ \E c \in Calls, n \in Names : Start(c, n)
    \/ \E n \in Names : DeleteFlow(n)

Spec == Init /\ [][Next]_vars

-----------------------------------------------------------------------------
\* The stored versions are exactly 1..active, and every version a caller was
\* told about still has the contents the caller gave it.
Intact(n) ==
    /\ \A v \in Versions : spec[n][v] # None <=> v <= active[n]
    /\ \A a \in acked : a.name = n => spec[n][a.spec.version] = a.spec

(***************************************************************************)
(* As long as a flow is never rolled back, concurrent creates, updates and *)
(* deletes keep it intact: the pointer's target exists, no version is      *)
(* skipped or overwritten, no acknowledged update is lost                  *)
(* (createNewVersion's transaction).                                       *)
(***************************************************************************)
IntactUntilRollback == \A n \in Names \ rolledBack : Intact(n)

(***************************************************************************)
(* GetFlow reads the pointer and the spec in two requests; whatever runs   *)
(* in between, the spec it returns is the one of the version it reports,   *)
(* and every stored spec carries the number it is stored under.            *)
(***************************************************************************)
NoTornRead ==
    /\ \A n \in Names, v \in Versions : spec[n][v] # None => spec[n][v].version = v
    /\ \A c \in Calls : reply[c] # None => reply[c].version = seen[c]

(***************************************************************************)
(* api/README.md: "Old versions are never overwritten".                    *)
(***************************************************************************)
OldVersionsKept == \A a \in acked : spec[a.name][a.spec.version] = a.spec

(***************************************************************************)
(* Deleting a flow leaves the other flows alone: a flow disappears only by *)
(* a DeleteFlow that was called with its own name.                         *)
(***************************************************************************)
DeletesOnlyNamed ==
    [][\A n \in Names : active[n] # 0 /\ active'[n] = 0 => DeleteFlow(n)]_vars
=============================================================================
