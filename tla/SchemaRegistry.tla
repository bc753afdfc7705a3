--------------------------- MODULE SchemaRegistry ---------------------------
(***************************************************************************)
(* The schema registry (api/internal/store/etcd_schema_registry.go, its    *)
(* service and flowctl schema): numbered versions of a schema and a        *)
(* pointer to the newest, in etcd.  The pointer counts in 64 bits; version *)
(* fields and version keys have 32, so both are taken modulo Wrap.  Every  *)
(* etcd request is atomic; other calls run between the requests of a call. *)
(***************************************************************************)
EXTENDS Integers

CONSTANTS
    Ids,            \* schema ids
    Covers,         \* per id: the ids whose keys start with its schemaPrefix
    Formats, Raws,  \* formats and payloads a schema may have
    Unspecified,    \* no format, no payload, no id
    Calls,          \* concurrent calls
    Wrap,           \* number of values of a uint32
    MaxVersion      \* model bound: no version above this one is created

ASSUME RegistryAssumption ==
    /\ Covers \in [Ids -> SUBSET Ids]
    /\ \A i \in Ids : i \in Covers[i]
    /\ Unspecified \notin Formats \cup Raws \cup Ids
    /\ Wrap \in Nat \ {0} /\ MaxVersion \in Nat

uint32 == 0 .. Wrap - 1
\* Seeded fault: the conversion is left out.
NotConverted(v) == v
\* The conversion uint32(v).
ToUint32(v) == v % Wrap

\* A request's schema, and a stored one with the version it was given.
Contents == [format : Formats \cup {Unspecified}, raw : Raws \cup {Unspecified}]
Stored == [format : Formats, raw : Raws, version : uint32]
\* No such key.
Missing == [format |-> Unspecified, raw |-> Unspecified, version |-> 0]

VARIABLES
    active,         \* .../active: a version in 64 bits, 0 when the key is missing
    stored,         \* .../versions/<v>
    pc,             \* per call: the etcd request it makes next
    id,             \* per call: the schema it is about
    data,           \* per call: the contents it registers
    seen,           \* per call: the version it read, or was asked for
    reply,          \* per call: the schemas it returned last, none after an error
    acked,          \* history: schemas acknowledged to a caller and not deleted
    known           \* history, per call that reads the newest: the versions that were
                    \*   acknowledged before it began; none after a delete or a wrap

keyVars == <<active, stored>>
vars == <<active, stored, pc, id, data, seen, reply, acked, known>>

TypeOK ==
    /\ active \in [Ids -> 0 .. MaxVersion]
    /\ stored \in [Ids -> [uint32 -> Stored \cup {Missing}]]
    /\ pc \in [Calls -> {"idle", "commit", "getActive", "getSchema"}]
    /\ id \in [Calls -> Ids \cup {Unspecified}]
    /\ data \in [Calls -> Contents]
    /\ seen \in [Calls -> Nat]
    /\ \A c \in Calls :
          /\ pc[c] # "idle" => id[c] \in Ids
          /\ pc[c] = "commit" => seen[c] < MaxVersion
          /\ pc[c] = "commit" => data[c].format # Unspecified /\ data[c].raw # Unspecified
          /\ pc[c] = "getSchema" => seen[c] \in uint32
    /\ reply \in [Calls -> SUBSET Stored]
    /\ acked \subseteq [id : Ids, schema : Stored]
    /\ known \in [Calls -> SUBSET uint32]

NoData == [format |-> Unspecified, raw |-> Unspecified]

Init ==
    /\ active = [i \in Ids |-> 0]
    /\ stored = [i \in Ids |-> [v \in uint32 |-> Missing]]
    /\ pc = [c \in Calls |-> "idle"]
    /\ id = [c \in Calls |-> Unspecified]
    /\ data = [c \in Calls |-> NoData]
    /\ seen = [c \in Calls |-> 0]
    /\ reply = [c \in Calls |-> {}]
    /\ acked = {}
    /\ known = [c \in Calls |-> {}]

\* A call starts: its arguments, what it has read, and its next request.
Begin(c, request, i, s, v) ==
    /\ pc[c] = "idle"
    /\ pc' = [pc EXCEPT ![c] = request]
    /\ id' = [id EXCEPT ![c] = i]
    /\ data' = [data EXCEPT ![c] = s]
    /\ seen' = [seen EXCEPT ![c] = v]
    /\ reply' = [reply EXCEPT ![c] = {}]

\* A call returns schemas, none for an error; it holds nothing any more.
Return(c, r) ==
    /\ pc' = [pc EXCEPT ![c] = "idle"]
    /\ id' = [id EXCEPT ![c] = Unspecified]
    /\ data' = [data EXCEPT ![c] = NoData]
    /\ seen' = [seen EXCEPT ![c] = 0]
    /\ reply' = [reply EXCEPT ![c] = r]

\* What CreateSchema demands of a request.
Complete(s) == s.format # Unspecified /\ s.raw # Unspecified

\* CreateSchema refuses an incomplete schema; createSchemaVersion begins by
\* reading the active key.
CreateSchema(c, i, s) ==
    /\ active[i] < MaxVersion
    /\ Complete(s)
    /\ Begin(c, "commit", i, s, active[i])
    /\ known' = [known EXCEPT ![c] = {}]
    /\ UNCHANGED <<keyVars, acked>>

RefuseSchema(c, s) ==
    /\ pc[c] = "idle" /\ ~Complete(s)
    /\ Return(c, {})
    /\ UNCHANGED <<keyVars, acked, known>>

\* Seeded faults: a blind write instead of a comparison, a pointer that is
\* written only once.
NotCompared(c) == TRUE
WrittenOnce(i, v) == IF active[i] = 0 THEN v ELSE active[i]

\* The condition of the transaction: the active key is still missing, or still
\* has the value that was read.
StillActive(c) == active[id[c]] = seen[c]
\* The version after the one read, in 64 bits, and the value of the active key.
NextVersion(v) == v + 1
Pointer(i, v) == v

\* The transaction puts the schema under its 32-bit version and the pointer in
\* 64 bits.  The caller gets the schema, or an error although it took effect.
Commit(c) ==
    LET i == id[c]
        v == NextVersion(seen[c])
        s == [format |-> data[c].format, raw |-> data[c].raw, version |-> ToUint32(v)]
    IN  /\ pc[c] = "commit" /\ StillActive(c)
        /\ stored' = [stored EXCEPT ![i][ToUint32(v)] = s]
        /\ active' = [active EXCEPT ![i] = Pointer(i, v)]
        /\ known' = [d \in Calls |-> IF v >= Wrap /\ id[d] = i THEN {} ELSE known[d]]
        /\ \/ acked' = acked \cup {[id |-> i, schema |-> s]} /\ Return(c, {s})
           \/ Return(c, {}) /\ UNCHANGED acked

\* "modified concurrently".
CommitRefused(c) ==
    /\ pc[c] = "commit" /\ ~StillActive(c)
    /\ Return(c, {})
    /\ UNCHANGED <<keyVars, acked, known>>

\* The versions of i acknowledged by now, as long as versions have not wrapped.
Acknowledged(i) ==
    IF active[i] >= Wrap THEN {} ELSE {a.schema.version : a \in {b \in acked : b.id = i}}

\* GetSchema asked for version 0 reads the pointer first.
GetActiveSchema(c, i) ==
    /\ Begin(c, "getActive", i, NoData, 0)
    /\ known' = [known EXCEPT ![c] = Acknowledged(i)]
    /\ UNCHANGED <<keyVars, acked>>

GetActive(c) ==
    /\ pc[c] = "getActive"
    /\ IF active[id[c]] = 0
       THEN Return(c, {})
       ELSE /\ seen' = [seen EXCEPT ![c] = ToUint32(active[id[c]])]
            /\ pc' = [pc EXCEPT ![c] = "getSchema"]
            /\ UNCHANGED <<id, data, reply>>
    /\ UNCHANGED <<keyVars, acked, known>>

\* The versions flowctl schema get sends: parseSchemaVersion takes no 0 and
\* nothing above 32 bits.  Other clients ask for 0 to mean the newest.
parseSchemaVersion == uint32 \ {0}

GetSchemaVersion(c, i, v) ==
    /\ v \in parseSchemaVersion
    /\ Begin(c, "getSchema", i, NoData, v)
    /\ known' = [known EXCEPT ![c] = {}]
    /\ UNCHANGED <<keyVars, acked>>

\* The version may be gone, or never have been ("not found").
GetSchema(c) ==
    /\ pc[c] = "getSchema"
    /\ Return(c, {stored[id[c]][seen[c]]} \ {Missing})
    /\ UNCHANGED <<keyVars, acked, known>>

\* One request for all keys under .../versions/; the schemas, by version.
ListSchemaVersions(c, i) ==
    /\ pc[c] = "idle"
    /\ Return(c, {stored[i][v] : v \in uint32} \ {Missing})
    /\ known' = [known EXCEPT ![c] = Acknowledged(i)]
    /\ UNCHANGED <<keyVars, acked>>

\* A request fails without effect: the call returns the error.
Fail(c) ==
    /\ pc[c] # "idle"
    /\ Return(c, {})
    /\ UNCHANGED <<keyVars, acked, known>>

\* Seeded fault: the delete leaves the pointer.
DeleteVersions(i) ==
    /\ stored' = [j \in Ids |-> IF j \in Covers[i] THEN [v \in uint32 |-> Missing]
                                ELSE stored[j]]
    /\ acked' = {a \in acked : a.id \notin Covers[i]}
    /\ UNCHANGED <<active, pc, id, data, seen, reply, known>>

\* DeleteSchema deletes every key that starts with /flowpipe/schemas/<id>.
DeleteSchema(i) ==
    /\ active' = [j \in Ids |-> IF j \in Covers[i] THEN 0 ELSE active[j]]
    /\ stored' = [j \in Ids |-> IF j \in Covers[i] THEN [v \in uint32 |-> Missing]
                                ELSE stored[j]]
    /\ acked' = {a \in acked : a.id \notin Covers[i]}
    /\ known' = [c \in Calls |-> IF id[c] \in Covers[i] THEN {} ELSE known[c]]
    /\ UNCHANGED <<pc, id, data, seen, reply>>

Step(c) == Commit(c) \/ CommitRefused(c) \/ GetActive(c) \/ GetSchema(c) \/ Fail(c)

Start(c, i) ==
    \/ \E s \in Contents : CreateSchema(c, i, s)
    \/ GetActiveSchema(c, i)
    \/ \E v \in uint32 : GetSchemaVersion(c, i, v)
    \/ ListSchemaVersions(c, i)

Next ==
    \/ \E c \in Calls : Step(c) \/ \E s \in Contents : RefuseSchema(c, s)
    \/ \E c \in Calls, i \in Ids : Start(c, i)
    \/ \E i \in Ids : DeleteSchema(i)

Spec == Init /\ [][Next]_vars

-----------------------------------------------------------------------------
(***************************************************************************)
(* Below 2^32 versions of an id, concurrent registrations and deletes keep *)
(* its versions 1 .. active, and every schema acknowledged to a caller     *)
(* keeps the contents it was registered with (createSchemaVersion's        *)
(* transaction).  Past that the 32-bit keys come round again.              *)
(***************************************************************************)
KeptUntilWrap ==
    \A i \in Ids : active[i] < Wrap =>
        /\ \A v \in uint32 : stored[i][v] # Missing <=> v \in 1 .. active[i]
        /\ \A a \in acked : a.id = i => stored[i][a.schema.version] = a.schema

(***************************************************************************)
(* The pointer always has a schema to point at, and every schema carries   *)
(* the version it is stored under, also when the 64-bit pointer no longer  *)
(* fits the 32-bit keys.                                                   *)
(***************************************************************************)
ActiveResolves ==
    \A i \in Ids :
        /\ active[i] # 0 => stored[i][ToUint32(active[i])] # Missing
        /\ \A v \in uint32 : stored[i][v] # Missing => stored[i][v].version = v

(***************************************************************************)
(* GetSchema without a version makes two requests and ListSchemaVersions   *)
(* one; whatever runs in between, what they return is at least as new as   *)
(* any version acknowledged before the call began, unless the schema was   *)
(* deleted or its versions came round meanwhile.                           *)
(***************************************************************************)
FreshReply ==
    \A c \in Calls : reply[c] # {} => \E s \in reply[c] : \A v \in known[c] : s.version >= v
=============================================================================
