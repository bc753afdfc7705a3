------------------------------ MODULE FlowPath ------------------------------
(***************************************************************************)
(* The way of a flow from a file to a running pod: flowctl's commands on   *)
(* files (cli/cmd/flowctl: validate, run, submit, update), the API, which  *)
(* stores what it is sent, the controller, and the runtime, which has the  *)
(* last word.  Other clients may send the API a spec flowctl never saw.    *)
(***************************************************************************)
EXTENDS Workload

CONSTANTS
    Flow,           \* the flow that is followed
    Files,          \* specs a file may hold
    Names,          \* values of update's --name, "" when it is not given
    MaxVersion      \* model bound: no version above this one is stored

\* What the store may come to hold: a file or what flowctl makes of it, under the
\* flow's name and with a version.
Sent == Files \cup UNION {Normalize(f) : f \in Files}
Filed(s, name, version) == [s EXCEPT !.name = name, !.version = version]
Storable == {Filed(s, Flow, v) : s \in Sent, v \in 1 .. MaxVersion}

\* Names have an order; a file that decodes is a spec, whose queues are queues.
ASSUME FilesAssumption ==
    /\ Rank \in [DOMAIN Rank -> Nat] /\ IsInjective(Rank) /\ MaxVersion \in Nat
    /\ \A f \in Files :
          /\ IsSpec(f)
          /\ f.queues \in Seq(ToSet(f.queues)) /\ f.stages \in Seq(ToSet(f.stages))
          /\ \A q \in ToSet(f.queues) : q = Queue(q.name, q.type, q.capacity, q.schema_id)
          /\ NamesOf(f.queues) \cup NamesOf(f.stages) \cup DOMAIN f.env \subseteq DOMAIN Rank
          /\ IsFiniteSet(DOMAIN f.env)
    /\ Absent \notin Files \cup Storable \cup {ConfigMap(s) : s \in Storable}

VARIABLES
    file,           \* the file; Absent when it does not decode
    stored,         \* the flow's active spec, Absent at first
    checked,        \* whether flowctl sent it
    config,         \* the flow's ConfigMap, Absent at first
    objects,        \* the flow's workloads in Kubernetes, by kind
    vetted,         \* of every spec the controller applied: did flowctl send it
    started         \* what `flowctl run` started the runtime on, or Absent

vars == <<file, stored, checked, config, objects, vetted, started>>

VersionOf(s) == IF s = Absent THEN 0 ELSE s.version

TypeOK ==
    /\ file \in Files \cup {Absent}
    /\ stored # Absent => stored.version \in 1 .. MaxVersion /\ stored.name = Flow
    /\ checked \in BOOLEAN
    /\ config # Absent => config.label = Flow /\ config.data \in DOMAIN vetted
    /\ DOMAIN objects = Kinds
    /\ \A k \in Kinds : objects[k] # Absent => objects[k].kind = k /\ objects[k].spec \in DOMAIN vetted
    /\ \A s \in DOMAIN vetted : s.version \in 1 .. VersionOf(stored) /\ vetted[s] \in BOOLEAN
    /\ started \in Files \cup {Absent}

Init ==
    /\ file = Absent
    /\ stored = Absent /\ checked = FALSE
    /\ config = Absent /\ objects = [k \in Kinds |-> Absent] /\ vetted = <<>>
    /\ started = Absent

\* The file is written, or broken.
Edit(f) ==
    /\ file' = f /\ started' = Absent
    /\ UNCHANGED <<stored, checked, config, objects, vetted>>

\* LoadFlowSpec: the spec of a file that decodes.
LoadFlowSpec == {file} \ {Absent}
\* What a command goes on with: loaded, normalized and valid.
Checked == {s \in UNION {Normalize(f) : f \in LoadFlowSpec} : Validate(s)}

\* Seeded fault: the spec keeps the name of the file.
StoreNamed(name, s) ==
    /\ name = Flow
    /\ VersionOf(stored) < MaxVersion
    /\ stored' = [s EXCEPT !.version = VersionOf(stored) + 1]
\* The store files a spec under a name, as the next version of that flow.
Store(name, s) ==
    /\ name = Flow
    /\ VersionOf(stored) < MaxVersion
    /\ stored' = Filed(s, name, VersionOf(stored) + 1)

\* submit, and update with or without --name.
submit ==
    /\ \E s \in Checked : Store(s.name, s)
    /\ checked' = TRUE
    /\ UNCHANGED <<file, config, objects, vetted, started>>
update(flag) ==
    /\ \E s \in Checked : Store(IF flag = "" THEN s.name ELSE flag, s)
    /\ checked' = TRUE
    /\ UNCHANGED <<file, config, objects, vetted, started>>

\* Any other client of CreateFlow: the name is all the store asks for.
CreateFlow ==
    /\ \E s \in LoadFlowSpec : s.name # "" /\ Store(s.name, s)
    /\ checked' = FALSE
    /\ UNCHANGED <<file, config, objects, vetted, started>>

\* run checks the normalized spec and starts flow_runtime on the file itself.
run ==
    /\ Checked # {}
    /\ started' = file
    /\ UNCHANGED <<file, stored, checked, config, objects, vetted>>

\* A reconcile pass of the controller for the stored spec.
Reconcile ==
    /\ stored # Absent
    /\ \E applied \in ensureRuntime(stored, objects) :
          config' = applied.config /\ objects' = applied.objects
    /\ vetted' = Over(Entry(stored, checked), vetted)
    /\ UNCHANGED <<file, stored, checked, started>>

Next ==
    \/ \E f \in Files \cup {Absent} : Edit(f)
    \/ submit \/ CreateFlow \/ run \/ Reconcile
    \/ \E n \in Names : update(n)

Spec == Init /\ [][Next]_vars

-----------------------------------------------------------------------------
\* The checks that only the runtime makes; flowctl lets all of this through,
\* also where the spec shows it: an unsupported queue type, a schema without an
\* id, CPUs listed twice, a stage with neither queue, as well as CPUs, priorities
\* and plugins that the host does not have.
OnlyRuntimeRefuses(spec) ==
    \/ \E q \in ToSet(spec.queues) : ~QueueSupported(q)
    \/ \E s \in ToSet(spec.stages) : ~StageSupported(spec, s)

(***************************************************************************)
(* The checks of flowctl and of the runtime are written twice, in two      *)
(* languages.  They agree where both make them (capacity, names, threads,  *)
(* references).  A pod of any workload, also of an old Job or of a kind    *)
(* that is left over, starts on the ConfigMap, which is never older than   *)
(* what the workload was rendered from; if flowctl submit or update sent   *)
(* that spec, the runtime refuses it exactly for what only the runtime     *)
(* checks.  flowctl run normalizes the file too, but hands over the file   *)
(* itself (cli/README.md says the normalized spec): the runtime refuses    *)
(* that also for a queue without capacity, which it takes from submit.     *)
(***************************************************************************)
CheckedFlowsStart ==
    /\ \A k \in Kinds : objects[k] # Absent =>
          config # Absent /\ objects[k].spec.version <= config.data.version
    /\ config # Absent /\ vetted[config.data] =>
          (RuntimeAccepts(config.data) <=> ~OnlyRuntimeRefuses(config.data))
    /\ started # Absent =>
          (RuntimeAccepts(started) <=>
              /\ ~OnlyRuntimeRefuses(started)
              /\ \A q \in ToSet(started.queues) : q.capacity # 0)

(***************************************************************************)
(* cli/README.md, "Deterministic normalization": in whatever order a valid *)
(* file lists its queues and stages, flowctl sends the same spec.          *)
(***************************************************************************)
DeterministicNormalization ==
    Checked # {} =>
        \E sent \in Checked :
            \A q \in Listings(file.queues), s \in Listings(file.stages) :
                Normalize(Relisted(file, q, s)) = {sent}

(***************************************************************************)
(* README.md, "Restart-on-change (no hot reload)" and "Idempotent          *)
(* reconciliation": when a workload that exists is applied again its pod   *)
(* template changes, so that Kubernetes replaces the pods, exactly if the  *)
(* spec did, whatever labels, annotations and variables the flow sets.     *)
(* An existing Job is never applied again.                                 *)
(***************************************************************************)
RestartExactlyOnChange ==
    [][\A k \in Kinds : objects[k] # Absent =>
        (objects'[k].template # objects[k].template <=> objects'[k].spec # objects[k].spec)]_vars

(***************************************************************************)
(* The pods stay the flow's: the selector matches the template's label,    *)
(* and no variable is set twice, so the controller's own settings hold.    *)
(***************************************************************************)
PodsFoundAndConfigured ==
    \A k \in Kinds : objects[k] # Absent =>
        LET t == objects[k].template
        IN  /\ objects[k].label = Flow /\ t.labels[flowLabelKey] = Flow
            /\ \A i, j \in DOMAIN t.env : t.env[i][1] = t.env[j][1] => i = j
            /\ <<"FLOWPIPE_OBSERVABILITY_ENABLED", Text(Observed)>> \in ToSet(t.env)
=============================================================================
