------------------------------ MODULE FlowSpec ------------------------------
(***************************************************************************)
(* Flow specs: what flowctl makes of a file (cli/internal/loader,          *)
(* pkg/flow), and what the runtime demands of a spec before it starts any  *)
(* worker (runtime/src/runtime.cc).                                        *)
(***************************************************************************)
EXTENDS Naturals, Sequences, SequencesExt

CONSTANTS
    Absent,         \* an optional field or message that is not set
    Rank,           \* the place of a name in the order of strings
    KindOf,         \* per plugin that loads a stage: "source", "transform", "sink"
    Cpus,           \* ids of the host's CPUs
    Priorities      \* the host's real-time priorities

\* Fields of a Queue and of a Stage, the ones the checks read.
Queue(name, type, capacity, schema_id) ==
    [name |-> name, type |-> type, capacity |-> capacity, schema_id |-> schema_id]
Stage(name, type, plugin, threads, input_queue, output_queue, realtime_priority) ==
    [name |-> name, type |-> type, plugin |-> plugin, threads |-> threads,
     input_queue |-> input_queue, output_queue |-> output_queue,
     realtime_priority |-> realtime_priority]

\* A spec, with the fields that somebody reads.
IsSpec(f) ==
    f = [name |-> f.name, version |-> f.version, queues |-> f.queues, stages |-> f.stages,
         execution |-> f.execution, env |-> f.env, kubernetes |-> f.kubernetes,
         kubernetes_options |-> f.kubernetes_options]

-----------------------------------------------------------------------------
\* sort.Slice by name: an ordered rearrangement, any of them for equal names.
Listings(s) == {[k \in DOMAIN s |-> s[p[k]]] : p \in SetToSeqs(DOMAIN s)}
SortByName(s) ==
    {t \in Listings(s) : \A j, k \in DOMAIN t : j < k => Rank[t[j].name] <= Rank[t[k].name]}

Defaulted(q) == IF q.capacity = 0 THEN [q EXCEPT !.capacity = 128] ELSE q
\* Seeded fault: the defaults without the order.
DefaultsOnly(spec) == {[spec EXCEPT !.queues = [k \in DOMAIN @ |-> Defaulted(@[k])]]}
\* Normalize: queues and stages by name, and a capacity for every queue.
Relisted(spec, qs, ss) == [spec EXCEPT !.queues = qs, !.stages = ss]
Normalize(spec) ==
    {Relisted(spec, [k \in DOMAIN qs |-> Defaulted(qs[k])], ss) :
        qs \in SortByName(spec.queues), ss \in SortByName(spec.stages)}

NamesOf(s) == {s[k].name : k \in DOMAIN s}
Distinct(s) == \A j, k \in DOMAIN s : s[j].name = s[k].name => j = k

\* Seeded fault: references to queues are not looked up.
ValidateNames(spec) ==
    /\ spec.name # "" /\ spec.stages # <<>>
    /\ "" \notin NamesOf(spec.queues) \cup NamesOf(spec.stages)
    /\ Distinct(spec.queues) /\ Distinct(spec.stages)
    /\ \A s \in ToSet(spec.stages) : s.type # "" /\ s.threads >= 1
\* Validate: names are there and unique, every stage has a type, a thread and
\* declared queues.
Validate(spec) ==
    /\ spec.name # "" /\ spec.stages # <<>>
    /\ "" \notin NamesOf(spec.queues) \cup NamesOf(spec.stages)
    /\ Distinct(spec.queues) /\ Distinct(spec.stages)
    /\ \A s \in ToSet(spec.stages) :
          /\ s.type # "" /\ s.threads >= 1
          /\ {s.input_queue, s.output_queue} \ {Absent} \subseteq NamesOf(spec.queues)

-----------------------------------------------------------------------------
\* The runtime's own checks; it throws at the first that fails.  A type that is
\* not set is in-memory, the only one there is, though any number decodes.
QueueSupported(q) == q.type \in {Absent, "UNSPECIFIED", "IN_MEMORY"} /\ q.schema_id # ""
QueuesAccepted(spec) ==
    /\ \A q \in ToSet(spec.queues) : q.capacity # 0 /\ QueueSupported(q)
    /\ Distinct(spec.queues)

\* The CPUs a stage is pinned to, none unless the kubernetes message lists them.
ResolveCpuPinning(spec, name) ==
    IF spec.kubernetes # Absent /\ name \in DOMAIN spec.kubernetes.cpu_pinning
    THEN spec.kubernetes.cpu_pinning[name] ELSE <<>>
ValidateCpuPinning(cpus) == ToSet(cpus) \subseteq Cpus /\ IsInjective(cpus)
ValidateRealtimePriority(priority) == priority = Absent \/ priority \in Priorities

\* The plugin of a stage; a type stands for its libstage_<type>.so.
PluginOf(s) == IF s.plugin # Absent THEN s.plugin ELSE s.type
\* Sources have only an output, sinks only an input, transforms both.
Wired(s) ==
    /\ (s.input_queue # Absent) = (KindOf[PluginOf(s)] # "source")
    /\ (s.output_queue # Absent) = (KindOf[PluginOf(s)] # "sink")
StageSupported(spec, s) ==
    /\ ValidateCpuPinning(ResolveCpuPinning(spec, s.name))
    /\ ValidateRealtimePriority(s.realtime_priority)
    /\ PluginOf(s) \in DOMAIN KindOf /\ Wired(s)

\* queues.at, of the queues that the stage has.
QueuesFound(spec, s) == {s.input_queue, s.output_queue} \ {Absent} \subseteq NamesOf(spec.queues)

StageAccepted(spec, s) == s.threads >= 1 /\ StageSupported(spec, s) /\ QueuesFound(spec, s)
RuntimeAccepts(spec) ==
    QueuesAccepted(spec) /\ \A s \in ToSet(spec.stages) : StageAccepted(spec, s)
=============================================================================
