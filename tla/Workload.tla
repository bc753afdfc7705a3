------------------------------ MODULE Workload ------------------------------
(***************************************************************************)
(* What the controller asks Kubernetes to run for a flow                   *)
(* (controller/internal/controller/runtime.go): the kind of workload, its  *)
(* names, the pod template, rendered from the spec, and the ConfigMap that *)
(* every pod of the flow mounts.  Fields that are copied as they stand     *)
(* (service account, runtime class, the limits and time zone of a          *)
(* schedule, mounts) are left out.                                         *)
(***************************************************************************)
EXTENDS FlowSpec

CONSTANTS
    Observed,       \* the controller's observability setting
    Endpoint        \* its OTLP endpoint

flowLabelKey == "flowpipe.io/flow-name"
runtimeConfigHashKey == "flowpipe.io/flow-config-checksum"
resourceProfileKey == "flowpipe.io/resource-profile"

\* The checksum of the spec's YAML: different for different specs (SHA-256).
Checksum(spec) == <<spec>>

\* Maps: one entry, the entries of f set in g, f without some keys.
Entry(k, v) == [x \in {k} |-> v]
Over(f, g) == [k \in DOMAIN f \cup DOMAIN g |-> IF k \in DOMAIN f THEN f[k] ELSE g[k]]
Without(f, keys) == [k \in DOMAIN f \ keys |-> f[k]]

\* Settings of the kubernetes message, with what an absent or unknown one means.
pullPolicyFromSpec(k) ==
    IF k = Absent THEN "IfNotPresent"
    ELSE CASE k.image_pull_policy = "ALWAYS" -> "Always"
           [] k.image_pull_policy = "NEVER" -> "Never"
           [] OTHER -> "IfNotPresent"
restartPolicyFromSpec(k) ==
    IF k = Absent THEN "Never"
    ELSE CASE k.restart_policy = "ALWAYS" -> "Always"
           [] k.restart_policy = "ON_FAILURE" -> "OnFailure"
           [] OTHER -> "Never"
cronConcurrencyPolicyFromSpec(p) ==
    CASE p = "UNSPECIFIED" -> Absent
      [] p = "FORBID" -> "Forbid"
      [] p = "REPLACE" -> "Replace"
      [] OTHER -> "Allow"

\* The controller's own variables come first and cannot be redefined; the
\* flow's follow by name.  Go visits a map in any order.
Text(b) == IF b THEN "true" ELSE "false"
FixedEnv ==
    LET enabled == <<"FLOWPIPE_OBSERVABILITY_ENABLED", Text(Observed)>>
    IN  IF Observed
        THEN <<enabled, <<"FLOWPIPE_METRICS_ENABLED", "true">>,
               <<"FLOWPIPE_TRACING_ENABLED", "true">>, <<"FLOWPIPE_LOGS_ENABLED", "true">>,
               <<"OTEL_EXPORTER_OTLP_ENDPOINT", Endpoint>>>>
        ELSE <<enabled>>
Sorted(keys) ==
    {o \in SetToSeqs(keys) : \A j, k \in DOMAIN o : j < k => Rank[o[j]] < Rank[o[k]]}
Added(extra) == DOMAIN extra \ {FixedEnv[k][1] : k \in DOMAIN FixedEnv}
EnvOf(extra, order) == FixedEnv \o [j \in DOMAIN order |-> <<order[j], extra[order[j]]>>]
\* Seeded fault: the variables in the order the map is visited.
VisitedEnv(extra) == {EnvOf(extra, order) : order \in SetToSeqs(Added(extra))}
\* Seeded fault: a variable of the flow is added even if it is set already.
AddedEnv(extra) == {EnvOf(extra, order) : order \in Sorted(DOMAIN extra)}
runtimeEnv(extra) == {EnvOf(extra, order) : order \in Sorted(Added(extra))}

\* The profile becomes an annotation; only positive amounts become requests.
applyResourceIntent(t, r) ==
    IF r = Absent THEN t
    ELSE [t EXCEPT
            !.annotations = IF r.profile \in {Absent, ""} THEN @
                            ELSE Over(Entry(resourceProfileKey, r.profile), @),
            !.requests = [k \in {a \in DOMAIN r.amounts : r.amounts[a] > 0} |-> r.amounts[k]]]

\* A flow's labels and annotations, except the two the controller relies on;
\* empty pull secrets are left out.
applyKubernetesOptions(t, o) ==
    IF o = Absent THEN t
    ELSE [t EXCEPT !.labels = Over(Without(o.pod_labels, {flowLabelKey}), @),
                   !.annotations = Over(Without(o.pod_annotations, {runtimeConfigHashKey}), @),
                   !.secrets = SelectSeq(o.image_pull_secrets, LAMBDA s : s # "")]

runtimePodTemplate(spec, restart) ==
    {applyKubernetesOptions(
        applyResourceIntent(
            [labels |-> Entry(flowLabelKey, spec.name),
             annotations |-> Entry(runtimeConfigHashKey, Checksum(spec)),
             image |-> spec.kubernetes.image, pull |-> pullPolicyFromSpec(spec.kubernetes),
             restart |-> restart, env |-> env, config |-> <<spec.name, "config">>,
             requests |-> <<>>, secrets |-> <<>>],
            spec.kubernetes.resources),
        spec.kubernetes_options) : env \in runtimeEnv(spec.env)}

Kinds == {"Deployment", "DaemonSet", "Job", "CronJob"}
HasCron(o) == o # Absent /\ o.cron # Absent /\ o.cron.schedule # ""

\* The workload of each kind: its object name, selector label and template, and
\* the spec it is rendered from.  A Deployment and a DaemonSet leave the restart
\* policy to Kubernetes.
Object(kind, name, spec, restart) ==
    {[kind |-> kind, name |-> name, label |-> spec.name, template |-> t, schedule |-> Absent,
      concurrency |-> Absent, spec |-> spec] : t \in runtimePodTemplate(spec, restart)}
\* An apply creates the object or overwrites it; an existing Job is left as it is.
applyDeployment(spec, objects) ==
    {[objects EXCEPT !["Deployment"] = w] :
        w \in Object("Deployment", <<spec.name, "runtime">>, spec, Absent)}
applyDaemonSet(spec, objects) ==
    {[objects EXCEPT !["DaemonSet"] = w] :
        w \in Object("DaemonSet", <<spec.name, "runtime">>, spec, Absent)}
applyJob(spec, objects) ==
    {[objects EXCEPT !["Job"] = IF @ = Absent THEN w ELSE @] :
        w \in Object("Job", <<spec.name>>, spec, restartPolicyFromSpec(spec.kubernetes))}
Scheduled(w, cron) ==
    [w EXCEPT !.schedule = cron.schedule,
              !.concurrency = cronConcurrencyPolicyFromSpec(cron.concurrency)]
applyCronJob(spec, objects) ==
    {[objects EXCEPT !["CronJob"] = Scheduled(w, spec.kubernetes_options.cron)] :
        w \in Object("CronJob", <<spec.name>>, spec, restartPolicyFromSpec(spec.kubernetes))}

\* The kind that the execution mode and the options ask for.
applyWorkload(spec, objects) ==
    LET mode == IF spec.execution = Absent THEN "STREAMING" ELSE spec.execution
        o == spec.kubernetes_options
        daemon == o # Absent /\ o.daemonset
    IN  CASE mode = "JOB" /\ HasCron(o) -> applyCronJob(spec, objects)
          [] mode = "JOB" /\ ~HasCron(o) -> applyJob(spec, objects)
          [] mode = "STREAMING" /\ daemon -> applyDaemonSet(spec, objects)
          [] OTHER -> applyDeployment(spec, objects)

\* The flow's ConfigMap is created or overwritten; its YAML is that of the spec,
\* whatever the workloads that mount it were rendered from.
ConfigMap(spec) == [name |-> <<spec.name, "config">>, label |-> spec.name, data |-> spec]

\* ensureRuntime: nothing without a name or an image; else the ConfigMap, then
\* the workload, whose request may fail.
ensureRuntime(spec, objects) ==
    IF spec.name = "" \/ spec.kubernetes = Absent \/ spec.kubernetes.image \in {Absent, ""}
    THEN {}
    ELSE {[config |-> ConfigMap(spec), objects |-> o] :
            o \in {objects} \cup applyWorkload(spec, objects)}
=============================================================================
