----------------------------- MODULE MCFlowPath -----------------------------
(***************************************************************************)
(* An instance of FlowPath: one flow, and files that differ from a good one*)
(* in one thing the code looks at.                                         *)
(***************************************************************************)
EXTENDS FlowPath

CONSTANT None       \* a field that is not set

MCRank ==
    [n \in {"", "a", "b", "c", "HOME", "FLOWPIPE_OBSERVABILITY_ENABLED", "OTEL_X"} |->
        CASE n = "" -> 0
          [] n = "FLOWPIPE_OBSERVABILITY_ENABLED" -> 1
          [] n = "HOME" -> 2
          [] n = "OTEL_X" -> 3
          [] n = "a" -> 4
          [] n = "b" -> 5
          [] OTHER -> 6]
MCKindOf == [src |-> "source", step |-> "transform", out |-> "sink"]
MCPriorities == 1 .. 99

\* Queues and stages are listed against their order.
Queues == <<Queue("b", "IN_MEMORY", 4, "s"), Queue("a", None, 2, None)>>
Stages ==
    <<Stage("c", "src", None, 1, None, "a", None), Stage("b", "any", "step", 2, "a", "b", 5),
      Stage("a", "out", None, 1, "b", None, None)>>
Image == [image |-> "i", image_pull_policy |-> "ALWAYS", restart_policy |-> "ON_FAILURE",
          resources |-> None, cpu_pinning |-> [a |-> <<1, 0>>, d |-> <<9>>]]
Options == [pod_labels |-> <<>>, pod_annotations |-> <<>>, image_pull_secrets |-> <<>>,
            cron |-> None, daemonset |-> FALSE]

Good ==
    [name |-> "f", version |-> 0, queues |-> Queues, stages |-> Stages, execution |-> None,
     env |-> <<>>, kubernetes |-> Image, kubernetes_options |-> None]
Stage1(name, type, threads, input_queue, output_queue) ==
    [Good EXCEPT !.stages[1] = Stage(name, type, None, threads, input_queue, output_queue, None)]

MCFiles ==
    {Good,
     [Good EXCEPT !.name = ""], [Good EXCEPT !.name = "g"],
     [Good EXCEPT !.queues[1].capacity = 0], [Good EXCEPT !.queues[1].name = "a"],
     [Good EXCEPT !.queues[1].schema_id = ""], [Good EXCEPT !.queues[1].type = "7"],
     [Good EXCEPT !.stages = <<>>],
     Stage1("b", "src", 1, None, "a"), Stage1("c", "src", 1, None, ""),
     Stage1("c", "src", 0, None, "a"), Stage1("c", "other", 1, None, "a"),
     Stage1("c", "src", 1, "b", "a"), Stage1("c", "src", 1, None, None),
     [Good EXCEPT !.stages[1].realtime_priority = 0],
     [Good EXCEPT !.kubernetes.cpu_pinning = [a |-> <<1, 1>>]],
     [Good EXCEPT !.kubernetes.cpu_pinning = [a |-> <<9>>]],
     [Good EXCEPT !.kubernetes = None],
     [Good EXCEPT !.env = [n \in {"HOME", "OTEL_X", "FLOWPIPE_OBSERVABILITY_ENABLED"} |-> "v"],
                  !.execution = "UNSPECIFIED"],
     [Good EXCEPT !.kubernetes_options =
        [Options EXCEPT !.pod_labels = flowLabelKey :> "g" @@ "l" :> "v",
                        !.pod_annotations = runtimeConfigHashKey :> Checksum(Good) @@ resourceProfileKey :> "v",
                        !.image_pull_secrets = <<"", "s">>]],
     [Good EXCEPT !.execution = "STREAMING",
                  !.kubernetes_options = [Options EXCEPT !.daemonset = TRUE],
                  !.kubernetes.resources = [profile |-> "p", amounts |-> [cpu |-> 0, memory |-> 2]]],
     [Good EXCEPT !.execution = "JOB"],
     [Good EXCEPT !.execution = "JOB",
                  !.kubernetes_options =
                      [Options EXCEPT !.cron = [schedule |-> "daily", concurrency |-> "REPLACE"]]],
     [Good EXCEPT !.kubernetes.image = ""]}
=============================================================================
