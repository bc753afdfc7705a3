----------------------------- MODULE MCRuntime -----------------------------
(***************************************************************************)
(* Small pipelines for TLC.  "Raw" and "Out" are queues of one slot.       *)
(***************************************************************************)
EXTENDS Runtime

OneSlot == [raw |-> 1, out |-> 1]
ChainQueues == {"raw", "out"}
ChainSchema == [raw |-> "A", out |-> "B"]

\* sink, transform with two workers, source: the spec lists consumers first.
SinkFirstKind == <<"sink", "transform", "source">>
SinkFirstIn   == <<"out", "raw", "no queue">>
SinkFirstOut  == <<"no queue", "out", "raw">>
SinkFirstPlugin == <<"libsink", "libxf", "libsrc">>
SinkFirstEmits == <<{}, {"B", "keep"}, {"keep"}>>
SinkFirstWorkers == {"snk", "xf1", "xf2", "src"}
SinkFirstStageOf == [snk |-> 1, xf1 |-> 2, xf2 |-> 2, src |-> 3]

\* Two source workers share one queue with a sink; the source comes first.
SourceFirstQueues == {"raw"}
SourceFirstSlot == [raw |-> 1]
SourceFirstSchema == [raw |-> "no schema"]
SourceFirstKind == <<"source", "sink">>
SourceFirstIn   == <<"no queue", "raw">>
SourceFirstOut  == <<"raw", "no queue">>
SourceFirstPlugin == <<"libsrc", "libsink">>
SourceFirstEmits == <<{"keep"}, {}>>
SourceFirstWorkers == {"src1", "src2", "snk"}
SourceFirstStageOf == [src1 |-> 1, src2 |-> 1, snk |-> 2]
=============================================================================
