------------------------------ MODULE Runtime ------------------------------
(***************************************************************************)
(* flowpipe::Runtime::run (runtime/src/runtime.cc): the main thread wires  *)
(* the stages in spec order and starts their workers while earlier workers *)
(* already run, waits for a stop, closes the queues, joins the workers and *)
(* shuts the stage registry down.  The workers are the runners of          *)
(* stage_runner.cc, over queues with the promise of AbstractQueue.         *)
(***************************************************************************)
EXTENDS Naturals, Sequences, FiniteSets

CONSTANTS
    Queues, NoQueue,    \* declared queues; "has no such queue"
    Plugins,            \* shared libraries that implement stages
    Schemas, NoSchema,  \* schema ids; an empty schema_id
    Keep,               \* a stage that leaves meta.schema_id as it found it
    NStages,            \* spec.stages(), in the order of the spec
    Kind,               \* per stage: "source", "transform" or "sink"
    In, Out,            \* per stage: input and output queue
    Plugin,             \* per stage: its library
    Emits,              \* per stage: schema ids its code may put on a payload
    Workers, StageOf,   \* worker threads and the stage each belongs to
    Capacity,           \* per queue
    QueueSchema,        \* per queue: required schema id, or NoSchema
    JobMode,            \* execution mode JOB (auto_shutdown)
    MaxProduce,         \* model bound: payloads one source worker produces
    NoPayload           \* a worker between payloads

Stages == 1 .. NStages
OutOf(w) == Out[StageOf[w]]
InOf(w)  == In[StageOf[w]]
KindOf(w) == Kind[StageOf[w]]

\* A well-formed spec: what remains after the queue and stage checks that
\* throw before any thread exists.
ASSUME RuntimeAssumption ==
    /\ NStages \in Nat
    /\ IsFiniteSet(Workers)
    /\ StageOf \in [Workers -> Stages]
    /\ Kind \in [Stages -> {"source", "transform", "sink"}]
    /\ In \in [Stages -> Queues \cup {NoQueue}]
    /\ Out \in [Stages -> Queues \cup {NoQueue}]
    /\ Plugin \in [Stages -> Plugins]
    /\ Emits \in [Stages -> SUBSET (Schemas \cup {NoSchema, Keep})]
    /\ Capacity \in [Queues -> Nat \ {0}]
    /\ QueueSchema \in [Queues -> Schemas \cup {NoSchema}]
    /\ JobMode \in BOOLEAN
    /\ MaxProduce \in Nat
    /\ NoQueue \notin Queues
    /\ NoSchema \notin Schemas
    /\ Keep \notin Schemas \cup {NoSchema}

VARIABLES
    mpc,        \* where Runtime::run is
    stage,      \* the stage being wired
    toClose,    \* queues close_runtime_queues has still to close
    outcome,    \* how run() ends: "none" yet, "ok" (returns 0), "error" (throws)
    stop,       \* stop_flag
    signaled,   \* g_signaled
    queue,      \* per queue: payloads, oldest first
    closed,     \* per queue
    remaining,  \* queue_producer_workers
    active,     \* active_workers
    instances,  \* workers whose IStage is alive in the registry
    loaded,     \* plugins_ of the registry
    pc,         \* per worker: where its thread is
    held,       \* per worker: the payload in its hands
    count,      \* per worker: payloads produced so far (sources)
    consumed,   \* history: sequence of the payload ids sinks consumed
    dropped,    \* history: payload ids dropped for their schema
    clean       \* history: no stage threw, no signal, no wiring exception

mainVars == <<mpc, stage, toClose, outcome>>
regVars  == <<instances, loaded>>
dataVars == <<held, count, consumed, dropped>>
qVars    == <<queue, closed>>
vars == <<mpc, stage, toClose, outcome, stop, signaled, queue, closed, remaining,
          active, instances, loaded, pc, held, count, consumed, dropped, clean>>

PayloadIds == Workers \X (1 .. MaxProduce)
Payload == [id : PayloadIds, schema : Schemas \cup {NoSchema}]

\* Empty hands are not a payload.
ASSUME PayloadAssumption == NoPayload \notin Payload

\* The runner's loop; after it, the epilogue of the worker's lambda.
LoopPcs     == {"loop", "pop", "work", "push", "abort", "fin"}
EpiloguePcs == {"close", "destroy", "count", "last", "done"}

TypeOK ==
    /\ mpc \in {"wire", "spawn", "run", "close", "join", "shutdown", "done"}
    /\ stage \in 1 .. NStages + 1
    /\ toClose \subseteq Queues
    /\ outcome \in {"none", "ok", "error"}
    /\ stop \in BOOLEAN /\ signaled \in BOOLEAN /\ clean \in BOOLEAN
    /\ queue \in [Queues -> Seq(Payload)]
    /\ \A q \in Queues : Len(queue[q]) <= Capacity[q]
    /\ closed \in [Queues -> BOOLEAN]
    /\ remaining \in [Queues -> Nat]
    /\ active \in Nat
    /\ instances \subseteq Workers
    /\ loaded \subseteq Plugins
    /\ pc \in [Workers -> {"none"} \cup LoopPcs \cup EpiloguePcs]
    /\ held \in [Workers -> Payload \cup {NoPayload}]
    /\ count \in [Workers -> 0 .. MaxProduce]
    /\ consumed \in Seq(PayloadIds)
    /\ dropped \subseteq PayloadIds

WorkersOf(s) == {w \in Workers : StageOf[w] = s}
ProducersOf(q) == {w \in Workers : OutOf(w) = q}

\* The producer counts are computed for the whole spec before any thread runs.
Init ==
    /\ mpc = "wire"
    /\ stage = 1
    /\ toClose = Queues
    /\ outcome = "none"
    /\ stop = FALSE /\ signaled = FALSE /\ clean = TRUE
    /\ queue = [q \in Queues |-> <<>>]
    /\ closed = [q \in Queues |-> FALSE]
    /\ remaining = [q \in Queues |-> Cardinality(ProducersOf(q))]
    /\ active = 0
    /\ instances = {} /\ loaded = {}
    /\ pc = [w \in Workers |-> "none"]
    /\ held = [w \in Workers |-> NoPayload]
    /\ count = [w \in Workers |-> 0]
    /\ consumed = <<>> /\ dropped = {}

-----------------------------------------------------------------------------
(* The main thread. *)

\* Sources have only an output, sinks only an input, transforms both.
WiringValid(s) ==
    /\ (In[s] # NoQueue) = (Kind[s] \in {"transform", "sink"})
    /\ (Out[s] # NoQueue) = (Kind[s] \in {"source", "transform"})

\* Stage s is created, once per worker; its library is loaded on first use.
CreateStage ==
    /\ mpc = "wire" /\ stage \in Stages
    /\ WiringValid(stage)
    /\ instances' = instances \cup WorkersOf(stage)
    /\ loaded' = loaded \cup {Plugin[stage]}
    /\ mpc' = "spawn"
    /\ UNCHANGED <<stage, toClose, outcome, stop, signaled, remaining, active, pc,
                   clean, qVars, dataVars>>

\* The catch block: an exception leaves the wiring; workers already run.
Catch ==
    /\ stop' = TRUE
    /\ mpc' = "close"
    /\ outcome' = "error"
    /\ clean' = FALSE

\* create_stage throws or the wiring is invalid; whatever instances of this
\* stage exist are destroyed, its library may stay loaded.
WireThrow ==
    /\ mpc = "wire" /\ stage \in Stages
    /\ Catch
    /\ loaded' \in {loaded, loaded \cup {Plugin[stage]}}
    /\ UNCHANGED <<stage, toClose, signaled, remaining, active, pc, instances,
                   qVars, dataVars>>

\* One worker thread is counted and started.
Spawn(w) ==
    /\ mpc = "spawn" /\ StageOf[w] = stage /\ pc[w] = "none"
    /\ active' = active + 1
    /\ pc' = [pc EXCEPT ![w] = "loop"]
    /\ UNCHANGED <<mainVars, stop, signaled, remaining, clean, qVars, regVars, dataVars>>

\* A queue is not declared, an instance has another interface or the thread
\* cannot be created; the instances of the missing workers stay
\* in the registry.
SpawnThrow ==
    /\ mpc = "spawn"
    /\ \E w \in WorkersOf(stage) : pc[w] = "none"
    /\ Catch
    /\ UNCHANGED <<stage, toClose, signaled, remaining, active, pc, qVars, regVars,
                   dataVars>>

NextStage ==
    /\ mpc = "spawn"
    /\ \A w \in WorkersOf(stage) : pc[w] # "none"
    /\ stage' = stage + 1
    /\ mpc' = "wire"
    /\ UNCHANGED <<toClose, outcome, stop, signaled, remaining, active, pc, clean,
                   qVars, regVars, dataVars>>

\* All stages are wired.  A job whose workers are all gone already stops here.
WiringDone ==
    /\ mpc = "wire" /\ stage = NStages + 1
    /\ stop' = (stop \/ (JobMode /\ active = 0))
    /\ mpc' = "run"
    /\ UNCHANGED <<stage, toClose, outcome, signaled, remaining, active, pc, clean,
                   qVars, regVars, dataVars>>

\* SignalHandler::relay, polled by the main loop.
Relay ==
    /\ mpc = "run" /\ ~stop /\ signaled
    /\ stop' = TRUE
    /\ UNCHANGED <<mainVars, signaled, remaining, active, pc, clean, qVars, regVars,
                   dataVars>>

\* Seeded fault: the queues are not closed before the join.
LeaveLoopWithoutClose ==
    /\ mpc = "run" /\ stop
    /\ mpc' = "join"
    /\ UNCHANGED <<stage, toClose, outcome, stop, signaled, remaining, active, pc,
                   clean, qVars, regVars, dataVars>>
\* The main loop sees the stop.
LeaveLoop ==
    /\ mpc = "run" /\ stop
    /\ mpc' = "close"
    /\ UNCHANGED <<stage, toClose, outcome, stop, signaled, remaining, active, pc,
                   clean, qVars, regVars, dataVars>>

CloseQueue(q) ==
    /\ mpc = "close" /\ q \in toClose
    /\ closed' = [closed EXCEPT ![q] = TRUE]
    /\ toClose' = toClose \ {q}
    /\ mpc' = IF toClose = {q} THEN "join" ELSE "close"
    /\ UNCHANGED <<stage, outcome, stop, signaled, queue, remaining, active, pc,
                   clean, regVars, dataVars>>

\* Seeded fault: the threads are detached instead of joined.
NotJoined == TRUE
\* join_workers returns when every started thread has ended.
Joined == \A w \in Workers : pc[w] \in {"none", "done"}
Join ==
    /\ mpc = "join"
    /\ Joined
    /\ mpc' = "shutdown"
    /\ UNCHANGED <<stage, toClose, outcome, stop, signaled, remaining, active, pc,
                   clean, qVars, regVars, dataVars>>

\* StageRegistry::shutdown destroys what is left and unloads the libraries;
\* then run() returns 0 or rethrows.
Shutdown ==
    /\ mpc = "shutdown"
    /\ instances' = {} /\ loaded' = {}
    /\ outcome' = IF outcome = "error" THEN "error" ELSE "ok"
    /\ mpc' = "done"
    /\ UNCHANGED <<stage, toClose, stop, signaled, remaining, active, pc, clean,
                   qVars, dataVars>>

\* SIGINT or SIGTERM arrives.
Signal ==
    /\ mpc # "done" /\ ~signaled
    /\ signaled' = TRUE
    /\ clean' = FALSE
    /\ UNCHANGED <<mainVars, stop, remaining, active, pc, qVars, regVars, dataVars>>

Main ==
    \/ CreateStage \/ WireThrow \/ SpawnThrow \/ NextStage \/ WiringDone
    \/ \E w \in Workers : Spawn(w)
    \/ Relay \/ LeaveLoop \/ Join \/ Shutdown
    \/ \E q \in Queues : CloseQueue(q)

-----------------------------------------------------------------------------
(* The runners: RunSourceStage, RunTransformStage, RunSinkStage. *)

Goto(w, l) == pc' = [pc EXCEPT ![w] = l]

\* ValidateInputSchema and ApplyOutputSchema; the latter stamps the queue's
\* schema on a payload that has none.
InputOk(q, schema) == QueueSchema[q] = NoSchema \/ schema = QueueSchema[q]
OutputAny(q, schema) == TRUE \* seeded fault: no check on the output side
OutputOk(q, schema) == QueueSchema[q] = NoSchema \/ schema \in {NoSchema, QueueSchema[q]}
Stamp(q, schema) == IF schema = NoSchema THEN QueueSchema[q] ELSE schema

\* Schema ids a stage's code may leave on a payload that came with `schema`.
Emitted(w, schema) == {IF e = Keep THEN schema ELSE e : e \in Emits[StageOf[w]]}

\* while (!stop_requested()): a source calls produce(), the others pop().
LoopTop(w) ==
    /\ pc[w] = "loop"
    /\ Goto(w, IF stop THEN "fin" ELSE IF KindOf(w) = "source" THEN "work" ELSE "pop")
    /\ UNCHANGED <<mainVars, stop, signaled, remaining, active, clean, qVars, regVars,
                   dataVars>>

\* A payload with this id and schema is handed to the output queue's schema
\* check: push it, or drop it and go on.
Emit(w, id, schema) ==
    IF OutputOk(OutOf(w), schema)
    THEN /\ held' = [held EXCEPT ![w] = [id |-> id, schema |-> Stamp(OutOf(w), schema)]]
         /\ Goto(w, "push")
         /\ UNCHANGED dropped
    ELSE /\ held' = [held EXCEPT ![w] = NoPayload]
         /\ Goto(w, "loop")
         /\ dropped' = dropped \cup {id}

Produce(w) ==
    /\ pc[w] = "work" /\ KindOf(w) = "source"
    /\ count[w] < MaxProduce
    /\ count' = [count EXCEPT ![w] = @ + 1]
    /\ \E schema \in Emitted(w, NoSchema) : Emit(w, <<w, count[w] + 1>>, schema)
    /\ UNCHANGED <<mainVars, stop, signaled, remaining, active, consumed, clean,
                   qVars, regVars>>

\* produce() returns false.
EndOfStream(w) ==
    /\ pc[w] = "work" /\ KindOf(w) = "source"
    /\ Goto(w, "fin")
    /\ UNCHANGED <<mainVars, stop, signaled, remaining, active, clean, qVars, regVars,
                   dataVars>>

Process(w) ==
    /\ pc[w] = "work" /\ KindOf(w) = "transform"
    /\ \E schema \in Emitted(w, held[w].schema) : Emit(w, held[w].id, schema)
    /\ UNCHANGED <<mainVars, stop, signaled, remaining, active, count, consumed, clean,
                   qVars, regVars>>

Consume(w) ==
    /\ pc[w] = "work" /\ KindOf(w) = "sink"
    /\ consumed' = Append(consumed, held[w].id)
    /\ held' = [held EXCEPT ![w] = NoPayload]
    /\ Goto(w, "loop")
    /\ UNCHANGED <<mainVars, stop, signaled, remaining, active, count, dropped, clean,
                   qVars, regVars>>

\* Stage code throws: request a stop; a transform then also closes its input.
Throw(w) ==
    /\ pc[w] = "work"
    /\ stop' = TRUE
    /\ clean' = FALSE
    /\ held' = [held EXCEPT ![w] = NoPayload]
    /\ Goto(w, IF KindOf(w) = "transform" THEN "abort" ELSE "fin")
    /\ UNCHANGED <<mainVars, signaled, remaining, active, count, consumed, dropped,
                   qVars, regVars>>

AbortClose(w) ==
    /\ pc[w] = "abort"
    /\ closed' = [closed EXCEPT ![InOf(w)] = TRUE]
    /\ Goto(w, "fin")
    /\ UNCHANGED <<mainVars, stop, signaled, queue, remaining, active, clean, regVars,
                   dataVars>>

\* Seeded faults: an off-by-one bound; a payload copied instead of moved.
PushAllowedOffByOne(q) == ~stop /\ ~closed[q] /\ Len(queue[q]) <= Capacity[q]
PushKeeps(w) ==
    /\ pc[w] = "push" /\ ~stop /\ ~closed[OutOf(w)]
    /\ Len(queue[OutOf(w)]) < Capacity[OutOf(w)]
    /\ queue' = [queue EXCEPT ![OutOf(w)] = Append(@, held[w])]
    /\ Goto(w, "loop")
    /\ UNCHANGED <<mainVars, stop, signaled, closed, remaining, active, clean, regVars,
                   dataVars>>

\* When push() stores the payload.
PushAllowed(q) == ~stop /\ ~closed[q] /\ Len(queue[q]) < Capacity[q]

Push(w) ==
    /\ pc[w] = "push" /\ PushAllowed(OutOf(w))
    /\ queue' = [queue EXCEPT ![OutOf(w)] = Append(@, held[w])]
    /\ held' = [held EXCEPT ![w] = NoPayload]
    /\ Goto(w, "loop")
    /\ UNCHANGED <<mainVars, stop, signaled, closed, remaining, active, count, consumed,
                   dropped, clean, regVars>>

\* push() returns false: the payload is gone and the runner ends.
PushRefused(w) ==
    /\ pc[w] = "push"
    /\ stop \/ closed[OutOf(w)]
    /\ held' = [held EXCEPT ![w] = NoPayload]
    /\ Goto(w, "fin")
    /\ UNCHANGED <<mainVars, stop, signaled, remaining, active, count, consumed,
                   dropped, clean, qVars, regVars>>

\* pop() returns a payload; one that fails the input schema is dropped.
Pop(w) ==
    LET q == InOf(w)
        p == Head(queue[q])
        ok == InputOk(q, p.schema)
    IN  /\ pc[w] = "pop" /\ queue[q] # <<>>
        /\ queue' = [queue EXCEPT ![q] = Tail(@)]
        /\ held' = [held EXCEPT ![w] = IF ok THEN p ELSE NoPayload]
        /\ dropped' = IF ok THEN dropped ELSE dropped \cup {p.id}
        /\ Goto(w, IF ok THEN "work" ELSE "loop")
        /\ UNCHANGED <<mainVars, stop, signaled, closed, remaining, active, count,
                       consumed, clean, regVars>>

\* pop() returns std::nullopt.
PopNothing(w) ==
    /\ pc[w] = "pop" /\ queue[InOf(w)] = <<>>
    /\ stop \/ closed[InOf(w)]
    /\ Goto(w, "fin")
    /\ UNCHANGED <<mainVars, stop, signaled, remaining, active, clean, qVars, regVars,
                   dataVars>>

-----------------------------------------------------------------------------
(* The epilogue of each worker thread. *)

\* Seeded faults: the first producer closes; none does.
FirstProducer(q) == remaining[q] >= 1
NoProducerLeft(q) == remaining[q] = 0
\* fetch_sub(1) == 1 on the producer count of the queue.
LastProducer(q) == remaining[q] = 1

\* The last producer of the output queue goes on to close it.
Retire(w) ==
    /\ pc[w] = "fin"
    /\ IF OutOf(w) \in Queues
       THEN /\ remaining' = [remaining EXCEPT ![OutOf(w)] = @ - 1]
            /\ Goto(w, IF LastProducer(OutOf(w)) THEN "close" ELSE "destroy")
       ELSE Goto(w, "destroy") /\ UNCHANGED remaining
    /\ UNCHANGED <<mainVars, stop, signaled, active, clean, qVars, regVars, dataVars>>

CloseOutput(w) ==
    /\ pc[w] = "close"
    /\ closed' = [closed EXCEPT ![OutOf(w)] = TRUE]
    /\ Goto(w, "destroy")
    /\ UNCHANGED <<mainVars, stop, signaled, queue, remaining, active, clean, regVars,
                   dataVars>>

\* StageRegistry::destroy_stage.
DestroyStage(w) ==
    /\ pc[w] = "destroy"
    /\ instances' = instances \ {w}
    /\ Goto(w, "count")
    /\ UNCHANGED <<mainVars, stop, signaled, remaining, active, loaded, clean, qVars,
                   dataVars>>

AnyWorker == JobMode \* seeded fault: every worker that ends stops the job
\* fetch_sub(1) == 1 on active_workers, in a job.
LastWorker == JobMode /\ active = 1

\* The last worker of a job goes on to request the stop.
CountDown(w) ==
    /\ pc[w] = "count"
    /\ active' = active - 1
    /\ Goto(w, IF LastWorker THEN "last" ELSE "done")
    /\ UNCHANGED <<mainVars, stop, signaled, remaining, clean, qVars, regVars, dataVars>>

AutoStop(w) ==
    /\ pc[w] = "last"
    /\ stop' = TRUE
    /\ Goto(w, "done")
    /\ UNCHANGED <<mainVars, signaled, remaining, active, clean, qVars, regVars, dataVars>>

StageCode(w) == Produce(w) \/ EndOfStream(w) \/ Process(w) \/ Consume(w) \/ Throw(w)
Epilogue(w) ==
    Retire(w) \/ CloseOutput(w) \/ DestroyStage(w) \/ CountDown(w) \/ AutoStop(w)
QueueCall(w) == Push(w) \/ PushRefused(w) \/ Pop(w) \/ PopNothing(w)
Worker(w) == LoopTop(w) \/ StageCode(w) \/ AbortClose(w) \/ QueueCall(w) \/ Epilogue(w)

Next ==
    \/ Main
    \/ Signal
    \/ \E w \in Workers : Worker(w)
    \/ mpc = "done" /\ UNCHANGED vars

\* A blocked queue call returns once there is room, a payload, or a close:
\* what AbstractQueue promises.  A stop alone may go unnoticed.
QueueCallFair(w) ==
    \/ Push(w) \/ Pop(w)
    \/ PushRefused(w) /\ closed[OutOf(w)]
    \/ PopNothing(w) /\ closed[InOf(w)]

\* Threads are scheduled and stage code returns.  Nothing makes a signal come
\* or stage code throw.
Fairness ==
    /\ WF_vars(Main)
    /\ \A w \in Workers :
          /\ WF_vars(LoopTop(w) \/ AbortClose(w) \/ Epilogue(w))
          /\ WF_vars(StageCode(w))
          /\ WF_vars(QueueCallFair(w))

Spec == Init /\ [][Next]_vars /\ Fairness

-----------------------------------------------------------------------------
\* Where the copies of a payload are: in a worker's hands, in a queue, consumed.
Holders(id) == {w \in Workers : held[w] # NoPayload /\ held[w].id = id}
Slots(id) == UNION {{<<q, i>> : i \in {j \in DOMAIN queue[q] : queue[q][j].id = id}} :
                      q \in Queues}
Uses(id) == {i \in DOMAIN consumed : consumed[i] = id}

(***************************************************************************)
(* A payload is in at most one place and is consumed at most once, with    *)
(* competing consumers on the same queue, failing pushes and aborts.       *)
(***************************************************************************)
AtMostOnce ==
    \A id \in PayloadIds :
        Cardinality(Holders(id)) + Cardinality(Slots(id)) + Cardinality(Uses(id))
          + (IF id \in dropped THEN 1 ELSE 0) <= 1

(***************************************************************************)
(* A queue is closed under a producer that still runs only after a stop:   *)
(* the producer count is taken over the whole spec before any worker is    *)
(* started, so a fast first producer cannot close the queue of the others. *)
(***************************************************************************)
NoEarlyClose ==
    \A q \in Queues :
        closed[q] => \/ stop
                     \/ \A w \in ProducersOf(q) : pc[w] \in EpiloguePcs

(***************************************************************************)
(* A worker never runs a stage that was destroyed or whose library is      *)
(* unloaded, also when the wiring fails while earlier workers run.         *)
(***************************************************************************)
NoUseAfterDestroy ==
    \A w \in Workers :
        pc[w] \in LoopPcs => w \in instances /\ Plugin[StageOf[w]] \in loaded

(***************************************************************************)
(* Every queued payload carries its queue's schema, so the check on the    *)
(* input side (ValidateInputSchema) never drops one.                       *)
(***************************************************************************)
QueuedSchema ==
    \A q \in Queues : \A i \in DOMAIN queue[q] : InputOk(q, queue[q][i].schema)

\* Every payload produced so far was consumed or dropped for its schema.
Drained ==
    \A w \in Workers : \A n \in 1 .. count[w] :
        <<w, n>> \in dropped \/ Uses(<<w, n>>) # {}

(***************************************************************************)
(* A job in which nothing fails is stopped only once it is drained: the    *)
(* active-worker count reaches zero after the last payload, not before.    *)
(* Holds under ConsumersFirst; a job that starts a second pipeline after   *)
(* the first one ended is stopped while the second one runs.               *)
(***************************************************************************)
JobStopsDrained == (JobMode /\ stop /\ clean) => Drained

(***************************************************************************)
(* README.md: a job is to "run once, drain, and exit".  A job that ends    *)
(* without a failure or a signal has drained, whatever the stage order.    *)
(***************************************************************************)
JobDrains == (JobMode /\ mpc = "done" /\ clean) => Drained

\* After a stop request or a signal run() ends with every worker joined: no
\* worker stays blocked in a queue (runtime.cc: close_runtime_queues, join).
StopEnds == (stop \/ signaled) ~> (mpc = "done")

\* A job whose sources end comes to an end by itself.
JobEnds == JobMode => <>(mpc = "done")

-----------------------------------------------------------------------------
(* The inductive invariant behind the safety theorems. *)

\* What a worker's position says about its stage and the payload it holds.
PcShape ==
    \A w \in Workers :
        /\ pc[w] # "none" => WiringValid(StageOf[w])
        /\ pc[w] = "pop" => KindOf(w) \in {"transform", "sink"}
        /\ pc[w] = "work" /\ KindOf(w) # "source" => held[w] \in Payload
        /\ pc[w] = "push" => KindOf(w) \in {"source", "transform"} /\ held[w] \in Payload
        /\ pc[w] = "abort" => KindOf(w) = "transform" /\ stop
        /\ pc[w] = "close" => OutOf(w) \in Queues

\* The two atomic counters count what they are meant to count.
UnretiredOf(q) == {w \in ProducersOf(q) : pc[w] \notin EpiloguePcs}
Uncounted == {w \in Workers : pc[w] \in LoopPcs \cup {"close", "destroy", "count"}}
Counts ==
    /\ \A q \in Queues : remaining[q] = Cardinality(UnretiredOf(q))
    /\ active = Cardinality(Uncounted)

\* Who may close a queue: its last producer, or anyone after a stop.
CloseRights ==
    /\ NoEarlyClose
    /\ \A w \in Workers : pc[w] = "close" => UnretiredOf(OutOf(w)) = {}
    /\ mpc \in {"close", "join", "shutdown", "done"} => stop

\* Instances outlive the threads that use them.
Ownership ==
    /\ \A w \in Workers :
          pc[w] \in LoopPcs \cup {"close", "destroy"}
              => w \in instances /\ Plugin[StageOf[w]] \in loaded
    /\ mpc = "spawn" =>
          /\ stage \in Stages /\ WiringValid(stage)
          /\ Plugin[stage] \in loaded
          /\ \A w \in WorkersOf(stage) : pc[w] = "none" => w \in instances
    /\ mpc \in {"shutdown", "done"} => Joined

RuntimeInv == TypeOK /\ PcShape /\ Counts /\ CloseRights /\ Ownership

\* Where a payload may be, without counting: in one place or in none.
Lone(S) == \A a, b \in S : a = b
InOnePlace(id) ==
    /\ Lone(Holders(id)) /\ Lone(Slots(id)) /\ Lone(Uses(id))
    /\ Holders(id) # {} => Slots(id) = {} /\ Uses(id) = {} /\ id \notin dropped
    /\ Slots(id) # {} => Uses(id) = {} /\ id \notin dropped
    /\ Uses(id) # {} => id \notin dropped
Nowhere(id) ==
    Holders(id) = {} /\ Slots(id) = {} /\ Uses(id) = {} /\ id \notin dropped

\* Payloads are moved, never copied; the next id of a source is unused.
Moved ==
    /\ \A id \in PayloadIds : InOnePlace(id)
    /\ \A w \in Workers : \A n \in 1 .. MaxProduce : n > count[w] => Nowhere(<<w, n>>)

\* What a worker has in its hands, and what it may push.
Hands ==
    \A w \in Workers :
        /\ held[w] # NoPayload =>
              pc[w] = "push" \/ (pc[w] = "work" /\ KindOf(w) # "source")
        /\ pc[w] = "push" => InputOk(OutOf(w), held[w].schema)

DataInv == Moved /\ Hands /\ QueuedSchema

\* The stage order under which a job drains: sources are listed last, every
\* stage after those that consume what it emits, and somebody does.
ConsumersFirst ==
    /\ \A s \in Stages : WiringValid(s) /\ WorkersOf(s) # {}
    /\ \A s, t \in Stages : Kind[s] = "source" /\ Kind[t] # "source" => t < s
    /\ \A s, t \in Stages : Out[s] \in Queues /\ In[t] = Out[s] => t < s
    /\ \A s \in Stages : Out[s] \in Queues => \E t \in Stages : In[t] = Out[s]

\* Stages start in the order of the spec.
Started ==
    /\ signaled => ~clean
    /\ \A w \in Workers :
          /\ mpc \in {"wire", "spawn"} /\ StageOf[w] < stage => pc[w] # "none"
          /\ mpc = "wire" /\ StageOf[w] >= stage => pc[w] = "none"
          /\ mpc = "spawn" /\ StageOf[w] > stage => pc[w] = "none"
          /\ mpc = "run" => pc[w] # "none"

\* While nothing fails and nobody asked for a stop, every payload is somewhere,
\* a consumer ends only on a closed and empty queue, and only a queue that has
\* producers is closed.
Undisturbed ==
    /\ \A w \in Workers : \A n \in 1 .. count[w] : ~Nowhere(<<w, n>>)
    /\ \A w \in Workers : KindOf(w) # "source" /\ pc[w] \in {"fin"} \cup EpiloguePcs
                            => closed[InOf(w)] /\ queue[InOf(w)] = <<>>
    /\ \A q \in Queues : closed[q] \/ queue[q] # <<>> => ProducersOf(q) # {}
    /\ \A w \in Workers : pc[w] = "last" => \A v \in Workers : pc[v] \in {"last", "done"}

JobInv ==
    /\ Started
    /\ clean /\ ~stop => Undisturbed
    /\ clean /\ stop => Drained /\ \A w \in Workers : pc[w] \in {"last", "done"}
=============================================================================
