--------------------------- MODULE RuntimeProofs ---------------------------
(***************************************************************************)
(* Proofs about Runtime for every pipeline: any number of stages, workers  *)
(* and queues, any wiring, capacities, schemas and execution mode.         *)
(***************************************************************************)
EXTENDS Runtime, FiniteSetTheorems, TLAPS

\* A finite set and the same set without one of its members.
LEMMA CardRemove ==
  ASSUME NEW S, NEW e, IsFiniteSet(S), e \in S
  PROVE  /\ Cardinality(S) \in Nat /\ Cardinality(S) - 1 \in Nat
         /\ Cardinality(S \ {e}) = Cardinality(S) - 1
         /\ Cardinality(S) = 1 => S \ {e} = {}
<1>1. IsFiniteSet(S \ {e}) /\ Cardinality(S \ {e}) = Cardinality(S) - 1
  BY FS_RemoveElement
<1>2. Cardinality(S \ {e}) \in Nat /\ Cardinality(S) \in Nat
  BY <1>1, FS_CardinalityType
<1>3. Cardinality(S \ {e}) = 0 => S \ {e} = {}
  BY <1>1, FS_EmptySet
<1> QED BY <1>1, <1>2, <1>3

\* The sets the two counters count are finite.
LEMMA CountedFinite ==
  ASSUME NEW q
  PROVE  /\ IsFiniteSet(ProducersOf(q)) /\ IsFiniteSet(UnretiredOf(q)) /\ IsFiniteSet(Uncounted)
         /\ Cardinality(ProducersOf(q)) \in Nat
<1>1. ProducersOf(q) \subseteq Workers /\ UnretiredOf(q) \subseteq Workers /\ Uncounted \subseteq Workers
  BY DEF ProducersOf, UnretiredOf, Uncounted
<1>2. IsFiniteSet(ProducersOf(q)) /\ IsFiniteSet(UnretiredOf(q)) /\ IsFiniteSet(Uncounted)
  BY <1>1, FS_Subset, RuntimeAssumption
<1> QED BY <1>2, FS_CardinalityType

\* A stage's output schema id is stamped or checked into the payload type.
LEMMA EmitType ==
  ASSUME TypeOK, NEW w \in Workers, NEW id \in PayloadIds,
         NEW given \in Schemas \cup {NoSchema}, NEW schema \in Emitted(w, given),
         OutOf(w) \in Queues, Emit(w, id, schema)
  PROVE  /\ held' \in [Workers -> Payload \cup {NoPayload}]
         /\ pc' \in [Workers -> {"none"} \cup LoopPcs \cup EpiloguePcs]
         /\ dropped' \subseteq PayloadIds
         /\ pc' \in {[pc EXCEPT ![w] = "push"], [pc EXCEPT ![w] = "loop"]}
         /\ pc'[w] = "push" => held'[w] \in Payload
         /\ \A v \in Workers \ {w} : held'[v] = held[v]
<1>1. schema \in Schemas \cup {NoSchema}
  BY RuntimeAssumption DEF Emitted
<1>2. Stamp(OutOf(w), schema) \in Schemas \cup {NoSchema}
  BY <1>1, RuntimeAssumption DEF Stamp
<1>3. [id |-> id, schema |-> Stamp(OutOf(w), schema)] \in Payload
  BY <1>2 DEF Payload
<1>4. CASE OutputOk(OutOf(w), schema)
  BY <1>3, <1>4 DEF Emit, Goto, TypeOK, LoopPcs
<1>5. CASE ~OutputOk(OutOf(w), schema)
  BY <1>5 DEF Emit, Goto, TypeOK, LoopPcs
<1> QED BY <1>4, <1>5

-----------------------------------------------------------------------------
\* The state run() starts from.
LEMMA RuntimeInit == Init => RuntimeInv
<1> SUFFICES ASSUME Init PROVE RuntimeInv
  OBVIOUS
<1>1. TypeOK
  <2>1. \A q \in Queues : Cardinality(ProducersOf(q)) \in Nat
    BY CountedFinite
  <2>2. \A q \in Queues : Len(queue[q]) <= Capacity[q] /\ queue[q] = <<>>
    BY RuntimeAssumption DEF Init
  <2>3. 1 \in 1 .. NStages + 1 /\ 0 \in 0 .. MaxProduce /\ <<>> \in Seq(PayloadIds)
    BY RuntimeAssumption
  <2>4. queue \in [Queues -> Seq(Payload)]
    BY DEF Init
  <2>5. remaining \in [Queues -> Nat]
    BY <2>1 DEF Init
  <2> QED BY <2>2, <2>3, <2>4, <2>5 DEF Init, TypeOK
<1>2. PcShape
  BY DEF Init, PcShape
<1>3. Counts
  <2>1. \A q \in Queues : UnretiredOf(q) = ProducersOf(q)
    BY DEF Init, UnretiredOf, ProducersOf, EpiloguePcs
  <2>2. Uncounted = {}
    BY DEF Init, Uncounted, LoopPcs
  <2> QED BY <2>1, <2>2, FS_EmptySet DEF Init, Counts
<1>4. CloseRights
  BY DEF Init, CloseRights, NoEarlyClose
<1>5. Ownership
  BY DEF Init, Ownership, LoopPcs
<1> QED BY <1>1, <1>2, <1>3, <1>4, <1>5 DEF RuntimeInv

\* Types are preserved by every step of the main thread and of the signal.
LEMMA TypeMain == RuntimeInv /\ (Main \/ Signal) => TypeOK'
<1> SUFFICES ASSUME RuntimeInv, Main \/ Signal PROVE TypeOK'
  OBVIOUS
<1> USE DEF mainVars, qVars, regVars, dataVars
<1>t. TypeOK
  BY DEF RuntimeInv
<1>1. CASE CreateStage
  BY <1>1, <1>t, RuntimeAssumption DEF TypeOK, CreateStage, WorkersOf
<1>2. CASE WireThrow
  <2>1. Plugin[stage] \in Plugins
    BY <1>2, RuntimeAssumption DEF WireThrow
  <2>2. loaded' \subseteq Plugins
    BY <1>2, <1>t, <2>1 DEF WireThrow, TypeOK
  <2> QED BY <1>2, <1>t, <2>2 DEF TypeOK, WireThrow, Catch
<1>3. CASE SpawnThrow
  BY <1>3, <1>t DEF TypeOK, SpawnThrow, Catch
<1>4. CASE NextStage
  <2>1. stage' \in 1 .. NStages + 1
    BY <1>4, RuntimeAssumption DEF NextStage, RuntimeInv, Ownership, Stages
  <2> QED BY <1>4, <1>t, <2>1 DEF TypeOK, NextStage
<1>5. CASE WiringDone
  BY <1>5, <1>t DEF TypeOK, WiringDone
<1>6. ASSUME NEW w \in Workers, Spawn(w) PROVE TypeOK'
  BY <1>6, <1>t DEF TypeOK, Spawn, LoopPcs
<1>7. CASE Relay
  BY <1>7, <1>t DEF TypeOK, Relay
<1>8. CASE LeaveLoop
  BY <1>8, <1>t DEF TypeOK, LeaveLoop
<1>9. CASE Join
  BY <1>9, <1>t DEF TypeOK, Join
<1>10. CASE Shutdown
  BY <1>10, <1>t DEF TypeOK, Shutdown
<1>11. ASSUME NEW q \in Queues, CloseQueue(q) PROVE TypeOK'
  BY <1>11, <1>t DEF TypeOK, CloseQueue
<1>12. CASE Signal
  BY <1>12, <1>t DEF TypeOK, Signal
<1> QED
  BY <1>1, <1>2, <1>3, <1>4, <1>5, <1>6, <1>7, <1>8, <1>9, <1>10, <1>11, <1>12 DEF Main

\* Facts about a worker that is inside a queue call.
LEMMA EndsExist ==
  ASSUME RuntimeInv, NEW w \in Workers, pc[w] # "none"
  PROVE  /\ KindOf(w) \in {"transform", "sink"} => InOf(w) \in Queues
         /\ KindOf(w) \in {"source", "transform"} => OutOf(w) \in Queues
         /\ KindOf(w) = "sink" => OutOf(w) \notin Queues
         /\ KindOf(w) \in {"source", "transform", "sink"}
<1>1. WiringValid(StageOf[w]) /\ StageOf[w] \in Stages
  BY RuntimeAssumption DEF RuntimeInv, PcShape
<1> QED BY <1>1, RuntimeAssumption DEF WiringValid, InOf, OutOf, KindOf

\* Types are preserved by the runners' steps and by the epilogue.
LEMMA TypeWorker ==
  ASSUME RuntimeInv, NEW w \in Workers, Worker(w)
  PROVE  TypeOK'
<1> USE DEF mainVars, qVars, regVars, dataVars
<1>t. TypeOK
  BY DEF RuntimeInv
<1>g. \A l \in LoopPcs \cup EpiloguePcs :
         [pc EXCEPT ![w] = l] \in [Workers -> {"none"} \cup LoopPcs \cup EpiloguePcs]
  BY <1>t DEF TypeOK
<1>1. CASE LoopTop(w)
  BY <1>1, <1>t, <1>g DEF TypeOK, LoopTop, Goto, LoopPcs
<1>2. CASE Produce(w)
  <2>1. OutOf(w) \in Queues
    BY <1>2, EndsExist DEF Produce
  <2>2. count[w] + 1 \in 0 .. MaxProduce /\ <<w, count[w] + 1>> \in PayloadIds
    BY <1>2, <1>t, RuntimeAssumption DEF TypeOK, Produce, PayloadIds
  <2>3. PICK schema \in Emitted(w, NoSchema) : Emit(w, <<w, count[w] + 1>>, schema)
    BY <1>2 DEF Produce
  <2>4. /\ held' \in [Workers -> Payload \cup {NoPayload}]
        /\ pc' \in [Workers -> {"none"} \cup LoopPcs \cup EpiloguePcs]
        /\ dropped' \subseteq PayloadIds
    BY <1>t, <2>1, <2>2, <2>3, EmitType
  <2> QED BY <1>2, <1>t, <2>2, <2>4 DEF TypeOK, Produce
<1>3. CASE EndOfStream(w)
  BY <1>3, <1>t, <1>g DEF TypeOK, EndOfStream, Goto, LoopPcs
<1>4. CASE Process(w)
  <2>1. OutOf(w) \in Queues
    BY <1>4, EndsExist DEF Process
  <2>2. held[w].id \in PayloadIds /\ held[w].schema \in Schemas \cup {NoSchema}
    BY <1>4 DEF Process, RuntimeInv, PcShape, Payload
  <2>3. PICK schema \in Emitted(w, held[w].schema) : Emit(w, held[w].id, schema)
    BY <1>4 DEF Process
  <2>4. /\ held' \in [Workers -> Payload \cup {NoPayload}]
        /\ pc' \in [Workers -> {"none"} \cup LoopPcs \cup EpiloguePcs]
        /\ dropped' \subseteq PayloadIds
    BY <1>t, <2>1, <2>2, <2>3, EmitType
  <2> QED BY <1>4, <1>t, <2>4 DEF TypeOK, Process
<1>5. CASE Consume(w)
  <2>1. held[w].id \in PayloadIds
    BY <1>5 DEF Consume, RuntimeInv, PcShape, Payload
  <2>2. consumed' \in Seq(PayloadIds)
    BY <1>5, <1>t, <2>1 DEF TypeOK, Consume
  <2> QED BY <1>5, <1>t, <1>g, <2>2 DEF TypeOK, Consume, Goto, LoopPcs
<1>6. CASE Throw(w)
  BY <1>6, <1>t, <1>g DEF TypeOK, Throw, Goto, LoopPcs
<1>7. CASE AbortClose(w)
  BY <1>7, <1>t, <1>g DEF TypeOK, AbortClose, Goto, LoopPcs
<1>8. CASE Push(w)
  <2>1. OutOf(w) \in Queues /\ held[w] \in Payload
    BY <1>8, EndsExist DEF Push, RuntimeInv, PcShape
  <2>2. /\ queue[OutOf(w)] \in Seq(Payload) /\ Capacity[OutOf(w)] \in Nat
        /\ Len(queue[OutOf(w)]) < Capacity[OutOf(w)]
    BY <1>8, <1>t, <2>1, RuntimeAssumption DEF TypeOK, Push, PushAllowed
  <2>3. /\ Append(queue[OutOf(w)], held[w]) \in Seq(Payload)
        /\ Len(Append(queue[OutOf(w)], held[w])) <= Capacity[OutOf(w)]
    BY <2>1, <2>2
  <2>4. /\ queue' \in [Queues -> Seq(Payload)]
        /\ \A q \in Queues : Len(queue'[q]) <= Capacity[q]
    BY <1>8, <1>t, <2>1, <2>3 DEF TypeOK, Push
  <2> QED BY <1>8, <1>t, <1>g, <2>4 DEF TypeOK, Push, Goto, LoopPcs
<1>9. CASE PushRefused(w)
  BY <1>9, <1>t, <1>g DEF TypeOK, PushRefused, Goto, LoopPcs
<1>10. CASE Pop(w)
  <2>1. InOf(w) \in Queues
    BY <1>10, EndsExist DEF Pop, RuntimeInv, PcShape
  <2>2. /\ queue[InOf(w)] \in Seq(Payload) /\ Capacity[InOf(w)] \in Nat
        /\ queue[InOf(w)] # <<>> /\ Len(queue[InOf(w)]) <= Capacity[InOf(w)]
    BY <1>10, <1>t, <2>1, RuntimeAssumption DEF TypeOK, Pop
  <2>3. /\ Tail(queue[InOf(w)]) \in Seq(Payload) /\ Head(queue[InOf(w)]) \in Payload
        /\ Len(Tail(queue[InOf(w)])) <= Capacity[InOf(w)]
    BY <2>2
  <2>4. /\ queue' \in [Queues -> Seq(Payload)]
        /\ \A q \in Queues : Len(queue'[q]) <= Capacity[q]
    BY <1>10, <1>t, <2>1, <2>3 DEF TypeOK, Pop
  <2>5. dropped' \subseteq PayloadIds /\ held' \in [Workers -> Payload \cup {NoPayload}]
    BY <1>10, <1>t, <2>3 DEF TypeOK, Pop, Payload
  <2> QED BY <1>10, <1>t, <1>g, <2>4, <2>5 DEF TypeOK, Pop, Goto, LoopPcs
<1>11. CASE PopNothing(w)
  BY <1>11, <1>t, <1>g DEF TypeOK, PopNothing, Goto, LoopPcs
<1>12. CASE Retire(w)
  <2>1. CASE OutOf(w) \in Queues
    <3>1. w \in UnretiredOf(OutOf(w))
      BY <1>12 DEF Retire, UnretiredOf, ProducersOf, EpiloguePcs
    <3>2. Cardinality(UnretiredOf(OutOf(w))) - 1 \in Nat
      <4>1. IsFiniteSet(UnretiredOf(OutOf(w)))
        BY CountedFinite
      <4> QED BY <3>1, <4>1, CardRemove
    <3>3. remaining[OutOf(w)] - 1 \in Nat
      BY <2>1, <3>2 DEF RuntimeInv, Counts
    <3> QED BY <1>12, <1>t, <1>g, <2>1, <3>3 DEF TypeOK, Retire, Goto, EpiloguePcs
  <2>2. CASE OutOf(w) \notin Queues
    BY <1>12, <1>t, <1>g, <2>2 DEF TypeOK, Retire, Goto, EpiloguePcs
  <2> QED BY <2>1, <2>2
<1>13. CASE CloseOutput(w)
  BY <1>13, <1>t, <1>g DEF TypeOK, CloseOutput, Goto, EpiloguePcs
<1>14. CASE DestroyStage(w)
  BY <1>14, <1>t, <1>g DEF TypeOK, DestroyStage, Goto, EpiloguePcs
<1>15. CASE CountDown(w)
  <2>1. w \in Uncounted
    BY <1>15 DEF CountDown, Uncounted
  <2>2. active - 1 \in Nat
    BY <2>1, CountedFinite, CardRemove DEF RuntimeInv, Counts
  <2> QED BY <1>15, <1>t, <1>g, <2>2 DEF TypeOK, CountDown, Goto, EpiloguePcs
<1>16. CASE AutoStop(w)
  BY <1>16, <1>t, <1>g DEF TypeOK, AutoStop, Goto, EpiloguePcs
<1> QED
  BY <1>1, <1>2, <1>3, <1>4, <1>5, <1>6, <1>7, <1>8, <1>9, <1>10, <1>11, <1>12, <1>13,
     <1>14, <1>15, <1>16 DEF Worker, StageCode, QueueCall, Epilogue

-----------------------------------------------------------------------------
\* A step of the runner itself: the thread stays in the loop, or leaves it for
\* the epilogue without having touched a counter or the registry.
RunnerStep(w) ==
    /\ pc[w] \in LoopPcs \ {"fin"}
    /\ pc'[w] \in LoopPcs
    /\ UNCHANGED <<remaining, active, instances>>
    /\ \/ closed' = closed
       \/ stop /\ closed' = [closed EXCEPT ![InOf(w)] = TRUE]

\* What a worker's step leaves alone, and which of six steps it is.
LEMMA WorkerFrame ==
  ASSUME RuntimeInv, NEW w \in Workers, Worker(w)
  PROVE  /\ \A v \in Workers \ {w} : pc'[v] = pc[v] /\ held'[v] = held[v]
         /\ UNCHANGED <<mpc, stage, toClose, outcome, loaded>>
         /\ stop => stop'
         /\ RunnerStep(w) \/ Retire(w) \/ CloseOutput(w) \/ DestroyStage(w)
              \/ CountDown(w) \/ AutoStop(w)
<1> USE DEF mainVars, qVars, regVars, dataVars
<1>t. TypeOK
  BY DEF RuntimeInv
<1> DEFINE Frame == /\ \A v \in Workers \ {w} : pc'[v] = pc[v] /\ held'[v] = held[v]
                    /\ UNCHANGED <<mpc, stage, toClose, outcome, loaded>>
                    /\ stop => stop'
<1>1. CASE LoopTop(w) \/ EndOfStream(w) \/ Consume(w) \/ Throw(w)
  <2>1. Frame
    BY <1>1, <1>t DEF TypeOK, LoopTop, EndOfStream, Consume, Throw, Goto
  <2>2. RunnerStep(w)
    BY <1>1, <1>t DEF TypeOK, LoopTop, EndOfStream, Consume, Throw, Goto, RunnerStep, LoopPcs
  <2> QED BY <2>1, <2>2
<1>2. CASE Produce(w) \/ Process(w)
  <2>1. PICK id, schema : Emit(w, id, schema)
    BY <1>2 DEF Produce, Process
  <2>2. \A v \in Workers \ {w} : pc'[v] = pc[v] /\ held'[v] = held[v]
    BY <2>1, <1>t DEF TypeOK, Emit, Goto
  <2>3. pc'[w] \in LoopPcs
    BY <2>1, <1>t DEF TypeOK, Emit, Goto, LoopPcs
  <2>4. Frame
    BY <1>2, <2>2 DEF Produce, Process
  <2>5. RunnerStep(w)
    BY <1>2, <2>3 DEF Produce, Process, RunnerStep, LoopPcs
  <2> QED BY <2>4, <2>5
<1>3. CASE AbortClose(w)
  <2>1. Frame
    BY <1>3, <1>t DEF TypeOK, AbortClose, Goto
  <2>2. stop
    BY <1>3 DEF AbortClose, RuntimeInv, PcShape
  <2>3. RunnerStep(w)
    BY <1>3, <1>t, <2>2 DEF TypeOK, AbortClose, Goto, RunnerStep, LoopPcs
  <2> QED BY <2>1, <2>3
<1>4. CASE Push(w) \/ PushRefused(w) \/ PopNothing(w)
  <2>1. Frame
    BY <1>4, <1>t DEF TypeOK, Push, PushRefused, PopNothing, Goto
  <2>2. RunnerStep(w)
    BY <1>4, <1>t DEF TypeOK, Push, PushRefused, PopNothing, Goto, RunnerStep, LoopPcs
  <2> QED BY <2>1, <2>2
<1>5. CASE Pop(w)
  <2>1. Frame
    BY <1>5, <1>t DEF TypeOK, Pop, Goto
  <2>2. RunnerStep(w)
    BY <1>5, <1>t DEF TypeOK, Pop, Goto, RunnerStep, LoopPcs
  <2> QED BY <2>1, <2>2
<1>6. CASE Epilogue(w)
  <2>1. Frame
    BY <1>6, <1>t DEF TypeOK, Epilogue, Retire, CloseOutput, DestroyStage, CountDown,
       AutoStop, Goto
  <2> QED BY <1>6, <2>1 DEF Epilogue
<1> QED BY <1>1, <1>2, <1>3, <1>4, <1>5, <1>6 DEF Worker, StageCode, QueueCall

\* A step of the main thread or a signal: one worker at most leaves "none".
LEMMA MainFrame ==
  ASSUME RuntimeInv, Main \/ Signal
  PROVE  /\ UNCHANGED <<held, remaining, queue>>
         /\ stop => stop'
         /\ \/ UNCHANGED <<pc, active>>
            \/ \E w \in Workers : Spawn(w)
         /\ \/ UNCHANGED closed
            \/ \E q \in Queues : mpc = "close" /\ closed' = [closed EXCEPT ![q] = TRUE]
<1> USE DEF mainVars, qVars, regVars, dataVars
<1>t. stop \in BOOLEAN
  BY DEF RuntimeInv, TypeOK
<1>1. CASE CreateStage \/ WireThrow \/ SpawnThrow \/ NextStage \/ WiringDone \/ Relay
             \/ LeaveLoop \/ Join \/ Shutdown \/ Signal
  BY <1>1, <1>t DEF CreateStage, WireThrow, SpawnThrow, NextStage, WiringDone, Relay, LeaveLoop,
     Join, Shutdown, Signal, Catch
<1>2. ASSUME NEW w \in Workers, Spawn(w)
      PROVE  UNCHANGED <<held, remaining, queue, closed, stop>>
  BY <1>2 DEF Spawn
<1>3. ASSUME NEW q \in Queues, CloseQueue(q)
      PROVE  /\ UNCHANGED <<held, remaining, queue, stop, pc, active>>
             /\ mpc = "close" /\ closed' = [closed EXCEPT ![q] = TRUE]
  BY <1>3 DEF CloseQueue
<1> QED BY <1>1, <1>2, <1>3, <1>t DEF Main

-----------------------------------------------------------------------------
\* PcShape is preserved.
LEMMA ShapeMain == RuntimeInv /\ (Main \/ Signal) => PcShape'
<1> SUFFICES ASSUME RuntimeInv, Main \/ Signal PROVE PcShape'
  OBVIOUS
<1>t. TypeOK /\ PcShape
  BY DEF RuntimeInv
<1>1. CASE UNCHANGED <<pc, active>>
  BY <1>1, <1>t, MainFrame DEF PcShape
<1>2. ASSUME NEW w \in Workers, Spawn(w) PROVE PcShape'
  <2>1. WiringValid(StageOf[w])
    BY <1>2 DEF Spawn, RuntimeInv, Ownership
  <2>2. pc' = [pc EXCEPT ![w] = "loop"]
    BY <1>2 DEF Spawn
  <2>3. UNCHANGED held /\ (stop => stop')
    BY MainFrame
  <2> QED BY <1>t, <2>1, <2>2, <2>3 DEF PcShape, TypeOK
<1> QED BY <1>1, <1>2, MainFrame

\* ... and by the workers' steps.
LEMMA ShapeWorker ==
  ASSUME RuntimeInv, NEW w \in Workers, Worker(w)
  PROVE  PcShape'
<1> USE DEF mainVars, qVars, regVars, dataVars
<1>t. TypeOK /\ PcShape
  BY DEF RuntimeInv
<1>f. /\ \A v \in Workers \ {w} : pc'[v] = pc[v] /\ held'[v] = held[v]
      /\ stop => stop'
  BY WorkerFrame
<1>n. pc[w] # "none"
  BY DEF Worker, StageCode, QueueCall, Epilogue, LoopTop, Produce, EndOfStream, Process,
     Consume, Throw, AbortClose, Push, PushRefused, Pop, PopNothing, Retire, CloseOutput,
     DestroyStage, CountDown, AutoStop
<1>v. WiringValid(StageOf[w])
  BY <1>n, <1>t DEF PcShape
<1> SUFFICES /\ pc'[w] = "pop" => KindOf(w) \in {"transform", "sink"}
             /\ pc'[w] = "work" /\ KindOf(w) # "source" => held'[w] \in Payload
             /\ pc'[w] = "push" => KindOf(w) \in {"source", "transform"} /\ held'[w] \in Payload
             /\ pc'[w] = "abort" => KindOf(w) = "transform" /\ stop'
             /\ pc'[w] = "close" => OutOf(w) \in Queues
  BY <1>t, <1>f, <1>v DEF PcShape
<1>1. CASE LoopTop(w)
  BY <1>1, <1>t, <1>n, EndsExist DEF TypeOK, LoopTop, Goto
<1>2. CASE Produce(w)
  <2>1. OutOf(w) \in Queues
    BY <1>2, <1>n, EndsExist DEF Produce
  <2>2. <<w, count[w] + 1>> \in PayloadIds
    BY <1>2, <1>t, RuntimeAssumption DEF TypeOK, Produce, PayloadIds
  <2>3. PICK schema \in Emitted(w, NoSchema) : Emit(w, <<w, count[w] + 1>>, schema)
    BY <1>2 DEF Produce
  <2>4. /\ pc' \in {[pc EXCEPT ![w] = "push"], [pc EXCEPT ![w] = "loop"]}
        /\ pc'[w] = "push" => held'[w] \in Payload
    BY <1>t, <2>1, <2>2, <2>3, EmitType
  <2> QED BY <1>2, <1>t, <2>4 DEF TypeOK, Produce
<1>3. CASE Process(w)
  <2>1. OutOf(w) \in Queues
    BY <1>3, <1>n, EndsExist DEF Process
  <2>2. held[w].id \in PayloadIds /\ held[w].schema \in Schemas \cup {NoSchema}
    BY <1>3, <1>t DEF Process, PcShape, Payload
  <2>3. PICK schema \in Emitted(w, held[w].schema) : Emit(w, held[w].id, schema)
    BY <1>3 DEF Process
  <2>4. /\ pc' \in {[pc EXCEPT ![w] = "push"], [pc EXCEPT ![w] = "loop"]}
        /\ pc'[w] = "push" => held'[w] \in Payload
    BY <1>t, <2>1, <2>2, <2>3, EmitType
  <2> QED BY <1>3, <1>t, <2>4 DEF TypeOK, Process
<1>4. CASE EndOfStream(w) \/ Consume(w) \/ AbortClose(w) \/ Push(w) \/ PushRefused(w)
             \/ PopNothing(w)
  BY <1>4, <1>t DEF TypeOK, EndOfStream, Consume, AbortClose, Push, PushRefused,
     PopNothing, Goto
<1>5. CASE Throw(w)
  BY <1>5, <1>t DEF TypeOK, Throw, Goto
<1>6. CASE Pop(w)
  <2>1. InOf(w) \in Queues
    BY <1>6, <1>n, <1>t, EndsExist DEF Pop, PcShape
  <2>2. Head(queue[InOf(w)]) \in Payload
    <3>1. queue[InOf(w)] \in Seq(Payload) /\ queue[InOf(w)] # <<>>
      BY <1>6, <1>t, <2>1 DEF TypeOK, Pop
    <3> QED BY <3>1
  <2> QED BY <1>6, <1>t, <2>2 DEF TypeOK, Pop, Goto
<1>7. CASE Retire(w)
  BY <1>7, <1>t DEF TypeOK, Retire, Goto
<1>8. CASE CloseOutput(w) \/ DestroyStage(w) \/ CountDown(w) \/ AutoStop(w)
  BY <1>8, <1>t DEF TypeOK, CloseOutput, DestroyStage, CountDown, AutoStop, Goto
<1> QED
  BY <1>1, <1>2, <1>3, <1>4, <1>5, <1>6, <1>7, <1>8 DEF Worker, StageCode, QueueCall, Epilogue

-----------------------------------------------------------------------------
\* The counters stay exact.
LEMMA CountsMain == RuntimeInv /\ (Main \/ Signal) => Counts'
<1> SUFFICES ASSUME RuntimeInv, Main \/ Signal PROVE Counts'
  OBVIOUS
<1>t. TypeOK /\ Counts
  BY DEF RuntimeInv
<1>r. UNCHANGED remaining
  BY MainFrame
<1>1. CASE UNCHANGED <<pc, active>>
  BY <1>1, <1>r, <1>t DEF Counts, UnretiredOf, Uncounted
<1>2. ASSUME NEW w \in Workers, Spawn(w) PROVE Counts'
  <2>1. pc' = [pc EXCEPT ![w] = "loop"] /\ pc[w] = "none" /\ active' = active + 1
    BY <1>2 DEF Spawn
  <2>2. \A q : UnretiredOf(q)' = UnretiredOf(q)
    BY <2>1, <1>t DEF TypeOK, UnretiredOf, ProducersOf, EpiloguePcs
  <2>3. w \notin Uncounted /\ Uncounted' = Uncounted \cup {w}
    BY <2>1, <1>t DEF TypeOK, Uncounted, LoopPcs
  <2>4. Cardinality(Uncounted') = Cardinality(Uncounted) + 1
    BY <2>3, CountedFinite, FS_AddElement
  <2> QED BY <1>r, <1>t, <2>1, <2>2, <2>4 DEF Counts
<1> QED BY <1>1, <1>2, MainFrame

\* ... and through every worker's step.
LEMMA CountsWorker ==
  ASSUME RuntimeInv, NEW w \in Workers, Worker(w)
  PROVE  Counts'
<1>t. TypeOK /\ TypeOK' /\ Counts
  BY TypeWorker DEF RuntimeInv
<1>f. \A v \in Workers \ {w} : pc'[v] = pc[v]
  BY WorkerFrame
<1>1. CASE RunnerStep(w)
  <2>1. Uncounted' = Uncounted /\ \A q : UnretiredOf(q)' = UnretiredOf(q)
    BY <1>1, <1>t, <1>f DEF RunnerStep, Uncounted, UnretiredOf, ProducersOf, LoopPcs, EpiloguePcs
  <2> QED BY <1>1, <1>t, <2>1 DEF RunnerStep, Counts
<1>2. CASE Retire(w)
  <2>1. Uncounted' = Uncounted /\ active' = active
    BY <1>2, <1>t, <1>f DEF TypeOK, Retire, Goto, Uncounted, LoopPcs
  <2>2. /\ w \in UnretiredOf(OutOf(w))
        /\ UnretiredOf(OutOf(w))' = UnretiredOf(OutOf(w)) \ {w}
        /\ \A q : q # OutOf(w) => UnretiredOf(q)' = UnretiredOf(q)
    BY <1>2, <1>t, <1>f DEF TypeOK, Retire, Goto, UnretiredOf, ProducersOf, EpiloguePcs
  <2>3. IsFiniteSet(UnretiredOf(OutOf(w)))
    BY CountedFinite
  <2>4. Cardinality(UnretiredOf(OutOf(w)) \ {w}) = Cardinality(UnretiredOf(OutOf(w))) - 1
    BY <2>2, <2>3, CardRemove
  <2>5. \A q \in Queues : remaining'[q] = IF q = OutOf(w) THEN remaining[q] - 1 ELSE remaining[q]
    BY <1>2, <1>t DEF TypeOK, Retire
  <2> QED BY <1>t, <2>1, <2>2, <2>4, <2>5 DEF Counts
<1>3. CASE CloseOutput(w) \/ DestroyStage(w) \/ AutoStop(w)
  <2>1. /\ Uncounted' = Uncounted /\ \A q : UnretiredOf(q)' = UnretiredOf(q)
        /\ UNCHANGED <<remaining, active>>
    BY <1>3, <1>t, <1>f DEF TypeOK, CloseOutput, DestroyStage, AutoStop, Goto, Uncounted,
       UnretiredOf, ProducersOf, LoopPcs, EpiloguePcs
  <2> QED BY <1>t, <2>1 DEF Counts
<1>4. CASE CountDown(w)
  <2>1. /\ w \in Uncounted /\ Uncounted' = Uncounted \ {w}
        /\ \A q : UnretiredOf(q)' = UnretiredOf(q)
        /\ UNCHANGED remaining /\ active' = active - 1
    BY <1>4, <1>t, <1>f DEF TypeOK, CountDown, Goto, Uncounted, UnretiredOf, ProducersOf,
       LoopPcs, EpiloguePcs
  <2>2. Cardinality(Uncounted \ {w}) = Cardinality(Uncounted) - 1
    BY <2>1, CountedFinite, CardRemove
  <2> QED BY <1>t, <2>1, <2>2 DEF Counts
<1> QED BY <1>1, <1>2, <1>3, <1>4, WorkerFrame

-----------------------------------------------------------------------------
\* Only the last producer closes a queue before a stop.
LEMMA CloseMain == RuntimeInv /\ (Main \/ Signal) => CloseRights'
<1> SUFFICES ASSUME RuntimeInv, Main \/ Signal PROVE CloseRights'
  OBVIOUS
<1> USE DEF mainVars, qVars, regVars, dataVars
<1>t. TypeOK /\ CloseRights
  BY DEF RuntimeInv
<1>m. stop => stop'
  BY MainFrame
<1>p. \A w \in Workers : pc[w] \in EpiloguePcs <=> pc'[w] \in EpiloguePcs
  <2>1. CASE UNCHANGED <<pc, active>>
    BY <2>1
  <2>2. CASE \E w \in Workers : Spawn(w)
    BY <2>2, <1>t DEF Spawn, TypeOK, EpiloguePcs
  <2> QED BY <2>1, <2>2, MainFrame
<1>c. \A w \in Workers : pc'[w] = "close" => pc[w] = "close"
  <2>1. CASE UNCHANGED <<pc, active>>
    BY <2>1
  <2>2. CASE \E w \in Workers : Spawn(w)
    BY <2>2, <1>t DEF Spawn, TypeOK
  <2> QED BY <2>1, <2>2, MainFrame
<1>1. NoEarlyClose'
  <2>1. CASE UNCHANGED closed
    BY <2>1, <1>m, <1>p, <1>t DEF CloseRights, NoEarlyClose, ProducersOf
  <2>2. CASE mpc = "close"
    BY <2>2, <1>m, <1>t DEF CloseRights, NoEarlyClose
  <2> QED BY <2>1, <2>2, MainFrame
<1>2. \A w \in Workers : pc'[w] = "close" => UnretiredOf(OutOf(w))' = {}
  BY <1>c, <1>p, <1>t DEF CloseRights, UnretiredOf, ProducersOf
<1>3. mpc' \in {"close", "join", "shutdown", "done"} => stop'
  <2>1. CASE UNCHANGED mpc
    BY <2>1, <1>m, <1>t DEF CloseRights
  <2>2. CASE CreateStage \/ WireThrow \/ SpawnThrow \/ NextStage \/ WiringDone \/ LeaveLoop
               \/ Join \/ Shutdown
    BY <2>2, <1>m, <1>t DEF CloseRights, CreateStage, WireThrow, SpawnThrow, NextStage,
       WiringDone, LeaveLoop, Join, Shutdown, Catch
  <2>3. ASSUME NEW q \in Queues, CloseQueue(q) PROVE mpc = "close"
    BY <2>3 DEF CloseQueue
  <2>4. CASE Relay \/ Signal
    BY <2>4, <2>1 DEF Relay, Signal
  <2>5. ASSUME NEW w \in Workers, Spawn(w) PROVE UNCHANGED mpc
    BY <2>5 DEF Spawn
  <2>6. CASE mpc = "close"
    BY <2>6, <1>m, <1>t DEF CloseRights
  <2> QED BY <2>1, <2>2, <2>3, <2>4, <2>5, <2>6 DEF Main
<1> QED BY <1>1, <1>2, <1>3 DEF CloseRights

\* ... which a worker is only when its counter says so.
LEMMA CloseWorker ==
  ASSUME RuntimeInv, NEW w \in Workers, Worker(w)
  PROVE  CloseRights'
<1> USE DEF mainVars, qVars, regVars, dataVars
<1>t. TypeOK /\ TypeOK' /\ CloseRights
  BY TypeWorker DEF RuntimeInv
<1>f. /\ \A v \in Workers \ {w} : pc'[v] = pc[v]
      /\ stop => stop'
      /\ UNCHANGED mpc
  BY WorkerFrame
<1>3. mpc' \in {"close", "join", "shutdown", "done"} => stop'
  BY <1>f, <1>t DEF CloseRights
<1>1. CASE RunnerStep(w)
  <2>1. \A q : UnretiredOf(q)' = UnretiredOf(q)
    BY <1>1, <1>f DEF RunnerStep, UnretiredOf, ProducersOf, LoopPcs, EpiloguePcs
  <2>2. \A v \in Workers : /\ pc'[v] \in EpiloguePcs <=> pc[v] \in EpiloguePcs
                           /\ pc'[v] = "close" => pc[v] = "close"
    BY <1>1, <1>f DEF RunnerStep, LoopPcs, EpiloguePcs
  <2>3. NoEarlyClose'
    BY <1>1, <1>f, <1>t, <2>2 DEF RunnerStep, CloseRights, NoEarlyClose, ProducersOf
  <2> QED BY <1>3, <1>t, <2>1, <2>2, <2>3 DEF CloseRights
<1>2. CASE Retire(w)
  <2>0. pc[w] = "fin" /\ pc'[w] \in {"close", "destroy"} /\ closed' = closed
    BY <1>2, <1>t DEF TypeOK, Retire, Goto
  <2>1. NoEarlyClose'
    BY <2>0, <1>f, <1>t DEF CloseRights, NoEarlyClose, ProducersOf, EpiloguePcs
  <2>2. \A q : UnretiredOf(q)' = UnretiredOf(q) \ {w}
    BY <2>0, <1>f DEF UnretiredOf, ProducersOf, EpiloguePcs
  <2>3. pc'[w] = "close" => UnretiredOf(OutOf(w))' = {}
    <3>1. SUFFICES ASSUME pc'[w] = "close" PROVE UnretiredOf(OutOf(w)) \ {w} = {}
      BY <2>2
    <3>2. OutOf(w) \in Queues /\ remaining[OutOf(w)] = 1
      BY <1>2, <1>t, <3>1 DEF TypeOK, Retire, LastProducer, Goto
    <3>3. Cardinality(UnretiredOf(OutOf(w))) = 1
      BY <3>2 DEF RuntimeInv, Counts
    <3>4. w \in UnretiredOf(OutOf(w)) /\ IsFiniteSet(UnretiredOf(OutOf(w)))
      BY <2>0, CountedFinite DEF UnretiredOf, ProducersOf, EpiloguePcs
    <3> QED BY <3>3, <3>4, CardRemove
  <2>4. \A v \in Workers : pc'[v] = "close" => UnretiredOf(OutOf(v))' = {}
    BY <2>2, <2>3, <1>f, <1>t DEF CloseRights
  <2> QED BY <1>3, <2>1, <2>4 DEF CloseRights
<1>4. CASE CloseOutput(w) \/ DestroyStage(w) \/ CountDown(w) \/ AutoStop(w)
  <2>1. /\ \A q : UnretiredOf(q)' = UnretiredOf(q)
        /\ \A v \in Workers : pc'[v] \in EpiloguePcs <=> pc[v] \in EpiloguePcs
        /\ pc'[w] # "close"
    BY <1>4, <1>t, <1>f DEF TypeOK, CloseOutput, DestroyStage, CountDown, AutoStop, Goto,
       UnretiredOf, ProducersOf, EpiloguePcs
  <2>2. NoEarlyClose'
    <3>1. CASE CloseOutput(w)
      <4>1. UnretiredOf(OutOf(w)) = {} /\ closed' = [closed EXCEPT ![OutOf(w)] = TRUE]
        BY <3>1, <1>t DEF CloseOutput, CloseRights
      <4>2. \A v \in ProducersOf(OutOf(w)) : pc[v] \in EpiloguePcs
        BY <4>1 DEF UnretiredOf
      <4> QED BY <4>1, <4>2, <2>1, <1>t, <1>f
              DEF CloseRights, NoEarlyClose, ProducersOf, TypeOK
    <3>2. CASE DestroyStage(w) \/ CountDown(w) \/ AutoStop(w)
      <4>1. closed' = closed
        BY <3>2 DEF DestroyStage, CountDown, AutoStop
      <4> QED BY <4>1, <2>1, <1>t, <1>f DEF CloseRights, NoEarlyClose, ProducersOf
    <3> QED BY <1>4, <3>1, <3>2
  <2>3. \A v \in Workers : pc'[v] = "close" => UnretiredOf(OutOf(v))' = {}
    BY <2>1, <1>f, <1>t DEF CloseRights
  <2> QED BY <1>3, <2>2, <2>3 DEF CloseRights
<1> QED BY <1>1, <1>2, <1>4, WorkerFrame

-----------------------------------------------------------------------------
\* Stage instances and libraries are there while a thread uses them.
LEMMA OwnershipMain == RuntimeInv /\ (Main \/ Signal) => Ownership'
<1> SUFFICES ASSUME RuntimeInv, Main \/ Signal PROVE Ownership'
  OBVIOUS
<1> USE DEF mainVars, qVars, regVars, dataVars
<1>t. TypeOK /\ Ownership
  BY DEF RuntimeInv
<1>1. CASE CreateStage
  BY <1>1, <1>t DEF CreateStage, Ownership, WorkersOf
<1>2. CASE WireThrow
  <2>1. loaded \subseteq loaded'
    BY <1>2 DEF WireThrow
  <2> QED BY <1>2, <1>t, <2>1 DEF WireThrow, Catch, Ownership
<1>3. CASE SpawnThrow \/ NextStage \/ WiringDone \/ LeaveLoop
  BY <1>3, <1>t DEF SpawnThrow, NextStage, WiringDone, LeaveLoop, Catch, Ownership
<1>4. CASE Relay \/ Signal
  BY <1>4, <1>t DEF Relay, Signal, Ownership, Joined
<1>5. CASE Join
  BY <1>5, <1>t DEF Join, Ownership, Joined
<1>6. CASE Shutdown
  <2>1. Joined
    BY <1>6, <1>t DEF Shutdown, Ownership
  <2> QED BY <1>6, <2>1 DEF Shutdown, Ownership, Joined, LoopPcs
<1>7. ASSUME NEW w \in Workers, Spawn(w) PROVE Ownership'
  <2>1. w \in instances /\ Plugin[StageOf[w]] \in loaded
    BY <1>7, <1>t DEF Spawn, Ownership, WorkersOf
  <2> QED BY <1>7, <1>t, <2>1 DEF Spawn, Ownership, TypeOK, WorkersOf
<1>8. ASSUME NEW q \in Queues, CloseQueue(q) PROVE Ownership'
  BY <1>8, <1>t DEF CloseQueue, Ownership
<1> QED BY <1>1, <1>2, <1>3, <1>4, <1>5, <1>6, <1>7, <1>8 DEF Main

\* ... and a worker destroys only its own, when its runner has returned.
LEMMA OwnershipWorker ==
  ASSUME RuntimeInv, NEW w \in Workers, Worker(w)
  PROVE  Ownership'
<1> USE DEF mainVars, qVars, regVars, dataVars
<1>t. TypeOK /\ Ownership
  BY DEF RuntimeInv
<1>f. /\ \A v \in Workers \ {w} : pc'[v] = pc[v]
      /\ UNCHANGED <<mpc, stage, loaded>>
  BY WorkerFrame
<1>n. pc[w] \notin {"none", "done"}
  BY DEF Worker, StageCode, QueueCall, Epilogue, LoopTop, Produce, EndOfStream, Process,
     Consume, Throw, AbortClose, Push, PushRefused, Pop, PopNothing, Retire, CloseOutput,
     DestroyStage, CountDown, AutoStop
<1>j. mpc \notin {"shutdown", "done"}
  BY <1>n, <1>t DEF Ownership, Joined
<1>1. CASE RunnerStep(w)
  BY <1>1, <1>t, <1>f, <1>j DEF RunnerStep, Ownership, WorkersOf, LoopPcs
<1>2. CASE Retire(w) \/ CloseOutput(w)
  <2>1. /\ pc[w] \in {"fin", "close"} /\ pc'[w] \in {"close", "destroy"}
        /\ UNCHANGED instances
    BY <1>2, <1>t DEF TypeOK, Retire, CloseOutput, Goto
  <2> QED BY <2>1, <1>t, <1>f, <1>j DEF Ownership, WorkersOf, LoopPcs
<1>3. CASE DestroyStage(w)
  <2>1. pc'[w] = "count" /\ instances' = instances \ {w}
    BY <1>3, <1>t DEF TypeOK, DestroyStage, Goto
  <2> QED BY <2>1, <1>t, <1>f, <1>j DEF Ownership, WorkersOf, LoopPcs
<1>4. CASE CountDown(w) \/ AutoStop(w)
  <2>1. pc'[w] \in {"last", "done"} /\ UNCHANGED instances
    BY <1>4, <1>t DEF TypeOK, CountDown, AutoStop, Goto
  <2> QED BY <2>1, <1>t, <1>f, <1>j DEF Ownership, WorkersOf, LoopPcs
<1> QED BY <1>1, <1>2, <1>3, <1>4, WorkerFrame

-----------------------------------------------------------------------------
\* Every step preserves the invariant.
LEMMA RuntimeStep == RuntimeInv /\ [Next]_vars => RuntimeInv'
<1> SUFFICES ASSUME RuntimeInv, [Next]_vars PROVE RuntimeInv'
  OBVIOUS
<1>1. CASE Main \/ Signal
  BY <1>1, TypeMain, ShapeMain, CountsMain, CloseMain, OwnershipMain DEF RuntimeInv
<1>2. ASSUME NEW w \in Workers, Worker(w) PROVE RuntimeInv'
  BY <1>2, TypeWorker, ShapeWorker, CountsWorker, CloseWorker, OwnershipWorker DEF RuntimeInv
<1>3. CASE UNCHANGED vars
  BY <1>3 DEF vars, RuntimeInv, TypeOK, PcShape, Counts, CloseRights, Ownership, NoEarlyClose,
     UnretiredOf, Uncounted, Joined
<1> QED BY <1>1, <1>2, <1>3 DEF Next

\* The inductive invariant holds throughout Runtime::run.
THEOREM RuntimeInvariant == Spec => []RuntimeInv
<1>1. Init => RuntimeInv
  BY RuntimeInit
<1>2. RuntimeInv /\ [Next]_vars => RuntimeInv'
  BY RuntimeStep
<1> QED BY <1>1, <1>2, PTL DEF Spec

\* Types: no queue of runtime.cc exceeds its capacity, neither atomic counter
\* is decremented below zero.
THEOREM RuntimeTypeCorrect == Spec => []TypeOK
<1>1. RuntimeInv => TypeOK
  BY DEF RuntimeInv
<1> QED BY <1>1, RuntimeInvariant, PTL

\* For every pipeline: a queue is closed while one of its producers may still
\* push only after a stop request (runtime.cc, the producer counts).
THEOREM ClosedByLastProducer == Spec => []NoEarlyClose
<1>1. RuntimeInv => NoEarlyClose
  BY DEF RuntimeInv, CloseRights
<1> QED BY <1>1, RuntimeInvariant, PTL

\* For every pipeline, and however the wiring fails: no worker thread runs a
\* destroyed stage or code of an unloaded library (join before shutdown).
THEOREM StagesOutliveWorkers == Spec => []NoUseAfterDestroy
<1>1. RuntimeInv => NoUseAfterDestroy
  BY DEF RuntimeInv, Ownership, NoUseAfterDestroy
<1> QED BY <1>1, RuntimeInvariant, PTL
=============================================================================
