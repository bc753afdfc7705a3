# flow-pipe in TLA+

flow-pipe runs data pipelines described by a flow spec. Users submit specs to an
**API server**, which keeps them in etcd; a **controller** watches etcd and turns
each active spec into a Kubernetes workload; the workload runs the C++ **runtime**,
which loads stage plugins, connects them with bounded in-memory queues and runs
them on threads. This directory models the parts of the system that carry its own
concurrent logic, checks them with TLC on small instances, and proves the central
properties with TLAPS for every instance. Around them it models the way of a flow from
a file on a user's disk to a running pod, and the API process with its two doors.

## 1. Inventory

| Component | Source | State | Operations | What is hard | What makes it correct |
|---|---|---|---|---|---|
| Bounded queue, stop token | `runtime/include/flowpipe/bounded_queue.h`, `stop_token.h` | deque, closed flag, two condition variables; one shared stop flag | push, pop, close, request_stop | notify_one under competing threads; a stop that notifies nobody | FIFO, nothing lost or duplicated, bounded, no lost wakeup |
| Runtime | `runtime/src/runtime.cc` | stop flag, threads, producer counts per queue, active-worker count | wire, start workers, wait, close, join, shut down | workers run while later stages are still being wired; exceptions in the middle of that | queues are closed by the last producer, jobs drain and end, a stop ends everything, nothing is used after it is destroyed |
| Stage runners | `runtime/src/stage_runner.cc` | the payload in hand | loops of source, transform and sink | exceptions of stage code, refused pushes, schema checks | a payload is consumed at most once and carries its queue's schema |
| Stage registry, plugin loader | `runtime/src/stage_registry.cc`, `stage_factory.cc` | instances, loaded libraries | create, destroy, shutdown | created by the main thread, destroyed by workers | stages outlive the workers that run them |
| Signal handler | `runtime/src/signal_handler.cc` | one flag | handle, relay | arrives at any time | reaches the stop flag |
| API flow store | `api/internal/store/etcd.go` | active pointer, versions, status (read only) | create, update, get, list, rollback, delete | several etcd requests per call, concurrent calls, requests that fail after taking effect | acknowledged versions survive, reads are consistent |
| API schema registry | `api/internal/store/etcd_schema_registry.go` | active schema version (64 bits), versions (32 bits) | create, get newest or by number, list, delete | as above, and a version counter that wraps | acknowledged versions stay, the pointer leads to a schema, readers of the newest see what was acknowledged |
| API server, auth, configuration | `api/cmd`, `api/internal/server`, `api/internal/config` | phase of main, two servers, requests under way, store client | start, serve over gRPC and HTTP, authenticate, stop | HTTP is a client of gRPC in the same process; signals and failing servers at any time; deferred calls | nobody is cut off, the store outlives its users, only holders of the key are served, the process comes down |
| Wire format, gateway | `gen/go/flowpipe/v1` | none | stubs, routes, parameters, bodies | generated tables tied by position | the method that runs is the one that was meant |
| API flow service | `api/internal/service` | none | one store call per method | | passes on what it is given |
| Controller | `controller/internal/controller`, `controller/internal/store` | work queue, watch stream, workers | seed, watch, reconcile, retry, delete | list/watch gap, dropped events, stale reads, status after delete | the cluster converges to the active spec |
| Kubernetes workloads | `controller/internal/controller/runtime.go` | ConfigMap, Deployment, DaemonSet, Job, CronJob per flow | apply, delete | change of kind, immutable Jobs | exactly the workload the spec asks for |
| Leader election | `controller/cmd/flow-controller/main.go` | the lease, one controller object | run, lose, run again | a work queue that was shut down is reused | every leader reconciles |
| Flow spec library | `pkg/flow` | none | validate, normalize, diff, fingerprint | agreement with what the runtime accepts | accepted specs can be run, and the same spec always comes out the same |
| Command line | `cli` | the file | run, submit, update, validate, and a command per API method | its checks are not the runtime's, its settings not the server's | it calls what it was told to call |
| Entry points, observability, bundled stages | `runtime/cmd`, `runtime/src/observability`, `stages` | none that matters | one call each | | I/O |

Interactions: runners call the queues and share the stop token and the two atomic
counters with `Runtime::run`; the registry is shared by the main thread and the
workers; API calls of several clients meet only in etcd; the controller sees the
API's writes through etcd's watch and answers through the status key and the
cluster. flowctl and other clients reach the API's methods through gRPC, or through the
HTTP gateway, which calls the gRPC server of its own process. A spec is checked by
flowctl (in Go) and by the runtime (in C++), and by nobody in between.

`PROJECT.json` lists all components with their status, the hazards with the lines
where they bite, and for every definition the source lines it stands for.

## 2. Plan

1. *(done)* `AbstractQueue`, `BoundedQueue`, their refinement, and proofs.
2. *(done)* `Runtime` with the runners over queues that promise what
   `AbstractQueue` promises; proofs of its safety.
3. *(done)* `FlowStore` and proofs.
4. *(done)* `WorkQueue` and `FlowController` with terms of leadership; proofs that workers
   exclude each other and that a settled flow is deployed.
5. *(done)* `SchemaRegistry`, with versions modulo the width of their field, and proofs.
6. *(done)* `FlowSpec`, `Workload` and `FlowPath`: from a file to the pods, and proofs of
   all their properties.
7. *(done)* `Gateway`, `Flowctl` and `ApiServer`; proofs about the way down, about who is
   let in, and that the method that runs is the one that was meant.
8. *(done)* The payloads of `Runtime`: `AtMostOnce`, `QueuedSchema`, `JobStopsDrained`.
9. Every invariant and action property of a passing run is now a theorem; liveness stays
   with TLC (section 5).
10. Left to model, and then to prove about: `ListFlows` in `FlowStore`, several replicas with their lease.

## 3. Modules

### AbstractQueue, BoundedQueue
`AbstractQueue` says what a queue promises: accepted payloads leave in order, a push
is refused only after a stop or a close, a blocked call returns when there is a
payload, room or a close. `BoundedQueue` is the code: `pc[t]` is a thread outside
(`idle`), contending for `mu_` (`lock`) or inside a `wait`; everything done under the
mutex up to the next wait or return is one step. `push()` is `Call`, then `PushWait`,
`PushRefused` or `PushDone`; `pop()` is `Call`, then `PopWait`, `PopDone` or
`PopEmpty`. `notify_one` moves an arbitrary waiter to the mutex and is lost without
one; `SpuriousWakeup` is what the C++ library allows. `RequestStop` sets the flag
without the mutex and wakes nobody. The stop flag only ever goes up, so reading it
once per step instead of twice (predicate, then test) loses no behaviour.

### Runtime, MCRuntime
The main thread's position is `mpc`: `wire` → `spawn` per stage, then `run`, `close`,
`join`, `shutdown`, `done`. A worker's position is `pc[w]`: its runner's loop
(`loop`, `pop`, `work`, `push`, `abort`, `fin`) and the epilogue of its lambda
(`close`, `destroy`, `count`, `last`, `done`). One action stands for the same step
of the three runners and of the three lambdas, distinguished by `KindOf(w)`; a sink
has no output queue and skips the producer count. The two `fetch_sub` results decide
at once, but the close and the stop they lead to are steps of their own. Payloads
are an identity and a schema id; stage code is any code that produces, ends, throws
and leaves one of the schema ids in `Emits` on a payload (`Keep`: the one it found).
Exceptions: `WireThrow` (creation, wrong wiring, rejected settings), `SpawnThrow`
(undeclared queue, wrong interface, thread creation), `Throw` (stage code).
`consumed`, `dropped` and `clean` are history. Queue calls have the guards of
`AbstractQueue`.

### FlowStore, MCFlowStore
Per flow the active pointer and the stored versions; per concurrent call the request
it makes next and what it has read. Create and update are one read and one
transaction; get is two reads; rollback is a read, a put, and a get; delete is one
request over a key prefix (`Covers` says which flow names share it). Every request
can fail without effect (`Fail`), and a write can fail after it took effect
(`Commit`, `PutActive`). `acked` and `rolledBack` are history. `ListFlows` is one
`GetFlow` per name and adds nothing. The status key is written only by the controller.

### WorkQueue, FlowController
`WorkQueue` is the queue as a value and its calls as operators: `Add` ignores a key
that needs work already and holds one back that a worker has; `Retry` delays the key
(`Fire` ends the back-off) and, like `Forget`, marks it done, which makes it ready if
it was added meanwhile; after `Shutdown` nothing is added.

`FlowController` has etcd (`active`, `spec`, `status`), the cluster (`config`, and
`cluster` per kind of workload, each as the revision of the spec it was made from) and
one controller process. `Run` is `List`, a `Seed` per listed flow, `Seeded`, and the
watch goroutine's `OpenWatch`; a change of an active key reaches an open watch only.
`pending` are events of etcd that the stream's goroutine has not turned into events of
its channel `out` (`HandleEvent`, or `DropEvent` when the read fails), which `runWatch`
enqueues (`EnqueueEvent`). A worker's `wpc` is the request it makes next:
`getActive`, `getSpec`, then `delete`, or `config`, `workload`, `status`; reads and
writes of one reconcile interleave with everything else. Any request may fail
(`SeedSkips`, `DropEvent`, `DeleteSome`, `Fail`), the watch may end (`WatchEnds`), the
process may die and restart (`Crash`), the lease may be lost and regained (`LoseLease`,
`Abandon`, `LastGet`, `RegainLease`). `missed` is history: the flows with a change that
no list and no event told the controller of. API calls are atomic here, so the dangling
pointer of `FlowStore` does not occur, and specs are ones that can be deployed. A new
term is assumed to begin after the cancelled requests of the old one have returned.

### SchemaRegistry, MCSchemaRegistry
Built like `FlowStore`: per schema the pointer and the stored versions, per call the
etcd request it makes next. The pointer counts in 64 bits (`active`, bounded by
`MaxVersion`), version fields and keys have 32 (`ToUint32`, modulo `Wrap`): after the
wrap a new version takes the key of an old one. `CreateSchema` is a read and a
transaction, `GetSchema` of the newest version two reads, everything else one request.
`acked` and `known` are history; a delete and a wrap take out of them what they end.

### Gateway, Flowctl, ApiServer, MCApiServer
`Gateway` is pure: the gRPC stubs, method names and handler tables, and of the HTTP
gateway the route templates, verbs, path parameters (with the width of a version) and
bodies, each named after its generated function. `Writes` is the reference: how
`service.proto` says a call is written down, one verb, one path and one place for each
field, independent of the tables. `Flowctl` is, per command, the call it
makes of its arguments (no call when it refuses), and its settings and credentials. A
text that may be a key is a record: blanks around it, `Bearer ` in front, the rest.

`ApiServer` is the process. `pc` is where main is: `telemetry`, `store`, `grpc`,
`http` (start-up, each step of which may fail), `run`, then `graceful` and `shutdown`
(Run's way down), `close` and `flush` (main's deferred calls), `exited`. An `os.Exit`
and an early signal skip the deferred calls. A request's `stage` is where it is:
`dialing`, `connected` (flowctl, under one deadline for both), `connecting`,
`middleware`, `forward` (HTTP), `interceptor`, `handler` (gRPC, for both), `respond`,
`done`. What a method does to etcd is in `FlowStore` and `SchemaRegistry`; here it ends,
with or without an error (an Unavailable of etcd is such an error, and not the refusal
`NoEarlyRefusal` is about). Two of a request's steps need its client: `ServeRequest`, which
has the whole HTTP request, and `Respond`, which writes the answer; nothing makes a client
take them. `stream` is a stream of the reflection service, open for as long as its client
likes. The HTTP server may fail when it starts (`ServeHTTP`) and after it has served
(`FailHTTP`): then Run goes down while its requests are under way. TLS either fits or does
not; certificates and server names are not looked at. `handled` is history: what the
method was called with.

### FlowSpec, Workload, FlowPath, MCFlowPath
`FlowSpec` has `Normalize` (a set of results: `sort.Slice` is not stable) and
`Validate` of `pkg/flow`, and the checks `Runtime::run` makes of a spec
(`RuntimeAccepts`): of queues the capacity, the schema's id, the name and the type, of
stages the threads, the pinned CPUs, the priority, the plugin, its wiring and its queues.
The host is a parameter: its CPUs, priorities and plugins. `Workload` has the Kubernetes
objects `ensureRuntime` renders from a spec: the ConfigMap, which is written first, and the
workload by kind, with names, selector, labels, annotations, environment, policies,
requests. Fields copied as they stand are left out. `FlowPath` composes them: a file is
edited, `submit`, `update` and `run` work on it, another client sends it as it is, the store
files it under its name and the next version (`Filed`; `Storable` is all it can come to
hold), `Reconcile` applies the stored spec to the ConfigMap and the objects there are; the
request for the workload may fail after the ConfigMap was written. The runtime of a pod
reads the ConfigMap, whatever its workload was rendered from, so an old Job or a left-over
kind runs on the newest spec applied; `started` is what `flowctl run` started the runtime
on. Concurrency of the store and of the controller is in their own modules; here calls are
atomic and the data is what counts.

Definitions marked "seeded fault" are not part of any specification: each is a
plausible mistake in the definition it stands next to, and substituting it makes
the property it is listed with in `PROJECT.json` fail.

## 4. Runs

| Run | Instance | Shows |
|---|---|---|
| `queue` | 3 producers, 2 consumers, capacity 2, 2 payloads, 3 accepted pushes | `NoSleepingConsumer`, `NoSleepingProducer`, `ClosedWakesAll`, and the refinement `ImplementsAbstractQueue` with its liveness |
| `runtime_job` | JOB, sink ← two transform workers ← source, consumers listed first, one-slot queues with different schemas, 2 payloads | `AtMostOnce`, `NoEarlyClose`, `NoUseAfterDestroy`, `QueuedSchema`, `JobStopsDrained` with its inductive invariant `JobInv`, `JobEnds` |
| `runtime_streaming` | streaming, two source workers → sink, source listed first, 2 payloads each | the inductive invariant `RuntimeInv`, and `StopEnds` |
| `runtime_source_first` | JOB, source listed first | `JobDrains` is **violated** |
| `store` | 2 calls, 2 flows with a common prefix, 2 specs, 2 versions | `IntactUntilRollback`, `NoTornRead` |
| `store_rollback`, `store_delete` | the same | `OldVersionsKept`, `DeletesOnlyNamed` are **violated** |
| `controller` | 2 flows, 2 workers, Deployment and Job, channel of 1, 2 API calls, 2 faults, 1 lost lease | `OneWorkerPerFlow`, `SettledIsDeployed`, `Converges` |
| `controller_leader` | 1 flow, 2 API calls, 1 lost lease | `EveryTermConverges` is **violated** |
| `schema` | 2 calls, 1 schema, 2 payloads, 5 versions in a field of 4 values | `KeptUntilWrap`, `ActiveResolves`, `FreshReply` |
| `api` | 2 clients, 6 configurations, a reflection stream; one client tries every command, every route and requests that mean nothing, the other one credentials | `StoreOutlivesHandlers`, `NoneCutOff`, `NoEarlyRefusal`, `OnlyKeyHolders`, `SharedKeyOpens`, `HandledAsMeant`, `Stops`, `Answered` |
| `flow_path` | 1 flow, a good file and 23 that differ from it, 2 versions, 2 CPUs, 3 plugins | `CheckedFlowsStart`, `DeterministicNormalization`, `PodsFoundAndConfigured`, `RestartExactlyOnChange` |

Findings (quoted in `PROJECT.json`):

* A job whose source is listed before its sink can end without draining: the count
  of active workers reaches zero while the main thread is still wiring. The order in
  which `Normalize` sends stages, that of their names, decides which comes first.
* After a rollback, the next update overwrites a version that was already given out.
* Deleting a flow deletes every flow whose name starts with its name.
* A controller that regains leadership uses a work queue that was shut down, and
  reconciles nothing.
* `flowctl run` starts the runtime on the file, and not, as `cli/README.md` says, on the
  normalized spec it checked: a queue without a capacity passes the check and is refused by
  the runtime. `CheckedFlowsStart` says this as an equivalence, so `flow_path` would fail
  if the runtime took such a file, or if anything else got lost between the two.
* A stage with neither queue, which `docs/concepts.md` calls a side-effect stage, is let
  through by flowctl, stored and deployed, and refused by the runtime whatever its plugin
  (one of the cases of `OnlyRuntimeRefuses`).

What the models show without a document that says otherwise. Each is a behaviour of
the specifications, and the properties are stated so that they allow it:

* A rollback that races a delete leaves a pointer to a version that does not exist;
  `GetFlow` then refuses (`NoTornRead`).
* A change between the controller's list and its watch is not deployed until the next
  one (`missed` in `Converges`).
* A flow that changes its kind of workload keeps the old one beside the new one, and an
  existing Job is never changed (`applyJob`). A Job may be given the restart policy
  `Always`, which Kubernetes does not accept for Jobs.
* The status of a flow may be written after the flow was deleted, and stays.
* flowctl does not make all the checks of the runtime that a spec alone decides: a queue
  type other than in-memory, a schema without an id, a CPU listed twice or the priority 0
  show only when the pod starts (`OnlyRuntimeRefuses`).
* An existing Job is not applied again, but the ConfigMap it mounts is: its next pod runs
  another spec than the one it was rendered from (`CheckedFlowsStart` is about the ConfigMap).
* A value of `FLOW_AUTH_ENABLED` that is none of the known words counts as not set. A
  server key with blanks around it or `Bearer ` in front matches nobody
  (`SharedKeyOpens` excludes it). Words such as `yes` switch TLS on for the server and
  not for flowctl, which reads its settings with another parser.
* Of several Authorization values gRPC takes the first that holds a token, HTTP the
  first value only.
* No deadline bounds a method on the server's side: the process comes down because etcd
  answers or fails. The HTTP server has no timeouts, `Shutdown` is called without a
  deadline and `GracefulStop` has none: a client that does not finish its request, does not
  take its answer or keeps a reflection stream holds the process up for ever (`HeldUp` in
  `Stops`; `WaitsForClient` in `Answered`).

**Bounds.** Capacity 2 with three producers lets two producers be woken for slots a
third one takes; one-slot queues block producers and consumers after every payload;
two transform workers compete on both of their queues; two payloads are enough for
order, duplication and a queue that fills twice. Three roles that matter for lost
wakeups (a waiter, a woken thread, a thread that never waited) fit in each side of
the queue run. `MaxAccepted` and `MaxProduce` end the sources; a source may also end
earlier (`EndOfStream`). `MaxVersion` 2 is what a rollback and an overwrite need.
Two API calls on a flow are a
submit and an update, rollback or delete while the first is being reconciled, and two
faults a failed request and a crash, or a retry that fails; the instance with three API
calls and one fault (4.3 million states, five minutes) holds as well. Specs and calls
are interchangeable in `store`, payloads and calls in `schema`, hence their symmetry;
these runs check invariants only. `schema` has one id: calls on another id touch its
keys only by a delete that covers it, which looks to it like its own; the proofs have
any ids. Five versions modulo four wrap, and the version after the wrap takes the key
of the first. In `api`, `Max32` 7 and `Max64` 15 leave room for a number that fits
neither, one of them, or both; a second client is what a first one may be cut off by or
wait for. The configurations of `api` have authentication asked for by a flag and by a
variable, an empty key and one with blanks, TLS at either door, missing files and bad ones;
the files of `flow_path` are one good one and one more for each thing the code looks at; two
versions are what a change needs.

**Fairness.** A thread that contends for a mutex gets it; a runnable thread runs;
stage code returns. A blocked queue call is fair only when there is room, a payload
or a close (`QueueCallFair`): a stop alone wakes nobody. Nothing is assumed of
signals, of exceptions or of callers. `JobEnds` uses the bound on produced payloads,
that is, finite sources, as the documentation asks of jobs. In the controller,
goroutines run, back-offs end and a campaign for the lease succeeds; requests fail only
`MaxFaults` times, which is what retrying with a back-off relies on. In the API process,
goroutines run, a service method ends (for etcd answers or fails) and flowctl's deadlines
pass. Nobody has to send a request or a signal, no server has to fail or to succeed, and no
client has to finish an HTTP request, to take its answer or to close a stream: the steps
that need a client (`Exchange`, `CloseStream`) have no fairness, those that do not
(`Working`) have.

Deadlock is checked in every run but those of the controller, which has nothing to do
when all is deployed and no more API calls come, of the API process, which exits, and of
`flow_path`. The other specifications stop nowhere but in `Runtime`'s `done`, where they
stutter.

## 5. Proofs

Assumptions are named in the modules that declare the constants, and TLC evaluates them
in the runs: finite sets of threads and flows, positive capacities
(`QueueAssumption`, `ControllerAssumption`), a well-formed spec (`RuntimeAssumption`), a
flow name that is covered by its own prefix (`StoreAssumption`, `RegistryAssumption`), keys
and Authorization values that are texts, and paths that are sequences of segments
(`InputsAssumption`), files that decode into specs, and names with an order
(`FilesAssumption`). The others (`NoneAssumption`, `PayloadAssumption`) tell "nothing"
from every value. No assumption restricts what users, clients or stage code do.

* `BoundedQueueProofs`. `QueueInv` is inductive. The two wakeup invariants count:
  while someone sleeps on a condition variable, there are at least as many woken
  threads of that side as payloads (or free slots). They need `ClosedWakesAll`,
  because a woken consumer may leave empty-handed only when the queue is empty or
  closed. From it follow `TypeCorrect`, `NoLostWakeups`, and `RefinesAbstractQueue`:
  each action maps to one abstract action or to a stutter.
* `RuntimeProofs`. `NoEarlyClose` is not inductive: it needs that the producer count
  of a queue equals the number of its producers that have not retired (`Counts`),
  that a worker on its way to close is the last one (`CloseRights`), and where each
  kind of stage can be (`PcShape`). `NoUseAfterDestroy` needs that instances outlive
  their threads and that everything is joined before the registry is shut down
  (`Ownership`). Together they are `RuntimeInv`; `RuntimeInvariant` proves it one
  action at a time, `ClosedByLastProducer` and `StagesOutliveWorkers` follow.
* `RuntimeDataProofs` follows the payloads. `AtMostOnce` counts; the proof works without
  numbers, by `Lone` (a set without two different members): a payload is in one hand, one
  slot of one queue, one consumer's record or dropped, and in one of these only
  (`Moved`), and a worker's hand fits its position (`Hands`). With `QueuedSchema`, whose
  pushes come from hands that were checked, this is `DataInv`. `JobStopsDrained` is not
  inductive either, and is false of some specs (run `runtime_source_first`), so the
  theorem has the hypothesis `ConsumersFirst` on the spec: every stage is listed after the
  stages that consume what it emits, every queue that is written is read, and sources come
  last. The last part is needed for specs of several pipelines that share no queue: the
  source of one could end, and count to zero, before the other one's is started. Then
  `JobInv` is inductive: stages start in order, and until a stop, while nothing failed,
  every payload produced is somewhere and a consumer leaves its loop only on a queue that
  is closed and empty. At the moment the last worker counts to zero every queue is
  therefore empty, and `JobDrainsWhenConsumersFirst` follows.
* `FlowStoreProofs`. `IntactUntilRollback` is inductive with the types: a commit whose
  comparison succeeds appends exactly one version. `NoTornRead` needs that a call
  under way has no reply yet.
* `FlowControllerProofs`. `OneWorkerPerFlow` needs that a key is ready at most once and
  never while it is being processed (`QueueSound`), and that the names workers have are
  being processed (`HeldOk`). Lemmas on the queue's operators carry the first part; the
  actions then fall into few shapes: queue only, a worker that goes on, takes a name or
  gives one back. `SettledIsDeployed` builds on that. Its invariant, `FollowsInv`, says of
  every flow whose changes have all been taken up (`Quiet`: not missed, not listed, not
  announced by an event, not owed by the queue): if nobody has it, it is deployed; and a
  worker that has it has read what is there and applied what it has read (`Fresh`). A
  change makes a flow unquiet at once, by an event or by being missed, so a stale read
  can only be of an unquiet flow; a failed reconcile gives the key back to the queue,
  which owes it again; a crash forgets everything and lists again. Exclusion is what keeps
  another worker from undoing what was applied.

* `SchemaRegistryProofs`. The keys are in order (`KeysOK`): until the wrap the stored
  versions are exactly 1..active and each acknowledged one has its contents; past it
  too the pointer's key is taken, and a schema carries the version of its key. `FreshReply` needs that a call between
  its two reads holds a version that is not older than what it knew (`ReadsFresh`),
  which a commit in between cannot change, as versions only grow until then.
* `ApiServerProofs`. `ServerInv`: the phase of main fixes what the store and the servers
  are (`Phase`), and every request is where the phase allows it to be (`RequestOK`):
  in a method only while gRPC serves or drains, begun over HTTP only until the end of
  Shutdown, and with a call to make only after the gRPC port was opened. The three
  properties follow for any number of clients, any requests and any configuration.
  The other three are about what a request carries (`Carried`, in `AdmitInv`): the call a
  stub sent or the gateway decoded, a verdict for whoever is in a method, and a reason for
  whoever was turned away. `HandledForKeyHolders` and `KeyHoldersAdmitted` then are facts
  about the verdicts: an accepted token was sent, and the first value that holds a token
  is the client's key, for the interceptor and the middleware alike.
  `MethodsCalledAsMeant` needs that whatever a route decodes was written for that call
  (`DecodesAsWritten`): the templates that fit a path, by its length and literals, fix
  the method together with the verb.
* `FlowPathProofs`. `PathInv`: what is stored came from a file (`StoredOk`), and if flowctl
  sent it the runtime refuses it exactly for what only the runtime checks (`Starts`); so
  with what was applied (`VettedOk`); every workload is rendered from the spec it names
  (`ObjectsOk`), and none is newer than the ConfigMap, which is that of a spec that was
  applied (`ConfigOk`); a file that `run` accepted still is the one it checked (`FileOk`). Normalization is about every rearrangement a sort may produce: those of a
  sequence are bijections of its indices (`PermIsBijection`), so they keep names and
  members, and all listings of a file have the same ones (`SameListings`). That there is
  one in order is counted rather than proved by induction, which is out of the prover's
  reach: the place of a name is the number of names that rank below it (`PlaceCounts`),
  in each of them. From this follow `NormalizationIsDeterministic`, and with the same
  lemma for the keys of a map the one rendering of a flow's variables (`EnvOnce`), hence
  of a pod template (`TemplateOnce`). Flow label and checksum survive what the flow sets
  (`TemplateMarked`), hence `PodsStayTheFlows` and, as specs that differ have checksums that
  differ, `TemplatesFollowSpecs`. `CheckedSpecsStart` needs that `Validate` sees no difference
  between a file and its normal form (`NormalizeKeepsValid`) and that a valid spec is refused
  for what only the runtime checks or for a capacity, and for nothing else (`ValidStarts`).
  That it holds for every host and every set of plugins is what the proof adds to the run.

Only model-checked: the liveness properties (`StopEnds`, `JobEnds`, `Converges`, `Stops`,
`Answered`, and of `ImplementsAbstractQueue` the abstract queue's fairness), which rest on
fairness and ENABLED, beyond this prover. The four violated properties are TLC's
counterexamples.

## 6. Not modelled

Everything with status `not_modelled` in `PROJECT.json`, with the reason there.
Within modelled parts:

* generated accessors, descriptors and reflection data of the messages: they are records
  here; the gateway's in-process variants, which nobody calls;
* `ListFlows` (a list and a `GetFlow` per name, whose errors are skipped) and its
  summaries; `GetFlowStatus`, which reads one key the controller owns;
* `diff`, `fingerprint` and `codec`, one library call each, used by their tests only;
* errors of the gRPC accept loop (its server then stops to accept, as `FailHTTP` has it for
  the other one); TLS certificates and server names; addresses, log levels, spans, metrics and logging;
* what pinned CPUs and priorities do to threads (that they are refused is modelled),
  payload contents, `dlopen`, protobuf encoding and
  etcd's own replication;
* flow names with a slash, which the HTTP routes cannot take, and other replicas of the
  controller.
