--------------------------- MODULE FlowController ---------------------------
(***************************************************************************)
(* The controller (controller/internal): it lists the flows in etcd once,  *)
(* watches their active keys from then on, and its workers bring the       *)
(* cluster's workloads in line, one flow name at a time, through WorkQueue.*)
(* API calls, reads of etcd and requests to the cluster interleave; any    *)
(* request may fail, the watch may end, the process may crash and restart, *)
(* and leadership may be lost and regained (cmd/flow-controller).          *)
(***************************************************************************)
EXTENDS WorkQueue, FiniteSets

CONSTANTS
    Flows,          \* flow names
    Kinds,          \* workload kinds a spec may ask for
    Workers,        \* reconcile workers
    Buffer,         \* capacity of the watch stream's channel
    MaxChanges,     \* model bound: API calls that change a flow
    MaxFaults,      \* model bound: failed requests, dead watches, crashes
    MaxLosses,      \* model bound: losses of leadership
    None            \* no spec, no flow

Job == "job"

Versions == 1 .. MaxChanges
\* A spec asks for a kind; rev tells apart specs that share a version number.
Specs == [kind : Kinds, rev : 1 .. MaxChanges]

ASSUME ControllerAssumption ==
    /\ Buffer \in Nat \ {0}
    /\ MaxChanges \in Nat /\ MaxFaults \in Nat /\ MaxLosses \in Nat
    /\ IsFiniteSet(Flows)
    /\ None \notin Flows /\ None \notin Specs

VARIABLES
    active, spec, status,   \* etcd: pointer, versions, reported version (0: none)
    config, cluster,        \* Kubernetes: per flow the revision in the ConfigMap,
                            \*   and per kind the revision of the workload (0: none)
    ctl,                    \* where Controller.Run is
    listed,                 \* per flow: version it was listed with, until enqueued
    watch,                  \* the watch: not started, open, or ended for good
    pending,                \* etcd events the stream's goroutine has not handled
    out,                    \* the stream's channel
    wq,                     \* the work queue
    wpc, wname, wver, wspec,\* per worker: step, flow, version and spec read
    changes, faults, losses,\* counters for the bounds
    missed                  \* history: flows with a change nobody told the controller

etcdVars == <<active, spec, status>>
kubeVars == <<config, cluster>>
runVars  == <<ctl, listed, watch, pending, out>>
workVars == <<wpc, wname, wver, wspec>>
boundVars == <<changes, faults, losses>>
vars == <<active, spec, status, config, cluster, ctl, listed, watch, pending, out,
          wq, wpc, wname, wver, wspec, changes, faults, losses, missed>>

Event == [name : Flows, deleted : BOOLEAN]
Steps == {"idle", "getActive", "getSpec", "delete", "config", "workload", "status"}

TypeOK ==
    /\ active \in [Flows -> 0 .. MaxChanges]
    /\ spec \in [Flows -> [Versions -> Specs \cup {None}]]
    /\ status \in [Flows -> 0 .. MaxChanges]
    /\ config \in [Flows -> 0 .. MaxChanges]
    /\ cluster \in [Flows -> [Kinds -> 0 .. MaxChanges]]
    /\ ctl \in {"list", "seed", "run", "lost"}
    /\ listed \in [Flows -> 0 .. MaxChanges]
    /\ watch \in {"off", "open", "ended"}
    /\ pending \in Seq(Event)
    /\ out \in Seq(Flows) /\ Len(out) <= Buffer
    /\ wq.order \in Seq(Flows) /\ Len(wq.order) <= Cardinality(Flows) /\ wq.shut \in BOOLEAN
    /\ wq.dirty \cup wq.processing \cup wq.delayed \subseteq Flows
    /\ wpc \in [Workers -> Steps]
    /\ wname \in [Workers -> Flows \cup {None}]
    /\ wver \in [Workers -> 0 .. MaxChanges]
    /\ wspec \in [Workers -> Specs \cup {None}]
    /\ changes \in 0 .. MaxChanges /\ faults \in 0 .. MaxFaults
    /\ losses \in 0 .. MaxLosses
    /\ missed \subseteq Flows

Init ==
    /\ active = [f \in Flows |-> 0]
    /\ spec = [f \in Flows |-> [v \in Versions |-> None]]
    /\ status = [f \in Flows |-> 0]
    /\ config = [f \in Flows |-> 0]
    /\ cluster = [f \in Flows |-> [k \in Kinds |-> 0]]
    /\ ctl = "list" /\ listed = [f \in Flows |-> 0]
    /\ watch = "off" /\ pending = <<>> /\ out = <<>>
    /\ wq = NewQueue
    /\ wpc = [w \in Workers |-> "idle"]
    /\ wname = [w \in Workers |-> None]
    /\ wver = [w \in Workers |-> 0]
    /\ wspec = [w \in Workers |-> None]
    /\ changes = 0 /\ faults = 0 /\ losses = 0
    /\ missed = {}

\* Listed flows that are still to be enqueued.
ToSeed == {f \in Flows : listed[f] # 0}
\* The flows named by events that are under way, and flows a worker has.
Announced == {pending[i].name : i \in DOMAIN pending} \cup {out[i] : i \in DOMAIN out}
Held == {wname[w] : w \in Workers} \ {None}

\* Nothing is left to do for f, as far as the controller knows.
Settled(f) == f \notin missed \cup ToSeed \cup Announced \cup Owes(wq) \cup Held

-----------------------------------------------------------------------------
(* API calls, as FlowStore's store executes them, and the etcd watch. *)

\* A change of f's active key reaches an open watch, and no other.
Changed(f, deleted) ==
    /\ changes < MaxChanges /\ changes' = changes + 1
    /\ IF watch = "open"
       THEN /\ pending' = Append(pending, [name |-> f, deleted |-> deleted])
            /\ missed' = missed \ {f}
       ELSE missed' = missed \cup {f} /\ UNCHANGED pending
    /\ UNCHANGED <<kubeVars, ctl, listed, watch, out, wq, workVars, faults, losses>>

Submit(f, k) ==
    LET v == active[f] + 1
    IN  /\ Changed(f, FALSE)
        /\ active' = [active EXCEPT ![f] = v]
        /\ spec' = [spec EXCEPT ![f][v] = [kind |-> k, rev |-> changes + 1]]
        /\ UNCHANGED status

Rollback(f, v) ==
    /\ spec[f][v] # None
    /\ Changed(f, FALSE)
    /\ active' = [active EXCEPT ![f] = v]
    /\ UNCHANGED <<spec, status>>

Delete(f) ==
    /\ active[f] # 0
    /\ Changed(f, TRUE)
    /\ active' = [active EXCEPT ![f] = 0]
    /\ spec' = [spec EXCEPT ![f] = [v \in Versions |-> None]]
    /\ status' = [status EXCEPT ![f] = 0]

-----------------------------------------------------------------------------
(* Controller.Run: seed, then watch. *)

\* enqueueExisting lists the active keys: these flows will be looked at.
List ==
    /\ ctl = "list"
    /\ listed' = active
    /\ missed' = {f \in missed : active[f] = 0}
    /\ ctl' = "seed"
    /\ UNCHANGED <<etcdVars, kubeVars, watch, pending, out, wq, workVars, boundVars>>

\* A listed flow is enqueued if the spec it was listed with is still there.
Seed(f) ==
    /\ ctl = "seed" /\ listed[f] # 0
    /\ wq' = IF spec[f][listed[f]] # None THEN Add(wq, f) ELSE wq
    /\ listed' = [listed EXCEPT ![f] = 0]
    /\ UNCHANGED <<etcdVars, kubeVars, ctl, watch, pending, out, workVars, boundVars,
                   missed>>

Fault == faults < MaxFaults /\ faults' = faults + 1 /\ UNCHANGED <<changes, losses>>

\* A flow whose spec cannot be read is skipped.
SeedSkips(f) ==
    /\ ctl = "seed" /\ listed[f] # 0
    /\ Fault
    /\ listed' = [listed EXCEPT ![f] = 0]
    /\ missed' = missed \cup {f}
    /\ UNCHANGED <<etcdVars, kubeVars, ctl, watch, pending, out, wq, workVars>>

\* The watch goroutine and the workers are started.
Seeded ==
    /\ ctl = "seed" /\ ToSeed = {}
    /\ ctl' = "run"
    /\ UNCHANGED <<etcdVars, kubeVars, listed, watch, pending, out, wq, workVars,
                   boundVars, missed>>

\* The watch starts at etcd's current revision.
OpenWatch ==
    /\ ctl = "run" /\ watch = "off"
    /\ watch' = "open"
    /\ UNCHANGED <<etcdVars, kubeVars, ctl, listed, pending, out, wq, workVars,
                   boundVars, missed>>

\* The stream's goroutine turns an etcd event into a watch event.
HandleEvent ==
    /\ pending # <<>> /\ Len(out) < Buffer
    /\ pending' = Tail(pending)
    /\ out' = Append(out, Head(pending).name)
    /\ UNCHANGED <<etcdVars, kubeVars, ctl, listed, watch, wq, workVars, boundVars,
                   missed>>

\* For an event that is no delete it reads the flow; when that fails the event
\* is dropped.
DropEvent ==
    /\ pending # <<>> /\ ~Head(pending).deleted
    /\ Fault
    /\ pending' = Tail(pending)
    /\ missed' = missed \cup {Head(pending).name}
    /\ UNCHANGED <<etcdVars, kubeVars, ctl, listed, watch, out, wq, workVars>>

\* runWatch enqueues the flow, whatever the type of the event.
EnqueueEvent ==
    /\ ctl = "run" /\ out # <<>>
    /\ wq' = Add(wq, Head(out))
    /\ out' = Tail(out)
    /\ UNCHANGED <<etcdVars, kubeVars, ctl, listed, watch, pending, workVars, boundVars,
                   missed>>

\* etcd ends the watch: what the goroutine has received is still handled, the
\* rest is lost, and runWatch returns once the channel is closed and empty.
WatchEnds ==
    /\ watch = "open"
    /\ Fault
    /\ watch' = "ended"
    /\ \E n \in 0 .. Len(pending) :
          /\ pending' = SubSeq(pending, 1, n)
          /\ missed' = missed \cup {pending[i].name : i \in n + 1 .. Len(pending)}
    /\ UNCHANGED <<etcdVars, kubeVars, ctl, listed, out, wq, workVars>>

-----------------------------------------------------------------------------
(* The workers: Get, reconcile, then Forget or Retry. *)

Goto(w, step) == wpc' = [wpc EXCEPT ![w] = step]

\* reconcile returned; the worker gives the name back.
Finish(w, q) ==
    /\ Goto(w, "idle")
    /\ wq' = q
    /\ wname' = [wname EXCEPT ![w] = None]
    /\ wver' = [wver EXCEPT ![w] = 0]
    /\ wspec' = [wspec EXCEPT ![w] = None]

Get(w) ==
    /\ ctl = "run" /\ wpc[w] = "idle" /\ Ready(wq)
    /\ wname' = [wname EXCEPT ![w] = Head(wq.order)]
    /\ wq' = Take(wq)
    /\ Goto(w, "getActive")
    /\ UNCHANGED <<etcdVars, kubeVars, runVars, wver, wspec, boundVars, missed>>

\* GetActiveFlow: the pointer, then the spec; without either the flow is taken
\* to be deleted.
GetActive(w) ==
    /\ wpc[w] = "getActive"
    /\ wver' = [wver EXCEPT ![w] = active[wname[w]]]
    /\ Goto(w, IF active[wname[w]] = 0 THEN "delete" ELSE "getSpec")
    /\ UNCHANGED <<etcdVars, kubeVars, runVars, wq, wname, wspec, boundVars, missed>>

GetSpec(w) ==
    /\ wpc[w] = "getSpec"
    /\ wspec' = [wspec EXCEPT ![w] = spec[wname[w]][wver[w]]]
    /\ Goto(w, IF wspec'[w] = None THEN "delete" ELSE "config")
    /\ UNCHANGED <<etcdVars, kubeVars, runVars, wq, wname, wver, boundVars, missed>>

\* deleteRuntimeResources deletes the workloads of every kind and the ConfigMap.
DeleteResources(w) ==
    /\ wpc[w] = "delete"
    /\ cluster' = [cluster EXCEPT ![wname[w]] = [k \in Kinds |-> 0]]
    /\ config' = [config EXCEPT ![wname[w]] = 0]
    /\ Finish(w, Forget(wq, wname[w]))
    /\ UNCHANGED <<etcdVars, runVars, boundVars, missed>>

\* Some of the deletions fail; the others are done, and all are tried again.
DeleteSome(w) ==
    /\ wpc[w] = "delete"
    /\ Fault
    /\ \E gone \in SUBSET Kinds, c \in {0, config[wname[w]]} :
          /\ cluster' = [cluster EXCEPT ![wname[w]] =
                            [k \in Kinds |-> IF k \in gone THEN 0 ELSE @[k]]]
          /\ config' = [config EXCEPT ![wname[w]] = c]
    /\ Finish(w, Retry(wq, wname[w]))
    /\ UNCHANGED <<etcdVars, runVars, missed>>

\* ensureRuntime: the ConfigMap first ...
ApplyConfigMap(w) ==
    /\ wpc[w] = "config"
    /\ config' = [config EXCEPT ![wname[w]] = wspec[w].rev]
    /\ Goto(w, "workload")
    /\ UNCHANGED <<etcdVars, cluster, runVars, wq, wname, wver, wspec, boundVars, missed>>

\* applyDeployment, applyDaemonSet and applyCronJob bring an existing workload in
\* line; applyJob leaves an existing Job as it is.
CreateOrUpdate(s, current) == s.rev
CreateIfMissing(s, current) == IF current # 0 THEN current ELSE s.rev
Applied(s, current) ==
    IF s.kind = Job THEN CreateIfMissing(s, current) ELSE CreateOrUpdate(s, current)

\* ... then the workload of the kind the spec asks for.
ApplyWorkload(w) ==
    /\ wpc[w] = "workload"
    /\ cluster' = [cluster EXCEPT ![wname[w]][wspec[w].kind] = Applied(wspec[w], @)]
    /\ Goto(w, "status")
    /\ UNCHANGED <<etcdVars, config, runVars, wq, wname, wver, wspec, boundVars, missed>>

UpdateStatus(w) ==
    /\ wpc[w] = "status"
    /\ status' = [status EXCEPT ![wname[w]] = wver[w]]
    /\ Finish(w, Forget(wq, wname[w]))
    /\ UNCHANGED <<active, spec, kubeVars, runVars, boundVars, missed>>

\* Any other request of a reconcile fails, for the status perhaps after it took
\* effect: retry.
Fail(w) ==
    /\ ctl = "run" /\ wpc[w] # "idle"
    /\ Fault
    /\ \/ UNCHANGED status
       \/ wpc[w] = "status" /\ status' = [status EXCEPT ![wname[w]] = wver[w]]
    /\ Finish(w, Retry(wq, wname[w]))
    /\ UNCHANGED <<active, spec, kubeVars, runVars, missed>>

BackOffEnds(f) ==
    /\ f \in wq.delayed
    /\ wq' = Fire(wq, f)
    /\ UNCHANGED <<etcdVars, kubeVars, runVars, workVars, boundVars, missed>>

-----------------------------------------------------------------------------
(* The process. *)

\* The process dies and is started again: only etcd and the cluster remain.
\* A failed list in enqueueExisting ends the process, too.
Crash ==
    /\ Fault
    /\ missed' = missed \cup {f \in Flows : wq.shut \/ ~Settled(f)}
    /\ ctl' = "list" /\ listed' = [f \in Flows |-> 0]
    /\ watch' = "off" /\ pending' = <<>> /\ out' = <<>>
    /\ wq' = NewQueue
    /\ wpc' = [w \in Workers |-> "idle"]
    /\ wname' = [w \in Workers |-> None]
    /\ wver' = [w \in Workers |-> 0]
    /\ wspec' = [w \in Workers |-> None]
    /\ UNCHANGED <<etcdVars, kubeVars>>

\* The leader's context is cancelled: listed flows whose spec is not read yet are
\* skipped, Run shuts the queue down, the watch ends and its channel is no
\* longer read.
LoseLease ==
    /\ ctl \in {"seed", "run"} /\ losses < MaxLosses
    /\ losses' = losses + 1
    /\ missed' = missed \cup ToSeed \cup Announced \cup wq.delayed
    /\ ctl' = "lost" /\ listed' = [f \in Flows |-> 0]
    /\ watch' = "off" /\ pending' = <<>> /\ out' = <<>>
    /\ wq' = Shutdown(wq)
    /\ UNCHANGED <<etcdVars, kubeVars, workVars, changes, faults>>

\* A reconcile under way gets an error from its next request; the queue takes
\* no retry any more.
Abandon(w) ==
    /\ ctl = "lost" /\ wpc[w] # "idle"
    /\ Finish(w, Retry(wq, wname[w]))
    /\ missed' = missed \cup {wname[w]}
    /\ UNCHANGED <<etcdVars, kubeVars, runVars, boundVars>>

\* A worker that was already in Get takes one more name, only to have its first
\* request refused.  (Once per worker; no limit is needed for |Flows| <= |Workers|.)
LastGet(w) ==
    /\ ctl = "lost" /\ wpc[w] = "idle" /\ Ready(wq)
    /\ wq' = Retry(Take(wq), Head(wq.order))
    /\ missed' = missed \cup {Head(wq.order)}
    /\ UNCHANGED <<etcdVars, kubeVars, runVars, workVars, boundVars>>

\* runWithLeaderElection campaigns again, for longer than the cancelled requests
\* take to fail, and calls Run on the same controller.
RegainLease ==
    /\ ctl = "lost" /\ Held = {}
    /\ ctl' = "list"
    /\ UNCHANGED <<etcdVars, kubeVars, listed, watch, pending, out, wq, workVars,
                   boundVars, missed>>

ApiCall ==
    \E f \in Flows :
        \/ \E k \in Kinds : Submit(f, k)
        \/ \E v \in Versions : Rollback(f, v)
        \/ Delete(f)
Starting == List \/ Seeded \/ OpenWatch \/ \E f \in Flows : Seed(f) \/ SeedSkips(f)
Reconcile(w) ==
    \/ /\ ctl = "run"
       /\ \/ GetActive(w) \/ GetSpec(w) \/ DeleteResources(w) \/ DeleteSome(w)
          \/ ApplyConfigMap(w) \/ ApplyWorkload(w) \/ UpdateStatus(w)
    \/ Abandon(w)

Next ==
    \/ ApiCall
    \/ Starting
    \/ HandleEvent \/ DropEvent \/ EnqueueEvent \/ WatchEnds
    \/ \E w \in Workers : Get(w) \/ Reconcile(w) \/ Fail(w) \/ LastGet(w)
    \/ \E f \in Flows : BackOffEnds(f)
    \/ Crash \/ LoseLease \/ RegainLease

\* Goroutines run, back-offs end, a campaign for the lease succeeds.  Nothing
\* is assumed of API calls; faults are bounded.
Fairness ==
    /\ WF_vars(Starting)
    /\ WF_vars(HandleEvent) /\ WF_vars(EnqueueEvent)
    /\ \A w \in Workers : WF_vars(Get(w)) /\ WF_vars(Reconcile(w))
    /\ \A f \in Flows : WF_vars(BackOffEnds(f))
    /\ WF_vars(RegainLease)

Spec == Init /\ [][Next]_vars /\ Fairness

-----------------------------------------------------------------------------
(***************************************************************************)
(* Two workers never reconcile the same flow at once, whatever is added,   *)
(* retried and finished meanwhile: the create-or-update of ensureRuntime   *)
(* and the deletes of deleteRuntimeResources rely on it.                   *)
(***************************************************************************)
OneWorkerPerFlow ==
    \A v, w \in Workers : v # w /\ wname[v] # None => wname[v] # wname[w]

\* The revision etcd asks for: 0 for a flow that is not there.
Wanted(f) == IF active[f] = 0 THEN 0 ELSE spec[f][active[f]].rev

\* The ConfigMap and the workload of the wanted kind are those of the active
\* spec, an existing Job may be older, and the status reports its version; a
\* deleted flow has nothing left in the cluster.
Deployed(f) ==
    /\ config[f] = Wanted(f)
    /\ IF active[f] = 0
       THEN \A k \in Kinds : cluster[f][k] = 0
       ELSE LET s == spec[f][active[f]]
            IN  /\ \/ cluster[f][s.kind] = s.rev
                   \/ s.kind = Job /\ cluster[f][Job] # 0
                /\ status[f] = active[f]

(***************************************************************************)
(* Once the controller has nothing left to do for a flow of which it was   *)
(* told every change, the cluster has what the active spec asks for: a     *)
(* reconcile that read old data, or half failed, is always followed by     *)
(* another one.  (Not in a second term: see EveryTermConverges.)           *)
(***************************************************************************)
SettledIsDeployed == \A f \in Flows : Settled(f) /\ ~wq.shut => Deployed(f)

(***************************************************************************)
(* Through failed requests, retries and crashes the cluster comes to       *)
(* follow etcd, except for flows with a change the controller was not told *)
(* of, while the process has not lost its leadership.                      *)
(***************************************************************************)
Converges == \A f \in Flows : <>[](Deployed(f) \/ f \in missed \/ wq.shut)

(***************************************************************************)
(* The same in every term of leadership: runWithLeaderElection restarts    *)
(* the controller to go on reconciling (main.go: "restarting leader        *)
(* election").                                                             *)
(***************************************************************************)
EveryTermConverges == \A f \in Flows : <>[](Deployed(f) \/ f \in missed)
=============================================================================
