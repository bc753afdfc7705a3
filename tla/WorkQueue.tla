----------------------------- MODULE WorkQueue -----------------------------
(***************************************************************************)
(* The controller's work queue (workqueue_memory.go) over client-go's      *)
(* rate-limited queue, which is a library: its behaviour is taken from how *)
(* the controller relies on it.  A queue is a value; the operators map a   *)
(* queue to the queue after the call.  The map of enqueue times is left    *)
(* out: it feeds a metric only.                                            *)
(***************************************************************************)
EXTENDS Naturals, Sequences

NewQueue ==
    [order      |-> <<>>,   \* keys ready to be taken
     dirty      |-> {},     \* keys that need work
     processing |-> {},     \* keys a worker has taken and not finished
     delayed    |-> {},     \* keys that wait for their back-off
     shut       |-> FALSE]  \* after Shutdown nothing is added

\* Seeded fault: a key is queued although a worker has it.
AddAlways(q, k) ==
    IF q.shut \/ k \in q.dirty THEN q
    ELSE [q EXCEPT !.dirty = @ \cup {k}, !.order = Append(@, k)]

\* Seeded fault: a key that needs work already is added a second time.
AddAgain(q, k) ==
    IF q.shut THEN q
    ELSE [q EXCEPT !.dirty = @ \cup {k},
                   !.order = IF k \in q.processing THEN @ ELSE Append(@, k)]

\* A key that needs work already is not added twice; one that a worker has
\* waits until the worker is done.
Add(q, k) ==
    IF q.shut \/ k \in q.dirty THEN q
    ELSE [q EXCEPT !.dirty = @ \cup {k},
                   !.order = IF k \in q.processing THEN @ ELSE Append(@, k)]

\* Get blocks while nothing is ready; after Shutdown it still hands out what is.
Ready(q) == q.order # <<>>
Take(q) ==
    LET k == Head(q.order)
    IN  [q EXCEPT !.order = Tail(@), !.dirty = @ \ {k}, !.processing = @ \cup {k}]

\* Seeded fault: what was added meanwhile is forgotten.
DoneForgets(q, k) == [q EXCEPT !.processing = @ \ {k}, !.dirty = @ \ {k}]

\* A key added while a worker had it becomes ready.
Done(q, k) ==
    [q EXCEPT !.processing = @ \ {k},
              !.order = IF k \in q.dirty THEN Append(@, k) ELSE @]

Forget(q, k) == Done(q, k)

\* Seeded fault: a failed key is only marked done.
RetryForgets(q, k) == Done(q, k)

\* AddRateLimited, then Done.
Retry(q, k) ==
    Done(IF q.shut THEN q ELSE [q EXCEPT !.delayed = @ \cup {k}], k)

\* The back-off of a delayed key ends.
Fire(q, k) == Add([q EXCEPT !.delayed = @ \ {k}], k)

\* Delayed keys are never added any more.
Shutdown(q) == [q EXCEPT !.shut = TRUE, !.delayed = {}]

\* Keys the queue will still hand out.
Owes(q) == q.dirty \cup q.delayed
=============================================================================
