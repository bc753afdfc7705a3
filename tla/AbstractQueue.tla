--------------------------- MODULE AbstractQueue ---------------------------
(***************************************************************************)
(* What flowpipe::IQueue promises the stage runners (queue.h): a bounded   *)
(* FIFO whose push and pop return atomically.  A call is in progress from  *)
(* the moment a thread enters push() or pop() until it returns.            *)
(***************************************************************************)
EXTENDS Naturals, Sequences

CONSTANTS
    Producers,      \* threads that call push()
    Consumers,      \* threads that call pop()
    Payloads,       \* the values pushed
    Capacity,       \* bound on the number of queued payloads
    MaxAccepted     \* model bound: no new push() starts after this many payloads

VARIABLES
    queue,          \* payloads in the queue, oldest first
    closed,         \* close() has been called
    stop,           \* a stop has been requested through the StopToken
    inCall,         \* threads inside push() or pop()
    accepted,       \* history: payloads whose push() returned true
    delivered       \* history: payloads returned by pop()

avars == <<queue, closed, stop, inCall, accepted, delivered>>

AInit ==
    /\ queue = <<>>
    /\ closed = FALSE
    /\ stop = FALSE
    /\ inCall = {}
    /\ accepted = <<>>
    /\ delivered = <<>>

\* Thread t enters push() or pop().
Call(t) ==
    /\ t \notin inCall
    /\ t \in Producers => Len(accepted) < MaxAccepted
    /\ inCall' = inCall \cup {t}
    /\ UNCHANGED <<queue, closed, stop, accepted, delivered>>

\* push() returns true: there was room and nobody had closed or stopped.
Push(p, x) ==
    /\ p \in inCall
    /\ ~stop /\ ~closed
    /\ Len(queue) < Capacity
    /\ queue' = Append(queue, x)
    /\ accepted' = Append(accepted, x)
    /\ inCall' = inCall \ {p}
    /\ UNCHANGED <<closed, stop, delivered>>

\* push() returns false and leaves the queue alone.
Refuse(p) ==
    /\ p \in inCall
    /\ stop \/ closed
    /\ inCall' = inCall \ {p}
    /\ UNCHANGED <<queue, closed, stop, accepted, delivered>>

\* pop() returns the oldest payload, also after a close or a stop.
Pop(c) ==
    /\ c \in inCall
    /\ queue # <<>>
    /\ queue' = Tail(queue)
    /\ delivered' = Append(delivered, Head(queue))
    /\ inCall' = inCall \ {c}
    /\ UNCHANGED <<closed, stop, accepted>>

\* pop() returns nothing: only an empty queue, and only after a close or stop.
PopNothing(c) ==
    /\ c \in inCall
    /\ queue = <<>>
    /\ stop \/ closed
    /\ inCall' = inCall \ {c}
    /\ UNCHANGED <<queue, closed, stop, accepted, delivered>>

Close ==
    /\ closed' = TRUE
    /\ UNCHANGED <<queue, stop, inCall, accepted, delivered>>

RequestStop ==
    /\ stop' = TRUE
    /\ UNCHANGED <<queue, closed, inCall, accepted, delivered>>

PushSome == \E p \in Producers, x \in Payloads : Push(p, x)
PopSome  == \E c \in Consumers : Pop(c)

ANext ==
    \/ \E t \in Producers \cup Consumers : Call(t)
    \/ PushSome
    \/ PopSome
    \/ \E p \in Producers : Refuse(p)
    \/ \E c \in Consumers : PopNothing(c)
    \/ Close
    \/ RequestStop

(***************************************************************************)
(* Progress the callers may rely on.  While there is room some blocked     *)
(* push() returns, while there is a payload some blocked pop() returns,    *)
(* and once the queue is closed every call returns.  A stop alone promises *)
(* nothing to a thread that is already blocked.                            *)
(***************************************************************************)
AFairness ==
    /\ WF_avars(PushSome)
    /\ WF_avars(PopSome)
    /\ \A p \in Producers : WF_avars(closed /\ Refuse(p))
    /\ \A c \in Consumers : WF_avars(closed /\ (Pop(c) \/ PopNothing(c)))

ASafety == AInit /\ [][ANext]_avars
ASpec == ASafety /\ AFairness
=============================================================================
