-------------------------- MODULE ApiServerProofs --------------------------
(***************************************************************************)
(* The way up and down of the API process, for any number of clients, any  *)
(* requests and any configuration: a phase of main fixes what the store    *)
(* and the two servers can be, and each request is bound to the phases in  *)
(* which it can be where it is.                                            *)
(***************************************************************************)
EXTENDS ApiServer, TLAPS

Down == {"graceful", "shutdown", "close", "flush", "exited"}
InHTTPStages == {"middleware", "forward", "interceptor", "handler", "respond"}

\* A request is a record of its five fields.
Fields(q) ==
    [stage |-> q.stage, load |-> q.load, call |-> q.call, reply |-> q.reply,
     handled |-> q.handled]
Shape == req = [r \in Requests |-> Fields(req[r])]

\* What the phase of main says about the store and the servers.
Phase ==
    /\ pc \in {"telemetry", "store", "grpc", "http", "run"} \cup Down
    /\ pc \in {"grpc", "http", "run", "graceful", "shutdown", "close"} => etcd = "open"
    /\ pc \in {"telemetry", "store", "grpc"} => grpc = "none"
    /\ pc = "http" => grpc = "listening"
    /\ pc = "run" => grpc \in {"listening", "serving"}
    /\ pc = "graceful" => grpc = "draining"
    /\ pc \in {"shutdown", "close", "flush"} => grpc = "stopped"
    /\ pc = "exited" => grpc \in {"none", "listening", "stopped"}
    /\ pc \notin {"run", "graceful", "shutdown"} => http # "serving"

\* Where a request can be in which phase.
RequestOK(r) ==
    /\ req[r].stage \in {"interceptor", "handler"} => grpc \in {"serving", "draining"}
    /\ req[r].stage \in InHTTPStages /\ req[r].load.door = "http" =>
          pc \in {"run", "graceful", "shutdown"}
    /\ req[r].stage \in {"dialing", "connected"} => req[r].load.door # "http"
    /\ req[r].stage \in {"connected", "middleware", "forward"} => grpc # "none"
    /\ req[r].reply = "unavailable" => pc \in Down

ServerInv == Shape /\ Phase /\ \A r \in Requests : RequestOK(r)

-----------------------------------------------------------------------------
(* What the helpers do to a request. *)

\* An update of one request keeps the others and the form of all.
LEMMA UpdateOne ==
    ASSUME Shape, NEW r \in Requests, NEW q, q = Fields(q), req' = [req EXCEPT ![r] = q]
    PROVE  /\ Shape'
           /\ req'[r] = q
           /\ \A o \in Requests : o # r => req'[o] = req[o]
<1>1. DOMAIN req = Requests /\ \A o \in Requests : req[o] = Fields(req[o])
  BY DEF Shape
<1>2. req' = [o \in Requests |-> IF o = r THEN q ELSE req[o]]
  BY <1>1
<1>3. \A o \in Requests : req'[o] = Fields(req'[o])
  BY <1>1, <1>2 DEF Fields
<1> QED
  BY <1>2, <1>3 DEF Shape

\* Move changes the stage of one request and nothing else of it.
LEMMA MoveOne ==
    ASSUME Shape, NEW r \in Requests, NEW stage, Move(r, stage)
    PROVE  /\ Shape'
           /\ req'[r].stage = stage /\ req'[r].load = req[r].load
           /\ req'[r].reply = req[r].reply
           /\ req'[r].call = req[r].call /\ req'[r].handled = req[r].handled
           /\ \A o \in Requests : o # r => req'[o] = req[o]
<1> DEFINE q == [req[r] EXCEPT !.stage = stage]
<1>1. req[r] = Fields(req[r])
  BY DEF Shape
<1>2. req' = [req EXCEPT ![r] = q]
  BY DEF Move
<1>3. /\ q = Fields(q)
      /\ q.stage = stage /\ q.load = req[r].load /\ q.reply = req[r].reply
      /\ q.call = req[r].call /\ q.handled = req[r].handled
  BY <1>1 DEF Fields
<1> HIDE DEF q
<1>4. /\ Shape' /\ req'[r] = q
      /\ \A o \in Requests : o # r => req'[o] = req[o]
  BY <1>2, <1>3, UpdateOne
<1> QED
  BY <1>3, <1>4

\* Reply keeps all but the stage, and an answer that was given before.
LEMMA ReplyFields ==
    ASSUME NEW q, NEW reply, NEW stage, q = Fields(q)
    PROVE  /\ Reply(q, reply, stage) = Fields(Reply(q, reply, stage))
           /\ Reply(q, reply, stage).stage = stage
           /\ Reply(q, reply, stage).load = q.load
           /\ Reply(q, reply, stage).reply \in {reply, q.reply}
           /\ Reply(q, reply, stage).call = q.call
           /\ Reply(q, reply, stage).handled = q.handled
<1> DEFINE said == IF q.reply = "" THEN reply ELSE q.reply
           p == [stage |-> stage, load |-> q.load, call |-> q.call, reply |-> said,
                 handled |-> q.handled]
<1>1. q = [stage |-> q.stage, load |-> q.load, call |-> q.call, reply |-> q.reply,
           handled |-> q.handled]
  BY DEF Fields
<1>2. Reply(q, reply, stage) = [q EXCEPT !.stage = stage, !.reply = said]
  BY DEF Reply
<1> HIDE DEF said
<1>3. Reply(q, reply, stage) = p
  BY <1>1, <1>2
<1>4. /\ p = Fields(p) /\ p.stage = stage /\ p.load = q.load /\ p.reply = said
      /\ p.call = q.call /\ p.handled = q.handled
  BY DEF Fields
<1> QED
  BY <1>3, <1>4 DEF said

\* Answer ends a request of gRPC and leaves one of HTTP to be written.
LEMMA AnswerOne ==
    ASSUME Shape, NEW r \in Requests, NEW reply, Answer(r, reply)
    PROVE  /\ Shape'
           /\ req'[r].stage = IF req[r].load.door = "http" THEN "respond" ELSE "done"
           /\ req'[r].load = req[r].load
           /\ req'[r].reply \in {reply, req[r].reply}
           /\ req'[r].call = req[r].call /\ req'[r].handled = req[r].handled
           /\ \A o \in Requests : o # r => req'[o] = req[o]
<1> DEFINE stage == IF req[r].load.door = "http" THEN "respond" ELSE "done"
<1>1. req[r] = Fields(req[r])
  BY DEF Shape
<1>2. req' = [req EXCEPT ![r] = Reply(req[r], reply, stage)]
  BY DEF Answer
<1> HIDE DEF stage
<1>3. PICK a : a = Reply(req[r], reply, stage)
  OBVIOUS
<1>4. /\ a = Fields(a) /\ a.stage = stage /\ a.load = req[r].load
      /\ a.reply \in {reply, req[r].reply}
      /\ a.call = req[r].call /\ a.handled = req[r].handled
  BY <1>1, <1>3, ReplyFields
<1>5. /\ Shape' /\ req'[r] = a
      /\ \A o \in Requests : o # r => req'[o] = req[o]
  BY <1>2, <1>3, <1>4, UpdateOne
<1> QED
  BY <1>4, <1>5 DEF stage

\* A step of one request: the server stays as it is and so do the others.
LEMMA OneRequest ==
    ASSUME ServerInv, UNCHANGED server, NEW r \in Requests, Shape',
           \A o \in Requests : o # r => req'[o] = req[o],
           RequestOK(r)'
    PROVE  ServerInv'
<1>1. Phase'
  BY DEF ServerInv, Phase, server
<1>2. ASSUME NEW o \in Requests PROVE RequestOK(o)'
  <2>1. CASE o = r
    BY <2>1
  <2>2. CASE o # r
    BY <2>2 DEF ServerInv, RequestOK, server
  <2> QED
    BY <2>1, <2>2
<1> QED
  BY <1>1, <1>2 DEF ServerInv

-----------------------------------------------------------------------------
(* The requests' steps. *)

\* What Send makes of a request that goes out over HTTP, or not at all.
LEMMA SentFields ==
    ASSUME NEW q, NEW l, NEW s, q = Fields(q)
    PROVE  /\ [q EXCEPT !.load = l] =
                  [stage |-> q.stage, load |-> l, call |-> q.call, reply |-> q.reply,
                   handled |-> q.handled]
           /\ [q EXCEPT !.load = l, !.stage = s] =
                  [stage |-> s, load |-> l, call |-> q.call, reply |-> q.reply,
                   handled |-> q.handled]
<1>1. q = [stage |-> q.stage, load |-> q.load, call |-> q.call, reply |-> q.reply,
           handled |-> q.handled]
  BY DEF Fields
<1>2. [q EXCEPT !.load = l] =
          [stage |-> q.stage, load |-> l, call |-> q.call, reply |-> q.reply,
           handled |-> q.handled]
  BY <1>1
<1>3. PICK p : p = [q EXCEPT !.load = l]
  OBVIOUS
<1>4. p = [stage |-> q.stage, load |-> l, call |-> q.call, reply |-> q.reply,
           handled |-> q.handled]
  BY <1>2, <1>3
<1>5. [q EXCEPT !.load = l, !.stage = s] = [p EXCEPT !.stage = s]
  BY <1>3
<1>6. [p EXCEPT !.stage = s] =
          [stage |-> s, load |-> l, call |-> q.call, reply |-> q.reply, handled |-> q.handled]
  BY <1>4
<1> QED
  BY <1>2, <1>5, <1>6

\* What Send makes of a request that goes out over gRPC.
LEMMA DialedFields ==
    ASSUME NEW q, NEW l, NEW s, NEW c, q = Fields(q)
    PROVE  [q EXCEPT !.load = l, !.stage = s, !.call = c] =
               [stage |-> s, load |-> l, call |-> c, reply |-> q.reply, handled |-> q.handled]
<1>1. PICK p : p = [q EXCEPT !.load = l, !.stage = s]
  OBVIOUS
<1>2. p = [stage |-> s, load |-> l, call |-> q.call, reply |-> q.reply, handled |-> q.handled]
  BY <1>1, SentFields
<1>3. [q EXCEPT !.load = l, !.stage = s, !.call = c] = [p EXCEPT !.call = c]
  BY <1>1
<1>4. [p EXCEPT !.call = c] =
          [stage |-> s, load |-> l, call |-> c, reply |-> q.reply, handled |-> q.handled]
  BY <1>2
<1> QED
  BY <1>3, <1>4

\* A client sends its request over HTTP, flowctl refuses to, or it dials.
LEMMA SendOne ==
    ASSUME Shape, NEW r \in Requests, NEW l, Send(r, l)
    PROVE  /\ Shape'
           /\ req'[r].load = l /\ req'[r].handled = req[r].handled
           /\ \/ /\ l.door = "http"
                 /\ req'[r].stage = "connecting" /\ req'[r].reply = req[r].reply
              \/ /\ l.door = "grpc"
                 /\ req'[r].stage = "done" /\ req'[r].reply \in {"not sent", req[r].reply}
              \/ /\ l.door # "http" /\ ~(l.door = "grpc" /\ (l.calls = {} \/ dialAPI(l.options) = {}))
                 /\ req'[r].stage = "dialing" /\ req'[r].reply = req[r].reply
                 /\ req'[r].call = CHOOSE c \in l.calls : TRUE
           /\ \A o \in Requests : o # r => req'[o] = req[o]
<1>1. PICK q : q = req[r]
  OBVIOUS
<1>2. q = Fields(q)
  BY <1>1 DEF Shape
<1>3. ASSUME NEW a, a = Fields(a), req' = [req EXCEPT ![r] = a]
      PROVE  Shape' /\ req'[r] = a /\ \A o \in Requests : o # r => req'[o] = req[o]
  BY <1>3, UpdateOne
<1>4. CASE l.door = "http"
  <2>1. PICK s : s = "connecting"
    OBVIOUS
  <2>2. PICK a : a = [stage |-> s, load |-> l, call |-> q.call, reply |-> q.reply,
                      handled |-> q.handled]
    OBVIOUS
  <2>3. req' = [req EXCEPT ![r] = [q EXCEPT !.load = l, !.stage = s]]
    BY <1>1, <1>4, <2>1 DEF Send
  <2>4. /\ a = Fields(a) /\ a.stage = s /\ a.reply = q.reply /\ a.load = l
        /\ a.handled = q.handled
    BY <2>2 DEF Fields
  <2>5. [q EXCEPT !.load = l, !.stage = s] = a
    BY <1>2, <2>2, SentFields
  <2>6. req' = [req EXCEPT ![r] = a]
    BY <2>3, <2>5
  <2>7. Shape' /\ req'[r] = a /\ \A o \in Requests : o # r => req'[o] = req[o]
    BY <1>3, <2>4, <2>6
  <2> QED
    BY <1>1, <1>4, <2>1, <2>4, <2>7
<1>5. CASE l.door = "grpc" /\ (l.calls = {} \/ dialAPI(l.options) = {})
  <2>1. PICK b : b = [stage |-> q.stage, load |-> l, call |-> q.call, reply |-> q.reply,
                      handled |-> q.handled]
    OBVIOUS
  <2>2. PICK s, t : s = "done" /\ t = "not sent"
    OBVIOUS
  <2>3. req' = [req EXCEPT ![r] = Reply([q EXCEPT !.load = l], t, s)]
    BY <1>1, <1>5, <2>2 DEF Send
  <2>4. b = Fields(b) /\ b.reply = q.reply /\ b.load = l /\ b.handled = q.handled
    BY <2>1 DEF Fields
  <2>5. PICK a : a = Reply(b, t, s)
    OBVIOUS
  <2>6. /\ a = Fields(a) /\ a.stage = s /\ a.load = b.load /\ a.reply \in {t, b.reply}
        /\ a.handled = b.handled
    BY <2>4, <2>5, ReplyFields
  <2>7. req' = [req EXCEPT ![r] = a]
    BY <1>2, <2>1, <2>3, <2>5, SentFields
  <2>8. Shape' /\ req'[r] = a /\ \A o \in Requests : o # r => req'[o] = req[o]
    BY <1>3, <2>6, <2>7
  <2> QED
    BY <1>1, <1>5, <2>2, <2>4, <2>6, <2>8
<1>6. CASE l.door # "http" /\ ~(l.door = "grpc" /\ (l.calls = {} \/ dialAPI(l.options) = {}))
  <2>1. PICK c, s : c = (CHOOSE x \in l.calls : TRUE) /\ s = "dialing"
    OBVIOUS
  <2>2. PICK a : a = [stage |-> s, load |-> l, call |-> c, reply |-> q.reply,
                      handled |-> q.handled]
    OBVIOUS
  <2>3. req' = [req EXCEPT ![r] = [q EXCEPT !.load = l, !.stage = s, !.call = c]]
    BY <1>1, <1>6, <2>1 DEF Send
  <2>4. /\ a = Fields(a) /\ a.stage = s /\ a.reply = q.reply /\ a.load = l
        /\ a.call = c /\ a.handled = q.handled
    BY <2>2 DEF Fields
  <2>5. [q EXCEPT !.load = l, !.stage = s, !.call = c] = a
    BY <1>2, <2>2, DialedFields
  <2>6. req' = [req EXCEPT ![r] = a]
    BY <2>3, <2>5
  <2>7. Shape' /\ req'[r] = a /\ \A o \in Requests : o # r => req'[o] = req[o]
    BY <1>3, <2>4, <2>6
  <2> QED
    BY <1>1, <1>6, <2>1, <2>4, <2>7
<1> QED
  BY <1>4, <1>5, <1>6

\* Whatever becomes of it, a request that is sent fits the phase.
LEMMA SendKeeps ==
    ASSUME ServerInv, NEW r \in Requests, NEW l, Send(r, l)
    PROVE  ServerInv'
<1>1. Shape /\ RequestOK(r) /\ UNCHANGED server
  BY DEF ServerInv, Send
<1>2. Shape' /\ req'[r].load = l /\ \A o \in Requests : o # r => req'[o] = req[o]
  BY <1>1, SendOne
<1>3. /\ req'[r].stage \in {"connecting", "done"} \/ (req'[r].stage = "dialing" /\ l.door # "http")
      /\ req'[r].reply \in {"not sent", req[r].reply}
  BY <1>1, SendOne
<1>4. RequestOK(r)'
  BY <1>1, <1>2, <1>3 DEF RequestOK, server, Down, InHTTPStages
<1> QED
  BY <1>1, <1>2, <1>4, OneRequest

\* A request moves to a stage that fits the phase.
LEMMA MoveKeeps ==
    ASSUME ServerInv, NEW r \in Requests, UNCHANGED server, NEW stage, Move(r, stage),
           stage \in {"interceptor", "handler"} => grpc \in {"serving", "draining"},
           stage \in InHTTPStages /\ req[r].load.door = "http" =>
               pc \in {"run", "graceful", "shutdown"},
           stage \in {"dialing", "connected"} => req[r].load.door # "http",
           stage \in {"connected", "middleware", "forward"} => grpc # "none"
    PROVE  ServerInv'
<1>1. Shape /\ RequestOK(r)
  BY DEF ServerInv
<1>2. /\ Shape'
      /\ req'[r].stage = stage /\ req'[r].load = req[r].load
      /\ req'[r].reply = req[r].reply
      /\ \A o \in Requests : o # r => req'[o] = req[o]
  BY <1>1, MoveOne
<1>3. RequestOK(r)'
  BY <1>1, <1>2 DEF RequestOK, server
<1> QED
  BY <1>2, <1>3, OneRequest

\* A request is answered, with Unavailable only on the way down.
LEMMA AnswerKeeps ==
    ASSUME ServerInv, NEW r \in Requests, UNCHANGED server, NEW reply, Answer(r, reply),
           req[r].load.door = "http" => pc \in {"run", "graceful", "shutdown"},
           reply = "unavailable" => pc \in Down
    PROVE  ServerInv'
<1>1. Shape /\ RequestOK(r)
  BY DEF ServerInv
<1>2. /\ Shape'
      /\ req'[r].stage = IF req[r].load.door = "http" THEN "respond" ELSE "done"
      /\ req'[r].load = req[r].load
      /\ req'[r].reply \in {reply, req[r].reply}
      /\ \A o \in Requests : o # r => req'[o] = req[o]
  BY <1>1, AnswerOne
<1>3. RequestOK(r)'
  BY <1>1, <1>2 DEF RequestOK, server
<1> QED
  BY <1>2, <1>3, OneRequest

\* A client gives up or is refused.
LEMMA ReplyKeeps ==
    ASSUME ServerInv, NEW r \in Requests, UNCHANGED server, NEW reply, NEW stage,
           req' = [req EXCEPT ![r] = Reply(req[r], reply, stage)],
           reply # "unavailable", stage \in {"done", req[r].stage}
    PROVE  ServerInv'
<1>1. Shape /\ RequestOK(r) /\ req[r] = Fields(req[r])
  BY DEF ServerInv, Shape
<1>2. PICK a : a = Reply(req[r], reply, stage)
  OBVIOUS
<1>3. a = Fields(a) /\ a.stage = stage /\ a.load = req[r].load /\ a.reply \in {reply, req[r].reply}
  BY <1>1, <1>2, ReplyFields
<1>4. /\ Shape' /\ req'[r] = a
      /\ \A o \in Requests : o # r => req'[o] = req[o]
  BY <1>1, <1>2, <1>3, UpdateOne
<1>5. RequestOK(r)'
  BY <1>1, <1>3, <1>4 DEF RequestOK, server, InHTTPStages
<1> QED
  BY <1>4, <1>5, OneRequest

\* The steps of a client: dial, call, deadline, connect.
LEMMA ClientKeeps ==
    ASSUME ServerInv, NEW r \in Requests, Client(r)
    PROVE  ServerInv'
<1> USE DEF InHTTPStages
<1>1. Shape /\ RequestOK(r) /\ Phase
  BY DEF ServerInv
<1>2. CASE Dial(r)
  <2>1. UNCHANGED server /\ Move(r, "connected") /\ grpc = "serving" /\ req[r].stage = "dialing"
    BY <1>2 DEF Dial
  <2> QED
    BY <1>1, <2>1, MoveKeeps DEF RequestOK
<1>3. CASE CallGRPC(r)
  <2>1. UNCHANGED server /\ req[r].stage = "connected" /\ req[r].load.door # "http" /\ grpc # "none"
    BY <1>1, <1>3 DEF CallGRPC, RequestOK
  <2>2. CASE grpc \in {"serving", "draining"} /\ Move(r, "interceptor")
    BY <2>1, <2>2, MoveKeeps
  <2>3. CASE grpc \in {"none", "draining", "stopped"} /\ Answer(r, "unavailable")
    <3>1. pc \in Down
      BY <1>1, <2>1, <2>3 DEF Phase, Down
    <3> QED
      BY <2>1, <2>3, <3>1, AnswerKeeps
  <2> QED
    BY <1>3, <2>2, <2>3 DEF CallGRPC, Invoked
<1>4. CASE GiveUp(r)
  <2>1. PICK t, s : /\ t = "deadline"
                    /\ s = IF req[r].stage \in {"dialing", "connected"} THEN "done" ELSE req[r].stage
    OBVIOUS
  <2>2. req' = [req EXCEPT ![r] = Reply(req[r], t, s)] /\ UNCHANGED server
    BY <1>4, <2>1 DEF GiveUp
  <2>3. t # "unavailable" /\ s \in {"done", req[r].stage}
    BY <2>1
  <2> QED
    BY <2>2, <2>3, ReplyKeeps
<1>5. CASE Connect(r)
  <2>1. CASE http = "serving" /\ pc # "exited" /\ req[r].load.tls = Load.HTTPTLSEnabled
    <3>1. Move(r, "middleware") /\ UNCHANGED server
      BY <1>5, <2>1 DEF Connect
    <3>2. pc \in {"run", "graceful", "shutdown"} /\ grpc # "none"
      BY <1>1, <2>1 DEF Phase
    <3> QED
      BY <3>1, <3>2, MoveKeeps
  <2>2. CASE ~(http = "serving" /\ pc # "exited" /\ req[r].load.tls = Load.HTTPTLSEnabled)
    <3>1. PICK t, s : t = "refused" /\ s = "done"
      OBVIOUS
    <3>2. req' = [req EXCEPT ![r] = Reply(req[r], t, s)] /\ UNCHANGED server
      BY <1>5, <2>2, <3>1 DEF Connect
    <3>3. t # "unavailable" /\ s \in {"done", req[r].stage}
      BY <3>1
    <3> QED
      BY <3>2, <3>3, ReplyKeeps
  <2> QED
    BY <2>1, <2>2
<1> QED
  BY <1>2, <1>3, <1>4, <1>5 DEF Client

\* The gateway has found a call to make of the request.
LEMMA ForwardedOne ==
    ASSUME Shape, NEW r \in Requests, NEW s, NEW c,
           req' = [req EXCEPT ![r].stage = s, ![r].call = c]
    PROVE  /\ Shape'
           /\ req'[r].stage = s /\ req'[r].load = req[r].load
           /\ req'[r].reply = req[r].reply
           /\ req'[r].call = c /\ req'[r].handled = req[r].handled
           /\ \A o \in Requests : o # r => req'[o] = req[o]
<1>1. PICK q : q = req[r]
  OBVIOUS
<1>2. DOMAIN req = Requests /\ req = [o \in Requests |-> req[o]] /\ q = Fields(q)
  BY <1>1 DEF Shape
<1>3. q = [stage |-> q.stage, load |-> q.load, call |-> q.call, reply |-> q.reply,
           handled |-> q.handled]
  BY <1>2 DEF Fields
<1>4. PICK p : p = [stage |-> s, load |-> q.load, call |-> q.call, reply |-> q.reply,
                    handled |-> q.handled]
  OBVIOUS
<1>5. PICK a : a = [stage |-> s, load |-> q.load, call |-> c, reply |-> q.reply,
                    handled |-> q.handled]
  OBVIOUS
<1>6. [q EXCEPT !.stage = s] = p
  BY <1>3, <1>4
<1>7. [p EXCEPT !.call = c] = a
  BY <1>4, <1>5
<1>8. PICK f : f = [req EXCEPT ![r] = p]
  OBVIOUS
<1>9. f[r] = p
  BY <1>2, <1>8
<1>10. req' = [f EXCEPT ![r].call = c]
  BY <1>1, <1>6, <1>8
<1>11. req' = [f EXCEPT ![r] = a]
  BY <1>7, <1>9, <1>10
<1>12. req' = [req EXCEPT ![r] = a]
  BY <1>2, <1>8, <1>11
<1>13. /\ a = Fields(a) /\ a.stage = s /\ a.load = q.load /\ a.reply = q.reply
       /\ a.call = c /\ a.handled = q.handled
  BY <1>5 DEF Fields
<1>14. /\ Shape' /\ req'[r] = a
       /\ \A o \in Requests : o # r => req'[o] = req[o]
  BY <1>12, <1>13, UpdateOne
<1> QED
  BY <1>1, <1>13, <1>14

\* The HTTP handler: authentication, the route, the decoding.
LEMMA ServeRequestKeeps ==
    ASSUME ServerInv, NEW r \in Requests, ServeRequest(r)
    PROVE  ServerInv'
<1> DEFINE l == req[r].load
           rpcs == Routed(l.http)
           calls == UNION {Decode(rpc, l.http) : rpc \in rpcs}
           ok == apiKeyHTTPMiddleware(l.values)
<1>1. Shape /\ RequestOK(r) /\ UNCHANGED server /\ req[r].stage = "middleware"
  BY DEF ServerInv, ServeRequest
<1>2. /\ req[r].load.door = "http" => pc \in {"run", "graceful", "shutdown"}
      /\ grpc # "none"
  BY <1>1 DEF RequestOK, InHTTPStages
<1>3. ASSUME NEW reply, Answer(r, reply), reply # "unavailable" PROVE ServerInv'
  BY <1>1, <1>2, <1>3, AnswerKeeps
<1>4. CASE ~ok
  <2>1. Answer(r, "unauthenticated")
    BY <1>4 DEF ServeRequest
  <2> QED
    BY <1>3, <2>1
<1>5. CASE ok /\ rpcs = {}
  <2>1. Answer(r, IF OtherVerb(l.http) THEN "not allowed" ELSE "not found")
    BY <1>5 DEF ServeRequest
  <2> QED
    BY <1>3, <2>1
<1>6. CASE ok /\ rpcs # {} /\ calls = {}
  <2>1. Answer(r, "invalid")
    BY <1>6 DEF ServeRequest
  <2> QED
    BY <1>3, <2>1
<1>7. CASE ok /\ rpcs # {} /\ calls # {}
  <2>1. PICK c \in calls : req' = [req EXCEPT ![r].stage = "forward", ![r].call = c]
    BY <1>7 DEF ServeRequest
  <2>2. PICK s : s = "forward"
    OBVIOUS
  <2>3. req' = [req EXCEPT ![r].stage = s, ![r].call = c]
    BY <2>1, <2>2
  <2>4. /\ Shape'
        /\ req'[r].stage = s /\ req'[r].load = req[r].load
        /\ req'[r].reply = req[r].reply
        /\ \A o \in Requests : o # r => req'[o] = req[o]
    BY <1>1, <2>3, ForwardedOne
  <2>5. RequestOK(r)'
    BY <1>1, <1>2, <2>2, <2>4 DEF RequestOK, server, InHTTPStages
  <2> QED
    BY <1>1, <2>4, <2>5, OneRequest
<1> QED
  BY <1>4, <1>5, <1>6, <1>7

\* The service's method ends: it was called with what the handler decoded.
LEMMA HandleOne ==
    ASSUME Shape, NEW r \in Requests, Handle(r)
    PROVE  /\ Shape'
           /\ req'[r].stage = IF req[r].load.door = "http" THEN "respond" ELSE "done"
           /\ req'[r].load = req[r].load /\ req'[r].call = req[r].call
           /\ req'[r].reply \in {"ok", "error", req[r].reply}
           /\ req'[r].handled \in Handler(Invoke(req[r].call))
           /\ \A o \in Requests : o # r => req'[o] = req[o]
<1>1. PICK q : q = req[r]
  OBVIOUS
<1>2. q = Fields(q)
  BY <1>1 DEF Shape
<1>3. PICK s : s = IF q.load.door = "http" THEN "respond" ELSE "done"
  OBVIOUS
<1>4. PICK h \in Handler(Invoke(req[r].call)), reply \in {"ok", "error"} :
          req' = [req EXCEPT ![r] = [Reply(q, reply, s) EXCEPT !.handled = h]]
  BY <1>1, <1>3 DEF Handle
<1>5. PICK b : b = Reply(q, reply, s)
  OBVIOUS
<1>6. /\ b = Fields(b) /\ b.stage = s /\ b.load = q.load /\ b.reply \in {reply, q.reply}
      /\ b.call = q.call
  BY <1>2, <1>5, ReplyFields
<1>7. PICK a : a = [stage |-> b.stage, load |-> b.load, call |-> b.call, reply |-> b.reply,
                    handled |-> h]
  OBVIOUS
<1>8. [b EXCEPT !.handled = h] = a
  BY <1>6, <1>7 DEF Fields
<1>9. /\ a = Fields(a) /\ a.stage = b.stage /\ a.load = b.load /\ a.reply = b.reply
      /\ a.call = b.call /\ a.handled = h
  BY <1>7 DEF Fields
<1>10. req' = [req EXCEPT ![r] = a]
  BY <1>4, <1>5, <1>8
<1>11. Shape' /\ req'[r] = a /\ \A o \in Requests : o # r => req'[o] = req[o]
  BY <1>9, <1>10, UpdateOne
<1> QED
  BY <1>1, <1>3, <1>4, <1>6, <1>9, <1>11

\* A request that was handled fits the phase.
LEMMA HandleKeeps ==
    ASSUME ServerInv, NEW r \in Requests, Handle(r)
    PROVE  ServerInv'
<1>1. Shape /\ RequestOK(r) /\ UNCHANGED server /\ req[r].stage = "handler"
  BY DEF ServerInv, Handle
<1>2. /\ Shape' /\ \A o \in Requests : o # r => req'[o] = req[o]
      /\ req'[r].stage = IF req[r].load.door = "http" THEN "respond" ELSE "done"
      /\ req'[r].load = req[r].load
      /\ req'[r].reply \in {"ok", "error", req[r].reply}
  BY <1>1, HandleOne
<1>3. RequestOK(r)'
  BY <1>1, <1>2 DEF RequestOK, server, InHTTPStages
<1> QED
  BY <1>1, <1>2, <1>3, OneRequest

\* The steps of the goroutines that serve a request.
LEMMA ServingKeeps ==
    ASSUME ServerInv, NEW r \in Requests, Serving(r)
    PROVE  ServerInv'
<1> USE DEF InHTTPStages
<1>1. Shape /\ RequestOK(r) /\ Phase
  BY DEF ServerInv
<1>2. CASE ServeRequest(r)
  BY <1>2, ServeRequestKeeps
<1>3. CASE Forward(r)
  <2>1. /\ UNCHANGED server /\ grpc # "none"
        /\ req[r].load.door = "http" => pc \in {"run", "graceful", "shutdown"}
    BY <1>1, <1>3 DEF Forward, RequestOK
  <2>2. CASE grpc \in {"serving", "draining"} /\ Move(r, "interceptor")
    BY <2>1, <2>2, MoveKeeps
  <2>3. CASE grpc \in {"none", "draining", "stopped"} /\ Answer(r, "unavailable")
    <3>1. pc \in Down
      BY <1>1, <2>1, <2>3 DEF Phase, Down
    <3> QED
      BY <2>1, <2>3, <3>1, AnswerKeeps
  <2> QED
    BY <1>3, <2>2, <2>3 DEF Forward, Invoked
<1>4. CASE Intercept(r)
  <2>1. /\ UNCHANGED server /\ grpc \in {"serving", "draining"}
        /\ req[r].load.door = "http" => pc \in {"run", "graceful", "shutdown"}
    BY <1>1, <1>4 DEF Intercept, RequestOK
  <2>2. CASE Move(r, "handler")
    BY <2>1, <2>2, MoveKeeps
  <2>3. CASE Answer(r, "unauthenticated")
    BY <2>1, <2>3, AnswerKeeps
  <2> QED
    BY <1>4, <2>2, <2>3 DEF Intercept
<1>5. CASE Handle(r)
  BY <1>5, HandleKeeps
<1>6. CASE Respond(r)
  <2>1. UNCHANGED server /\ Move(r, "done")
    BY <1>6 DEF Respond
  <2> QED
    BY <2>1, MoveKeeps
<1> QED
  BY <1>2, <1>3, <1>4, <1>5, <1>6 DEF Serving, Working, Exchange

-----------------------------------------------------------------------------
(* The server's steps leave the requests where they are. *)

\* main and Run: the way up, Stop, and the way down in its order.
LEMMA MainKeeps ==
    ASSUME ServerInv, Main
    PROVE  ServerInv'
<1> USE DEF ServerInv, Shape, Phase, RequestOK, Down, InHTTPStages
<1>1. CASE Setup
  BY <1>1 DEF Setup, Exit
<1>2. CASE NewEtcd
  BY <1>2 DEF NewEtcd, Exit
<1>3. CASE NewGRPCServer
  BY <1>3 DEF NewGRPCServer, Exit
<1>4. CASE NewHTTPServer
  BY <1>4 DEF NewHTTPServer, Exit
<1>5. CASE Stop
  BY <1>5 DEF Stop
<1>6. CASE ShutdownGRPC
  BY <1>6 DEF ShutdownGRPC, InHandlers
<1>7. CASE CloseHTTP
  BY <1>7 DEF CloseHTTP
<1>8. CASE ShutdownHTTP
  BY <1>8 DEF ShutdownHTTP, InHTTP
<1>9. CASE CloseStore
  BY <1>9 DEF CloseStore
<1>10. CASE ShutdownTelemetry
  BY <1>10 DEF ShutdownTelemetry
<1> QED
  BY <1>1, <1>2, <1>3, <1>4, <1>5, <1>6, <1>7, <1>8, <1>9, <1>10 DEF Main

\* The serving goroutines start and fail, streams come and go; a signal arrives.
LEMMA OtherKeeps ==
    ASSUME ServerInv,
           ServeGRPC \/ ServeHTTP \/ FailHTTP \/ Signal \/ OpenStream \/ CloseStream
    PROVE  ServerInv'
<1> USE DEF ServerInv, Shape, Phase, RequestOK, Down, InHTTPStages
<1>1. CASE ServeGRPC
  BY <1>1 DEF ServeGRPC
<1>2. CASE ServeHTTP
  BY <1>2 DEF ServeHTTP
<1>3. CASE Signal
  BY <1>3 DEF Signal, Exit
<1>4. CASE FailHTTP
  BY <1>4 DEF FailHTTP
<1>5. CASE OpenStream \/ CloseStream
  BY <1>5 DEF OpenStream, CloseStream
<1> QED
  BY <1>1, <1>2, <1>3, <1>4, <1>5

-----------------------------------------------------------------------------
(***************************************************************************)
(* The invariant: phases and requests fit together in every state of the   *)
(* API process (server.go, grpc.go, http.go, main.go).                     *)
(***************************************************************************)
THEOREM ServerInvariant == Spec => []ServerInv
<1>1. Init => ServerInv
  <2> SUFFICES ASSUME Init PROVE ServerInv
    OBVIOUS
  <2>1. \A r \in Requests : req[r] = Blank
    BY DEF Init
  <2>2. Blank = Fields(Blank) /\ Blank.stage = "unsent" /\ Blank.reply = ""
    BY DEF Blank, Fields
  <2>3. req = [r \in Requests |-> Fields(req[r])]
    BY <2>1, <2>2 DEF Init
  <2>4. ASSUME NEW r \in Requests PROVE RequestOK(r)
    BY <2>1, <2>2 DEF RequestOK, InHTTPStages
  <2>5. Phase
    BY DEF Init, Phase
  <2> QED
    BY <2>3, <2>4, <2>5 DEF ServerInv, Shape
<1>2. ServerInv /\ [Next]_vars => ServerInv'
  <2> SUFFICES ASSUME ServerInv, [Next]_vars PROVE ServerInv'
    OBVIOUS
  <2>1. CASE Main
    BY <2>1, MainKeeps
  <2>2. CASE ServeGRPC \/ ServeHTTP \/ FailHTTP \/ Signal \/ OpenStream \/ CloseStream
    BY <2>2, OtherKeeps
  <2>3. ASSUME NEW r \in Requests, Serving(r) PROVE ServerInv'
    BY <2>3, ServingKeeps
  <2>4. ASSUME NEW r \in Requests, Client(r) PROVE ServerInv'
    BY <2>4, ClientKeeps
  <2>5. ASSUME NEW r \in Requests, NEW l \in Loads[r], Send(r, l) PROVE ServerInv'
    BY <2>5, SendKeeps
  <2>6. CASE UNCHANGED vars
    BY <2>6 DEF vars, ServerInv, Shape, Phase, RequestOK
  <2> QED
    BY <2>1, <2>2, <2>3, <2>4, <2>5, <2>6 DEF Next
<1> QED
  BY <1>1, <1>2, PTL DEF Spec

(***************************************************************************)
(* main's deferred Close of the store comes after the last handler.        *)
(***************************************************************************)
THEOREM HandlersHaveStore == Spec => []StoreOutlivesHandlers
<1>1. ServerInv => StoreOutlivesHandlers
  BY DEF ServerInv, RequestOK, Phase, Down, StoreOutlivesHandlers
<1> QED
  BY <1>1, ServerInvariant, PTL

(***************************************************************************)
(* The process ends without cutting off a request a server has begun.      *)
(***************************************************************************)
THEOREM RequestsFinish == Spec => []NoneCutOff
<1>1. ServerInv => NoneCutOff
  BY DEF ServerInv, RequestOK, Phase, Down, InHTTPStages, NoneCutOff, InHandlers, InHTTP
<1> QED
  BY <1>1, ServerInvariant, PTL

(***************************************************************************)
(* The gateway and flowctl get Unavailable only from a process that is on  *)
(* its way down.                                                           *)
(***************************************************************************)
THEOREM RefusedOnlyGoingDown == Spec => []NoEarlyRefusal
<1>1. ServerInv => NoEarlyRefusal
  BY DEF ServerInv, RequestOK, Down, NoEarlyRefusal
<1> QED
  BY <1>1, ServerInvariant, PTL
-----------------------------------------------------------------------------
(* What a request carries from its client to the service's method. *)

\* The verdict on a client's credentials, through its door and by the interceptor.
Passes(l) == apiKeyUnaryInterceptor(Connection(l).values)
Turned(l) == ~Passes(l) \/ (l.door = "http" /\ ~apiKeyHTTPMiddleware(l.values))
\* The calls the gateway may make of an HTTP request.
Decoded(l) == UNION {Decode(rpc, l.http) : rpc \in Routed(l.http)}

Carried(r) ==
    LET q == req[r]
    IN  /\ q.stage = "unsent" => q.load = NoBody /\ q.handled = NoBody /\ q.reply = ""
        /\ q.stage # "unsent" => q.load \in Loads[r]
        /\ q.stage \in {"connecting", "middleware", "forward"} => q.load.door = "http"
        /\ q.stage \in {"dialing", "connected", "interceptor", "handler"}
              /\ q.load.door = "grpc" =>
                 q.call \in q.load.calls /\ dialAPI(q.load.options) # {}
        /\ q.stage \in {"forward", "interceptor", "handler"} /\ q.load.door = "http" =>
              q.call \in Decoded(q.load)
        /\ q.stage = "handler" \/ q.handled # NoBody => Passes(q.load)
        /\ q.reply = "unauthenticated" =>
              /\ Turned(q.load) /\ ensureAPIKeyConfigured(Load)
              /\ q.load.door = "grpc" => dialAPI(q.load.options) # {}
        /\ q.handled # NoBody =>
              /\ q.load.door = "grpc" => q.handled \in q.load.calls
              /\ q.load.door = "http" => q.handled \in Decoded(q.load)

\* The values the server's variables have; only one goroutine reports to errCh.
Settings ==
    /\ env \in Environments /\ code \in 0 .. 2 /\ ctxDone \in BOOLEAN
    /\ telemetry \in {"off", "on", "flushed"} /\ etcd \in {"none", "open", "closed"}
    /\ grpc \in {"none", "listening", "serving", "draining", "stopped"}
    /\ http \in {"none", "serving", "failed", "closed"}
    /\ stream \in BOOLEAN
    /\ errCh \in 0 .. 1 /\ (http \in {"none", "serving"} => errCh = 0)

\* A process that opened a port has a key, if it asks for one.
AdmitInv ==
    /\ Settings
    /\ grpc # "none" => ensureAPIKeyConfigured(Load)
    /\ \A r \in Requests : Carried(r)

\* A call is what Call makes.
LEMMA CallIsCall ==
    ASSUME NEW rpc \in RPCs, NEW name, NEW version, NEW body
    PROVE  IsCall(Call(rpc, name, version, body))
  BY DEF IsCall, Call

\* The server's tables take a call to the method its stub names, with its message.
LEMMA HandlerFinds ==
    ASSUME NEW c, IsCall(c), NEW h \in Handler(Invoke(c)) PROVE h = c
<1>1. PICK m \in RPCs : FullMethodName(m) = Invoke(c).method /\ h = [Invoke(c).in EXCEPT !.rpc = m]
  BY DEF Handler, FlowService_Handler, SchemaRegistryService_Handler, FlowService_ServiceDesc,
         SchemaRegistryService_ServiceDesc, RPCs
<1>2. Invoke(c).method = FullMethodName(c.rpc) /\ Invoke(c).in = c
  BY DEF Invoke, flowServiceClient, schemaRegistryServiceClient
<1>3. m = c.rpc
  BY <1>1, <1>2 DEF FullMethodName
<1>4. c = [rpc |-> c.rpc, name |-> c.name, version |-> c.version, body |-> c.body]
  BY DEF IsCall, Call
<1> QED
  BY <1>1, <1>2, <1>3, <1>4

\* What the gateway decodes is a call.
LEMMA DecodesCalls ==
    ASSUME NEW rpc \in RPCs, NEW h, NEW c \in Decode(rpc, h) PROVE IsCall(c)
<1>1. PICK m, name, version, body : m \in RPCs /\ c = Call(m, name, version, body)
  <2> USE DEF RPCs, FlowService, SchemaRegistryService
  <2>1. CASE rpc = "CreateFlow"
    BY <2>1 DEF Decode, request_CreateFlow
  <2>2. CASE rpc = "UpdateFlow"
    BY <2>2 DEF Decode, request_UpdateFlow
  <2>3. CASE rpc = "DeleteFlow"
    BY <2>3 DEF Decode, request_DeleteFlow
  <2>4. CASE rpc = "GetFlow"
    BY <2>4 DEF Decode, request_GetFlow
  <2>5. CASE rpc = "ListFlows"
    BY <2>5 DEF Decode, request_ListFlows
  <2>6. CASE rpc = "GetFlowStatus"
    BY <2>6 DEF Decode, request_GetFlowStatus
  <2>7. CASE rpc = "RollbackFlow"
    BY <2>7 DEF Decode, request_RollbackFlow
  <2>8. CASE rpc = "CreateSchema"
    BY <2>8 DEF Decode, request_CreateSchema
  <2>9. CASE rpc = "GetSchema"
    BY <2>9 DEF Decode, request_GetSchema
  <2>10. CASE rpc = "ListSchemaVersions"
    BY <2>10 DEF Decode, request_ListSchemaVersions
  <2>11. CASE rpc = "DeleteSchema"
    BY <2>11 DEF Decode, request_DeleteSchema
  <2> QED
    BY <2>1, <2>2, <2>3, <2>4, <2>5, <2>6, <2>7, <2>8, <2>9, <2>10, <2>11
<1> QED
  BY <1>1, CallIsCall

\* The configuration is read once: the verdicts do not change.
LEMMA SameVerdict ==
    ASSUME env' = env
    PROVE  /\ \A l : Passes(l)' <=> Passes(l)
           /\ \A l : Turned(l)' <=> Turned(l)
           /\ ensureAPIKeyConfigured(Load)' <=> ensureAPIKeyConfigured(Load)
<1>1. Load' = Load
  BY DEF Load
<1>2. \A v : apiKeyUnaryInterceptor(v)' <=> apiKeyUnaryInterceptor(v)
  BY <1>1 DEF apiKeyUnaryInterceptor
<1>3. \A v : apiKeyHTTPMiddleware(v)' <=> apiKeyHTTPMiddleware(v)
  BY <1>1 DEF apiKeyHTTPMiddleware
<1>4. \A l : Passes(l)' <=> Passes(l)
  BY <1>2 DEF Passes
<1>5. \A l : Turned(l)' <=> Turned(l)
  BY <1>3, <1>4 DEF Turned
<1> QED
  BY <1>1, <1>4, <1>5 DEF ensureAPIKeyConfigured

\* A step of one request: the others carry what they did.
LEMMA OneCarried ==
    ASSUME AdmitInv, UNCHANGED server, NEW r \in Requests,
           \A o \in Requests : o # r => req'[o] = req[o],
           Carried(r)'
    PROVE  AdmitInv'
<1>1. env' = env /\ grpc' = grpc
  BY DEF server
<1>2. Settings'
  BY DEF AdmitInv, Settings, server
<1>3. grpc' # "none" => ensureAPIKeyConfigured(Load)'
  BY <1>1, SameVerdict DEF AdmitInv
<1>4. ASSUME NEW o \in Requests PROVE Carried(o)'
  <2>1. CASE o = r
    BY <2>1
  <2>2. CASE o # r
    <3>1. Carried(o) /\ req'[o] = req[o]
      BY <2>2 DEF AdmitInv
    <3> QED
      BY <1>1, <3>1, SameVerdict DEF Carried
  <2> QED
    BY <2>1, <2>2
<1> QED
  BY <1>2, <1>3, <1>4 DEF AdmitInv

\* A request moves on with what it carries, past the interceptor if it passes.
LEMMA MoveCarries ==
    ASSUME Shape, AdmitInv, NEW r \in Requests, UNCHANGED server, NEW stage, Move(r, stage),
           req[r].stage # "unsent", stage # "unsent",
           stage \in {"connecting", "middleware", "forward"} => req[r].load.door = "http",
           stage \in {"dialing", "connected", "interceptor", "handler"}
              /\ req[r].load.door = "grpc" =>
                 req[r].stage \in {"dialing", "connected", "interceptor", "handler"},
           stage \in {"forward", "interceptor", "handler"} /\ req[r].load.door = "http" =>
              req[r].stage \in {"forward", "interceptor", "handler"},
           stage = "handler" => Passes(req[r].load)
    PROVE  AdmitInv'
<1>1. Carried(r) /\ env' = env
  BY DEF AdmitInv, server
<1>2. /\ req'[r].stage = stage /\ req'[r].load = req[r].load
      /\ req'[r].reply = req[r].reply
      /\ req'[r].call = req[r].call /\ req'[r].handled = req[r].handled
      /\ \A o \in Requests : o # r => req'[o] = req[o]
  BY MoveOne
<1>3. Carried(r)'
  BY <1>1, <1>2, SameVerdict DEF Carried
<1> QED
  BY <1>2, <1>3, OneCarried

\* An answer: Unauthenticated only for a client that is turned away, by a server
\* with a key.
LEMMA AnswerCarries ==
    ASSUME Shape, AdmitInv, NEW r \in Requests, UNCHANGED server, NEW reply, Answer(r, reply),
           req[r].stage # "unsent",
           reply = "unauthenticated" =>
              /\ Turned(req[r].load) /\ ensureAPIKeyConfigured(Load)
              /\ req[r].load.door = "grpc" => dialAPI(req[r].load.options) # {}
    PROVE  AdmitInv'
<1>1. Carried(r) /\ env' = env
  BY DEF AdmitInv, server
<1>2. /\ req'[r].stage = IF req[r].load.door = "http" THEN "respond" ELSE "done"
      /\ req'[r].load = req[r].load
      /\ req'[r].reply \in {reply, req[r].reply}
      /\ req'[r].call = req[r].call /\ req'[r].handled = req[r].handled
      /\ \A o \in Requests : o # r => req'[o] = req[o]
  BY AnswerOne
<1>3. req'[r].stage \in {"respond", "done"}
  BY <1>2
<1>4. Carried(r)'
  BY <1>1, <1>2, <1>3, SameVerdict DEF Carried
<1> QED
  BY <1>2, <1>4, OneCarried

\* A client gives up or is refused.
LEMMA ReplyCarries ==
    ASSUME Shape, AdmitInv, NEW r \in Requests, UNCHANGED server, NEW reply, NEW stage,
           req' = [req EXCEPT ![r] = Reply(req[r], reply, stage)],
           reply # "unauthenticated", stage \in {"done", req[r].stage}, req[r].stage # "unsent"
    PROVE  AdmitInv'
<1>1. Carried(r) /\ env' = env /\ req[r] = Fields(req[r])
  BY DEF AdmitInv, server, Shape
<1>2. PICK a : a = Reply(req[r], reply, stage)
  OBVIOUS
<1>3. /\ a = Fields(a) /\ a.stage = stage /\ a.load = req[r].load
      /\ a.reply \in {reply, req[r].reply} /\ a.call = req[r].call
      /\ a.handled = req[r].handled
  BY <1>1, <1>2, ReplyFields
<1>4. req'[r] = a /\ \A o \in Requests : o # r => req'[o] = req[o]
  BY <1>2, <1>3, UpdateOne
<1>5. Carried(r)'
  BY <1>1, <1>3, <1>4, SameVerdict DEF Carried
<1> QED
  BY <1>4, <1>5, OneCarried

\* A request that is sent carries its load, and flowctl's call.
LEMMA SendCarries ==
    ASSUME Shape, AdmitInv, NEW r \in Requests, NEW l \in Loads[r], Send(r, l)
    PROVE  AdmitInv'
<1>1. Carried(r) /\ env' = env /\ UNCHANGED server /\ req[r].stage = "unsent"
  BY DEF AdmitInv, server, Send
<1>2. req[r].handled = NoBody /\ req[r].reply = ""
  BY <1>1 DEF Carried
<1>3. /\ req'[r].load = l /\ req'[r].handled = req[r].handled
      /\ \A o \in Requests : o # r => req'[o] = req[o]
  BY SendOne
<1>4. /\ req'[r].reply \in {"not sent", ""}
      /\ \/ l.door = "http" /\ req'[r].stage = "connecting"
         \/ l.door = "grpc" /\ req'[r].stage = "done"
         \/ /\ l.door = "grpc" /\ l.calls # {} /\ dialAPI(l.options) # {}
            /\ req'[r].stage = "dialing" /\ req'[r].call = CHOOSE c \in l.calls : TRUE
  <2>1. l.door \in {"grpc", "http"}
    BY InputsAssumption
  <2> QED
    BY <1>2, <2>1, SendOne
<1>5. req'[r].stage = "dialing" => req'[r].call \in l.calls
  BY <1>4
<1>6. Carried(r)'
  BY <1>2, <1>3, <1>4, <1>5 DEF Carried
<1> QED
  BY <1>1, <1>3, <1>6, OneCarried

\* The steps of a client: dial, call, deadline, connect.
LEMMA ClientCarries ==
    ASSUME ServerInv, AdmitInv, NEW r \in Requests, Client(r)
    PROVE  AdmitInv'
<1>0. Shape /\ RequestOK(r)
  BY DEF ServerInv
<1>1. Carried(r)
  BY DEF AdmitInv
<1>2. CASE Dial(r)
  <2>1. UNCHANGED server /\ Move(r, "connected") /\ req[r].stage = "dialing"
    BY <1>2 DEF Dial
  <2> QED
    BY <1>0, <2>1, MoveCarries
<1>3. CASE CallGRPC(r)
  <2>1. UNCHANGED server /\ req[r].stage = "connected" /\ req[r].load.door # "http"
    BY <1>0, <1>3 DEF CallGRPC, RequestOK
  <2>2. CASE Move(r, "interceptor")
    BY <1>0, <2>1, <2>2, MoveCarries
  <2>3. CASE Answer(r, "unavailable")
    BY <1>0, <2>1, <2>3, AnswerCarries
  <2> QED
    BY <1>3, <2>2, <2>3 DEF CallGRPC, Invoked
<1>4. CASE GiveUp(r)
  <2>1. PICK t, s : /\ t = "deadline"
                    /\ s = IF req[r].stage \in {"dialing", "connected"} THEN "done" ELSE req[r].stage
    OBVIOUS
  <2>2. /\ req' = [req EXCEPT ![r] = Reply(req[r], t, s)] /\ UNCHANGED server
        /\ req[r].stage # "unsent"
    BY <1>4, <2>1 DEF GiveUp
  <2>3. t # "unauthenticated" /\ s \in {"done", req[r].stage}
    BY <2>1
  <2> QED
    BY <1>0, <2>2, <2>3, ReplyCarries
<1>5. CASE Connect(r)
  <2>0. req[r].stage = "connecting" /\ req[r].load.door = "http"
    BY <1>1, <1>5 DEF Connect, Carried
  <2>1. CASE http = "serving" /\ pc # "exited" /\ req[r].load.tls = Load.HTTPTLSEnabled
    <3>1. Move(r, "middleware") /\ UNCHANGED server
      BY <1>5, <2>1 DEF Connect
    <3> QED
      BY <1>0, <2>0, <3>1, MoveCarries
  <2>2. CASE ~(http = "serving" /\ pc # "exited" /\ req[r].load.tls = Load.HTTPTLSEnabled)
    <3>1. PICK t, s : t = "refused" /\ s = "done"
      OBVIOUS
    <3>2. req' = [req EXCEPT ![r] = Reply(req[r], t, s)] /\ UNCHANGED server
      BY <1>5, <2>2, <3>1 DEF Connect
    <3>3. t # "unauthenticated" /\ s \in {"done", req[r].stage}
      BY <3>1
    <3> QED
      BY <1>0, <2>0, <3>2, <3>3, ReplyCarries
  <2> QED
    BY <2>1, <2>2
<1> QED
  BY <1>2, <1>3, <1>4, <1>5 DEF Client

\* The HTTP handler: authentication, the route, the decoding.
LEMMA ServeRequestCarries ==
    ASSUME ServerInv, AdmitInv, NEW r \in Requests, ServeRequest(r)
    PROVE  AdmitInv'
<1> DEFINE l == req[r].load
           rpcs == Routed(l.http)
           calls == UNION {Decode(rpc, l.http) : rpc \in rpcs}
           ok == apiKeyHTTPMiddleware(l.values)
<1>1. /\ Carried(r) /\ Shape /\ UNCHANGED server /\ req[r].stage = "middleware"
      /\ RequestOK(r)
  BY DEF ServerInv, AdmitInv, ServeRequest
<1>2. l.door = "http" /\ ensureAPIKeyConfigured(Load)
  BY <1>1 DEF Carried, RequestOK, AdmitInv
<1>3. CASE ~ok
  <2>1. Answer(r, "unauthenticated")
    BY <1>3 DEF ServeRequest
  <2>2. Turned(l)
    BY <1>2, <1>3 DEF Turned
  <2> QED
    BY <1>1, <1>2, <2>1, <2>2, AnswerCarries
<1>4. ASSUME NEW reply, Answer(r, reply), reply # "unauthenticated" PROVE AdmitInv'
  BY <1>1, <1>4, AnswerCarries
<1>5. CASE ok /\ rpcs = {}
  <2>1. Answer(r, IF OtherVerb(l.http) THEN "not allowed" ELSE "not found")
    BY <1>5 DEF ServeRequest
  <2> QED
    BY <1>4, <2>1
<1>6. CASE ok /\ rpcs # {} /\ calls = {}
  <2>1. Answer(r, "invalid")
    BY <1>6 DEF ServeRequest
  <2> QED
    BY <1>4, <2>1
<1>7. CASE ok /\ rpcs # {} /\ calls # {}
  <2>1. PICK c \in calls : req' = [req EXCEPT ![r].stage = "forward", ![r].call = c]
    BY <1>7 DEF ServeRequest
  <2>2. PICK s : s = "forward"
    OBVIOUS
  <2>3. req' = [req EXCEPT ![r].stage = s, ![r].call = c]
    BY <2>1, <2>2
  <2> HIDE DEF l, rpcs, calls, ok
  <2>4. /\ Shape'
        /\ req'[r].stage = s /\ req'[r].load = req[r].load
        /\ req'[r].reply = req[r].reply
        /\ req'[r].call = c /\ req'[r].handled = req[r].handled
        /\ \A o \in Requests : o # r => req'[o] = req[o]
    <3>1. Shape
      BY <1>1
    <3> QED
      BY <2>3, <3>1, ForwardedOne
  <2>5. c \in Decoded(l)
    BY <2>1 DEF Decoded, calls, rpcs
  <2>6. env' = env
    BY <1>1 DEF server
  <2>7. Carried(r)'
    BY <1>1, <1>2, <2>2, <2>4, <2>5, <2>6, SameVerdict DEF Carried, l
  <2> QED
    BY <1>1, <2>4, <2>7, OneCarried
<1> QED
  BY <1>3, <1>5, <1>6, <1>7

\* The service's method is called with the call that was carried.
LEMMA HandleCarries ==
    ASSUME Shape, AdmitInv, NEW r \in Requests, Handle(r)
    PROVE  AdmitInv'
<1>1. Carried(r) /\ UNCHANGED server /\ env' = env /\ req[r].stage = "handler"
  BY DEF AdmitInv, Handle, server
<1>2. /\ req'[r].stage = IF req[r].load.door = "http" THEN "respond" ELSE "done"
      /\ req'[r].load = req[r].load /\ req'[r].call = req[r].call
      /\ req'[r].reply \in {"ok", "error", req[r].reply}
      /\ req'[r].handled \in Handler(Invoke(req[r].call))
      /\ \A o \in Requests : o # r => req'[o] = req[o]
  BY HandleOne
<1>3. /\ req[r].load \in Loads[r] /\ req[r].load.door \in {"grpc", "http"}
  BY <1>1, InputsAssumption DEF Carried
<1>4. CASE req[r].load.door = "grpc"
  <2>1. req[r].call \in req[r].load.calls
    BY <1>1, <1>4 DEF Carried
  <2>2. IsCall(req[r].call)
    BY <1>3, <1>4, <2>1, InputsAssumption
  <2>3. req'[r].handled \in req[r].load.calls
    BY <1>2, <2>1, <2>2, HandlerFinds
  <2>4. Carried(r)'
    BY <1>1, <1>2, <1>4, <2>3, SameVerdict DEF Carried
  <2> QED
    BY <1>1, <1>2, <2>4, OneCarried
<1>5. CASE req[r].load.door = "http"
  <2>1. req[r].call \in Decoded(req[r].load)
    BY <1>1, <1>5 DEF Carried
  <2>2. PICK rpc \in RPCs : req[r].call \in Decode(rpc, req[r].load.http)
    BY <2>1 DEF Decoded, Routed
  <2>3. IsCall(req[r].call)
    BY <2>2, DecodesCalls
  <2>4. req'[r].handled \in Decoded(req[r].load)
    BY <1>2, <2>1, <2>3, HandlerFinds
  <2>5. Carried(r)'
    BY <1>1, <1>2, <1>5, <2>4, SameVerdict DEF Carried
  <2> QED
    BY <1>1, <1>2, <2>5, OneCarried
<1> QED
  BY <1>3, <1>4, <1>5

\* The steps of the goroutines that serve a request.
LEMMA ServingCarries ==
    ASSUME ServerInv, AdmitInv, NEW r \in Requests, Serving(r)
    PROVE  AdmitInv'
<1>1. Carried(r) /\ Shape /\ RequestOK(r)
  BY DEF ServerInv, AdmitInv
<1>2. CASE ServeRequest(r)
  BY <1>2, ServeRequestCarries
<1>3. CASE Forward(r)
  <2>1. UNCHANGED server /\ req[r].stage = "forward" /\ req[r].load.door = "http"
    BY <1>1, <1>3 DEF Forward, Carried
  <2>2. CASE Move(r, "interceptor")
    BY <1>1, <2>1, <2>2, MoveCarries
  <2>3. CASE Answer(r, "unavailable")
    BY <1>1, <2>1, <2>3, AnswerCarries
  <2> QED
    BY <1>3, <2>2, <2>3 DEF Forward, Invoked
<1>4. CASE Intercept(r)
  <2>1. UNCHANGED server /\ req[r].stage = "interceptor" /\ grpc # "none"
    BY <1>1, <1>4 DEF Intercept, RequestOK
  <2>2. CASE Passes(req[r].load)
    <3>1. Move(r, "handler")
      BY <1>4, <2>2 DEF Intercept, Passes
    <3> QED
      BY <1>1, <2>1, <2>2, <3>1, MoveCarries
  <2>3. CASE ~Passes(req[r].load)
    <3>1. Answer(r, "unauthenticated")
      BY <1>4, <2>3 DEF Intercept, Passes
    <3>2. Turned(req[r].load) /\ ensureAPIKeyConfigured(Load)
      BY <2>1, <2>3 DEF Turned, AdmitInv
    <3>3. req[r].load.door = "grpc" => dialAPI(req[r].load.options) # {}
      BY <1>1, <2>1 DEF Carried
    <3> QED
      BY <1>1, <2>1, <3>1, <3>2, <3>3, AnswerCarries
  <2> QED
    BY <2>2, <2>3
<1>5. CASE Handle(r)
  BY <1>1, <1>5, HandleCarries
<1>6. CASE Respond(r)
  <2>1. UNCHANGED server /\ Move(r, "done") /\ req[r].stage = "respond"
    BY <1>6 DEF Respond
  <2> QED
    BY <1>1, <2>1, MoveCarries
<1> QED
  BY <1>2, <1>3, <1>4, <1>5, <1>6 DEF Serving, Working, Exchange

-----------------------------------------------------------------------------
(* The server's steps. *)

\* Requests carry what they did while only the server moves.
LEMMA ServerCarries ==
    ASSUME AdmitInv, UNCHANGED <<env, req>>, Settings',
           grpc' # "none" => grpc # "none" \/ ensureAPIKeyConfigured(Load)
    PROVE  AdmitInv'
<1>1. \A r \in Requests : Carried(r)'
  BY SameVerdict DEF AdmitInv, Carried
<1>2. grpc' # "none" => ensureAPIKeyConfigured(Load)'
  BY SameVerdict DEF AdmitInv
<1> QED
  BY <1>1, <1>2 DEF AdmitInv

\* main and Run, the serving goroutines, streams and a signal: the gRPC port is
\* opened by a server that found its key.
LEMMA MainCarries ==
    ASSUME ServerInv, AdmitInv,
           Main \/ ServeGRPC \/ ServeHTTP \/ FailHTTP \/ Signal \/ OpenStream \/ CloseStream
    PROVE  AdmitInv'
<1> USE DEF Settings
<1>0. Settings /\ Phase
  BY DEF AdmitInv, ServerInv
<1>1. CASE Setup
  <2>1. Settings'
    BY <1>0, <1>1 DEF Setup, Exit
  <2> QED
    BY <1>1, <2>1, ServerCarries DEF Setup
<1>2. CASE NewEtcd
  <2>1. Settings'
    BY <1>0, <1>2 DEF NewEtcd, Exit
  <2> QED
    BY <1>2, <2>1, ServerCarries DEF NewEtcd
<1>3. CASE NewGRPCServer
  <2>1. Settings'
    BY <1>0, <1>3 DEF NewGRPCServer, Exit
  <2> QED
    BY <1>3, <2>1, ServerCarries DEF NewGRPCServer
<1>4. CASE NewHTTPServer
  <2>1. Settings'
    BY <1>0, <1>4 DEF NewHTTPServer, Exit
  <2> QED
    BY <1>4, <2>1, ServerCarries DEF NewHTTPServer
<1>5. CASE Stop
  <2>1. Settings'
    BY <1>0, <1>5 DEF Stop
  <2>2. grpc # "none" /\ UNCHANGED <<env, req>>
    BY <1>0, <1>5 DEF Phase, Stop
  <2> QED
    BY <2>1, <2>2, ServerCarries
<1>6. CASE ShutdownGRPC
  <2>1. Settings'
    BY <1>0, <1>6 DEF ShutdownGRPC
  <2>2. grpc # "none" /\ UNCHANGED <<env, req>>
    BY <1>0, <1>6 DEF Phase, ShutdownGRPC
  <2> QED
    BY <2>1, <2>2, ServerCarries
<1>7. CASE CloseHTTP \/ ShutdownHTTP \/ CloseStore \/ ShutdownTelemetry
  <2>1. Settings'
    BY <1>0, <1>7 DEF CloseHTTP, ShutdownHTTP, CloseStore, ShutdownTelemetry
  <2>2. UNCHANGED <<env, req, grpc>>
    BY <1>7 DEF CloseHTTP, ShutdownHTTP, CloseStore, ShutdownTelemetry
  <2> QED
    BY <2>1, <2>2, ServerCarries
<1>8. CASE ServeGRPC
  <2>1. Settings'
    BY <1>0, <1>8 DEF ServeGRPC
  <2> QED
    BY <1>8, <2>1, ServerCarries DEF ServeGRPC
<1>9. CASE ServeHTTP
  <2>1. Settings'
    BY <1>0, <1>9 DEF ServeHTTP
  <2> QED
    BY <1>9, <2>1, ServerCarries DEF ServeHTTP
<1>10. CASE Signal
  <2>1. Settings'
    BY <1>0, <1>10 DEF Signal, Exit
  <2> QED
    BY <1>10, <2>1, ServerCarries DEF Signal
<1>11. CASE FailHTTP
  <2>1. Settings'
    BY <1>0, <1>11 DEF FailHTTP
  <2> QED
    BY <1>11, <2>1, ServerCarries DEF FailHTTP
<1>12. CASE OpenStream \/ CloseStream
  <2>1. Settings' /\ UNCHANGED <<env, req, grpc>>
    BY <1>0, <1>12 DEF OpenStream, CloseStream
  <2> QED
    BY <2>1, ServerCarries
<1> QED
  BY <1>1, <1>2, <1>3, <1>4, <1>5, <1>6, <1>7, <1>8, <1>9, <1>10, <1>11, <1>12 DEF Main

\* Both invariants hold in every reachable state.
LEMMA AdmitInvariant == Spec => [](ServerInv /\ AdmitInv)
<1>1. Init => AdmitInv
  <2> SUFFICES ASSUME Init PROVE AdmitInv
    OBVIOUS
  <2>1. \A r \in Requests : req[r] = Blank
    BY DEF Init
  <2>2. /\ Blank.stage = "unsent" /\ Blank.reply = ""
        /\ Blank.load = NoBody /\ Blank.handled = NoBody
    BY DEF Blank
  <2>3. ASSUME NEW r \in Requests PROVE Carried(r)
    BY <2>1, <2>2 DEF Carried
  <2>4. Settings /\ grpc = "none"
    <3>1. /\ env \in Environments /\ code = 0 /\ ctxDone = FALSE /\ stream = FALSE /\ errCh = 0
          /\ telemetry = "off" /\ etcd = "none" /\ grpc = "none" /\ http = "none"
      BY DEF Init
    <3>2. code \in 0 .. 2 /\ errCh \in 0 .. 1
      BY <3>1
    <3>3. ctxDone \in BOOLEAN /\ stream \in BOOLEAN
      BY <3>1
    <3> QED
      BY <3>1, <3>2, <3>3 DEF Settings
  <2> QED
    BY <2>3, <2>4 DEF AdmitInv
<1>2. ServerInv /\ AdmitInv /\ [Next]_vars => AdmitInv'
  <2> SUFFICES ASSUME ServerInv, AdmitInv, [Next]_vars PROVE AdmitInv'
    OBVIOUS
  <2>1. CASE Main \/ ServeGRPC \/ ServeHTTP \/ FailHTTP \/ Signal \/ OpenStream \/ CloseStream
    BY <2>1, MainCarries
  <2>2. ASSUME NEW r \in Requests, Serving(r) PROVE AdmitInv'
    BY <2>2, ServingCarries
  <2>3. ASSUME NEW r \in Requests, Client(r) PROVE AdmitInv'
    BY <2>3, ClientCarries
  <2>4. ASSUME NEW r \in Requests, NEW l \in Loads[r], Send(r, l) PROVE AdmitInv'
    BY <2>4, SendCarries DEF ServerInv
  <2>5. CASE UNCHANGED vars
    <3>1. Settings' /\ UNCHANGED <<env, req, grpc>>
      BY <2>5 DEF vars, AdmitInv, Settings
    <3> QED
      BY <3>1, ServerCarries
  <2> QED
    BY <2>1, <2>2, <2>3, <2>4, <2>5 DEF Next
<1> QED
  BY <1>1, <1>2, ServerInvariant, PTL DEF Spec

(***************************************************************************)
(* Every variable keeps its type: errCh, which has room for two results,   *)
(* never holds more, and a request is one its client may send.             *)
(***************************************************************************)
THEOREM ServerTypes == Spec => []TypeOK
<1>1. ServerInv /\ AdmitInv => TypeOK
  <2> SUFFICES ASSUME ServerInv, AdmitInv PROVE TypeOK
    OBVIOUS
  <2>1. \A r \in Requests : req[r].load \in Loads[r] \cup {NoBody}
    BY DEF AdmitInv, Carried
  <2> QED
    BY <2>1 DEF ServerInv, Phase, Down, AdmitInv, Settings, TypeOK
<1> QED
  BY <1>1, AdmitInvariant, PTL

\* A token that passes was sent: it is that of a Bearer value, and not empty.
LEMMA TokenSent ==
    ASSUME NEW values, NEW key \in firstBearerToken(values)
    PROVE  /\ key.token # ""
           /\ \E k \in DOMAIN values : values[k].scheme /\ values[k].token = key.token
<1>1. PICK k \in DOMAIN values : /\ key = parseBearerToken(values[k])
                                 /\ parseBearerToken(values[k]) # Empty
  BY DEF firstBearerToken
<1>2. values[k].scheme
  BY <1>1 DEF parseBearerToken
<1>3. key = Text(FALSE, FALSE, values[k].token)
  BY <1>1, <1>2 DEF parseBearerToken
<1>4. key.token = values[k].token
  BY <1>3 DEF Text
<1>5. values[k].token # ""
  BY <1>1, <1>3 DEF Empty
<1> QED
  BY <1>2, <1>4, <1>5

(***************************************************************************)
(* Whatever the flags, variables, doors and routes: where authentication   *)
(* was asked for, a service method ran only for a client that sent the     *)
(* configured key as a Bearer token (auth.go, load.go, env.go).            *)
(***************************************************************************)
THEOREM HandledForKeyHolders == Spec => []OnlyKeyHolders
<1>1. AdmitInv => OnlyKeyHolders
  <2> SUFFICES ASSUME AdmitInv, NEW r \in Requests, AuthAsked, req[r].handled # NoBody
               PROVE  LET values == Connection(req[r].load).values
                          key == envOrDefault(env.key)
                      IN  key.token # "" /\ \E k \in DOMAIN values :
                              values[k].scheme /\ values[k].token = key.token
    BY DEF OnlyKeyHolders
  <2>1. Passes(req[r].load)
    BY DEF AdmitInv, Carried
  <2>2. Load.AuthEnabled
    <3>1. FlagBool(env.auth)
      BY DEF AuthAsked, FlagBool, envBoolOrDefault
    <3> QED
      BY <3>1 DEF Load
  <2>3. Load.APIKey = envOrDefault(env.key)
    BY DEF Load
  <2>4. envOrDefault(env.key) \in firstBearerToken(Connection(req[r].load).values)
    BY <2>1, <2>2, <2>3 DEF Passes, apiKeyUnaryInterceptor
  <2> QED
    BY <2>4, TokenSent
<1> QED
  BY <1>1, AdmitInvariant, PTL

\* The key, in the form in which a client is asked to send it.
LEMMA KeyIsToken ==
    ASSUME NEW key \in Texts, ~key.pad, ~key.scheme, TrimSpace(key) # Empty
    PROVE  key = Text(FALSE, FALSE, key.token) /\ key # Empty /\ key.token # ""
<1>1. /\ key = [pad |-> key.pad, scheme |-> key.scheme, token |-> key.token]
      /\ key.pad = FALSE /\ key.scheme = FALSE
  BY DEF Texts
<1>2. key = Text(FALSE, FALSE, key.token)
  BY <1>1 DEF Text
<1>3. TrimSpace(key) = key
  BY <1>1 DEF TrimSpace
<1>4. key # Empty
  BY <1>3
<1>5. key.token # ""
  BY <1>2, <1>4 DEF Empty
<1> QED
  BY <1>2, <1>4, <1>5

\* A Bearer value with the key's token, in front, is the one that is compared.
LEMMA FirstTokenCounts ==
    ASSUME NEW key, key = Text(FALSE, FALSE, key.token), key # Empty,
           NEW values, 1 \in DOMAIN values, values[1].scheme, values[1].token = key.token
    PROVE  key \in firstBearerToken(values)
<1>1. parseBearerToken(values[1]) = key
  BY DEF parseBearerToken
<1>2. \A j \in 1 .. 1 - 1 : parseBearerToken(values[j]) = Empty
  OBVIOUS
<1> QED
  BY <1>1, <1>2 DEF firstBearerToken

\* The empty text has the empty token.
LEMMA EmptyHasNone == Empty.token = ""
  BY DEF Empty, Text

\* A list of one value has it in front.
LEMMA OneValue == ASSUME NEW f PROVE 1 \in DOMAIN <<f>> /\ <<f>>[1] = f
  OBVIOUS

\* What flowctl sends for a key: a Bearer value with the key's token.
LEMMA FlowctlSends ==
    ASSUME NEW o, o.key \in Texts, NEW t \in STRING, t # "",
           TrimSpace(o.key).token = t, NEW c \in dialAPI(o)
    PROVE  1 \in DOMAIN c.values /\ c.values[1].scheme /\ c.values[1].token = t
<1>1. c.values = apiKeyCredentials(o.key)
  <2>1. PICK b, v : v = apiKeyCredentials(o.key) /\ c = [tls |-> b, values |-> v]
    BY DEF dialAPI
  <2> QED
    BY <2>1
<1>2. PICK k : k = TrimSpace(o.key)
  OBVIOUS
<1>3. k \in Texts /\ k.token = t
  BY <1>2 DEF TrimSpace, Texts
<1>4. k # Empty
  BY <1>3, EmptyHasNone
<1>5. formatBearerToken(o.key) = [k EXCEPT !.scheme = TRUE]
  BY <1>2, <1>4 DEF formatBearerToken
<1>6. formatBearerToken(o.key).scheme /\ formatBearerToken(o.key).token = t
  BY <1>3, <1>5 DEF Texts
<1>7. formatBearerToken(o.key) # Empty
  BY <1>6, EmptyHasNone
<1>8. PICK f : f = formatBearerToken(o.key)
  OBVIOUS
<1>9. c.values = <<f>>
  BY <1>1, <1>7, <1>8 DEF apiKeyCredentials
<1>10. 1 \in DOMAIN <<f>> /\ <<f>>[1] = f
  BY ONLY OneValue
<1> QED
  BY <1>6, <1>8, <1>9, <1>10

(***************************************************************************)
(* Whatever the configuration: a client that is given the key of a server  *)
(* that has one, without blanks and "Bearer ", is never answered           *)
(* Unauthenticated, by flowctl's door or by the gateway's two checks.      *)
(***************************************************************************)
THEOREM KeyHoldersAdmitted == Spec => []SharedKeyOpens
<1>1. AdmitInv => SharedKeyOpens
  <2> DEFINE key == envOrDefault(env.key)
  <2> SUFFICES ASSUME AdmitInv, NEW r \in Requests, req[r].reply = "unauthenticated",
                      ~key.pad, ~key.scheme, Carries(req[r].load, key)
               PROVE  FALSE
    BY DEF SharedKeyOpens
  <2>1. PICK l : l = req[r].load
    OBVIOUS
  <2>2. Carried(r) /\ env \in Environments
    BY DEF AdmitInv, Settings
  <2>3. /\ l \in Loads[r] /\ Turned(l) /\ ensureAPIKeyConfigured(Load)
        /\ l.door = "grpc" => dialAPI(l.options) # {}
    BY <2>1, <2>2 DEF Carried
  <2>4. Load.APIKey = key /\ Load.AuthEnabled
    <3>1. Load.APIKey = key
      BY DEF Load
    <3>2. Load.AuthEnabled
      BY <2>3 DEF Turned, Passes, apiKeyUnaryInterceptor, apiKeyHTTPMiddleware
    <3> QED
      BY <3>1, <3>2
  <2>5. key \in Texts
    <3>1. env.key.flag \subseteq Texts /\ env.key.var \in Texts
      BY <2>2, InputsAssumption
    <3> QED
      BY <3>1 DEF envOrDefault
  <2>6. TrimSpace(key) # Empty
    BY <2>3, <2>4 DEF ensureAPIKeyConfigured
  <2>7. Carries(l, key)
    BY <2>1
  <2> HIDE DEF key
  <2>8. key = Text(FALSE, FALSE, key.token) /\ key # Empty /\ key.token # "" /\ key.token \in STRING
    BY <2>5, <2>6, KeyIsToken DEF Texts
  <2>9. CASE l.door = "grpc"
    <3>1. PICK c \in dialAPI(l.options) : c = Connection(l)
      BY <2>3, <2>9 DEF Connection
    <3>2. l.options.key \in Texts
      BY <2>3, <2>9, InputsAssumption
    <3>3. TrimSpace(l.options.key).token = key.token
      BY <2>7, <2>9 DEF Carries
    <3>4. 1 \in DOMAIN c.values /\ c.values[1].scheme /\ c.values[1].token = key.token
      <4>1. PICK o, t : o = l.options /\ t = key.token
        OBVIOUS
      <4>2. /\ o.key \in Texts /\ t \in STRING /\ t # "" /\ TrimSpace(o.key).token = t
            /\ c \in dialAPI(o)
        BY <2>8, <3>1, <3>2, <3>3, <4>1
      <4>3. c \in dialAPI(o) /\ o.key \in Texts /\ TrimSpace(o.key).token = t
        BY <4>2
      <4>4. 1 \in DOMAIN c.values /\ c.values[1].scheme /\ c.values[1].token = t
        BY ONLY <4>2, <4>3, FlowctlSends
      <4> QED
        BY <4>1, <4>4
    <3>5. key \in firstBearerToken(c.values)
      BY <2>8, <3>4, FirstTokenCounts
    <3>6. Passes(l)
      BY <2>4, <3>1, <3>5 DEF Passes, apiKeyUnaryInterceptor
    <3> QED
      BY <2>3, <2>9, <3>6 DEF Turned
  <2>10. CASE l.door = "http"
    <3>1. l.values # <<>> /\ l.values[1].scheme /\ l.values[1].token = key.token
      BY <2>7, <2>10 DEF Carries
    <3>2. l.values \in Seq(Texts)
      BY <2>3, <2>10, InputsAssumption
    <3>3. 1 \in DOMAIN l.values
      BY <3>1, <3>2
    <3>4. key \in firstBearerToken(l.values)
      BY <2>8, <3>1, <3>3, FirstTokenCounts
    <3>5. PICK w : w = <<l.values[1]>>
      OBVIOUS
    <3>6. 1 \in DOMAIN w /\ w[1].scheme /\ w[1].token = key.token
      BY <3>1, <3>5
    <3>7. key \in firstBearerToken(w)
      BY <2>8, <3>6, FirstTokenCounts
    <3>8. Passes(l)
      BY <2>4, <2>10, <3>4 DEF Passes, Connection, apiKeyUnaryInterceptor
    <3>9. apiKeyHTTPMiddleware(l.values)
      BY <2>4, <3>1, <3>5, <3>7 DEF apiKeyHTTPMiddleware
    <3> QED
      BY <2>3, <3>8, <3>9 DEF Turned
  <2> QED
    BY <2>3, <2>9, <2>10, InputsAssumption
<1> QED
  BY <1>1, AdmitInvariant, PTL

-----------------------------------------------------------------------------
(* The gateway against the rules of service.proto. *)

\* A literal and a variable are told apart, and give their names.
LEMMA Segments ==
    \A s, f : /\ Lit(s)[1] = "lit" /\ Lit(s)[2] = s
              /\ Var(f)[1] = "var" /\ Var(f)[2] = f /\ Lit(s) # Var(f)
  BY DEF Lit, Var

\* A path that fits a template has its literals.
LEMMA FitsLiterals ==
    ASSUME NEW pattern, NEW path, Fits(pattern, path), NEW k \in 1 .. Len(path), NEW s,
           pattern[k] = Lit(s)
    PROVE  path[k] = s
  BY Segments DEF Fits

\* A path of a collection.
LEMMA CollectionPath ==
    ASSUME NEW s, NEW path \in Seq(STRING), Fits(<<Lit("v1"), Lit(s)>>, path)
    PROVE  path = <<"v1", s>>
<1>1. PICK p : p = <<Lit("v1"), Lit(s)>>
  OBVIOUS
<1>2. Fits(p, path) /\ Len(p) = 2 /\ p[1] = Lit("v1") /\ p[2] = Lit(s)
  BY <1>1
<1>3. Len(path) = 2
  BY <1>2 DEF Fits
<1>4. path[1] = "v1" /\ path[2] = s
  BY <1>2, <1>3, FitsLiterals
<1> QED
  BY <1>3, <1>4

\* A path of an object, and its name.
LEMMA NamePath ==
    ASSUME NEW s, NEW path \in Seq(STRING), NEW p, p = <<Lit("v1"), Lit(s), Var("name")>>,
           Fits(p, path)
    PROVE  /\ path = <<"v1", s, path[3]>>
           /\ (CHOOSE k \in 1 .. Len(path) : p[k] = Var("name")) = 3
<1>0. Fits(p, path)
  OBVIOUS
<1>1. Len(p) = 3 /\ p[1] = Lit("v1") /\ p[2] = Lit(s) /\ p[3] = Var("name")
  OBVIOUS
<1>2. Len(path) = 3
  BY <1>1 DEF Fits
<1>3. path[1] = "v1" /\ path[2] = s
  BY ONLY <1>0, <1>1, <1>2, FitsLiterals
<1>4. path = <<"v1", s, path[3]>>
  BY <1>2, <1>3
<1>5. \A k \in 1 .. Len(path) : p[k] = Var("name") <=> k = 3
  BY <1>1, <1>2, Segments
<1> QED
  BY <1>2, <1>4, <1>5

\* A path of a part of an object, and the name.
LEMMA PartPath ==
    ASSUME NEW s, NEW t, NEW path \in Seq(STRING),
           NEW p, p = <<Lit("v1"), Lit(s), Var("name"), Lit(t)>>, Fits(p, path)
    PROVE  /\ path = <<"v1", s, path[3], t>>
           /\ (CHOOSE k \in 1 .. Len(path) : p[k] = Var("name")) = 3
<1>0. Fits(p, path)
  OBVIOUS
<1>1. Len(p) = 4 /\ p[1] = Lit("v1") /\ p[2] = Lit(s) /\ p[3] = Var("name") /\ p[4] = Lit(t)
  OBVIOUS
<1>2. Len(path) = 4
  BY <1>1 DEF Fits
<1>3. path[1] = "v1" /\ path[2] = s /\ path[4] = t
  BY ONLY <1>0, <1>1, <1>2, FitsLiterals
<1>4. path = <<"v1", s, path[3], t>>
  BY <1>2, <1>3
<1>5. \A k \in 1 .. Len(path) : p[k] = Var("name") <=> k = 3
  BY <1>1, <1>2, Segments
<1> QED
  BY <1>2, <1>4, <1>5

\* A path of a version of an object, with the name and the version.
LEMMA VersionPath ==
    ASSUME NEW s, NEW t, NEW path \in Seq(STRING),
           NEW p, p = <<Lit("v1"), Lit(s), Var("name"), Lit(t), Var("version")>>, Fits(p, path)
    PROVE  /\ path = <<"v1", s, path[3], t, path[5]>> /\ Len(path) = 5
           /\ (CHOOSE k \in 1 .. Len(path) : p[k] = Var("name")) = 3
           /\ (CHOOSE k \in 1 .. Len(path) : p[k] = Var("version")) = 5
<1>0. Fits(p, path)
  OBVIOUS
<1>1. /\ Len(p) = 5 /\ p[1] = Lit("v1") /\ p[2] = Lit(s) /\ p[3] = Var("name")
      /\ p[4] = Lit(t) /\ p[5] = Var("version")
  OBVIOUS
<1>2. Len(path) = 5
  BY <1>1 DEF Fits
<1>3. path[1] = "v1" /\ path[2] = s /\ path[4] = t
  BY ONLY <1>0, <1>1, <1>2, FitsLiterals
<1>4. path = <<"v1", s, path[3], t, path[5]>>
  BY <1>2, <1>3
<1>5. Var("name") # Var("version")
  BY DEF Var
<1>6. \A k \in 1 .. Len(path) : p[k] = Var("name") <=> k = 3
  BY <1>1, <1>2, <1>5, Segments
<1>7. \A k \in 1 .. Len(path) : p[k] = Var("version") <=> k = 5
  BY <1>1, <1>2, <1>5, Segments
<1> QED
  BY <1>2, <1>4, <1>6, <1>7

\* What a method's handler is registered for.
LEMMA RouteOf ==
    ASSUME NEW rpc \in RPCs, NEW q, rpc \in Routed(q)
    PROVE  q.verb = Verb(rpc) /\ Fits(Pattern(rpc), q.path)
  BY DEF Routed

\* The verbs of the handlers, by method.
LEMMA Verbs ==
    /\ Verb("CreateFlow") = "POST" /\ Verb("UpdateFlow") = "PUT" /\ Verb("DeleteFlow") = "DELETE"
    /\ Verb("GetFlow") = "GET" /\ Verb("ListFlows") = "GET" /\ Verb("GetFlowStatus") = "GET"
    /\ Verb("RollbackFlow") = "POST" /\ Verb("CreateSchema") = "POST"
    /\ Verb("GetSchema") = "GET" /\ Verb("ListSchemaVersions") = "GET"
    /\ Verb("DeleteSchema") = "DELETE"
  BY DEF Verb, FlowService, RegisterFlowServiceHandlerClient,
         RegisterSchemaRegistryServiceHandlerClient

\* Their templates, by method.
LEMMA Patterns ==
    /\ \A m \in {"CreateFlow", "ListFlows"} : Pattern(m) = <<Lit("v1"), Lit("flows")>>
    /\ \A m \in {"UpdateFlow", "DeleteFlow", "GetFlow"} :
          Pattern(m) = <<Lit("v1"), Lit("flows"), Var("name")>>
    /\ Pattern("GetFlowStatus") = <<Lit("v1"), Lit("flows"), Var("name"), Lit("status")>>
    /\ Pattern("RollbackFlow") =
          <<Lit("v1"), Lit("flows"), Var("name"), Lit("rollback"), Var("version")>>
    /\ Pattern("CreateSchema") = <<Lit("v1"), Lit("schemas")>>
    /\ Pattern("DeleteSchema") = <<Lit("v1"), Lit("schemas"), Var("name")>>
    /\ Pattern("ListSchemaVersions") = <<Lit("v1"), Lit("schemas"), Var("name"), Lit("versions")>>
    /\ Pattern("GetSchema") =
          <<Lit("v1"), Lit("schemas"), Var("name"), Lit("versions"), Var("version")>>
  BY DEF Pattern, FlowService, pattern_FlowService, pattern_SchemaRegistryService, Flow, Flows,
         Schemas

\* A request for a method without parameters writes the call of it.
LEMMA CollectionWrites ==
    ASSUME NEW q, q.path \in Seq(STRING), NEW s, Fits(<<Lit("v1"), Lit(s)>>, q.path),
           NEW rpc, NEW b, NEW c, c = Call(rpc, "", 0, b), q.verb = Verb(rpc),
           \/ s = "flows" /\ rpc \in {"CreateFlow", "ListFlows"}
           \/ s = "schemas" /\ rpc = "CreateSchema",
           IF rpc = "ListFlows" THEN b = NoBody ELSE b = q.body /\ b # Garbled
    PROVE  Writes(q, c)
<1>1. q.path = <<"v1", s>>
  BY CollectionPath
<1>2. c.rpc = rpc /\ c.name = "" /\ c.version = 0 /\ c.body = b
  BY DEF Call
<1>3. PICK last : last = q.path[Len(q.path)]
  OBVIOUS
<1>4. WrittenAs(c, last).verb = q.verb
  BY <1>2, Verbs DEF WrittenAs, Request
<1>5. WrittenAs(c, last).path = <<"v1", s>>
  BY <1>2 DEF WrittenAs, Request
<1>6. rpc \notin DOMAIN Width /\ (rpc \in Bodied <=> rpc # "ListFlows")
  BY DEF Width, Bodied
<1> QED
  BY <1>1, <1>2, <1>3, <1>4, <1>5, <1>6 DEF Writes

\* A request for an object writes the call of its method, with the name.
LEMMA NameWrites ==
    ASSUME NEW q, q.path \in Seq(STRING), NEW s, NEW rpc,
           Pattern(rpc) = <<Lit("v1"), Lit(s), Var("name")>>, Fits(Pattern(rpc), q.path),
           NEW b, NEW c, c = Call(rpc, Param(rpc, q.path, "name"), 0, b), q.verb = Verb(rpc),
           \/ s = "flows" /\ rpc \in {"UpdateFlow", "DeleteFlow", "GetFlow"}
           \/ s = "schemas" /\ rpc = "DeleteSchema",
           IF rpc = "UpdateFlow" THEN b = q.body /\ b # Garbled ELSE b = NoBody
    PROVE  Writes(q, c)
<1>1. PICK n : n = q.path[3]
  OBVIOUS
<1>2. q.path = <<"v1", s, n>> /\ Param(rpc, q.path, "name") = n
  BY <1>1, NamePath DEF Param
<1>3. c.rpc = rpc /\ c.name = n /\ c.version = 0 /\ c.body = b
  BY <1>2 DEF Call
<1>4. PICK last : last = q.path[Len(q.path)]
  OBVIOUS
<1>5. WrittenAs(c, last).verb = q.verb
  BY <1>3, Verbs DEF WrittenAs, Request
<1>6. WrittenAs(c, last).path = <<"v1", s, n>>
  BY <1>3 DEF WrittenAs, Request
<1>7. rpc \notin DOMAIN Width /\ rpc \notin Nameless /\ (rpc \in Bodied <=> rpc = "UpdateFlow")
  BY DEF Width, Bodied, Nameless
<1> QED
  BY <1>2, <1>3, <1>4, <1>5, <1>6, <1>7 DEF Writes

\* A request for a part of an object writes the call of its method, with the name.
LEMMA PartWrites ==
    ASSUME NEW q, q.path \in Seq(STRING), NEW s, NEW t, NEW rpc,
           Pattern(rpc) = <<Lit("v1"), Lit(s), Var("name"), Lit(t)>>,
           Fits(Pattern(rpc), q.path),
           NEW c, c = Call(rpc, Param(rpc, q.path, "name"), 0, NoBody), q.verb = Verb(rpc),
           \/ s = "flows" /\ t = "status" /\ rpc = "GetFlowStatus"
           \/ s = "schemas" /\ t = "versions" /\ rpc = "ListSchemaVersions"
    PROVE  Writes(q, c)
<1>1. PICK n : n = q.path[3]
  OBVIOUS
<1>2. q.path = <<"v1", s, n, t>> /\ Param(rpc, q.path, "name") = n
  <2>1. /\ q.path = <<"v1", s, q.path[3], t>>
        /\ (CHOOSE k \in 1 .. Len(q.path) : Pattern(rpc)[k] = Var("name")) = 3
    BY PartPath
  <2> QED
    BY <1>1, <2>1 DEF Param
<1>3. c.rpc = rpc /\ c.name = n /\ c.version = 0 /\ c.body = NoBody
  BY <1>2 DEF Call
<1>4. PICK last : last = q.path[Len(q.path)]
  OBVIOUS
<1>5. WrittenAs(c, last).verb = q.verb
  BY <1>3, Verbs DEF WrittenAs, Request
<1>6. WrittenAs(c, last).path = <<"v1", s, n, t>>
  BY <1>3 DEF WrittenAs, Request
<1>7. rpc \notin DOMAIN Width /\ rpc \notin Nameless /\ rpc \notin Bodied
  BY DEF Width, Bodied, Nameless
<1> QED
  BY <1>2, <1>3, <1>4, <1>5, <1>6, <1>7 DEF Writes

\* A request for a version writes the call of its method, with name and version.
LEMMA VersionWrites ==
    ASSUME NEW q, q.path \in Seq(STRING), NEW s, NEW t, NEW rpc,
           Pattern(rpc) = <<Lit("v1"), Lit(s), Var("name"), Lit(t), Var("version")>>,
           Fits(Pattern(rpc), q.path), NEW max, max = Width[rpc],
           NEW v, v \in Uint(Param(rpc, q.path, "version"), max),
           NEW c, c = Call(rpc, Param(rpc, q.path, "name"), v, NoBody), q.verb = Verb(rpc),
           \/ s = "flows" /\ t = "rollback" /\ rpc = "RollbackFlow"
           \/ s = "schemas" /\ t = "versions" /\ rpc = "GetSchema"
    PROVE  Writes(q, c)
<1>1. PICK n, d : n = q.path[3] /\ d = q.path[5]
  OBVIOUS
<1>2. /\ q.path = <<"v1", s, n, t, d>> /\ q.path[Len(q.path)] = d
      /\ Param(rpc, q.path, "name") = n /\ Param(rpc, q.path, "version") = d
  <2>1. /\ q.path = <<"v1", s, q.path[3], t, q.path[5]>> /\ Len(q.path) = 5
        /\ (CHOOSE k \in 1 .. Len(q.path) : Pattern(rpc)[k] = Var("name")) = 3
        /\ (CHOOSE k \in 1 .. Len(q.path) : Pattern(rpc)[k] = Var("version")) = 5
    BY VersionPath
  <2> QED
    BY <1>1, <2>1 DEF Param
<1>3. c.rpc = rpc /\ c.name = n /\ c.version = v /\ c.body = NoBody
  BY <1>2 DEF Call
<1>4. d \in DOMAIN Decimal /\ v = Decimal[d] /\ v <= max
  BY <1>2 DEF Uint
<1>5. WrittenAs(c, d).verb = q.verb
  BY <1>3, Verbs DEF WrittenAs, Request
<1>6. WrittenAs(c, d).path = <<"v1", s, n, t, d>>
  BY <1>3 DEF WrittenAs, Request
<1>7. rpc \in DOMAIN Width /\ rpc \notin Nameless /\ rpc \notin Bodied
  BY DEF Width, Bodied, Nameless
<1> QED
  BY <1>2, <1>3, <1>4, <1>5, <1>6, <1>7 DEF Writes

\* Whatever a request is decoded to, the request writes that call.
LEMMA DecodesAsWritten ==
    ASSUME NEW q, q.path \in Seq(STRING), NEW rpc \in Routed(q), NEW c \in Decode(rpc, q)
    PROVE  Writes(q, c)
<1>1. rpc \in RPCs /\ q.verb = Verb(rpc) /\ Fits(Pattern(rpc), q.path)
  BY RouteOf DEF Routed
<1>2. CASE rpc = "CreateFlow"
  <2>1. c = Call(rpc, "", 0, q.body) /\ q.body # Garbled
    BY <1>2 DEF Decode, request_CreateFlow, Body
  <2> QED
    BY <1>1, <1>2, <2>1, Patterns, CollectionWrites
<1>3. CASE rpc = "UpdateFlow"
  <2>1. c = Call(rpc, Param(rpc, q.path, "name"), 0, q.body) /\ q.body # Garbled
    BY <1>3 DEF Decode, request_UpdateFlow, Body
  <2> QED
    BY <1>1, <1>3, <2>1, Patterns, NameWrites
<1>4. CASE rpc = "DeleteFlow"
  <2>1. c = Call(rpc, Param(rpc, q.path, "name"), 0, NoBody)
    BY <1>4 DEF Decode, request_DeleteFlow
  <2> QED
    BY <1>1, <1>4, <2>1, Patterns, NameWrites
<1>5. CASE rpc = "GetFlow"
  <2>1. c = Call(rpc, Param(rpc, q.path, "name"), 0, NoBody)
    BY <1>5 DEF Decode, request_GetFlow
  <2> QED
    BY <1>1, <1>5, <2>1, Patterns, NameWrites
<1>6. CASE rpc = "ListFlows"
  <2>1. c = Call(rpc, "", 0, NoBody)
    BY <1>6 DEF Decode, request_ListFlows
  <2> QED
    BY <1>1, <1>6, <2>1, Patterns, CollectionWrites
<1>7. CASE rpc = "GetFlowStatus"
  <2>1. c = Call(rpc, Param(rpc, q.path, "name"), 0, NoBody)
    BY <1>7 DEF Decode, request_GetFlowStatus
  <2> QED
    BY <1>1, <1>7, <2>1, Patterns, PartWrites
<1>8. CASE rpc = "RollbackFlow"
  <2>1. PICK v \in Uint(Param(rpc, q.path, "version"), Max64) :
           c = Call(rpc, Param(rpc, q.path, "name"), v, NoBody)
    BY <1>8 DEF Decode, request_RollbackFlow
  <2>2. Width[rpc] = Max64
    BY <1>8 DEF Width
  <2> QED
    BY <1>1, <1>8, <2>1, <2>2, Patterns, VersionWrites
<1>9. CASE rpc = "CreateSchema"
  <2>1. c = Call(rpc, "", 0, q.body) /\ q.body # Garbled
    BY <1>9 DEF Decode, request_CreateSchema, Body
  <2> QED
    BY <1>1, <1>9, <2>1, Patterns, CollectionWrites
<1>10. CASE rpc = "GetSchema"
  <2>1. PICK v \in Uint(Param(rpc, q.path, "version"), Max32) :
           c = Call(rpc, Param(rpc, q.path, "name"), v, NoBody)
    BY <1>10 DEF Decode, request_GetSchema
  <2>2. Width[rpc] = Max32
    BY <1>10 DEF Width
  <2> QED
    BY <1>1, <1>10, <2>1, <2>2, Patterns, VersionWrites
<1>11. CASE rpc = "ListSchemaVersions"
  <2>1. c = Call(rpc, Param(rpc, q.path, "name"), 0, NoBody)
    BY <1>11 DEF Decode, request_ListSchemaVersions
  <2> QED
    BY <1>1, <1>11, <2>1, Patterns, PartWrites
<1>12. CASE rpc = "DeleteSchema"
  <2>1. c = Call(rpc, Param(rpc, q.path, "name"), 0, NoBody)
    BY <1>12 DEF Decode, request_DeleteSchema
  <2> QED
    BY <1>1, <1>12, <2>1, Patterns, NameWrites
<1> QED
  BY <1>1, <1>2, <1>3, <1>4, <1>5, <1>6, <1>7, <1>8, <1>9, <1>10, <1>11, <1>12
     DEF RPCs, FlowService, SchemaRegistryService

(***************************************************************************)
(* For every request of every client, through either door: the service's   *)
(* method is called with what the client's request says by the options of  *)
(* service.proto (service.pb.gw.go, service_grpc.pb.go), name, version and *)
(* body included.                                                          *)
(***************************************************************************)
THEOREM MethodsCalledAsMeant == Spec => []HandledAsMeant
<1>1. AdmitInv => HandledAsMeant
  <2> SUFFICES ASSUME AdmitInv, NEW r \in Requests, req[r].handled # NoBody
               PROVE  IF req[r].load.door = "grpc" THEN req[r].handled \in req[r].load.calls
                      ELSE Writes(req[r].load.http, req[r].handled)
    BY DEF HandledAsMeant
  <2>1. Carried(r)
    BY DEF AdmitInv
  <2>2. req[r].load \in Loads[r]
    BY <2>1 DEF Carried
  <2>3. CASE req[r].load.door = "grpc"
    BY <2>1, <2>3 DEF Carried
  <2>4. CASE req[r].load.door = "http"
    <3>1. PICK q, c : q = req[r].load.http /\ c = req[r].handled
      OBVIOUS
    <3>2. c \in Decoded(req[r].load)
      BY <2>1, <2>4, <3>1 DEF Carried
    <3>3. PICK rpc \in Routed(q) : c \in Decode(rpc, q)
      BY <3>1, <3>2 DEF Decoded
    <3>4. q.path \in Seq(STRING)
      BY <2>2, <2>4, <3>1, InputsAssumption
    <3>5. Writes(q, c)
      BY <3>3, <3>4, DecodesAsWritten
    <3> QED
      BY <2>4, <3>1, <3>5
  <2> QED
    BY <2>2, <2>3, <2>4, InputsAssumption
<1> QED
  BY <1>1, AdmitInvariant, PTL
=============================================================================
