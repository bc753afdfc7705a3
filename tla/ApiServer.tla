----------------------------- MODULE ApiServer -----------------------------
(***************************************************************************)
(* The API process (api/cmd, api/internal/config, api/internal/server):    *)
(* configuration, start, the two doors (gRPC, and HTTP through the gateway,*)
(* which is itself a gRPC client of this process), authentication, and the *)
(* way down.  What a handler does to etcd is in FlowStore and              *)
(* SchemaRegistry; here it reaches etcd and ends.                          *)
(***************************************************************************)
EXTENDS Flowctl

CONSTANTS
    Environments,   \* flags and environment variables the process may get
    Requests,       \* clients, each of which sends one request at most
    Loads           \* what a client may send, by client

\* Keys and Authorization values are texts; a request comes through one of the
\* two doors, and a stub sends a call of one of the methods.
ASSUME InputsAssumption ==
    /\ \A e \in Environments : e.key.flag \subseteq Texts /\ e.key.var \in Texts
    /\ \A r \in Requests : \A l \in Loads[r] :
          /\ l.door \in {"grpc", "http"}
          /\ l.door = "grpc" => l.options.key \in Texts /\ \A c \in l.calls : IsCall(c)
          /\ l.door = "http" => l.values \in Seq(Texts) /\ l.http.path \in Seq(STRING)

VARIABLES
    env,            \* the process's flags and environment variables
    pc,             \* where main is
    code,           \* the exit code Run's result leads to
    telemetry,      \* "off", "on", "flushed"
    etcd,           \* the store's client: "none", "open", "closed"
    grpc,           \* "none", "listening", "serving", "draining", "stopped"
    http,           \* "none", "serving", "failed", "closed"
    stream,         \* whether somebody holds a stream of the gRPC server open
    errCh,          \* results of the serving goroutines
    ctxDone,        \* a signal has arrived
    req             \* the requests, by client

vars == <<env, pc, code, telemetry, etcd, grpc, http, stream, errCh, ctxDone, req>>
server == <<env, pc, code, telemetry, etcd, grpc, http, stream, errCh, ctxDone>>

-----------------------------------------------------------------------------
\* Configuration: a flag, else a variable that is not empty, else the default.
\* A setting is [flag, var]; a flag that is not given is Unset, or {} for a text.
Unset == "unset"
\* Seeded fault: only "true" is taken for a yes.
envTrueOnly(v, def) == IF v = "" THEN def ELSE v = "true"
envBoolOrDefault(v, def) ==
    CASE v \in {"1", "true", "t", "yes", "y"} -> TRUE
      [] v \in {"0", "false", "f", "no", "n"} -> FALSE
      [] OTHER -> def
FlagBool(s) == IF s.flag # Unset THEN s.flag = "true" ELSE envBoolOrDefault(s.var, FALSE)
envOrDefault(s) == IF s.flag # {} THEN CHOOSE t \in s.flag : TRUE ELSE s.var

Load ==
    [AuthEnabled |-> FlagBool(env.auth), APIKey |-> envOrDefault(env.key),
     HTTPTLSEnabled |-> FlagBool(env.http_tls), HTTPTLSFiles |-> env.http_files,
     GRPCTLSEnabled |-> FlagBool(env.grpc_tls), GRPCTLSFiles |-> env.grpc_files,
     ObservabilityEnabled |-> FlagBool(env.observability)]

ensureAPIKeyConfigured(cfg) == cfg.AuthEnabled => TrimSpace(cfg.APIKey) # Empty
ensureHTTPServerTLSConfigured(cfg) == cfg.HTTPTLSEnabled => cfg.HTTPTLSFiles # "missing"
ensureGRPCServerTLSConfigured(cfg) == cfg.GRPCTLSEnabled => cfg.GRPCTLSFiles # "missing"

-----------------------------------------------------------------------------
\* Authentication: the token of the first Authorization value that has one.
parseBearerToken(t) == IF t.scheme THEN Text(FALSE, FALSE, t.token) ELSE Empty
\* As a set, which is empty when none has one.
firstBearerToken(values) ==
    {parseBearerToken(values[k]) : k \in {n \in DOMAIN values :
        /\ parseBearerToken(values[n]) # Empty
        /\ \A j \in 1 .. n - 1 : parseBearerToken(values[j]) = Empty}}

\* gRPC looks through all the values, HTTP at the first one.
apiKeyUnaryInterceptor(values) ==
    ~Load.AuthEnabled \/ Load.APIKey \in firstBearerToken(values)
apiKeyHTTPMiddleware(values) ==
    LET first == IF values = <<>> THEN Empty ELSE values[1]
    IN  ~Load.AuthEnabled \/ Load.APIKey \in firstBearerToken(<<first>>)

-----------------------------------------------------------------------------
\* Requests.  A request is [stage, load, call, reply, handled]: the call is what
\* the server made of it, handled what a service method was called with.
Blank == [stage |-> "unsent", load |-> NoBody, call |-> NoBody, reply |-> "", handled |-> NoBody]
InHandlers(r) == req[r].stage \in {"interceptor", "handler"}
InHTTP(r) ==
    /\ req[r].stage \in {"middleware", "forward", "interceptor", "handler", "respond"}
    /\ req[r].load.door = "http"

TypeOK ==
    /\ env \in Environments
    /\ pc \in {"telemetry", "store", "grpc", "http", "run", "graceful", "shutdown", "close",
               "flush", "exited"}
    /\ code \in 0 .. 2
    /\ telemetry \in {"off", "on", "flushed"} /\ etcd \in {"none", "open", "closed"}
    /\ grpc \in {"none", "listening", "serving", "draining", "stopped"}
    /\ http \in {"none", "serving", "failed", "closed"}
    /\ stream \in BOOLEAN /\ errCh \in 0 .. 2 /\ ctxDone \in BOOLEAN
    /\ \A r \in Requests : req[r].load \in Loads[r] \cup {NoBody}

Init ==
    /\ env \in Environments
    /\ pc = "telemetry" /\ code = 0
    /\ telemetry = "off" /\ etcd = "none" /\ grpc = "none" /\ http = "none"
    /\ stream = FALSE /\ errCh = 0 /\ ctxDone = FALSE
    /\ req = [r \in Requests |-> Blank]

\* os.Exit and an unrecovered panic skip the deferred calls.
Exit(c) == pc' = "exited" /\ code' = c

\* observability.Setup.
Setup ==
    /\ pc = "telemetry"
    /\ \/ pc' = "store" /\ UNCHANGED code
          /\ telemetry' = IF Load.ObservabilityEnabled THEN "on" ELSE "off"
       \/ Load.ObservabilityEnabled /\ Exit(2) /\ UNCHANGED telemetry
    /\ UNCHANGED <<env, etcd, grpc, http, stream, errCh, ctxDone, req>>

NewEtcd ==
    /\ pc = "store"
    /\ \/ pc' = "grpc" /\ etcd' = "open" /\ UNCHANGED code
       \/ Exit(1) /\ UNCHANGED etcd
    /\ UNCHANGED <<env, telemetry, grpc, http, stream, errCh, ctxDone, req>>

\* Seeded fault: the port is opened when the server starts to serve.
NewGRPCServerLate ==
    /\ pc = "grpc" /\ pc' = "http"
    /\ UNCHANGED <<env, code, telemetry, etcd, grpc, http, stream, errCh, ctxDone, req>>
\* The gRPC port is opened here, before anybody can be served.
NewGRPCServer ==
    /\ pc = "grpc"
    /\ \/ /\ ensureAPIKeyConfigured(Load) /\ ensureGRPCServerTLSConfigured(Load)
          /\ Load.GRPCTLSEnabled => Load.GRPCTLSFiles = "good"
          /\ pc' = "http" /\ grpc' = "listening" /\ UNCHANGED code
       \/ Exit(1) /\ UNCHANGED grpc
    /\ UNCHANGED <<env, telemetry, etcd, http, stream, errCh, ctxDone, req>>

NewHTTPServer ==
    /\ pc = "http"
    /\ \/ /\ ensureAPIKeyConfigured(Load) /\ ensureHTTPServerTLSConfigured(Load)
          /\ pc' = "run" /\ UNCHANGED code
       \/ Exit(1)
    /\ UNCHANGED <<env, telemetry, etcd, grpc, http, stream, errCh, ctxDone, req>>

\* The serving goroutines of Run.  HTTP opens its port and reads its files here.
ServeGRPC ==
    /\ pc = "run" /\ grpc = "listening"
    /\ grpc' = "serving"
    /\ UNCHANGED <<env, pc, code, telemetry, etcd, http, stream, errCh, ctxDone, req>>
\* Seeded fault: a failure is reported and tried again.
ServeHTTPRetry ==
    /\ pc = "run" /\ http \in {"none", "failed"}
    /\ http' = "failed" /\ errCh' = errCh + 1
    /\ UNCHANGED <<env, pc, code, telemetry, etcd, grpc, stream, ctxDone, req>>
ServeHTTP ==
    /\ pc \in {"run", "graceful", "shutdown"} /\ http = "none"
    /\ \/ /\ Load.HTTPTLSEnabled => Load.HTTPTLSFiles = "good"
          /\ http' = "serving" /\ UNCHANGED errCh
       \/ http' = "failed" /\ errCh' = errCh + 1
    /\ UNCHANGED <<env, pc, code, telemetry, etcd, grpc, stream, ctxDone, req>>
\* It may also stop to accept connections later; those it has go on.
FailHTTP ==
    /\ http = "serving"
    /\ http' = "failed" /\ errCh' = errCh + 1
    /\ UNCHANGED <<env, pc, code, telemetry, etcd, grpc, stream, ctxDone, req>>

\* A client of the reflection service has a stream for as long as it likes.
OpenStream ==
    /\ grpc = "serving" /\ ~stream
    /\ stream' = TRUE
    /\ UNCHANGED <<env, pc, code, telemetry, etcd, grpc, http, errCh, ctxDone, req>>
CloseStream ==
    /\ stream
    /\ stream' = FALSE
    /\ UNCHANGED <<env, pc, code, telemetry, etcd, grpc, http, errCh, ctxDone, req>>

\* SIGINT or SIGTERM: the end of a process that is not in Run yet.
Signal ==
    /\ pc # "exited" /\ ~ctxDone
    /\ ctxDone' = TRUE
    /\ IF pc \in {"telemetry", "store", "grpc", "http"} THEN Exit(2) ELSE UNCHANGED <<pc, code>>
    /\ UNCHANGED <<env, telemetry, etcd, grpc, http, stream, errCh, req>>

\* Run's select, and GracefulStop, which closes the gRPC port.
Stop ==
    /\ pc = "run"
    /\ \/ ctxDone /\ UNCHANGED <<code, errCh>>
       \/ errCh > 0 /\ code' = 1 /\ errCh' = errCh - 1
    /\ pc' = "graceful" /\ grpc' = "draining"
    /\ UNCHANGED <<env, telemetry, etcd, http, stream, ctxDone, req>>

\* Seeded fault: Stop in place of GracefulStop.
ShutdownGRPCNow ==
    /\ pc = "graceful"
    /\ pc' = "shutdown" /\ grpc' = "stopped"
    /\ UNCHANGED <<env, code, telemetry, etcd, http, stream, errCh, ctxDone, req>>
\* GracefulStop returns when the last handler has, and every stream is closed.
ShutdownGRPC ==
    /\ pc = "graceful" /\ ~stream /\ \A r \in Requests : ~InHandlers(r)
    /\ pc' = "shutdown" /\ grpc' = "stopped"
    /\ UNCHANGED <<env, code, telemetry, etcd, http, stream, errCh, ctxDone, req>>

\* Seeded fault: Close in place of Shutdown.
ShutdownHTTPNow ==
    /\ pc = "shutdown"
    /\ http' = "closed" /\ (IF code = 0 THEN pc' = "close" ELSE pc' = "exited")
    /\ UNCHANGED <<env, code, telemetry, etcd, grpc, stream, errCh, ctxDone, req>>
\* http.Server.Shutdown, in two steps: the port is closed, then the connections
\* are waited for.  An error ends the process at once.
CloseHTTP ==
    /\ pc = "shutdown" /\ http # "closed"
    /\ http' = "closed"
    /\ UNCHANGED <<env, pc, code, telemetry, etcd, grpc, stream, errCh, ctxDone, req>>
ShutdownHTTP ==
    /\ pc = "shutdown" /\ http = "closed" /\ \A r \in Requests : ~InHTTP(r)
    /\ IF code = 0 THEN pc' = "close" ELSE pc' = "exited"
    /\ UNCHANGED <<env, code, telemetry, etcd, grpc, http, stream, errCh, ctxDone, req>>

\* main's deferred calls, last one first.
CloseStore ==
    /\ pc = "close"
    /\ pc' = "flush" /\ etcd' = "closed"
    /\ UNCHANGED <<env, code, telemetry, grpc, http, stream, errCh, ctxDone, req>>
ShutdownTelemetry ==
    /\ pc = "flush"
    /\ pc' = "exited" /\ telemetry' = IF telemetry = "on" THEN "flushed" ELSE "off"
    /\ UNCHANGED <<env, code, etcd, grpc, http, stream, errCh, ctxDone, req>>

-----------------------------------------------------------------------------
\* A client: flowctl dials and calls under one deadline, any other one connects
\* to the HTTP port.
Connection(l) == IF l.door = "grpc" THEN CHOOSE c \in dialAPI(l.options) : TRUE ELSE l
Move(r, stage) == req' = [req EXCEPT ![r].stage = stage]
Reply(q, reply, stage) ==
    [q EXCEPT !.stage = stage, !.reply = IF @ = "" THEN reply ELSE @]
\* The server's answer, which over HTTP is still to be written.
Answer(r, reply) ==
    req' = [req EXCEPT ![r] = Reply(@, reply, IF @.load.door = "http" THEN "respond" ELSE "done")]

Send(r, l) ==
    /\ req[r].stage = "unsent"
    /\ req' = [req EXCEPT ![r] =
          CASE l.door = "http" -> [@ EXCEPT !.load = l, !.stage = "connecting"]
            [] l.door = "grpc" /\ (l.calls = {} \/ dialAPI(l.options) = {}) ->
                  Reply([@ EXCEPT !.load = l], "not sent", "done")
            [] OTHER -> [@ EXCEPT !.load = l, !.stage = "dialing", !.call = CHOOSE c \in l.calls : TRUE]]
    /\ UNCHANGED server

\* flowctl waits for the connection, whatever the reason it does not come.
Dial(r) ==
    /\ req[r].stage = "dialing"
    /\ grpc = "serving" /\ Connection(req[r].load).tls = Load.GRPCTLSEnabled
    /\ Move(r, "connected")
    /\ UNCHANGED server
GiveUp(r) ==
    /\ req[r].stage \notin {"unsent", "done"} /\ req[r].load.door = "grpc" /\ req[r].reply = ""
    /\ req' = [req EXCEPT ![r] =
          Reply(@, "deadline", IF @.stage \in {"dialing", "connected"} THEN "done" ELSE @.stage)]
    /\ UNCHANGED server

Connect(r) ==
    /\ req[r].stage = "connecting"
    /\ IF http = "serving" /\ pc # "exited" /\ req[r].load.tls = Load.HTTPTLSEnabled
       THEN Move(r, "middleware")
       ELSE req' = [req EXCEPT ![r] = Reply(@, "refused", "done")]
    /\ UNCHANGED server

\* A call of a stub, by flowctl or by the gateway.  A server that drains takes or
\* refuses it; one that listens only will take it once it serves.
Invoked(r) ==
    \/ grpc \in {"serving", "draining"} /\ Move(r, "interceptor")
    \/ grpc \in {"none", "draining", "stopped"} /\ Answer(r, "unavailable")

CallGRPC(r) ==
    /\ req[r].stage = "connected"
    /\ Invoked(r)
    /\ UNCHANGED server

\* The HTTP handler, once it has the request: authentication, the route, the
\* decoding.
ServeRequest(r) ==
    LET l == req[r].load
        rpcs == Routed(l.http)
        calls == UNION {Decode(rpc, l.http) : rpc \in rpcs}
    IN  /\ pc # "exited" /\ req[r].stage = "middleware"
        /\ CASE ~apiKeyHTTPMiddleware(l.values) -> Answer(r, "unauthenticated")
             [] apiKeyHTTPMiddleware(l.values) /\ rpcs = {} ->
                   Answer(r, IF OtherVerb(l.http) THEN "not allowed" ELSE "not found")
             [] apiKeyHTTPMiddleware(l.values) /\ rpcs # {} /\ calls = {} -> Answer(r, "invalid")
             [] OTHER -> \E c \in calls : req' = [req EXCEPT ![r].stage = "forward", ![r].call = c]
        /\ UNCHANGED server
\* Seeded fault: the gateway's calls wait for a server that is ready.
ForwardWaits(r) ==
    /\ pc # "exited" /\ req[r].stage = "forward"
    /\ grpc = "serving" /\ Move(r, "interceptor")
    /\ UNCHANGED server
Forward(r) ==
    /\ pc # "exited" /\ req[r].stage = "forward"
    /\ Invoked(r)
    /\ UNCHANGED server

Intercept(r) ==
    /\ pc # "exited" /\ req[r].stage = "interceptor"
    /\ IF apiKeyUnaryInterceptor(Connection(req[r].load).values)
       THEN Move(r, "handler")
       ELSE Answer(r, "unauthenticated")
    /\ UNCHANGED server
\* The service's method: it succeeds or fails, with etcd or by its own checks.
Handle(r) ==
    /\ pc # "exited" /\ req[r].stage = "handler"
    /\ \E h \in Handler(Invoke(req[r].call)), reply \in {"ok", "error"} :
          req' = [req EXCEPT ![r] =
              [Reply(@, reply, IF @.load.door = "http" THEN "respond" ELSE "done") EXCEPT !.handled = h]]
    /\ UNCHANGED server
Respond(r) ==
    /\ pc # "exited" /\ req[r].stage = "respond"
    /\ Move(r, "done")
    /\ UNCHANGED server

Main ==
    \/ Setup \/ NewEtcd \/ NewGRPCServer \/ NewHTTPServer \/ Stop
    \/ ShutdownGRPC \/ CloseHTTP \/ ShutdownHTTP \/ CloseStore \/ ShutdownTelemetry
\* Of the server's steps for a request, those that need nobody else, and those
\* that need the client: the rest of an HTTP request is read, its answer written.
Working(r) == Forward(r) \/ Intercept(r) \/ Handle(r)
Exchange(r) == ServeRequest(r) \/ Respond(r)
Serving(r) == Working(r) \/ Exchange(r)
Client(r) == Dial(r) \/ CallGRPC(r) \/ GiveUp(r) \/ Connect(r)

Next ==
    \/ Main \/ ServeGRPC \/ ServeHTTP \/ FailHTTP \/ Signal \/ OpenStream \/ CloseStream
    \/ \E r \in Requests : Serving(r) \/ Client(r) \/ \E l \in Loads[r] : Send(r, l)

\* Goroutines run; a service method ends, for etcd answers or fails; attempts to
\* connect come to an end and flowctl's deadlines pass.  Nobody has to send a
\* request or a signal, to finish an HTTP request, which has no time limit, to
\* read its answer, or to close a stream.
Spec ==
    /\ Init /\ [][Next]_vars
    /\ WF_vars(Main) /\ WF_vars(ServeGRPC) /\ WF_vars(ServeHTTP)
    /\ \A r \in Requests : WF_vars(Working(r)) /\ WF_vars(Client(r))

-----------------------------------------------------------------------------
(***************************************************************************)
(* main closes the store in a deferred call, under handlers that use it    *)
(* from other goroutines: Run has waited for them, so the store outlives   *)
(* every handler.                                                          *)
(***************************************************************************)
StoreOutlivesHandlers ==
    \A r \in Requests : req[r].stage = "handler" => etcd = "open"

(***************************************************************************)
(* The end of the process, by a signal or by an error of Run, also by one  *)
(* of an HTTP server that has requests, cuts off no request that a server  *)
(* has begun: gRPC is drained first, then HTTP, whose requests end with an *)
(* answer or with Unavailable.                                             *)
(***************************************************************************)
NoneCutOff ==
    pc = "exited" => \A r \in Requests : ~InHandlers(r) /\ ~InHTTP(r)

(***************************************************************************)
(* The gateway is a client of its own process and may run before the gRPC  *)
(* server does.  As the port is open by then, the gRPC server turns a call *)
(* away with Unavailable only once the process is on its way down.  (What  *)
(* etcd says through a handler, Unavailable too, is an "error" here.)      *)
(***************************************************************************)
NoEarlyRefusal ==
    \A r \in Requests :
        req[r].reply = "unavailable" => pc \in {"graceful", "shutdown", "close", "flush", "exited"}

(***************************************************************************)
(* Where authentication was asked for by a flag or by a value the server   *)
(* takes for yes, no service method runs for a client that did not send    *)
(* the configured key, through either door.                                *)
(***************************************************************************)
AuthAsked ==
    IF env.auth.flag # Unset THEN env.auth.flag = "true"
    ELSE env.auth.var \in {"1", "true", "t", "yes", "y"}
OnlyKeyHolders ==
    \A r \in Requests :
        AuthAsked /\ req[r].handled # NoBody =>
            LET values == Connection(req[r].load).values
                key == envOrDefault(env.key)
            IN  key.token # "" /\ \E k \in DOMAIN values :
                    values[k].scheme /\ values[k].token = key.token

(***************************************************************************)
(* A flowctl that is given the key of the server is not turned away, nor   *)
(* is an HTTP client that sends it in its first Authorization value, if    *)
(* the key has no blanks around it and no "Bearer " in front.  (With them  *)
(* it never matches: the server trims what it receives, not its own key.)  *)
(***************************************************************************)
Carries(l, key) ==
    IF l.door = "grpc" THEN TrimSpace(l.options.key).token = key.token
    ELSE l.values # <<>> /\ l.values[1].scheme /\ l.values[1].token = key.token
SharedKeyOpens ==
    \A r \in Requests :
        LET key == envOrDefault(env.key)
        IN  req[r].reply = "unauthenticated" /\ ~key.pad /\ ~key.scheme =>
                ~Carries(req[r].load, key)

(***************************************************************************)
(* Through either door the service's method is called with what the client *)
(* meant: flowctl's command, or the call that the HTTP request writes down *)
(* by the options of service.proto.  Requests that mean nothing reach no   *)
(* method.                                                                 *)
(***************************************************************************)
HandledAsMeant ==
    \A r \in Requests :
        req[r].handled # NoBody =>
            IF req[r].load.door = "grpc" THEN req[r].handled \in req[r].load.calls
            ELSE Writes(req[r].load.http, req[r].handled)

\* The server waits for an HTTP client: for its request, or to take the answer.
WaitsForClient(r) == req[r].stage \in {"middleware", "respond"}
\* A client holds up the way down.
HeldUp ==
    \/ pc = "graceful" /\ stream
    \/ pc = "shutdown" /\ \E r \in Requests : WaitsForClient(r)

(***************************************************************************)
(* After a signal the process comes down, and nothing but a client can     *)
(* hold it up for ever: with a stream that GracefulStop waits for, or with *)
(* an HTTP request that it does not finish or does not take the answer of, *)
(* which Shutdown waits for without a limit.  The two servers never wait   *)
(* for each other or for calls of their own.                               *)
(***************************************************************************)
Stops == <>ctxDone => <>(pc = "exited") \/ <>[]HeldUp
(***************************************************************************)
(* Every request that was sent comes to an end, through start, drain and   *)
(* shutdown and whatever other clients do, unless its own client keeps the *)
(* server waiting.                                                         *)
(***************************************************************************)
Answered ==
    \A r \in Requests :
        <>(req[r].stage # "unsent") => <>(req[r].stage = "done") \/ <>[]WaitsForClient(r)
=============================================================================
