------------------------------ MODULE Gateway ------------------------------
(***************************************************************************)
(* The API on the wire (gen/go/flowpipe/v1): the gRPC stubs of the two     *)
(* services, and the HTTP gateway that turns a request into one of their   *)
(* calls: routes, path parameters and bodies.                              *)
(***************************************************************************)
EXTENDS Naturals, Sequences

CONSTANTS
    Decimal,        \* what ParseUint makes of a path segment, where it is a number
    Max32, Max64,   \* the largest uint32 and uint64
    NoBody,         \* an empty body, an absent message
    Garbled         \* a body that does not decode

FlowService ==
    {"CreateFlow", "UpdateFlow", "DeleteFlow", "GetFlow", "ListFlows", "GetFlowStatus",
     "RollbackFlow"}
SchemaRegistryService == {"CreateSchema", "GetSchema", "ListSchemaVersions", "DeleteSchema"}
RPCs == FlowService \cup SchemaRegistryService

\* A call: its method, the flow name or schema id, the version, the body.
Call(rpc, name, version, body) ==
    [rpc |-> rpc, name |-> name, version |-> version, body |-> body]
IsCall(c) == c.rpc \in RPCs /\ c = Call(c.rpc, c.name, c.version, c.body)

-----------------------------------------------------------------------------
\* gRPC: a client stub names the method, the server's tables find the handler.
FullMethodName(rpc) ==
    <<IF rpc \in FlowService THEN "FlowService" ELSE "SchemaRegistryService", rpc>>
flowServiceClient(call) == [method |-> FullMethodName(call.rpc), in |-> call]
schemaRegistryServiceClient(call) == [method |-> FullMethodName(call.rpc), in |-> call]
Invoke(call) ==
    IF call.rpc \in FlowService THEN flowServiceClient(call) ELSE schemaRegistryServiceClient(call)

\* A handler decodes the message and calls its method of the server with it.
FlowService_ServiceDesc == [rpc \in FlowService |-> FullMethodName(rpc)]
SchemaRegistryService_ServiceDesc == [rpc \in SchemaRegistryService |-> FullMethodName(rpc)]
FlowService_Handler(r) ==
    {[r.in EXCEPT !.rpc = m] : m \in {n \in FlowService : FlowService_ServiceDesc[n] = r.method}}
SchemaRegistryService_Handler(r) ==
    {[r.in EXCEPT !.rpc = m] :
        m \in {n \in SchemaRegistryService : SchemaRegistryService_ServiceDesc[n] = r.method}}
Handler(r) == FlowService_Handler(r) \cup SchemaRegistryService_Handler(r)

-----------------------------------------------------------------------------
\* HTTP: path templates of literal and variable segments.
Lit(s) == <<"lit", s>>
Var(f) == <<"var", f>>
Flows == <<Lit("v1"), Lit("flows")>>
Flow == <<Lit("v1"), Lit("flows"), Var("name")>>
Schemas == <<Lit("v1"), Lit("schemas")>>

pattern_FlowService ==
    [CreateFlow |-> Flows, ListFlows |-> Flows,
     UpdateFlow |-> Flow, DeleteFlow |-> Flow, GetFlow |-> Flow,
     GetFlowStatus |-> <<Lit("v1"), Lit("flows"), Var("name"), Lit("status")>>,
     RollbackFlow  |-> <<Lit("v1"), Lit("flows"), Var("name"), Lit("rollback"), Var("version")>>]
pattern_SchemaRegistryService ==
    [CreateSchema |-> Schemas,
     DeleteSchema |-> <<Lit("v1"), Lit("schemas"), Var("name")>>,
     ListSchemaVersions |-> <<Lit("v1"), Lit("schemas"), Var("name"), Lit("versions")>>,
     GetSchema |-> <<Lit("v1"), Lit("schemas"), Var("name"), Lit("versions"), Var("version")>>]

\* The verb each handler is registered for, by method.
RegisterFlowServiceHandlerClient ==
    [CreateFlow |-> "POST", UpdateFlow |-> "PUT", DeleteFlow |-> "DELETE", GetFlow |-> "GET",
     ListFlows |-> "GET", GetFlowStatus |-> "GET", RollbackFlow |-> "POST"]
RegisterSchemaRegistryServiceHandlerClient ==
    [CreateSchema |-> "POST", GetSchema |-> "GET", ListSchemaVersions |-> "GET",
     DeleteSchema |-> "DELETE"]

Pattern(rpc) ==
    IF rpc \in FlowService THEN pattern_FlowService[rpc] ELSE pattern_SchemaRegistryService[rpc]
Verb(rpc) ==
    IF rpc \in FlowService THEN RegisterFlowServiceHandlerClient[rpc]
    ELSE RegisterSchemaRegistryServiceHandlerClient[rpc]

\* The multiplexer: the methods whose template fits a path, and its parameters.
Fits(pattern, path) ==
    /\ Len(pattern) = Len(path)
    /\ \A k \in 1 .. Len(path) : pattern[k][1] = "lit" => pattern[k][2] = path[k]
Routed(req) == {rpc \in RPCs : Verb(rpc) = req.verb /\ Fits(Pattern(rpc), req.path)}
OtherVerb(req) == \E rpc \in RPCs : Fits(Pattern(rpc), req.path)
Param(rpc, path, f) ==
    path[CHOOSE k \in 1 .. Len(path) : Pattern(rpc)[k] = Var(f)]

\* Decoding, as the set of what comes out: none is InvalidArgument.
Uint(segment, max) == {n \in {Decimal[d] : d \in {segment} \cap DOMAIN Decimal} : n <= max}
Body(body) == {body} \ {Garbled}

request_CreateFlow(req) == {Call("CreateFlow", "", 0, b) : b \in Body(req.body)}
request_UpdateFlow(req) ==
    {Call("UpdateFlow", Param("UpdateFlow", req.path, "name"), 0, b) : b \in Body(req.body)}
request_DeleteFlow(req) ==
    {Call("DeleteFlow", Param("DeleteFlow", req.path, "name"), 0, NoBody)}
request_GetFlow(req) == {Call("GetFlow", Param("GetFlow", req.path, "name"), 0, NoBody)}
request_ListFlows(req) == {Call("ListFlows", "", 0, NoBody)}
request_GetFlowStatus(req) ==
    {Call("GetFlowStatus", Param("GetFlowStatus", req.path, "name"), 0, NoBody)}
\* Seeded fault: the version comes from the wrong parameter.
request_RollbackFlowName(req) ==
    {Call("RollbackFlow", Param("RollbackFlow", req.path, "version"), v, NoBody) :
        v \in Uint(Param("RollbackFlow", req.path, "version"), Max64)}
request_RollbackFlow(req) ==
    {Call("RollbackFlow", Param("RollbackFlow", req.path, "name"), v, NoBody) :
        v \in Uint(Param("RollbackFlow", req.path, "version"), Max64)}
request_CreateSchema(req) == {Call("CreateSchema", "", 0, b) : b \in Body(req.body)}
request_GetSchema(req) ==
    {Call("GetSchema", Param("GetSchema", req.path, "name"), v, NoBody) :
        v \in Uint(Param("GetSchema", req.path, "version"), Max32)}
request_ListSchemaVersions(req) ==
    {Call("ListSchemaVersions", Param("ListSchemaVersions", req.path, "name"), 0, NoBody)}
request_DeleteSchema(req) ==
    {Call("DeleteSchema", Param("DeleteSchema", req.path, "name"), 0, NoBody)}

Decode(rpc, req) ==
    CASE rpc = "CreateFlow" -> request_CreateFlow(req)
      [] rpc = "UpdateFlow" -> request_UpdateFlow(req)
      [] rpc = "DeleteFlow" -> request_DeleteFlow(req)
      [] rpc = "GetFlow" -> request_GetFlow(req)
      [] rpc = "ListFlows" -> request_ListFlows(req)
      [] rpc = "GetFlowStatus" -> request_GetFlowStatus(req)
      [] rpc = "RollbackFlow" -> request_RollbackFlow(req)
      [] rpc = "CreateSchema" -> request_CreateSchema(req)
      [] rpc = "GetSchema" -> request_GetSchema(req)
      [] rpc = "ListSchemaVersions" -> request_ListSchemaVersions(req)
      [] rpc = "DeleteSchema" -> request_DeleteSchema(req)

-----------------------------------------------------------------------------
(***************************************************************************)
(* The reference: how a client writes a call down, from the google.api.http*)
(* options of proto/flowpipe/v1/service.proto.                             *)
(***************************************************************************)
Request(verb, path, body) == [verb |-> verb, path |-> path, body |-> body]
Numeral(n) == CHOOSE d \in DOMAIN Decimal : Decimal[d] = n

WrittenAs(call, numeral) ==
    LET n == call.name
    IN  CASE call.rpc = "CreateFlow" -> Request("POST", <<"v1", "flows">>, call.body)
          [] call.rpc = "UpdateFlow" -> Request("PUT", <<"v1", "flows", n>>, call.body)
          [] call.rpc = "DeleteFlow" -> Request("DELETE", <<"v1", "flows", n>>, NoBody)
          [] call.rpc = "GetFlow" -> Request("GET", <<"v1", "flows", n>>, NoBody)
          [] call.rpc = "ListFlows" -> Request("GET", <<"v1", "flows">>, NoBody)
          [] call.rpc = "GetFlowStatus" -> Request("GET", <<"v1", "flows", n, "status">>, NoBody)
          [] call.rpc = "RollbackFlow" ->
                Request("POST", <<"v1", "flows", n, "rollback", numeral>>, NoBody)
          [] call.rpc = "CreateSchema" -> Request("POST", <<"v1", "schemas">>, call.body)
          [] call.rpc = "GetSchema" ->
                Request("GET", <<"v1", "schemas", n, "versions", numeral>>, NoBody)
          [] call.rpc = "ListSchemaVersions" ->
                Request("GET", <<"v1", "schemas", n, "versions">>, NoBody)
          [] call.rpc = "DeleteSchema" -> Request("DELETE", <<"v1", "schemas", n>>, NoBody)
Written(call) == WrittenAs(call, Numeral(call.version))

\* Whether a request writes a call down.  The spelling of a version is free, and
\* so is a body that the method does not take.
Nameless == {"CreateFlow", "ListFlows", "CreateSchema"}
Bodied == {"CreateFlow", "UpdateFlow", "CreateSchema"}
Width == [RollbackFlow |-> Max64, GetSchema |-> Max32]
Writes(req, call) ==
    LET last == req.path[Len(req.path)]
        written == WrittenAs(call, last)
    IN  /\ req.verb = written.verb /\ req.path = written.path
        /\ call.rpc \in Nameless => call.name = ""
        /\ IF call.rpc \in Bodied THEN req.body = call.body /\ call.body # Garbled
           ELSE call.body = NoBody
        /\ IF call.rpc \in DOMAIN Width
           THEN last \in DOMAIN Decimal /\ call.version = Decimal[last]
                /\ call.version <= Width[call.rpc]
           ELSE call.version = 0
=============================================================================
