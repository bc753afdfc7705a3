---------------------------- MODULE MCApiServer ----------------------------
(***************************************************************************)
(* An instance of ApiServer: two clients, one that tries every command and *)
(* every route, one that tries credentials.                                *)
(***************************************************************************)
EXTENDS ApiServer

CONSTANTS r1, r2

MCDecimal == [one |-> 1, big |-> 9] @@ [n \in {"zero"} |-> 0] @@ [n \in {"huge"} |-> 99]

Key == Text(FALSE, FALSE, "k")
PaddedKey == Text(TRUE, FALSE, "k")
Good == Text(FALSE, TRUE, "k")
Wrong == Text(FALSE, TRUE, "x")
Basic == Text(FALSE, FALSE, "k")
Setting(flag, var) == [flag |-> flag, var |-> var]
Off == Setting(Unset, "")

Plain ==
    [auth |-> Off, key |-> Setting({}, Key), http_tls |-> Off, http_files |-> "missing",
     grpc_tls |-> Off, grpc_files |-> "missing", observability |-> Off]
MCEnvironments ==
    {[Plain EXCEPT !.auth.var = "yes", !.observability.var = "1", !.http_tls.var = "y",
                   !.http_files = "good"],
     [Plain EXCEPT !.grpc_tls.var = "y", !.grpc_files = "good"],
     [Plain EXCEPT !.auth = Setting("true", "no"), !.key = Setting({PaddedKey}, Key)],
     [Plain EXCEPT !.auth.var = "t", !.key = Setting({Empty}, Key)],
     [Plain EXCEPT !.http_tls.flag = "true", !.http_files = "bad"],
     [Plain EXCEPT !.grpc_tls.flag = "true"]}

Options(tls, key) == [addr |-> "api", tls |-> tls, files |-> "good", key |-> key]
Flowctl(calls) == [door |-> "grpc", calls |-> calls, options |-> Options("", Key)]
HTTP(call) ==
    [door |-> "http", values |-> <<Good>>, tls |-> FALSE, http |-> Written(call)]
Bad(request) == [door |-> "http", values |-> <<Good>>, tls |-> FALSE, http |-> request]

Schema == [schema_id |-> "n", format |-> "JSON", raw_schema |-> "-"]
Calls ==
    {Call("CreateFlow", "", 0, "spec"), Call("UpdateFlow", "n", 0, "spec"),
     Call("DeleteFlow", "n", 0, NoBody), Call("GetFlow", "n", 0, NoBody),
     Call("ListFlows", "", 0, NoBody), Call("GetFlowStatus", "n", 0, NoBody),
     Call("RollbackFlow", "n", 9, NoBody), Call("CreateSchema", "", 0, "spec"),
     Call("GetSchema", "n", 1, NoBody), Call("ListSchemaVersions", "n", 0, NoBody),
     Call("DeleteSchema", "n", 0, NoBody)}
Commands ==
    {get("n"), status("n"), list, stop("n"), rollback("n", 1), rollback("n", 0),
     schemaCreate("n", "json", "-"), schemaCreate("n", "xml", "-"), schemaGet("n", "one"),
     schemaGet("n", "big"), schemaList("n"), schemaDelete("n")}
Rejected ==
    {Request("POST", <<"v1", "flows">>, Garbled),
     Request("POST", <<"v1", "flows", "n", "rollback", "huge">>, NoBody),
     Request("GET", <<"v1", "schemas", "n", "versions", "big">>, NoBody),
     Request("PUT", <<"v1", "flows">>, NoBody), Request("GET", <<"v1">>, NoBody)}

\* A request that was written for a call writes that call and no other one; the
\* rejected ones write none.
ASSUME WrittenAssumption ==
    \A c \in Calls : /\ \A d \in Calls : Writes(Written(c), d) <=> d = c
                     /\ \A q \in Rejected : ~Writes(q, c)

MCLoads ==
    r1 :> {Flowctl(c) : c \in Commands} \cup {HTTP(c) : c \in Calls} \cup {Bad(q) : q \in Rejected}
 @@ r2 :> {[Flowctl(get("n")) EXCEPT !.options = o] :
              o \in {Options("", Key), Options("true", PaddedKey)}}
          \cup {[HTTP(Call("GetFlow", "n", 0, NoBody)) EXCEPT !.values = v, !.tls = TRUE] :
              v \in {<<>>, <<Basic, Good>>, <<Good, Wrong>>}}
          \cup {[HTTP(Call("GetFlow", "n", 0, NoBody)) EXCEPT !.values = <<>>]}
=============================================================================
