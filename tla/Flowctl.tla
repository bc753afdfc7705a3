------------------------------ MODULE Flowctl ------------------------------
(***************************************************************************)
(* flowctl as a client of the API (cli/cmd/flowctl): the call each command *)
(* makes of its arguments, if it makes one, and the credentials it sends.  *)
(* The commands that take a flow file are in FlowPath.                     *)
(***************************************************************************)
EXTENDS Gateway, SequencesExt

CONSTANT
    Readable        \* paths that can be read, "-" among them

\* A text that may be an API key or an Authorization value: blanks around it, a
\* "Bearer " in front (in any case), and the rest.
Text(pad, scheme, token) == [pad |-> pad, scheme |-> scheme, token |-> token]
Texts == [pad : BOOLEAN, scheme : BOOLEAN, token : STRING]
Empty == Text(FALSE, FALSE, "")
TrimSpace(t) == [t EXCEPT !.pad = FALSE]

\* Seeded fault: the key goes out as it is.
PlainToken(t) == TrimSpace(t)
formatBearerToken(t) ==
    IF TrimSpace(t) = Empty THEN Empty ELSE [TrimSpace(t) EXCEPT !.scheme = TRUE]

\* strconv.ParseBool, or the fallback.
envBoolDefault(v, fallback) ==
    CASE v \in {"1", "t", "T", "true", "TRUE", "True"} -> TRUE
      [] v \in {"0", "f", "F", "false", "FALSE", "False"} -> FALSE
      [] OTHER -> fallback

\* dialAPI: whether the connection uses TLS, and the Authorization values of the
\* calls made on it; nothing when the settings are incomplete.
apiKeyCredentials(key) ==
    IF formatBearerToken(key) = Empty THEN <<>> ELSE <<formatBearerToken(key)>>
dialAPI(o) ==
    LET tls == envBoolDefault(o.tls, FALSE)
    IN  IF o.addr = "" \/ (tls /\ o.files # "good") THEN {}
        ELSE {[tls |-> tls, values |-> apiKeyCredentials(o.key)]}

-----------------------------------------------------------------------------
\* A command and what it calls, as a set that is empty when it fails before.
get(name) == {Call("GetFlow", name, 0, NoBody)}
status(name) == {Call("GetFlowStatus", name, 0, NoBody)}
list == {Call("ListFlows", "", 0, NoBody)}
stop(name) == {Call("DeleteFlow", name, 0, NoBody)}
rollback(name, version) == {Call("RollbackFlow", name, v, NoBody) : v \in {version} \ {0}}

parseQueueSchemaFormat(value) ==
    CASE value \in {"arrow", "apache-arrow"} -> {"ARROW"}
      [] value = "json" -> {"JSON"}
      [] value \in {"protobuf", "proto"} -> {"PROTOBUF"}
      [] value \in {"flatbuffers", "flatbuffer"} -> {"FLATBUFFERS"}
      [] OTHER -> {}
parseSchemaVersion(value) == Uint(value, Max32) \ {0}
readSchemaPayload(path) == {path} \cap Readable

schemaCreate(id, format, path) ==
    {Call("CreateSchema", "", 0, [schema_id |-> id, format |-> f, raw_schema |-> p]) :
        f \in parseQueueSchemaFormat(format), p \in readSchemaPayload(path)}
schemaGet(id, version) == {Call("GetSchema", id, v, NoBody) : v \in parseSchemaVersion(version)}
schemaList(id) == {Call("ListSchemaVersions", id, 0, NoBody)}
schemaDelete(id) == {Call("DeleteSchema", id, 0, NoBody)}
=============================================================================
