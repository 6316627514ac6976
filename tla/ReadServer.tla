----------------------------- MODULE ReadServer -----------------------------
(***************************************************************************)
(* The MCP server and its read path (application.py, config.py, profiles,  *)
(* factory, tools/registry.py, tools/audit.py, pfsense_client.py,          *)
(* rest_api_client.py, transport/http.py): the start of the process, one   *)
(* step per thing that can be refused, the tools it registers, and a call  *)
(* of a tool from the audit record of its invocation to its answer.        *)
(*                                                                         *)
(* Handlers are synchronous, so one call runs at a time; the appliance,    *)
(* its administrator and the Tier-1 runtime change meanwhile. What is      *)
(* configured is a class of values per variable of the environment, and an *)
(* answer of the appliance is its status, its body and the entries in it.  *)
(***************************************************************************)
EXTENDS ReadCatalogue, Sequences, Naturals

CONSTANTS Environments,  \* the environments the server may be started in
          Limits,        \* the limits a caller may ask for
          MaxRotations   \* how often the appliance's key is replaced

VARIABLES env,           \* the environment of the next start
          step,          \* where the process is: "down" ... "serving"
          conf,          \* what load_config returned
          sentKey,       \* the key the transport sends
          served,        \* the tools registered
          call,          \* the call whose request is on its way
          trail,         \* the audit records of the last call
          answer,        \* what the last call returned or raised
          liveKey,       \* the key the appliance accepts
          fileKey,       \* the key in the key file
          runtimeBuilds  \* whether the Tier-1 write runtime can be constructed

serverVars == <<env, step, conf, sentKey, served, call, trail, answer, liveKey, fileKey, runtimeBuilds>>

None == "none"
NoConf == [profile |-> None, allowed |-> [given |-> FALSE, names |-> {}]]
NoCall == [tool |-> None, include |-> FALSE, limit |-> 0]
NoAnswer == [tool |-> None, outcome |-> None, shown |-> {}, entries |-> {}, sent |-> {}, status |-> 0, count |-> 0]

-----------------------------------------------------------------------------
(* Configuration: which classes of values each validator accepts.          *)

ValidBaseUrl(raw) == raw \notin {"missing", "spaced", "malformed", "http", "no_host", "userinfo", "query", "path"}
ValidIdentity(raw) == raw \notin {"missing", "blank", "too_long", "control"}
ValidLogging(raw) == raw \notin {"not_integer", "not_positive", "out_of_range"}
ValidTls(mode, ca) ==
    \/ mode \in {"strict", "insecure"} /\ ca = None
    \/ mode = "auto" /\ ca = "readable"

CapabilitiesOf(profile) ==
    CASE profile = "auditor" -> READ_CAPABILITIES
      [] profile = "engineer" -> {}
      [] profile = "write_protected" -> READ_CAPABILITIES \cup {"ALIAS_WRITE"}

(* Names must begin with pfsense_, so the write tool's cannot be listed.   *)
AllowedToolsParse(raw) ==
    /\ raw.form \in {"absent", "names"}
    /\ raw.names \cap KNOWN_WRITE_TOOL_NAMES = {}
AllowedTools(raw) == [given |-> raw.form # "absent", names |-> raw.names]

LoadsConfig(e) ==
    /\ ValidBaseUrl(e.url) /\ ValidIdentity(e.identity) /\ e.keyPath # "missing"
    /\ ValidTls(e.tls, e.ca)
    /\ e.version = "v2"
    /\ e.profile \in {"auditor", "engineer", "write_protected"}
    /\ AllowedToolsParse(e.allowed)
    /\ ValidLogging(e.logging)

(* The key file is opened without following links, must be a small regular *)
(* file of its owner only, and its first line a printable key.             *)
OpensSecurely(file) == file \notin {"absent", "symlink", "not_regular", "foreign", "shared", "oversized"}
KeyLineValid(file) == file \notin {"long_line", "control", "not_utf8", "blank"}

(* shutdown() closes the transport and the log on every way out.           *)
Exit ==
    /\ step' = "down" /\ conf' = NoConf /\ sentKey' = 0 /\ served' = {}
    /\ call' = NoCall /\ trail' = <<>> /\ answer' = NoAnswer
    /\ UNCHANGED <<env, liveKey, fileKey, runtimeBuilds>>

Proceed(from, to) ==
    /\ step = from /\ step' = to
    /\ UNCHANGED <<env, call, trail, answer, liveKey, fileKey, runtimeBuilds>>

Start ==
    /\ ValidLogging(env.logging)
    /\ Proceed("down", "config")
    /\ UNCHANGED <<conf, sentKey, served>>

LoadConfig ==
    \/ /\ LoadsConfig(env)
       /\ Proceed("config", "key")
       /\ conf' = [profile |-> env.profile, allowed |-> AllowedTools(env.allowed)]
       /\ UNCHANGED <<sentKey, served>>
    \/ step = "config" /\ ~LoadsConfig(env) /\ Exit

LoadApiKey ==
    \/ /\ OpensSecurely(env.keyPath) /\ KeyLineValid(env.keyPath)
       /\ Proceed("key", "client")
       /\ sentKey' = fileKey
       /\ UNCHANGED <<conf, served>>
    \/ step = "key" /\ ~(OpensSecurely(env.keyPath) /\ KeyLineValid(env.keyPath)) /\ Exit

BuildClient ==
    /\ Proceed("client", "register")
    /\ UNCHANGED <<conf, sentKey, served>>

-----------------------------------------------------------------------------
(* The registry.                                                           *)

AllKnownTools == KNOWN_READ_TOOL_NAMES \cup KNOWN_WRITE_TOOL_NAMES \cup KNOWN_GUIDANCE_TOOL_NAMES

(* The write tool's gate: the profile, the endpoint and a runtime that     *)
(* can be constructed now.                                                 *)
AliasWriteTools(capabilities) ==
    IF "ALIAS_WRITE" \in capabilities /\ runtimeBuilds THEN KNOWN_WRITE_TOOL_NAMES ELSE {}

RegisterAll(capabilities, allowed) ==
    LET granted == (UNION {r[2] : r \in {x \in Registers : x[1] \in capabilities}})
                   \cup (IF capabilities # {} THEN KNOWN_GUIDANCE_TOOL_NAMES ELSE {})
                   \cup AliasWriteTools(capabilities)
    IN  {t \in granted : allowed.given => t \in allowed.names}

Register ==
    \/ /\ conf.allowed.names \subseteq AllKnownTools
       /\ Proceed("register", "serving")
       /\ served' = RegisterAll(CapabilitiesOf(conf.profile), conf.allowed)
       /\ UNCHANGED <<conf, sentKey>>
    \/ step = "register" /\ ~(conf.allowed.names \subseteq AllKnownTools) /\ Exit

Stop == step = "serving" /\ answer = NoAnswer /\ Exit

-----------------------------------------------------------------------------
(* A call. audit_logged writes a record before the tool runs and another   *)
(* when it returns or raises; each carries whether identifying metadata    *)
(* was asked for.                                                          *)

Audit(event, tool, include) == [event |-> event, tool |-> tool, requested |-> include]

AuditedCall(tool, include, ok) ==
    <<Audit("tool_invoked", tool, include), Audit(IF ok THEN "tool_succeeded" ELSE "tool_failed", tool, include)>>

Answered(tool, include, outcome) ==
    /\ answer' = [NoAnswer EXCEPT !.tool = tool, !.outcome = outcome]
    /\ trail' = AuditedCall(tool, include, outcome = "success")
    /\ UNCHANGED <<env, step, conf, sentKey, served, call, liveKey, fileKey, runtimeBuilds>>

Listening == step = "serving" /\ call = NoCall /\ answer = NoAnswer

(* The answer goes to the caller.                                          *)
Deliver ==
    /\ answer # NoAnswer
    /\ answer' = NoAnswer /\ trail' = <<>>
    /\ UNCHANGED <<env, step, conf, sentKey, served, call, liveKey, fileKey, runtimeBuilds>>

(* Tools that ask the appliance nothing by themselves: the server's own    *)
(* introspection, counted when it is called, not when it is registered;    *)
(* the guidance tools, whose answers are modelled apart; and the write     *)
(* tool, which builds its runtime anew.                                    *)
RegisteredToolCount(tools) == Cardinality(tools)

CallInfo ==
    /\ Listening /\ "pfsense_mcp_info" \in served
    /\ answer' = [NoAnswer EXCEPT !.tool = "pfsense_mcp_info", !.outcome = "success",
                                  !.count = RegisteredToolCount(served)]
    /\ trail' = AuditedCall("pfsense_mcp_info", FALSE, TRUE)
    /\ UNCHANGED <<env, step, conf, sentKey, served, call, liveKey, fileKey, runtimeBuilds>>

CallGuidance(tool) ==
    /\ Listening /\ tool \in served
    /\ \E outcome \in {"success", "unexpected"} : Answered(tool, FALSE, outcome)

CallWrite(tool) ==
    /\ Listening /\ tool \in served
    /\ Answered(tool, FALSE, IF runtimeBuilds THEN "success" ELSE "refused")

(* A read: the limit is checked before anything is sent. A tool without a  *)
(* limit, or whose model withholds nothing, takes no such argument.        *)
CallRead(tool, include, limit) ==
    /\ Listening /\ tool \in served
    /\ limit # DEFAULT_LIMIT => ReadOf(tool).bounded
    /\ include => Shown(ReadOf(tool).model, TRUE) # {}
    /\ IF ReadOf(tool).bounded /\ ~(MIN_LIMIT <= limit /\ limit <= MAX_LIMIT(tool))
       THEN Answered(tool, include, "request_validation")
       ELSE /\ call' = [tool |-> tool, include |-> include, limit |-> limit]
            /\ trail' = <<Audit("tool_invoked", tool, include)>>
            /\ UNCHANGED <<env, step, conf, sentKey, served, answer, liveKey, fileKey, runtimeBuilds>>

-----------------------------------------------------------------------------
(* The appliance's answer: a body is not JSON, JSON but no object, an      *)
(* object without data, data that is one object or a list of entries.      *)

Undelivered == {"not_sent", "timeout", "broken"}
Bodies(read) ==
    [form: {"not_json", "not_object", "no_data"}, entries: {{}}]
    \cup [form: {"object"}, entries: {{e} : e \in EntriesOf(read.model)}]
    \cup [form: {"list"}, entries: {{}} \cup {{"complete", e} : e \in EntriesOf(read.model) \cup {"not_object"}}]
Statuses == IF sentKey = liveKey THEN {200, 403, 500} ELSE {401}

(* The transport classifies what it could not deliver; the client checks   *)
(* the status before it looks into the body.                               *)
DeliveryError(delivery) == delivery \in Undelivered
ResponseError(status, form) ==
    IF status \in {401, 403} THEN "auth"
    ELSE IF ~(200 <= status /\ status < 300) \/ form \in {"not_json", "not_object"} THEN "api"
    ELSE None

(* One entry that fails validation fails the whole list.                   *)
ParseResponse(read, body, include) ==
    [ok |-> body.form = read.shape /\ \A e \in body.entries : FromApi(read.model, e, include),
     entries |-> body.entries]

Finish(outcome, shown, body, returned, status) ==
    /\ answer' = [tool |-> call.tool, outcome |-> outcome, shown |-> shown, entries |-> returned,
                  sent |-> body.entries, status |-> status, count |-> 0]
    /\ trail' = AuditedCall(call.tool, call.include, outcome = "success")
    /\ call' = NoCall
    /\ UNCHANGED <<env, step, conf, sentKey, served, liveKey, fileKey, runtimeBuilds>>

FailDelivery(delivery) ==
    /\ call # NoCall /\ DeliveryError(delivery)
    /\ Finish("connection", {}, [entries |-> {}], {}, 0)

Respond(status, body) ==
    /\ call # NoCall
    /\ LET read == ReadOf(call.tool)
           error == ResponseError(status, body.form)
           parsed == ParseResponse(read, body, call.include)
       IN  IF error # None THEN Finish(error, {}, body, {}, status)
           ELSE IF ~parsed.ok THEN Finish("shape", {}, body, {}, status)
           ELSE Finish("success", IF parsed.entries = {} THEN {} ELSE Shown(read.model, call.include),
                       body, parsed.entries, status)

-----------------------------------------------------------------------------
(* Around the server: the operator changes the environment of the next     *)
(* start, the administrator replaces the key, the file is updated later,   *)
(* and the Tier-1 runtime's own files and services come and go.            *)

EditEnvironment ==
    /\ step = "down"
    /\ env' \in Environments
    /\ UNCHANGED <<step, conf, sentKey, served, call, trail, answer, liveKey, fileKey, runtimeBuilds>>

RotateKey ==
    /\ answer = NoAnswer /\ liveKey < MaxRotations
    /\ liveKey' = liveKey + 1
    /\ UNCHANGED <<env, step, conf, sentKey, served, call, trail, answer, fileKey, runtimeBuilds>>

UpdateKeyFile ==
    /\ answer = NoAnswer
    /\ fileKey # liveKey /\ fileKey' = liveKey
    /\ UNCHANGED <<env, step, conf, sentKey, served, call, trail, answer, liveKey, runtimeBuilds>>

RuntimeChanges ==
    /\ answer = NoAnswer /\ call = NoCall
    /\ runtimeBuilds' = ~runtimeBuilds
    /\ UNCHANGED <<env, step, conf, sentKey, served, call, trail, answer, liveKey, fileKey>>

ServerInit ==
    /\ env \in Environments
    /\ step = "down" /\ conf = NoConf /\ sentKey = 0 /\ served = {}
    /\ call = NoCall /\ trail = <<>> /\ answer = NoAnswer
    /\ liveKey = 1 /\ fileKey = 1 /\ runtimeBuilds = TRUE

ServerNext ==
    \/ Start \/ LoadConfig \/ LoadApiKey \/ BuildClient \/ Register \/ Stop
    \/ CallInfo \/ Deliver
    \/ \E t \in KNOWN_GUIDANCE_TOOL_NAMES : CallGuidance(t)
    \/ \E t \in KNOWN_WRITE_TOOL_NAMES : CallWrite(t)
    \/ \E t \in KNOWN_READ_TOOL_NAMES \ {"pfsense_mcp_info"}, include \in BOOLEAN, limit \in Limits :
           CallRead(t, include, limit)
    \/ \E d \in Undelivered : FailDelivery(d)
    \/ /\ call # NoCall
       /\ \E status \in Statuses, body \in Bodies(ReadOf(call.tool)) : Respond(status, body)
    \/ EditEnvironment \/ RotateKey \/ UpdateKeyFile \/ RuntimeChanges

ServerSpec == ServerInit /\ [][ServerNext]_serverVars

-----------------------------------------------------------------------------
(* The tools a serving process offers are those of its profile, less what  *)
(* the allow list leaves out: every known read and guidance tool for a     *)
(* profile that reads, none for a profile without capabilities, and the    *)
(* write tool only without an allow list. The registry's per-capability    *)
(* tables (tools/registry.py) and the capability set of the profiles are   *)
(* kept apart; a tool missing from one of them would be lost or granted    *)
(* here.                                                                   *)
ServedWithinGrant ==
    step = "serving" =>
        LET reading == IF conf.profile = "engineer" THEN {} ELSE KNOWN_READ_TOOL_NAMES \cup KNOWN_GUIDANCE_TOOL_NAMES
            known == IF conf.allowed.given THEN reading \cap conf.allowed.names ELSE reading
        IN  /\ served \ KNOWN_WRITE_TOOL_NAMES = known
            /\ served \cap KNOWN_WRITE_TOOL_NAMES # {} => conf.profile = "write_protected" /\ ~conf.allowed.given

(* Identifying metadata leaves the server only in an answer to a call      *)
(* whose audit records say that it was asked for, sub-entries of an entry  *)
(* included (the from_api of the models, tools/audit.py).                  *)
IdentifyingOnRecord ==
    answer.shown # {} =>
        /\ Len(trail) = 2
        /\ \A i \in 1 .. 2 : trail[i].requested /\ trail[i].tool = answer.tool

(* A read answers with everything the appliance sent or with an error: no  *)
(* entry is dropped, and no entry comes from a response with an error      *)
(* status (pfsense_client.py, rest_api_client.py).                         *)
AllOrNothing ==
    /\ answer.entries \in {{}, answer.sent}
    /\ answer.entries # {} => answer.status = 200 /\ answer.outcome = "success"
    /\ answer.outcome = "success" => answer.entries = answer.sent

(* What a serving process offers and answers is what its profile, the      *)
(* records it writes and the appliance allow (server.py, tools/, models/). *)
ServerSound == ServedWithinGrant /\ IdentifyingOnRecord /\ AllOrNothing
=============================================================================
