---------------------------- MODULE MCOperations ----------------------------
(***************************************************************************)
(* Small instances of the programs that share no state with each other: the *)
(* setup wizard, the setup commands, the authentication transition, the    *)
(* laboratory ceremony, the write adapters, the nonce counter, the server  *)
(* with its read tools and the guidance tool. Each behaviour is a          *)
(* behaviour of one of them, named by focus; the others stay in one        *)
(* initial state.                                                          *)
(***************************************************************************)
EXTENDS SetupWizard, SetupCommands, AuthTransition, LabCredential, WriteAdapters, NonceCounter, ReadServer,
        PfrestDocs, TLC

CONSTANTS p1, p2

VARIABLE focus

Foci == {"wizard", "setup", "auth", "lab", "adapters", "nonce", "server", "docs"}

NoFlags == [mode |-> "none", anchor |-> "absent", account |-> "none", origin |-> "none", identity |-> "none",
            tls |-> "none", ca |-> "none", schema |-> "none", version |-> "none"]
MCPrefills ==
    {NoFlags} \cup
    [mode: {"none", "read_only", "write_protected"}, anchor: {"absent", "software"},
     account: {"none", "managed"}, origin: {"none", "flag"}, identity: {"none", "flag"},
     tls: {"none", "verify_private_ca"}, ca: {"none", "flag"}, schema: {"none"}, version: {"none", "flag"}]
MCChoices ==
    { [posture |-> "read_only", anchor |-> "none", account |-> "managed"],
      [posture |-> "write_protected", anchor |-> "hardware_witness", account |-> "byo"] }
Base == [url |-> "https", identity |-> "named", logging |-> "ok", tls |-> "strict", ca |-> None, version |-> "v2",
         profile |-> "auditor", allowed |-> [form |-> "absent", names |-> {}], keyPath |-> "key"]
Allow(names) == [form |-> "names", names |-> names]
MCEnvironments ==
    {Base, [Base EXCEPT !.profile = "engineer"], [Base EXCEPT !.profile = "write_protected"],
     [Base EXCEPT !.profile = "write_protected", !.allowed = Allow({"firewall_states", "pfsense_mcp_info"})],
     [Base EXCEPT !.allowed = Allow({})], [Base EXCEPT !.allowed = Allow({"users", "api_guidance"})],
     [Base EXCEPT !.allowed = Allow({"users", "pfsense_unknown"})],
     [Base EXCEPT !.profile = "write_protected", !.allowed = Allow(KNOWN_WRITE_TOOL_NAMES)],
     [Base EXCEPT !.profile = "other"], [Base EXCEPT !.version = "other"],
     [Base EXCEPT !.tls = "auto"], [Base EXCEPT !.tls = "auto", !.ca = "readable", !.profile = "engineer"],
     [Base EXCEPT !.tls = "other"], [Base EXCEPT !.ca = "readable"],
     [Base EXCEPT !.allowed = [form |-> "wildcard", names |-> {}]]}
    \cup {[Base EXCEPT !.url = u] : u \in {"missing", "spaced", "malformed", "http", "no_host", "userinfo", "query", "path"}}
    \cup {[Base EXCEPT !.identity = i] : i \in {"missing", "blank", "too_long", "control"}}
    \cup {[Base EXCEPT !.logging = l] : l \in {"not_integer", "not_positive", "out_of_range"}}
    \cup {[Base EXCEPT !.keyPath = k] : k \in {"missing", "absent", "symlink", "not_regular", "foreign", "shared",
                                               "oversized", "long_line", "control", "not_utf8", "blank"}}
MCHolds == [d \in Documents |-> CASE d = "d1" -> {"wide"} [] d = "d2" -> {"s1"} [] OTHER -> {}]
MCFields == [s \in Subjects |-> IF s = "wide" THEN 24 ELSE 3]
MCSymmetry == Permutations({p1, p2})

OperationsInit ==
    /\ focus \in Foci
    /\ WizardInit /\ (focus # "wizard" => prefill = NoFlags)
    /\ SetupInit /\ (focus # "setup" => config = NoFile)
    /\ AuthInit /\ (focus # "auth" => methods = "key")
    /\ ServerInit /\ (focus # "server" => env = Base)
    /\ DocsInit /\ (focus # "docs" => published = "d1")
    /\ LabInit /\ AdaptersInit /\ Init

OperationsNext ==
    /\ UNCHANGED focus
    /\ \/ /\ focus = "wizard" /\ WizardNext
          /\ UNCHANGED <<setupVars, authVars, labVars, adapterVars, vars, serverVars, docVars>>
       \/ /\ focus = "setup" /\ SetupNext
          /\ UNCHANGED <<wizardVars, authVars, labVars, adapterVars, vars, serverVars, docVars>>
       \/ /\ focus = "auth" /\ AuthNext
          /\ UNCHANGED <<wizardVars, setupVars, labVars, adapterVars, vars, serverVars, docVars>>
       \/ /\ focus = "lab" /\ LabNext
          /\ UNCHANGED <<wizardVars, setupVars, authVars, adapterVars, vars, serverVars, docVars>>
       \/ /\ focus = "adapters" /\ AdaptersNext
          /\ UNCHANGED <<wizardVars, setupVars, authVars, labVars, vars, serverVars, docVars>>
       \/ /\ focus = "nonce" /\ Next
          /\ UNCHANGED <<wizardVars, setupVars, authVars, labVars, adapterVars, serverVars, docVars>>
       \/ /\ focus = "server" /\ ServerNext
          /\ UNCHANGED <<wizardVars, setupVars, authVars, labVars, adapterVars, vars, docVars>>
       \/ /\ focus = "docs" /\ DocsNext
          /\ UNCHANGED <<wizardVars, setupVars, authVars, labVars, adapterVars, vars, serverVars>>

OperationsSpec ==
    OperationsInit /\ [][OperationsNext]_<<focus, wizardVars, setupVars, authVars, labVars, adapterVars, vars, serverVars, docVars>>
=============================================================================
