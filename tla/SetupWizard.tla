--------------------------- MODULE SetupWizard -----------------------------
(***************************************************************************)
(* The interactive half of `pfsense-mcp-security setup`: a wizard of six   *)
(* steps with a back stack, values prefilled by command line flags (whose  *)
(* steps are skipped), a review screen, and the plan generated from the    *)
(* answers.  One action is one answer of the operator, or one turn of the  *)
(* wizard's loop that asks nothing.  An answer that is only asked again    *)
(* (an unavailable option, an empty required field, a malformed address)   *)
(* changes nothing and is left out.                                        *)
(***************************************************************************)
EXTENDS Sequences, SequencesExt, FiniteSets, Integers

CONSTANTS
    Addresses,      \* addresses the operator may type
    Names,          \* firewall names the operator may type
    CaFiles,        \* paths of private CA certificates
    Versions,       \* declared versions of the REST API package
    SchemaFiles,    \* paths of saved schemas
    Prefills        \* the flags of the command lines considered

ASSUME SetupInputs ==
    /\ "none" \notin Addresses \cup Names \cup CaFiles \cup Versions \cup SchemaFiles
    /\ "unset" \notin CaFiles /\ \A flags \in Prefills : flags.ca # "unset"

VARIABLES
    prefill,        \* _WizardPrefill: the command line's flags
    answers,        \* _WizardState
    screen,         \* the step or the prompt on the screen
    history,        \* the stack of answered steps
    shown,          \* what the last review screen displayed
    plan            \* the generated plan's inputs, or why there is none

wizardVars == <<prefill, answers, screen, history, shown, plan>>

WizardSteps == {"usage", "protection", "account", "firewall", "connection", "review"}
Prompts == {"address", "name", "ca", "advanced", "version", "schema"}
NoAnswers == [mode |-> "none", protection |-> "none", account |-> "none", address |-> "none",
              name |-> "none", tls |-> "none", ca |-> "none", version |-> "none", schema |-> "none"]

First(x, y) == IF x # "none" THEN x ELSE y

\* _step_sequence: the steps of a mode.
StepSequence(mode) ==
    IF mode = "write_protected"
    THEN <<"usage", "protection", "firewall", "connection", "review">>
    ELSE <<"usage", "account", "firewall", "connection", "review">>

\* _next_step
NextStep(step, mode) ==
    CASE step = "usage" -> IF mode = "write_protected" THEN "protection" ELSE "account"
      [] step \in {"protection", "account"} -> "firewall"
      [] step = "firewall" -> "connection"
      [] step = "connection" -> "review"

\* The answers of a mode: choosing read-only forgets the protection.
WithMode(a, mode) ==
    [a EXCEPT !.mode = mode, !.protection = IF mode = "read_only" THEN "none" ELSE @]

-----------------------------------------------------------------------------
(* What the review prints and what the plan is made of: two computations.   *)

DeriveAnchorAssurance(a) ==
    IF a.mode = "read_only" THEN "none" ELSE First(a.protection, "hardware_witness")

\* The flag's value "absent" stands for a flag not given: "none" is an anchor.
EffectiveAnchorAssurance(a) ==
    IF prefill.anchor # "absent" THEN prefill.anchor ELSE DeriveAnchorAssurance(a)

EffectiveReadOnlyAccountMode(a) == First(prefill.account, First(a.account, "byo"))

\* _print_review: read-only shows no anchor, write-protected shows no account.
Review(a) ==
    [mode |-> a.mode,
     account |-> IF a.mode = "read_only" THEN EffectiveReadOnlyAccountMode(a) ELSE "unshown",
     anchor |-> IF a.mode = "read_only" THEN "unshown" ELSE EffectiveAnchorAssurance(a),
     name |-> a.name, address |-> a.address,
     insecure |-> a.tls = "insecure"]

AdvancedLocked == prefill.schema # "none" \/ prefill.version # "none"

\* _WizardResult
ResolvedAccountMode(posture, a) ==
    IF posture = "read_only" THEN EffectiveReadOnlyAccountMode(a) ELSE "byo"

WizardResult(a) ==
    LET posture == First(prefill.mode, First(a.mode, "read_only"))
    IN [posture |-> posture,
        anchor  |-> EffectiveAnchorAssurance(a),
        account |-> ResolvedAccountMode(posture, a),
        origin  |-> First(prefill.origin, a.address),
        identity |-> First(prefill.identity, a.name),
        tls     |-> First(prefill.tls, a.tls),
        ca      |-> IF prefill.tls # "none" THEN prefill.ca ELSE a.ca,
        schema  |-> IF AdvancedLocked THEN prefill.schema ELSE a.schema,
        version |-> IF AdvancedLocked THEN prefill.version ELSE a.version]

\* The inputs of a run without the wizard: the flags, byo when none is given.
FlagResult ==
    [posture |-> prefill.mode, anchor |-> prefill.anchor, account |-> First(prefill.account, "byo"),
     origin |-> prefill.origin, identity |-> prefill.identity, tls |-> prefill.tls,
     ca |-> prefill.ca, schema |-> prefill.schema, version |-> prefill.version]

\* generate_setup_plan refuses an account mode for the write-protected posture.
PlanRefused(r) == r.posture = "write_protected" /\ r.account # "byo"

\* _mcp_client_env_vars: the entry printed for the MCP client.
ClientTlsMode(r) ==
    CASE r.tls = "insecure" -> "insecure"
      [] r.tls = "verify_private_ca" -> "auto"
      [] OTHER -> "strict"

ClientCaFile(r) == IF r.tls = "verify_private_ca" THEN First(r.ca, "placeholder") ELSE "unset"

ClientEnvVars(r) ==
    [url |-> First(r.origin, "placeholder"),
     identity |-> CASE r.posture = "write_protected" -> "pfsense-mcp"
                    [] r.posture = "read_only" /\ r.account = "managed" -> "pfsense-mcp-readonly"
                    [] OTHER -> First(r.identity, "placeholder"),
     tlsMode |-> ClientTlsMode(r),
     caFile |-> ClientCaFile(r)]

\* The plan as printed: its inputs and the client's entry.
GeneratedPlan(r) ==
    IF r.posture = "none" \/ r.anchor = "absent"
    THEN [outcome |-> "aborted", inputs |-> r, env |-> ClientEnvVars(r)]
    ELSE IF PlanRefused(r)
    THEN [outcome |-> "refused", inputs |-> r, env |-> ClientEnvVars(r)]
    ELSE [outcome |-> "planned", inputs |-> r, env |-> ClientEnvVars(r)]

NoPlan == [outcome |-> "none"]

-----------------------------------------------------------------------------
WizardInit ==
    /\ prefill \in Prefills
    /\ answers = NoAnswers
    /\ screen = "usage"
    /\ history = <<>>
    /\ shown = [mode |-> "none"]
    /\ plan = NoPlan

\* _run_wizard's NEXT: the step goes on the stack and the next one is shown.
Advance(step, a) ==
    /\ answers' = a
    /\ history' = Append(history, step)
    /\ screen' = NextStep(step, a.mode)
    /\ UNCHANGED <<prefill, shown, plan>>

\* A back that forgets to pop the stack.
KeepStack(step, a) ==
    /\ answers' = a
    /\ IF history = <<>> THEN screen' = step ELSE screen' = Last(history)
    /\ UNCHANGED <<history, prefill, shown, plan>>

\* _run_wizard's BACK: an empty stack shows the same step again.
GoBack(step, a) ==
    /\ answers' = a
    /\ IF history = <<>>
       THEN screen' = step /\ UNCHANGED history
       ELSE screen' = Last(history) /\ history' = Front(history)
    /\ UNCHANGED <<prefill, shown, plan>>

\* A prompt inside a step.
Ask(prompt, a) ==
    /\ answers' = a
    /\ screen' = prompt
    /\ UNCHANGED <<prefill, history, shown, plan>>

QuitWizard ==
    /\ screen \in WizardSteps \cup Prompts
    /\ plan = NoPlan
    /\ screen' = "cancelled"
    /\ UNCHANGED <<prefill, answers, history, shown, plan>>

\* The loop's continue: a step whose answer came with a flag is not shown and
\* does not go on the stack.
SkipPrefilled ==
    /\ UNCHANGED <<prefill, history, shown, plan>>
    /\ \/ /\ screen = "usage" /\ prefill.mode # "none"
          /\ answers' = WithMode(answers, prefill.mode)
          /\ screen' = NextStep("usage", prefill.mode)
       \/ /\ screen = "protection" /\ prefill.anchor # "absent"
          /\ screen' = "firewall" /\ UNCHANGED answers
       \/ /\ screen = "account" /\ prefill.account # "none"
          /\ answers' = [answers EXCEPT !.account = prefill.account]
          /\ screen' = "firewall"
       \/ /\ screen = "connection" /\ prefill.tls # "none"
          /\ answers' = [answers EXCEPT !.tls = prefill.tls, !.ca = prefill.ca]
          /\ screen' = "review"

\* _step_usage
StepUsage ==
    /\ screen = "usage" /\ prefill.mode = "none"
    /\ \E mode \in {"read_only", "write_protected"} : Advance("usage", WithMode(answers, mode))

\* _step_protection: software protection cannot be chosen in this build.
StepProtection ==
    /\ screen = "protection" /\ prefill.anchor = "absent"
    /\ \/ Advance("protection", [answers EXCEPT !.protection = "hardware_witness"])
       \/ GoBack("protection", answers)

\* _step_account
StepAccount ==
    /\ screen = "account" /\ prefill.account = "none"
    /\ \/ \E account \in {"managed", "byo"} : Advance("account", [answers EXCEPT !.account = account])
       \/ GoBack("account", answers)

\* _step_firewall up to its first prompt.
StepFirewall ==
    /\ screen = "firewall"
    /\ LET a == IF prefill.origin # "none" THEN [answers EXCEPT !.address = prefill.origin] ELSE answers
       IN IF a.address = "none"
          THEN Ask("address", a)
          ELSE IF prefill.identity # "none"
               THEN Advance("firewall", [a EXCEPT !.name = prefill.identity])
               ELSE Ask("name", a)

\* _prompt_address, with the question whether to add https:// folded in.
PromptAddress ==
    /\ screen = "address"
    /\ \/ \E address \in Addresses : Ask("firewall", [answers EXCEPT !.address = address])
       \/ GoBack("firewall", answers)

\* Back at the name leaves the step only when the address came with a flag;
\* otherwise the address is asked for again.
PromptName ==
    /\ screen = "name"
    /\ \/ \E name \in Names : Advance("firewall", [answers EXCEPT !.name = name])
       \/ IF prefill.origin # "none"
          THEN GoBack("firewall", answers)
          ELSE Ask("firewall", [answers EXCEPT !.address = "none"])

\* _step_connection: only a private CA asks for its certificate.
StepConnection ==
    /\ screen = "connection" /\ prefill.tls = "none"
    /\ \/ \E tls \in {"verify", "insecure"} : Advance("connection", [answers EXCEPT !.tls = tls])
       \/ Ask("ca", [answers EXCEPT !.tls = "verify_private_ca"])
       \/ GoBack("connection", answers)

PromptCa ==
    /\ screen = "ca"
    /\ \E ca \in CaFiles \cup {"none"} : Advance("connection", [answers EXCEPT !.ca = ca])

\* _step_advanced: reached from the review, returns to it.
StepAdvanced ==
    /\ screen = "advanced"
    /\ Ask("review", answers) \/ Ask("version", answers)

PromptVersion ==
    /\ screen = "version"
    /\ \E v \in Versions \cup {"none"} : Ask("schema", [answers EXCEPT !.version = v])

PromptSchema ==
    /\ screen = "schema"
    /\ \E s \in SchemaFiles \cup {"none"} : Ask("review", [answers EXCEPT !.schema = s])

\* _step_review displays first and then asks.
DisplayReview ==
    /\ screen = "review"
    /\ shown' = Review(answers)
    /\ screen' = "reviewed"
    /\ UNCHANGED <<prefill, answers, history, plan>>

AnswerReview ==
    /\ screen = "reviewed"
    /\ \/ /\ plan' = GeneratedPlan(WizardResult(answers))
          /\ screen' = "done"
          /\ history' = Append(history, "review")
          /\ UNCHANGED <<prefill, answers, shown>>
       \/ GoBack("review", answers)
       \/ Ask("advanced", answers)
       \/ /\ screen' = "cancelled" /\ UNCHANGED <<prefill, answers, history, shown, plan>>

\* setup --non-interactive: no wizard, the flags alone.
NonInteractive ==
    /\ screen = "usage" /\ answers = NoAnswers /\ history = <<>>
    /\ plan' = GeneratedPlan(FlagResult)
    /\ screen' = "flags"
    /\ UNCHANGED <<prefill, answers, history, shown>>

WizardNext ==
    \/ SkipPrefilled \/ StepUsage \/ StepProtection \/ StepAccount \/ StepFirewall
    \/ PromptAddress \/ PromptName \/ StepConnection \/ PromptCa \/ StepAdvanced
    \/ PromptVersion \/ PromptSchema \/ DisplayReview \/ AnswerReview \/ QuitWizard \/ NonInteractive

WizardSpec == WizardInit /\ [][WizardNext]_wizardVars

-----------------------------------------------------------------------------
(* The back stack holds exactly the steps the operator answered on the way  *)
(* of the CURRENT mode: however often the mode was changed by going back,   *)
(* no step of the other mode is left on it, and none is missing.            *)
OnTheWay(step) ==
    \/ step = "firewall"
    \/ step = "usage" /\ prefill.mode = "none"
    \/ step = "protection" /\ prefill.anchor = "absent"
    \/ step = "account" /\ prefill.account = "none"
    \/ step = "connection" /\ prefill.tls = "none"
    \/ step = "review"

StepOfScreen ==
    CASE screen \in {"address", "name"} -> "firewall"
      [] screen = "ca" -> "connection"
      [] screen \in {"reviewed", "advanced", "version", "schema"} -> "review"
      [] OTHER -> screen

\* The answered steps before each step of a mode, in order.
WayTo(mode) ==
    LET Kept(i) == IF OnTheWay(StepSequence(mode)[i]) THEN <<StepSequence(mode)[i]>> ELSE <<>>
    IN  << <<>>, Kept(1), Kept(1) \o Kept(2), Kept(1) \o Kept(2) \o Kept(3),
           Kept(1) \o Kept(2) \o Kept(3) \o Kept(4) >>

(* Whatever step is on the screen, the stack holds the way to it.           *)
StackFitsMode ==
    StepOfScreen \in WizardSteps =>
        \E i \in 1 .. 5 : StepSequence(answers.mode)[i] = StepOfScreen /\ history = WayTo(answers.mode)[i]

(* What is planned is what the operator last saw on the review screen, with *)
(* every field the screen shows answered, whatever was prefilled and however *)
(* often the operator went back, changed the mode or reopened the advanced   *)
(* options.                                                                 *)
PlanAsReviewed ==
    screen = "done" =>
        /\ shown.name # "none" /\ shown.address # "none"
        /\ plan.inputs.posture = shown.mode
        /\ shown.account # "unshown" => plan.inputs.account = shown.account
        /\ shown.anchor # "unshown" => plan.inputs.anchor = shown.anchor
        /\ plan.inputs.origin = shown.address
        /\ plan.inputs.identity = shown.name
        /\ (plan.inputs.tls = "insecure") = shown.insecure

(* The wizard never hands the planner a combination it refuses, even when    *)
(* the account mode was given by a flag or answered before the mode changed. *)
WizardPlanAccepted == screen = "done" => plan.outcome = "planned"

(* The wizard keeps its way, its plan and its result in step with what the   *)
(* operator saw, through any number of detours (_run_wizard).                *)
WizardFaithful == StackFitsMode /\ PlanAsReviewed /\ WizardPlanAccepted
=============================================================================
