-------------------------- MODULE PostureLifecycle --------------------------
(***************************************************************************)
(* A deployment's posture over time: the discovery that observes it, the   *)
(* plans made from what was observed, the authorizations an authority      *)
(* signs over a plan, the coordinator that spends them, and the operator   *)
(* who carries a plan out.                                                 *)
(*                                                                         *)
(* Discovery reads the store first and the witness later, while a server   *)
(* moves both.  A coordinator re-plans before it spends an authorization,  *)
(* so what a signature binds is the digest of SecurityPlan.  Reading the   *)
(* profile and the store is one step: only one person edits them.         *)
(***************************************************************************)
EXTENDS SecurityPlan, FiniteSets, TLC

CONSTANTS Processes,      \* running commands: discover, plan, doctor, startup
          ArtifactPaths,  \* the exchange files the doctor looks for
          Targets,        \* the targets asked for
          Intents,        \* digests of write execution intents
          MaxAuthorizations, MaxSteps, MaxValue, MaxClock, MaxActs

ASSUME PostureAssumption ==
    /\ Processes # {} /\ Targets \subseteq PlanTargets
    /\ {MaxAuthorizations, MaxSteps, MaxValue, MaxClock, MaxActs} \subseteq Nat

VARIABLES
    profile,    \* PFSENSE_PROFILE
    store,      \* [config, file, baseline, at]: the Tier 1 store and its settings
    witness,    \* [config, up, value]: the witness client settings and the TPM
    exchange,   \* [ArtifactPaths -> what is found there]
    export,     \* the signed AnchorEvidenceExport of the store, or NoExport
    clock,
    authz,      \* [id -> signed PlanAuthorization or NoAuthz]
    consumed,   \* ids in the consumption store
    reviewed,   \* the last plan printed: [d, t, then], or NoPlan
    todo,       \* steps of the plan the operator is carrying out
    finished,   \* [t, done]: the target of the plan taken up, and whether it is done
    proc,       \* [Processes -> a command in flight or Idle]
    verdict,    \* the doctor's last verdict
    grants,     \* what the coordinator granted, for the properties
    acts        \* commands and interventions of people so far

pvars == << profile, store, witness, exchange, export, clock, authz, consumed,
            reviewed, todo, finished, proc, verdict, grants, acts >>

Ids == 1..MaxAuthorizations
NoExport == [none |-> TRUE]
NoAuthz == [none |-> TRUE]
NoPlan == [none |-> TRUE]
NoTarget == [none |-> TRUE]
NoIntent == [none |-> TRUE]
None == 0                      \* an absent baseline or witness value

Anchor(value, evidence, baseline, wit, at) ==
    [value |-> value, evidence |-> evidence, baseline |-> baseline,
     witness |-> wit, at |-> at]

Discovery(cap, a) ==
    [ capability |-> cap, value |-> a.value, evidence |-> a.evidence,
      baseline |-> a.baseline, witness |-> a.witness, at |-> a.at ]

NoAnchor == Anchor("unknown", "unconfigured", None, None, None)

\* A command in flight: what it is, how far it is, what it was asked, and
\* what its discovery has read so far.
Idle == [ kind |-> "idle", pc |-> "idle", t |-> NoTarget, clear |-> FALSE,
          id |-> 0, step |-> "none", intent |-> NoIntent,
          a |-> NoAnchor, cap |-> "read_only", then |-> None,
          d |-> Discovery("read_only", NoAnchor) ]

Profiles == {"auditor", "engineer", "write_protected", "misspelt"}
Settings == {"unset", "invalid", "ok"}
Files == {"absent", "damaged", "empty", "provisioned"}
Found == {"unset", "unusable", "absent"}   \* unusable: occupied, or no proper place
-----------------------------------------------------------------------------
(* security_discovery.py                                                   *)

\* Profile.capabilities: the placeholder engineer profile grants nothing.
GrantsWrite(name) == name = "write_protected"

\* WriteEndpoints.active_entries() of this build.
ActiveEntries ==
    { "FIREWALL_ALIAS_DESCRIPTION", "NTP_TIME_SERVER_PREFER",
      "NTP_SETTINGS_OBSERVABILITY_TOGGLES", "LOG_DISPLAY_PREFERENCES",
      "LOG_RETENTION_SETTINGS", "SYSTEM_TIMEZONE" }

\* discover_capability_posture: an unknown profile resolves to no capability.
DiscoverCapability(name) ==
    IF GrantsWrite(name) /\ ActiveEntries # {} THEN "write_protected"
    ELSE "read_only"

\* discover_anchor_assurance up to the witness read
AnchorFromStore(s) ==
    IF s.config # "ok"
    THEN IF s.config = "invalid"
         THEN Anchor("unknown", "configuration_invalid", None, None, None)
         ELSE Anchor("none", "unconfigured", None, None, None)
    ELSE CASE s.file = "absent"  -> Anchor("none", "configured_not_created", None, None, None)
           [] s.file = "damaged" -> Anchor("unknown", "store_error", None, None, None)
           [] s.file = "empty"   -> Anchor("none", "configured_unprovisioned", None, None, None)
           [] OTHER -> Anchor("hardware_witness", "provisioned_unverified",
                              s.baseline, None, s.at)

\* discover_anchor_assurance_from_export up to the witness read.  The window
\* is compared with the reader's clock; a foreign store or signature is refused.
AnchorFromExport(e) ==
    IF e.flaw = "signature" THEN Anchor("unknown", "store_error", None, None, None)
    ELSE IF e.flaw = "store" \/ clock < e.issued \/ clock >= e.expires
    THEN Anchor("unknown", "configuration_invalid", None, None, None)
    ELSE Anchor("hardware_witness", "provisioned_unverified", e.baseline, None, e.at)

\* Bug: a witness ahead of the store passes.
AtLeastBaseline(a) ==
    IF ~witness.up THEN [a EXCEPT !.evidence = "provisioned_unreachable"]
    ELSE [a EXCEPT !.witness = witness.value,
                   !.evidence = IF witness.value >= a.baseline
                                THEN "provisioned_verified"
                                ELSE "provisioned_mismatch"]

\* The live read and the comparison both discoveries end with.
WithWitness(a) ==
    IF ~witness.up THEN [a EXCEPT !.evidence = "provisioned_unreachable"]
    ELSE [a EXCEPT !.witness = witness.value,
                   !.evidence = IF witness.value = a.baseline
                                THEN "provisioned_verified"
                                ELSE "provisioned_mismatch"]
-----------------------------------------------------------------------------
(* security_authorization.py and its verifier                              *)

AuthorizationLevelRank ==
    [ none_required |-> 0, configuration_change |-> 1,
      interactive_hardware_confirmation |-> 2,
      milestone_9_activation_decision |-> 3 ]

NeverPlanAuthorizationLevels ==
    {"separate_deprovision_authorization", "undetermined_not_implemented"}

AuthorizationLevelAtLeast(level, minimum) ==
    /\ {level, minimum} \subseteq DOMAIN AuthorizationLevelRank
    /\ AuthorizationLevelRank[level] >= AuthorizationLevelRank[minimum]

\* What build_plan_authorization_payload accepts.
Buildable(plan, steps, issued, expires) ==
    /\ steps # {}
    /\ steps \subseteq StepIds(plan)
    /\ \A id \in steps : StepOf(plan, id).level \notin NeverPlanAuthorizationLevels
    /\ expires > issued

RiskClass(plan, steps) ==
    CHOOSE l \in {StepOf(plan, id).level : id \in steps} :
        \A id \in steps : AuthorizationLevelAtLeast(l, StepOf(plan, id).level)

\* The signed payload; "by" stands for the proof (one pinned and one foreign
\* key) and "schema" for the domain it was made in.
PlanAuthorization(r, steps, by, expires) ==
    LET plan == BuildPlan(r.d, r.t)
    IN  [ schema |-> 1, digest |-> PlanDigest(plan), steps |-> steps, by |-> by,
          intent |-> NoIntent, issued |-> clock, expires |-> expires,
          risk |-> RiskClass(plan, steps), review |-> r ]

\* Version 2 binds every step to the intent it may execute.
PlanAuthorizationV2(r, steps, by, expires, intent) ==
    [PlanAuthorization(r, steps, by, expires) EXCEPT !.schema = 2, !.intent = intent]

VerifySignature(a) == a.schema = 1 /\ a.by = "pinned"
VerifySignatureV2(a) == a.schema = 2 /\ a.by = "pinned"
IsCurrent(a, now) == now < a.expires
AuthorizesStep(a, digest, step) == a.digest = digest /\ step \in a.steps
AuthorizesExecution(a, digest, step, intent) ==
    AuthorizesStep(a, digest, step) /\ a.intent = intent
SatisfiesRiskClass(a, required) == AuthorizationLevelAtLeast(a.risk, required)

\* plan_authorization_is_fresh: plan again, compare digests.
IsFresh(a, d, t) == PlanDigest(BuildPlan(d, t)) = a.digest
-----------------------------------------------------------------------------
Init ==
    /\ store \in [config : {"ok"}, file : {"absent", "provisioned"},
                  baseline : {1}, at : {1}]
    /\ profile = IF store.file = "absent" THEN "auditor" ELSE "write_protected"
    /\ witness = [config |-> "ok", up |-> TRUE, value |-> 1]
    /\ exchange = [p \in ArtifactPaths |-> "absent"]
    /\ export = NoExport
    /\ clock = 0
    /\ authz = [i \in Ids |-> NoAuthz]
    /\ consumed = {}
    /\ reviewed = NoPlan
    /\ todo = << >>
    /\ finished = NoTarget
    /\ proc = [p \in Processes |-> Idle]
    /\ verdict = [ready |-> FALSE, sound |-> FALSE]
    /\ grants = {}
    /\ acts = 0

\* At most MaxActs commands and interventions of people.
Act == acts < MaxActs /\ acts' = acts + 1

Start(p, c) ==
    /\ proc[p] = Idle
    /\ Act
    /\ proc' = [proc EXCEPT ![p] = c]
    /\ UNCHANGED << profile, store, witness, exchange, export, clock, authz,
                    consumed, reviewed, todo, finished, verdict, grants >>

\* pfsense-mcp-security plan, from the store or from an export of it
RunPlan(p) ==
    \E t \in Targets, from \in {"store", "export"} :
        /\ from = "export" => export # NoExport
        /\ Start(p, [Idle EXCEPT !.kind = "plan", !.pc = from, !.t = t])

\* run_doctor_checks: the four paths first, then the anchor.
RunDoctor(p) ==
    Start(p, [Idle EXCEPT !.kind = "doctor", !.pc = "store",
                  !.clear = \A q \in ArtifactPaths : exchange[q] = "absent"])

\* run_anchor_startup_check, when a server starts
RunStartupCheck(p) == Start(p, [Idle EXCEPT !.kind = "startup", !.pc = "store"])

\* ExecutionCoordinator.authorize_and_consume up to the freshness check; the
\* caller asks for the plan it last saw.
RunAuthorize(p) ==
    \E i \in Ids, t \in Targets :
        /\ authz[i] # NoAuthz /\ reviewed # NoPlan
        /\ VerifySignature(authz[i])
        /\ IsCurrent(authz[i], clock)
        /\ \E step \in StepIds(BuildPlan(reviewed.d, reviewed.t)) :
               /\ AuthorizesStep(authz[i],
                      PlanDigest(BuildPlan(reviewed.d, reviewed.t)), step)
               /\ Start(p, [Idle EXCEPT !.kind = "authorize", !.pc = "store",
                                         !.t = t, !.id = i, !.step = step])

WriteTarget == [capability |-> "write_protected", anchor |-> "hardware_witness"]
WriteStepId == "capability_posture.milestone_9_activation"
WriteRiskClass == "milestone_9_activation_decision"

\* The write core's gate up to the freshness check: the step, the target and
\* the risk class are fixed, the intent is the one just prepared.
RunWrite(p) ==
    \E i \in Ids, intent \in Intents :
        /\ authz[i] # NoAuthz
        /\ VerifySignatureV2(authz[i])
        /\ IsCurrent(authz[i], clock)
        /\ AuthorizesExecution(authz[i], authz[i].digest, WriteStepId, intent)
        /\ SatisfiesRiskClass(authz[i], WriteRiskClass)
        /\ Start(p, [Idle EXCEPT !.kind = "authorize", !.pc = "store", !.t = WriteTarget,
                                  !.id = i, !.step = WriteStepId, !.intent = intent])

\* A command has its discovery d; "then" is the witness value at the moment
\* its baseline was read.
Conclude(p, d, then) ==
    LET c == proc[p] IN
    /\ proc' = [proc EXCEPT ![p] =
           IF c.kind = "authorize" /\ IsFresh(authz[c.id], d, c.t)
           THEN [Idle EXCEPT !.kind = "authorize", !.pc = "consume", !.t = c.t,
                    !.id = c.id, !.step = c.step, !.intent = c.intent, !.d = d]
           ELSE Idle]
    /\ reviewed' = IF c.kind = "plan" THEN [d |-> d, t |-> c.t, then |-> then]
                   ELSE reviewed
    /\ verdict' = IF c.kind = "doctor"
                  THEN [ready |-> c.clear /\ d.evidence = "provisioned_verified",
                        sound |-> c.clear /\ then = d.baseline]
                  ELSE verdict

\* open_production_store creates the file it does not find.
Opened(s) ==
    IF s.config = "ok" /\ s.file = "absent" THEN [s EXCEPT !.file = "empty"] ELSE s

ReadStore(p) ==
    /\ proc[p].kind # "idle" /\ proc[p].pc \in {"store", "export"}
    /\ LET opened == IF proc[p].kind = "startup" THEN Opened(store) ELSE store
           a   == IF proc[p].pc = "export" THEN AnchorFromExport(export)
                  ELSE AnchorFromStore(opened)
           now == IF proc[p].pc = "export" THEN export.then ELSE witness.value
           cap == DiscoverCapability(profile)
       IN  /\ store' = opened
           /\ IF a.value = "hardware_witness" /\ witness.config = "ok"
              THEN /\ proc' = [proc EXCEPT ![p].pc = "witness", ![p].a = a,
                                         ![p].cap = cap, ![p].then = now]
                   /\ UNCHANGED << reviewed, verdict >>
              ELSE Conclude(p, Discovery(cap, a), now)
    /\ UNCHANGED << profile, witness, exchange, export, clock, authz, consumed,
                    todo, finished, grants, acts >>

ReadWitness(p) ==
    /\ proc[p].kind # "idle" /\ proc[p].pc = "witness"
    /\ Conclude(p, Discovery(proc[p].cap, WithWitness(proc[p].a)), proc[p].then)
    /\ UNCHANGED << profile, store, witness, exchange, export, clock, authz,
                    consumed, todo, finished, grants, acts >>

\* AuthorizationConsumptionStore.try_consume
TryConsume(i) == i \notin consumed

\* The last gate: exactly one caller spends an id.
Consume(p) ==
    /\ proc[p].kind = "authorize" /\ proc[p].pc = "consume"
    /\ LET c == proc[p] IN
       /\ consumed' = consumed \cup {c.id}
       /\ grants' = IF TryConsume(c.id)
                    THEN grants \cup {[by |-> p, id |-> c.id, step |-> c.step,
                                       intent |-> c.intent, d |-> c.d, t |-> c.t]}
                    ELSE grants
    /\ proc' = [proc EXCEPT ![p] = Idle]
    /\ UNCHANGED << profile, store, witness, exchange, export, clock, authz,
                    reviewed, todo, finished, verdict, acts >>
-----------------------------------------------------------------------------
(* The world around: the authority, the operator, a server's writes.       *)

SignAuthorization ==
    /\ reviewed # NoPlan
    /\ \E i \in Ids, by \in {"pinned", "foreign"}, e \in clock + 1 .. MaxClock :
         \E steps \in SUBSET StepIds(BuildPlan(reviewed.d, reviewed.t)) :
            /\ Cardinality(steps) <= MaxSteps
            /\ IF by = "foreign" THEN Act ELSE UNCHANGED acts
            /\ authz[i] = NoAuthz /\ \A j \in Ids : j < i => authz[j] # NoAuthz
            /\ Buildable(BuildPlan(reviewed.d, reviewed.t), steps, clock, e)
            /\ \/ authz' = [authz EXCEPT ![i] = PlanAuthorization(reviewed, steps, by, e)]
               \/ \E intent \in Intents : authz' = [authz EXCEPT ![i] =
                      PlanAuthorizationV2(reviewed, steps, by, e, intent)]
    /\ UNCHANGED << profile, store, witness, exchange, export, clock, consumed,
                    reviewed, todo, finished, proc, verdict, grants >>

\* sign_anchor_evidence_export over the provisioned store
SignExport ==
    /\ store.config = "ok" /\ store.file = "provisioned"
    /\ Act
    /\ \E flaw \in {"none", "signature", "store"}, e \in clock + 1 .. MaxClock :
         export' = [baseline |-> store.baseline, at |-> store.at, issued |-> clock,
                    expires |-> e, flaw |-> flaw, then |-> witness.value]
    /\ UNCHANGED << profile, store, witness, exchange, clock, authz, consumed,
                    reviewed, todo, finished, proc, verdict, grants >>

\* A gated mutation moves the witness, then records the mark.
MoveWitness ==
    /\ store.file = "provisioned" /\ witness.up
    /\ store.baseline = witness.value /\ witness.value < MaxValue
    /\ witness' = [witness EXCEPT !.value = @ + 1]
    /\ UNCHANGED << profile, store, exchange, export, clock, authz, consumed,
                    reviewed, todo, finished, proc, verdict, grants, acts >>

RecordMark ==
    /\ store.file = "provisioned" /\ store.baseline < witness.value
    /\ store' = [store EXCEPT !.baseline = witness.value]
    /\ UNCHANGED << profile, witness, exchange, export, clock, authz, consumed,
                    reviewed, todo, finished, proc, verdict, grants, acts >>

\* An administrator, alone and not while a plan is carried out.
Edit ==
    /\ Act /\ todo = << >>
    /\ \/ /\ profile' \in Profiles \ {profile}
          /\ UNCHANGED << store, witness, exchange >>
       \/ /\ \/ store' = [store EXCEPT !.config = "unset"]
             \/ store' = [store EXCEPT !.config = "invalid"]
             \/ store' = [store EXCEPT !.config = "ok"]
             \/ store' = [store EXCEPT !.file = "absent"]
             \/ store' = [store EXCEPT !.file = "damaged"]
             \/ /\ store.file = "provisioned"       \* an older copy restored
                /\ store' \in {[store EXCEPT !.baseline = b] : b \in 1 .. store.baseline - 1}
          /\ UNCHANGED << profile, witness, exchange >>
       \/ /\ \/ witness' \in {[witness EXCEPT !.config = c] : c \in Settings}
             \/ witness' = [witness EXCEPT !.up = ~ @]
          /\ UNCHANGED << profile, store, exchange >>
       \/ /\ exchange' \in {[exchange EXCEPT ![q] = f] : q \in ArtifactPaths, f \in Found}
          /\ UNCHANGED << profile, store, witness >>
    /\ finished' = NoTarget
    /\ UNCHANGED << export, clock, authz, consumed, reviewed, todo, proc,
                    verdict, grants >>

\* The operator takes up a plan that is safe to proceed with.
Follow ==
    /\ todo = << >> /\ reviewed # NoPlan /\ Act
    /\ \A p \in Processes : proc[p] = Idle
    /\ LET plan == BuildPlan(reviewed.d, reviewed.t) IN
       /\ plan.safe
       /\ reviewed.d.capability = DiscoverCapability(profile)
       /\ todo' = plan.steps
       /\ finished' = [t |-> reviewed.t, done |-> FALSE]
    /\ UNCHANGED << profile, store, witness, exchange, export, clock, authz,
                    consumed, reviewed, proc, verdict, grants >>

\* What a step of the plan asks the operator to do.
ProfileAfter(id) ==
    CASE id = "capability_posture.deactivate_write_protection" -> "auditor"
      [] id = "capability_posture.set_profile_engineer" -> "engineer"
      [] OTHER -> profile

WitnessAfter(id) ==
    CASE id = "anchor_assurance.deactivate_anchor" -> [witness EXCEPT !.up = FALSE]
      [] id = "anchor_assurance.provision_hardware_witness_anchor" ->
             [witness EXCEPT !.value = @ + 1]
      [] id = "anchor_assurance.deploy_witness_daemon" ->
             [witness EXCEPT !.up = TRUE, !.config = "ok"]
      [] OTHER -> witness

StoreAfter(id) ==
    IF id = "anchor_assurance.provision_hardware_witness_anchor"
    THEN [config |-> "ok", file |-> "provisioned",
          baseline |-> witness.value + 1, at |-> witness.value + 1]
    ELSE store

\* One step at a time, in order; a blocked step ends the attempt, except the
\* activation decision, which is taken elsewhere and always blocked here.  A
\* provisioned store refuses a second baseline.
Carry ==
    /\ todo # << >>
    /\ LET s == Head(todo)
           provisions == s.id = "anchor_assurance.provision_hardware_witness_anchor"
           done == /\ ~s.blocked \/ s.class = "activation"
                   /\ provisions => store.file # "provisioned" IN
       IF done
       THEN /\ provisions => witness.value < MaxValue
            /\ profile' = ProfileAfter(s.id)
            /\ witness' = WitnessAfter(s.id)
            /\ store' = StoreAfter(s.id)
            /\ todo' = Tail(todo)
            /\ finished' = [finished EXCEPT !.done = Len(todo) = 1]
       ELSE /\ todo' = << >> /\ finished' = NoTarget
            /\ UNCHANGED << profile, witness, store >>
    /\ UNCHANGED << exchange, export, clock, authz, consumed, reviewed, proc,
                    verdict, grants, acts >>

Tick ==
    /\ clock < MaxClock
    /\ export # NoExport \/ \E i \in Ids : authz[i] # NoAuthz   \* else time is idle
    /\ clock' = clock + 1
    /\ UNCHANGED << profile, store, witness, exchange, export, authz, consumed,
                    reviewed, todo, finished, proc, verdict, grants, acts >>

Next ==
    \/ \E p \in Processes :
          \/ RunPlan(p) \/ RunDoctor(p) \/ RunStartupCheck(p) \/ RunAuthorize(p) \/ RunWrite(p)
          \/ ReadStore(p) \/ ReadWitness(p) \/ Consume(p)
    \/ SignAuthorization \/ SignExport \/ MoveWitness \/ RecordMark
    \/ Edit \/ Follow \/ Carry \/ Tick

Spec == Init /\ [][Next]_pvars
-----------------------------------------------------------------------------
(* Properties.                                                             *)

Anchors ==
    [value : AnchorAssurance, evidence : AnchorEvidenceState,
     baseline : 0..MaxValue, witness : 0..MaxValue, at : 0..MaxValue]

\* The store, the witness and the commands stay within their domains; an
\* anchor is verified only with a value of the witness in hand.
PostureTypeOK ==
    /\ profile \in Profiles
    /\ store \in [config : Settings, file : Files, baseline : 1..MaxValue,
                  at : 1..MaxValue]
    /\ witness \in [config : Settings, up : BOOLEAN, value : 1..MaxValue]
    /\ exchange \in [ArtifactPaths -> Found]
    /\ clock \in 0..MaxClock /\ consumed \subseteq Ids
    /\ reviewed # NoPlan =>
          /\ reviewed.t \in Targets
          /\ reviewed.d.evidence \in {"provisioned_verified", "provisioned_mismatch"}
                <=> reviewed.d.witness # None
    /\ \A p \in Processes :
          proc[p].kind # "idle" =>
            /\ proc[p].pc \in {"store", "export", "witness", "consume"}
            /\ proc[p].pc = "witness" => proc[p].a \in Anchors
    /\ \A g \in grants : g.id \in consumed

\* Discovery reads the store and the witness apart, and a write may run in
\* between; yet an anchor is reported verified only when store and witness
\* agreed at the moment the baseline was read (or exported), and the doctor
\* is ready only then (security_discovery.py:448, security_doctor.py:248).
VerifiedWasTrue ==
    /\ reviewed # NoPlan /\ reviewed.d.evidence = "provisioned_verified"
          => reviewed.then = reviewed.d.baseline
    /\ verdict.ready => verdict.sound

\* A step is granted only for the plan its authority reviewed: the digest
\* leaves out what is blocked, ready and available, yet the plan the
\* coordinator computes from its own discovery has the same steps, field for
\* field (security_plan_digest.py:71, execution_coordinator.py:254).
GrantedAsReviewed ==
    \A g \in grants :
        LET r == authz[g.id].review
        IN  /\ BuildPlan(g.d, g.t).steps = BuildPlan(r.d, r.t).steps
            /\ g.d.baseline = r.d.baseline /\ g.d.witness = r.d.witness
            /\ g.intent = authz[g.id].intent

\* An authorization is spent once, whichever of two coordinators that passed
\* every other check gets there first (execution_coordinator.py:260).
GrantedOnce == \A g, h \in grants : g.id = h.id => g = h

\* The risk class of an authorization covers every step granted under it, and
\* no grant is for a step a plan authorization can never cover
\* (security_authorization.py:528).
GrantWithinRisk ==
    \A g \in grants :
        LET level == StepOf(BuildPlan(g.d, g.t), g.step).level
        IN  AuthorizationLevelAtLeast(authz[g.id].risk, level)

\* Every granted step rests on one unspent authorization of sufficient class
\* for that very plan (execution_coordinator.py).
GrantsSound == GrantedAsReviewed /\ GrantedOnce /\ GrantWithinRisk

\* A plan carried out in its order never stops the witness daemon while WRITE
\* is on (security_plan.py:955).
AnchorOutlivesWrite ==
    [][todo # << >> /\ witness.up /\ ~witness'.up
          => DiscoverCapability(profile) = "read_only"]_pvars

\* SECURITY_POSTURE_PROVISIONING.md maps write_protected onto the engineer
\* profile: a plan carried out to its end reaches the posture it was made for.
FinishedPlanDelivers ==
    finished # NoTarget /\ finished.done
        => DiscoverCapability(profile) = finished.t.capability
=============================================================================
