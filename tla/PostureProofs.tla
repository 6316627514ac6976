---------------------------- MODULE PostureProofs ----------------------------
(***************************************************************************)
(* Proofs about PostureLifecycle, for any number of commands in flight,    *)
(* any targets, any intents and any number of authorizations:              *)
(*   - an anchor reported verified was in agreement when it was read;      *)
(*   - a step is granted once, for the plan its authority reviewed, and    *)
(*     within the risk class that was signed;                              *)
(*   - a plan carried out in its order keeps the witness up while WRITE    *)
(*     is on.                                                              *)
(*                                                                         *)
(* The first part is about the planner alone: what its steps are made of,  *)
(* what its digest determines and where it puts the deactivation of the    *)
(* anchor.                                                                 *)
(***************************************************************************)
EXTENDS PostureLifecycle, SequenceTheorems, TLAPS

AuthorizationLevels == DOMAIN AuthorizationLevelRank \cup NeverPlanAuthorizationLevels

StepNames ==
    { "anchor_assurance.no_change", "anchor_assurance.deactivate_anchor",
      "anchor_assurance.deactivate_current_anchor",
      "anchor_assurance.provision_hardware_witness_anchor",
      "anchor_assurance.deploy_witness_daemon",
      "anchor_assurance.provision_software_witness_anchor",
      "capability_posture.no_change",
      "capability_posture.deactivate_write_protection",
      "capability_posture.populate_write_endpoints",
      "capability_posture.set_profile_engineer",
      "capability_posture.milestone_9_activation" }

PlanSteps ==
    [ id : StepNames,
      axis : {"anchor_assurance", "capability_posture"},
      class : { "none", "deactivation", "anchor_provisioning",
                "service_deployment", "activation", "configuration" },
      level : AuthorizationLevels,
      available : BOOLEAN,
      impact : { "none", "decreases_assurance", "increases_assurance",
                 "enables_mutation_capability", "disables_mutation_capability" },
      ready : BOOLEAN,
      blocked : BOOLEAN ]

\* Steps of either axis: only a downgrade of the anchor deactivates it.
AnchorSteps(transition) ==
    {s \in PlanSteps :
        s.id = "anchor_assurance.deactivate_anchor" => transition = "downgrade"}

CapabilitySteps ==
    {s \in PlanSteps : s.id # "anchor_assurance.deactivate_anchor"}

Discoveries ==
    [ capability : CapabilityPosture, value : AnchorAssurance,
      evidence : AnchorEvidenceState, baseline : Nat, witness : Nat, at : Nat ]

AnchorReadings ==
    [ value : AnchorAssurance, evidence : AnchorEvidenceState,
      baseline : Nat, witness : Nat, at : Nat ]
-----------------------------------------------------------------------------
(* The planner.                                                            *)

\* The six authorization levels by name.
LEMMA LevelNames ==
    AuthorizationLevels =
        { "none_required", "configuration_change",
          "interactive_hardware_confirmation", "milestone_9_activation_decision",
          "separate_deprovision_authorization", "undetermined_not_implemented" }
BY DEF AuthorizationLevels, AuthorizationLevelRank, NeverPlanAuthorizationLevels

\* The anchor axis yields its steps (_anchor_assurance_steps).
LEMMA AnchorAssuranceStepsType ==
    ASSUME NEW d \in Discoveries, NEW target \in AnchorAssurance, NEW transition
    PROVE  AnchorAssuranceSteps(d, target, transition) \in Seq(AnchorSteps(transition))
<1> DEFINE deactivate == AnchorStep("anchor_assurance.deactivate_current_anchor",
                "deactivation", "configuration_change", TRUE, "decreases_assurance")
           hardware == AnchorStep("anchor_assurance.provision_hardware_witness_anchor",
                "anchor_provisioning", "interactive_hardware_confirmation", TRUE,
                "increases_assurance")
           deploy == AnchorStep("anchor_assurance.deploy_witness_daemon",
                "service_deployment", "interactive_hardware_confirmation", TRUE,
                "increases_assurance")
           software == AnchorStep("anchor_assurance.provision_software_witness_anchor",
                "anchor_provisioning", "undetermined_not_implemented",
                FALSE, "increases_assurance")
           same == NoChange("anchor_assurance.no_change", "anchor_assurance")
           down == AnchorDowngrade(d.value)
           first == IF transition = "lateral" /\ d.value = "hardware_witness"
                    THEN << deactivate >> ELSE << >>
           second == IF target = "hardware_witness"
                     THEN << hardware, deploy >> ELSE << software >>
<1>1. {deactivate, hardware, deploy, software} \subseteq AnchorSteps(transition)
  BY LevelNames DEF AnchorStep, PlanStep, PlanSteps, StepNames, AnchorSteps
<1>2. same \in AnchorSteps(transition)
  BY LevelNames DEF NoChange, PlanStep, PlanSteps, StepNames, AnchorSteps
<1>3. transition = "downgrade" => down \in AnchorSteps(transition)
  BY LevelNames DEF AnchorDowngrade, PlanStep, PlanSteps, StepNames, AnchorSteps
<1>4. AnchorAssuranceSteps(d, target, transition) =
          CASE transition = "no_change" -> << same >>
            [] transition = "downgrade" -> << down >>
            [] OTHER -> first \o second
  BY DEF AnchorAssuranceSteps
<1> HIDE DEF deactivate, hardware, deploy, software, same, down
<1>5. {first, second} \subseteq Seq(AnchorSteps(transition))
  BY <1>1
<1>6. /\ << same >> \in Seq(AnchorSteps(transition))
      /\ transition = "downgrade" => << down >> \in Seq(AnchorSteps(transition))
  BY <1>2, <1>3
<1> HIDE DEF first, second
<1>7. first \o second \in Seq(AnchorSteps(transition))
  BY <1>5, ConcatProperties
<1> QED
  BY <1>4, <1>6, <1>7

\* The capability axis yields its steps (_capability_posture_steps).
LEMMA CapabilityPostureStepsType ==
    ASSUME NEW target, NEW transition, NEW ready \in BOOLEAN
    PROVE  CapabilityPostureSteps(target, transition, ready) \in Seq(CapabilitySteps)
<1> DEFINE same == NoChange("capability_posture.no_change", "capability_posture")
           activation == Milestone9ActivationStep(ready)
           down == PlanStep("capability_posture.deactivate_write_protection",
                    "capability_posture", "deactivation",
                    "configuration_change", TRUE,
                    "disables_mutation_capability", TRUE, FALSE)
           populate == CapabilityUpgradeStep("capability_posture.populate_write_endpoints", ready)
           engineer == CapabilityUpgradeStep("capability_posture.set_profile_engineer", ready)
           last == IF target = "write_protected" THEN << activation >> ELSE << >>
<1>1. same \in CapabilitySteps
  BY LevelNames DEF NoChange, PlanStep, PlanSteps, StepNames, CapabilitySteps
<1>2. activation \in CapabilitySteps
  BY LevelNames DEF Milestone9ActivationStep, PlanStep, PlanSteps, StepNames, CapabilitySteps
<1>3. down \in CapabilitySteps
  BY LevelNames DEF PlanStep, PlanSteps, StepNames, CapabilitySteps
<1>4. populate \in CapabilitySteps /\ engineer \in CapabilitySteps
  BY LevelNames DEF CapabilityUpgradeStep, PlanStep, PlanSteps, StepNames, CapabilitySteps
<1>5. CapabilityPostureSteps(target, transition, ready) =
          CASE transition = "no_change" -> << same >> \o last
            [] transition = "downgrade" -> << down >>
            [] OTHER -> << populate, engineer, activation >>
  BY DEF CapabilityPostureSteps
<1> HIDE DEF same, activation, down, populate, engineer
<1>6. << same >> \in Seq(CapabilitySteps) /\ last \in Seq(CapabilitySteps)
  BY <1>1, <1>2
<1>7. << down >> \in Seq(CapabilitySteps) /\ << populate, engineer, activation >> \in Seq(CapabilitySteps)
  BY <1>2, <1>3, <1>4
<1> HIDE DEF last
<1>8. << same >> \o last \in Seq(CapabilitySteps)
  BY <1>6, ConcatProperties
<1> QED
  BY <1>5, <1>7, <1>8

\* Blocking a plan for a mismatch keeps its steps plan steps (_block_for_mismatch).
LEMMA BlockForMismatchType ==
    ASSUME NEW steps \in Seq(PlanSteps)
    PROVE  [i \in DOMAIN steps |-> BlockForMismatch(steps[i])] \in Seq(PlanSteps)
<1>1. ASSUME NEW i \in DOMAIN steps
      PROVE  BlockForMismatch(steps[i]) \in PlanSteps
  <2>1. steps[i] \in PlanSteps
    BY ElementOfSeq, LenProperties
  <2> QED
    BY <2>1 DEF BlockForMismatch, PlanSteps
<1> QED
  BY <1>1, LenProperties, SeqDef

\* A plan keeps the discovery it was made from and the target it was made for.
LEMMA PlanKeepsItsInputs ==
    ASSUME NEW d, NEW t
    PROVE  BuildPlan(d, t).current = d /\ BuildPlan(d, t).target = t
BY DEF BuildPlan

\* Every plan is a sequence of plan steps (_build_plan_from_discovery).
LEMMA BuildPlanType ==
    ASSUME NEW d \in Discoveries, NEW t \in PlanTargets
    PROVE  BuildPlan(d, t).steps \in Seq(PlanSteps)
<1> DEFINE capT == CapabilityTransitionKind(d.capability, t.capability)
           ancT == AnchorTransitionKind(d.value, t.anchor)
           ready == d.value = t.anchor /\ AnchorEvidenceIsClean(d.evidence, t.anchor)
           anc == AnchorAssuranceSteps(d, t.anchor, ancT)
           cap == CapabilityPostureSteps(t.capability, capT, ready)
           steps == IF CapabilityMustGoFirst(capT, t.anchor, ancT)
                    THEN cap \o anc ELSE anc \o cap
           marked == [i \in DOMAIN steps |-> BlockForMismatch(steps[i])]
<1>1. BuildPlan(d, t).steps \in {<< >>, steps, marked}
  BY DEF BuildPlan
<1>2. ready \in BOOLEAN
  BY DEF AnchorEvidenceIsClean
<1>3. t.anchor \in AnchorAssurance
  BY DEF PlanTargets
<1>4. anc \in Seq(PlanSteps)
  <2>1. anc \in Seq(AnchorSteps(ancT))
    BY <1>3, AnchorAssuranceStepsType
  <2>2. AnchorSteps(ancT) \subseteq PlanSteps
    BY DEF AnchorSteps
  <2> HIDE DEF anc, ancT
  <2> QED
    BY <2>1, <2>2, SeqDef
<1> HIDE DEF ready
<1>5. cap \in Seq(PlanSteps)
  <2>1. cap \in Seq(CapabilitySteps)
    BY <1>2, CapabilityPostureStepsType
  <2>2. CapabilitySteps \subseteq PlanSteps
    BY DEF CapabilitySteps
  <2> HIDE DEF cap
  <2> QED
    BY <2>1, <2>2, SeqDef
<1> HIDE DEF anc, cap
<1>6. steps \in Seq(PlanSteps)
  BY <1>4, <1>5, ConcatProperties
<1> HIDE DEF steps
<1>7. marked \in Seq(PlanSteps)
  BY <1>6, BlockForMismatchType
<1>8. << >> \in Seq(PlanSteps)
  BY EmptySeq
<1> QED
  BY <1>1, <1>6, <1>7, <1>8

\* The digest determines the plan it was made of: two plans with one digest
\* have the same target and the same discovery, hence every field of every
\* step in common (security_plan_digest.py).
LEMMA DigestDeterminesPlan ==
    ASSUME NEW d \in Discoveries, NEW t, NEW e \in Discoveries, NEW u,
           PlanDigest(BuildPlan(d, t)) = PlanDigest(BuildPlan(e, u))
    PROVE  d = e /\ t = u
<1>1. PlanDigest(BuildPlan(d, t)).target = t /\ PlanDigest(BuildPlan(e, u)).target = u
  BY PlanKeepsItsInputs DEF PlanDigest
<1>2. /\ PlanDigest(BuildPlan(d, t)).fingerprint = EvidenceFingerprintPayload(d)
      /\ PlanDigest(BuildPlan(e, u)).fingerprint = EvidenceFingerprintPayload(e)
  BY PlanKeepsItsInputs DEF PlanDigest
<1>3. EvidenceFingerprintPayload(d) = EvidenceFingerprintPayload(e)
  BY <1>2
<1>4. /\ d.capability = e.capability /\ d.value = e.value /\ d.evidence = e.evidence
      /\ d.baseline = e.baseline /\ d.witness = e.witness /\ d.at = e.at
  BY <1>3 DEF EvidenceFingerprintPayload
<1>5. d = e
  BY <1>4 DEF Discoveries
<1> QED
  BY <1>1, <1>5

\* The step looked up by an id of the plan is a step of the plan.
LEMMA StepOfIsAStep ==
    ASSUME NEW d \in Discoveries, NEW t \in PlanTargets,
           NEW id \in StepIds(BuildPlan(d, t))
    PROVE  /\ StepOf(BuildPlan(d, t), id) \in PlanSteps
           /\ StepOf(BuildPlan(d, t), id).id = id
<1> DEFINE steps == BuildPlan(d, t).steps
           k == CHOOSE i \in DOMAIN steps : steps[i].id = id
<1>1. \E i \in DOMAIN steps : steps[i].id = id
  BY DEF StepIds
<1>2. k \in DOMAIN steps /\ steps[k].id = id
  BY <1>1
<1>3. steps \in Seq(PlanSteps)
  BY BuildPlanType
<1>4. StepOf(BuildPlan(d, t), id) = steps[k]
  BY DEF StepOf
<1> HIDE DEF steps, k
<1>5. steps[k] \in PlanSteps
  BY <1>2, <1>3, ElementOfSeq, LenProperties
<1> QED
  BY <1>2, <1>4, <1>5

\* Of some ranked levels one is at least all: the class max() picks
\* (security_authorization.py, _AUTHORIZATION_LEVEL_RANK).
LEMMA HighestLevelExists ==
    ASSUME NEW L, L # {}, L \subseteq DOMAIN AuthorizationLevelRank
    PROVE  \E l \in L : \A m \in L : AuthorizationLevelAtLeast(l, m)
<1>0. DOMAIN AuthorizationLevelRank =
        { "none_required", "configuration_change",
          "interactive_hardware_confirmation", "milestone_9_activation_decision" }
  BY DEF AuthorizationLevelRank
<1>r. /\ AuthorizationLevelRank["none_required"] = 0
      /\ AuthorizationLevelRank["configuration_change"] = 1
      /\ AuthorizationLevelRank["interactive_hardware_confirmation"] = 2
      /\ AuthorizationLevelRank["milestone_9_activation_decision"] = 3
  BY DEF AuthorizationLevelRank
<1>1. CASE "milestone_9_activation_decision" \in L
  BY <1>0, <1>1, <1>r DEF AuthorizationLevelAtLeast
<1>2. CASE /\ "milestone_9_activation_decision" \notin L
           /\ "interactive_hardware_confirmation" \in L
  BY <1>0, <1>2, <1>r DEF AuthorizationLevelAtLeast
<1>3. CASE /\ "milestone_9_activation_decision" \notin L
           /\ "interactive_hardware_confirmation" \notin L
           /\ "configuration_change" \in L
  BY <1>0, <1>3, <1>r DEF AuthorizationLevelAtLeast
<1>4. CASE /\ "milestone_9_activation_decision" \notin L
           /\ "interactive_hardware_confirmation" \notin L
           /\ "configuration_change" \notin L
  BY <1>0, <1>4, <1>r DEF AuthorizationLevelAtLeast
<1> QED
  BY <1>1, <1>2, <1>3, <1>4

\* The risk class covers every step an authorization was built for.
LEMMA RiskClassCovers ==
    ASSUME NEW d \in Discoveries, NEW t \in PlanTargets,
           NEW steps, steps \subseteq StepIds(BuildPlan(d, t)),
           \A id \in steps :
               StepOf(BuildPlan(d, t), id).level \notin NeverPlanAuthorizationLevels,
           NEW id \in steps
    PROVE  AuthorizationLevelAtLeast(RiskClass(BuildPlan(d, t), steps),
                                     StepOf(BuildPlan(d, t), id).level)
<1> DEFINE plan == BuildPlan(d, t)
           L == {StepOf(plan, x).level : x \in steps}
<1>1. \A x \in steps : StepOf(plan, x).level \in DOMAIN AuthorizationLevelRank
  BY StepOfIsAStep DEF PlanSteps, AuthorizationLevels
<1>2. L # {} /\ L \subseteq DOMAIN AuthorizationLevelRank
  BY <1>1
<1>3. \E l \in L : \A m \in L : AuthorizationLevelAtLeast(l, m)
  <2> HIDE DEF L
  <2> QED
    BY <1>2, HighestLevelExists
<1>4. \E l \in L : \A x \in steps : AuthorizationLevelAtLeast(l, StepOf(plan, x).level)
  BY <1>3
<1> HIDE DEF plan
<1>5. \A x \in steps : AuthorizationLevelAtLeast(RiskClass(plan, steps), StepOf(plan, x).level)
  BY <1>4 DEF RiskClass
<1> QED
  BY <1>5 DEF plan

\* A plan that is safe to proceed with and drops the anchor while WRITE is on
\* switches WRITE off first (security_plan.py:955).
LEMMA WriteGoesFirst ==
    ASSUME NEW d \in Discoveries, NEW t \in PlanTargets, BuildPlan(d, t).safe,
           NEW i \in DOMAIN BuildPlan(d, t).steps,
           BuildPlan(d, t).steps[i].id = "anchor_assurance.deactivate_anchor"
    PROVE  \/ d.capability = "read_only"
           \/ /\ i > 1
              /\ BuildPlan(d, t).steps[1].id = "capability_posture.deactivate_write_protection"
<1> DEFINE capT == CapabilityTransitionKind(d.capability, t.capability)
           ancT == AnchorTransitionKind(d.value, t.anchor)
           ready == d.value = t.anchor /\ AnchorEvidenceIsClean(d.evidence, t.anchor)
           anc == AnchorAssuranceSteps(d, t.anchor, ancT)
           cap == CapabilityPostureSteps(t.capability, capT, ready)
           steps == IF CapabilityMustGoFirst(capT, t.anchor, ancT)
                    THEN cap \o anc ELSE anc \o cap
<1>1. /\ TargetValidity(t) = "valid" /\ d.value # "unknown"
      /\ d.evidence # "provisioned_mismatch"
      /\ BuildPlan(d, t).steps = steps
  BY DEF BuildPlan
<1>2. CASE d.capability = "read_only"
  BY <1>2
<1>3. CASE d.capability # "read_only"
  <2>1. ready \in BOOLEAN /\ t.anchor \in AnchorAssurance
    BY DEF AnchorEvidenceIsClean, PlanTargets
  <2>2. anc \in Seq(AnchorSteps(ancT))
    BY <2>1, AnchorAssuranceStepsType
  <2>3. cap \in Seq(CapabilitySteps)
    <3> HIDE DEF ready
    <3> QED
      BY <2>1, CapabilityPostureStepsType
  <2>4. ancT = "downgrade"
    <3>1. CASE ancT = "downgrade"
      BY <3>1
    <3>2. CASE ancT # "downgrade"
      <4>1. AnchorSteps(ancT) \subseteq CapabilitySteps
        BY <3>2 DEF AnchorSteps, CapabilitySteps
      <4> HIDE DEF anc, cap, ancT, capT
      <4>2. anc \in Seq(CapabilitySteps)
        BY <2>2, <4>1, SeqDef
      <4>3. steps \in Seq(CapabilitySteps)
        BY <2>3, <4>2, ConcatProperties
      <4> HIDE DEF steps
      <4>4. steps[i] \in CapabilitySteps
        BY <1>1, <4>3, ElementOfSeq, LenProperties
      <4> QED
        BY <1>1, <4>4 DEF CapabilitySteps
    <3> QED
      BY <3>1, <3>2
  <2>5. d.value # t.anchor /\ t.anchor = "none"
    BY <2>4 DEF AnchorTransitionKind
  <2>6. t.capability = "read_only"
    BY <2>5, <1>1 DEF TargetValidity, PlanTargets, CapabilityPosture
  <2>7. capT = "downgrade"
    BY <2>6, <1>3 DEF CapabilityTransitionKind
  <2>8. steps = cap \o anc
    BY <2>4, <2>5, <2>7 DEF CapabilityMustGoFirst
  <2>9. cap = << PlanStep("capability_posture.deactivate_write_protection",
                    "capability_posture", "deactivation",
                    "configuration_change", TRUE,
                    "disables_mutation_capability", TRUE, FALSE) >>
    BY <2>7 DEF CapabilityPostureSteps
  <2>10. Len(cap) = 1 /\ cap[1].id = "capability_posture.deactivate_write_protection"
    BY <2>9 DEF PlanStep
  <2> HIDE DEF cap, anc, steps
  <2>11. steps[1] = cap[1] /\ steps \in Seq(PlanSteps)
    <3>1. CapabilitySteps \subseteq PlanSteps /\ AnchorSteps(ancT) \subseteq PlanSteps
      BY DEF CapabilitySteps, AnchorSteps
    <3> HIDE DEF ancT
    <3>2. cap \in Seq(PlanSteps) /\ anc \in Seq(PlanSteps)
      BY <2>2, <2>3, <3>1, SeqDef
    <3>3. Len(anc) \in Nat
      BY <3>2, LenProperties
    <3>4. /\ cap \o anc \in Seq(PlanSteps)
          /\ \A k \in 1 .. Len(cap) + Len(anc) :
                (cap \o anc)[k] = IF k <= Len(cap) THEN cap[k] ELSE anc[k - Len(cap)]
      BY <3>2, ConcatProperties
    <3>5. 1 \in 1 .. Len(cap) + Len(anc) /\ 1 <= Len(cap)
      BY <2>10, <3>3
    <3>6. (cap \o anc)[1] = cap[1]
      BY <3>4, <3>5
    <3> QED
      BY <2>8, <3>4, <3>6
  <2>12. i # 1
    BY <2>10, <2>11, <1>1
  <2>13. i > 1
    BY <2>11, <2>12, <1>1, LenProperties
  <2> QED
    BY <2>10, <2>11, <2>13, <1>1
<1> QED
  BY <1>2, <1>3
-----------------------------------------------------------------------------

(* The inductive invariant.                                                *)

Kinds == {"idle", "plan", "doctor", "startup", "authorize"}

CommandRecords ==
    [ kind : Kinds, pc : {"idle", "store", "export", "witness", "consume"},
      t : PlanTargets \cup {NoTarget}, clear : BOOLEAN, id : Nat,
      step : StepNames \cup {"none"}, intent : Intents \cup {NoIntent},
      a : AnchorReadings, cap : CapabilityPosture, then : Nat, d : Discoveries ]

\* The mark of the store is never ahead of the witness.
WorldInv ==
    /\ store \in [config : Settings, file : Files, baseline : Nat, at : Nat]
    /\ witness \in [config : Settings, up : BOOLEAN, value : Nat]
    /\ store.baseline <= witness.value

\* An export was made when its baseline was not ahead of the witness.
Exported ==
    /\ export.baseline \in Nat /\ export.at \in Nat /\ export.then \in Nat
    /\ export.baseline <= export.then /\ export.then <= witness.value

ExportInv == export # NoExport => Exported

ReviewedInv ==
    reviewed # NoPlan => reviewed.d \in Discoveries /\ reviewed.t \in PlanTargets

\* What a signed authorization holds about the plan that was reviewed.
SignedFor(x) ==
    LET plan == BuildPlan(x.review.d, x.review.t)
    IN  /\ x.review.d \in Discoveries /\ x.review.t \in PlanTargets
        /\ x.digest = PlanDigest(plan)
        /\ x.steps \subseteq StepIds(plan)
        /\ \A id \in x.steps : StepOf(plan, id).level \notin NeverPlanAuthorizationLevels
        /\ x.risk = RiskClass(plan, x.steps)
        /\ x.schema = 1 => x.intent = NoIntent

SignedInv == \A i \in Ids : authz[i] # NoAuthz => SignedFor(authz[i])

\* A request for a step of a signed authorization, under its intent.
Requested(c) ==
    /\ c.id \in Ids /\ authz[c.id] # NoAuthz
    /\ c.step \in authz[c.id].steps /\ c.intent = authz[c.id].intent
    /\ c.t \in PlanTargets

\* The request was found fresh: the plan for the discovery it carries has the
\* digest that was signed.
Fresh(c) == c.d \in Discoveries /\ PlanDigest(BuildPlan(c.d, c.t)) = authz[c.id].digest

\* What holds of a command at each point of its discovery.  Its baseline is
\* not ahead of the witness value at the moment it was read, and that value
\* is not ahead of the witness now.
CommandOK(c) ==
    /\ c \in CommandRecords
    /\ c.kind = "plan" => c.t \in PlanTargets
    /\ c.pc = "export" => Exported
    /\ c.pc = "witness" => c.a.baseline <= c.then /\ c.then <= witness.value
    /\ c.kind = "authorize" => Requested(c)
    /\ c.kind = "authorize" /\ c.pc = "consume" => Fresh(c)

CommandsInv ==
    /\ DOMAIN proc = Processes
    /\ \A p \in Processes : CommandOK(proc[p])

\* Every grant was requested, fresh and is spent, and each id was granted once.
GrantsInv ==
    /\ \A g \in grants : g.id \in consumed /\ Requested(g) /\ Fresh(g)
    /\ GrantedOnce

\* Where the operator's list drops the anchor, WRITE is off or goes off first.
OrderOK(steps, cap) ==
    \A i \in DOMAIN steps :
        steps[i].id = "anchor_assurance.deactivate_anchor" =>
            \/ cap = "read_only"
            \/ \E j \in 1 .. i - 1 :
                  steps[j].id = "capability_posture.deactivate_write_protection"

TodoInv ==
    /\ todo \in Seq(PlanSteps)
    /\ OrderOK(todo, DiscoverCapability(profile))

PostureInv ==
    /\ WorldInv
    /\ ExportInv
    /\ ReviewedInv
    /\ SignedInv
    /\ CommandsInv
    /\ GrantsInv
    /\ TodoInv
    /\ VerifiedWasTrue
-----------------------------------------------------------------------------
LEMMA IdleOK == Idle \in CommandRecords /\ Idle.kind = "idle" /\ Idle.pc = "idle"
<1> DEFINE n == NoTarget
           m == NoIntent
<1>1. NoAnchor \in AnchorReadings
  BY DEF NoAnchor, Anchor, AnchorReadings, AnchorAssurance, AnchorEvidenceState, None
<1>2. Discovery("read_only", NoAnchor) \in Discoveries
  BY DEF NoAnchor, Anchor, Discovery, Discoveries, AnchorAssurance,
         AnchorEvidenceState, CapabilityPosture, None
<1> QED
  BY <1>1, <1>2 DEF Idle, CommandRecords, Kinds, CapabilityPosture, None

\* A command that has nothing in hand yet.
LEMMA IdleCommandOK == CommandOK(Idle)
BY IdleOK DEF CommandOK

LEMMA InitInv == Init => PostureInv
<1> SUFFICES ASSUME Init PROVE PostureInv
  OBVIOUS
<1> USE DEF Init
<1>1. WorldInv
  BY DEF WorldInv, Settings, Files
<1>2. ExportInv /\ ReviewedInv /\ SignedInv
  BY DEF ExportInv, ReviewedInv, SignedInv
<1>3. CommandsInv
  BY IdleCommandOK DEF CommandsInv
<1>4. GrantsInv
  BY DEF GrantsInv, GrantedOnce
<1>5. TodoInv
  BY EmptySeq DEF TodoInv, OrderOK
<1>6. VerifiedWasTrue
  BY DEF VerifiedWasTrue
<1> QED
  BY <1>1, <1>2, <1>3, <1>4, <1>5, <1>6 DEF PostureInv
-----------------------------------------------------------------------------
(* What a step that leaves a part alone keeps of it.                       *)

\* A command keeps what holds of it while exports stay good, the witness does
\* not fall back and no signed authorization is replaced.
LEMMA CommandFrame ==
    ASSUME NEW c, CommandOK(c),
           Exported => Exported',
           witness.value \in Nat, witness'.value \in Nat, witness.value <= witness'.value,
           \A i \in Ids : authz[i] # NoAuthz => authz'[i] = authz[i]
    PROVE  /\ c \in CommandRecords
           /\ c.kind = "plan" => c.t \in PlanTargets
           /\ c.pc = "export" => Exported'
           /\ c.pc = "witness" => c.a.baseline <= c.then /\ c.then <= witness'.value
           /\ c.kind = "authorize" =>
                 /\ c.id \in Ids /\ authz'[c.id] # NoAuthz
                 /\ c.step \in authz'[c.id].steps /\ c.intent = authz'[c.id].intent
                 /\ c.t \in PlanTargets
           /\ c.kind = "authorize" /\ c.pc = "consume" =>
                 /\ c.d \in Discoveries
                 /\ PlanDigest(BuildPlan(c.d, c.t)) = authz'[c.id].digest
<1>1. c \in CommandRecords /\ (c.kind = "plan" => c.t \in PlanTargets)
      /\ (c.pc = "export" => Exported')
  BY DEF CommandOK
<1>2. c.pc = "witness" => c.a.baseline <= c.then /\ c.then <= witness'.value
  BY <1>1 DEF CommandOK, CommandRecords
<1>3. c.kind = "authorize" => Requested(c)
  BY DEF CommandOK
<1>4. c.kind = "authorize" /\ c.pc = "consume" => Fresh(c)
  BY DEF CommandOK
<1>5. c.kind = "authorize" => authz'[c.id] = authz[c.id] /\ authz[c.id] # NoAuthz
  BY <1>3 DEF Requested
<1> QED
  BY <1>1, <1>2, <1>3, <1>4, <1>5 DEF Requested, Fresh


\* The same for a command in flight that the step does not run.
LEMMA OtherCommand ==
    ASSUME CommandsInv,
           Exported => Exported',
           witness.value \in Nat, witness'.value \in Nat, witness.value <= witness'.value,
           \A i \in Ids : authz[i] # NoAuthz => authz'[i] = authz[i],
           NEW q \in Processes, proc'[q] = proc[q]
    PROVE  CommandOK(proc[q])'
<1> PICK c : c = proc[q]
  OBVIOUS
<1>1. CommandOK(c)
  BY DEF CommandsInv
<1>2. /\ c \in CommandRecords
      /\ c.kind = "plan" => c.t \in PlanTargets
      /\ c.pc = "export" => Exported'
      /\ c.pc = "witness" => c.a.baseline <= c.then /\ c.then <= witness'.value
      /\ c.kind = "authorize" =>
            /\ c.id \in Ids /\ authz'[c.id] # NoAuthz
            /\ c.step \in authz'[c.id].steps /\ c.intent = authz'[c.id].intent
            /\ c.t \in PlanTargets
      /\ c.kind = "authorize" /\ c.pc = "consume" =>
            /\ c.d \in Discoveries
            /\ PlanDigest(BuildPlan(c.d, c.t)) = authz'[c.id].digest
  BY <1>1, CommandFrame
<1>3. c = proc'[q]
  OBVIOUS
<1> QED
  BY <1>2, <1>3 DEF CommandOK, Requested, Fresh

\* Grants stay good while no signed authorization is replaced.
LEMMA GrantsFrame ==
    ASSUME GrantsInv, grants' = grants, consumed \subseteq consumed',
           \A i \in Ids : authz[i] # NoAuthz => authz'[i] = authz[i]
    PROVE  GrantsInv'
BY DEF GrantsInv, GrantedOnce, Requested, Fresh
-----------------------------------------------------------------------------
(* One lemma per group of actions.                                         *)

\* A command starts with nothing read (security_cli.py, main).
LEMMA StartStep ==
    ASSUME PostureInv, NEW p \in Processes, NEW c, Start(p, c), CommandOK(c)
    PROVE  PostureInv'
<1> USE DEF PostureInv, Start
<1>1. WorldInv' /\ ExportInv' /\ ReviewedInv' /\ SignedInv'
  BY DEF WorldInv, ExportInv, Exported, ReviewedInv, SignedInv
<1>2. TodoInv' /\ VerifiedWasTrue'
  BY DEF TodoInv, VerifiedWasTrue
<1>3. GrantsInv'
  BY GrantsFrame
<1>4. CommandsInv'
  <2>1. Exported => Exported'
    BY DEF Exported
  <2>2. witness.value \in Nat /\ witness'.value \in Nat /\ witness.value <= witness'.value
    BY DEF WorldInv
  <2>3. \A i \in Ids : authz[i] # NoAuthz => authz'[i] = authz[i]
    OBVIOUS
  <2>4. DOMAIN proc' = Processes /\ proc'[p] = c
        /\ \A q \in Processes : q # p => proc'[q] = proc[q]
    BY DEF CommandsInv
  <2>5. CommandOK(proc[p])'
    BY <2>4 DEF CommandOK, Requested, Fresh, Exported
  <2>6. ASSUME NEW q \in Processes PROVE CommandOK(proc[q])'
    <3>1. CASE q = p
      BY <2>5, <3>1
    <3>2. CASE q # p
      BY <2>1, <2>2, <2>3, <2>4, <3>2, OtherCommand
    <3> QED
      BY <3>1, <3>2
  <2> QED
    BY <2>4, <2>6 DEF CommandsInv
<1> QED
  BY <1>1, <1>2, <1>3, <1>4

\* The five commands that start: what each is asked for is sound.
LEMMA RunStep ==
    ASSUME PostureInv, NEW p \in Processes,
           \/ RunPlan(p) \/ RunDoctor(p) \/ RunStartupCheck(p)
           \/ RunAuthorize(p) \/ RunWrite(p)
    PROVE  PostureInv'
<1>1. ASSUME RunPlan(p) PROVE PostureInv'
  <2> PICK t \in Targets, from \in {"store", "export"} :
        /\ from = "export" => export # NoExport
        /\ Start(p, [Idle EXCEPT !.kind = "plan", !.pc = from, !.t = t])
    BY <1>1 DEF RunPlan
  <2> PICK c : c = [Idle EXCEPT !.kind = "plan", !.pc = from, !.t = t]
    OBVIOUS
  <2>1. t \in PlanTargets
    BY PostureAssumption
  <2>2. c \in CommandRecords /\ c.kind = "plan" /\ c.pc = from /\ c.t = t
    BY <2>1, IdleOK DEF CommandRecords, Kinds
  <2>3. CommandOK(c)
    BY <2>1, <2>2 DEF CommandOK, PostureInv, ExportInv
  <2> QED
    BY <2>3, StartStep
<1>2. ASSUME RunDoctor(p) PROVE PostureInv'
  <2> DEFINE v == \A q \in ArtifactPaths : exchange[q] = "absent"
  <2> PICK c : c = [Idle EXCEPT !.kind = "doctor", !.pc = "store", !.clear = v]
    OBVIOUS
  <2>1. Start(p, c)
    BY <1>2 DEF RunDoctor
  <2>2. v \in BOOLEAN
    OBVIOUS
  <2> HIDE DEF v
  <2>3. c \in CommandRecords /\ c.kind = "doctor" /\ c.pc = "store"
    BY <2>2, IdleOK DEF CommandRecords, Kinds
  <2>4. CommandOK(c)
    BY <2>3 DEF CommandOK
  <2> QED
    BY <2>1, <2>4, StartStep
<1>3. ASSUME RunStartupCheck(p) PROVE PostureInv'
  <2> PICK c : c = [Idle EXCEPT !.kind = "startup", !.pc = "store"]
    OBVIOUS
  <2>1. Start(p, c)
    BY <1>3 DEF RunStartupCheck
  <2>2. c \in CommandRecords /\ c.kind = "startup" /\ c.pc = "store"
    BY IdleOK DEF CommandRecords, Kinds
  <2>3. CommandOK(c)
    BY <2>2 DEF CommandOK
  <2> QED
    BY <2>1, <2>3, StartStep
<1>4. ASSUME RunAuthorize(p) PROVE PostureInv'
  <2> PICK i \in Ids, t \in Targets :
        /\ authz[i] # NoAuthz /\ reviewed # NoPlan
        /\ VerifySignature(authz[i])
        /\ \E step \in StepIds(BuildPlan(reviewed.d, reviewed.t)) :
               /\ AuthorizesStep(authz[i],
                      PlanDigest(BuildPlan(reviewed.d, reviewed.t)), step)
               /\ Start(p, [Idle EXCEPT !.kind = "authorize", !.pc = "store",
                                        !.t = t, !.id = i, !.step = step])
    BY <1>4 DEF RunAuthorize
  <2> PICK step : /\ step \in authz[i].steps
                  /\ Start(p, [Idle EXCEPT !.kind = "authorize", !.pc = "store",
                                           !.t = t, !.id = i, !.step = step])
    BY DEF AuthorizesStep
  <2> PICK c : c = [Idle EXCEPT !.kind = "authorize", !.pc = "store",
                                !.t = t, !.id = i, !.step = step]
    OBVIOUS
  <2>1. t \in PlanTargets /\ i \in Nat
    BY PostureAssumption DEF Ids
  <2>2. SignedFor(authz[i])
    BY DEF PostureInv, SignedInv
  <2>3. step \in StepNames
    BY <2>2, StepOfIsAStep DEF SignedFor, PlanSteps
  <2>4. authz[i].intent = NoIntent
    BY <2>2 DEF SignedFor, VerifySignature
  <2>5. /\ c \in CommandRecords /\ c.kind = "authorize" /\ c.pc = "store" /\ c.t = t
        /\ c.id = i /\ c.step = step /\ c.intent = NoIntent
    <3>1. Idle.intent = NoIntent
      BY DEF Idle
    <3> QED
      BY <2>1, <2>3, <3>1, IdleOK DEF CommandRecords, Kinds
  <2>6. CommandOK(c)
    BY <2>1, <2>4, <2>5 DEF CommandOK, Requested
  <2> QED
    BY <2>6, StartStep
<1>5. ASSUME RunWrite(p) PROVE PostureInv'
  <2> PICK i \in Ids, intent \in Intents :
        /\ authz[i] # NoAuthz
        /\ AuthorizesExecution(authz[i], authz[i].digest, WriteStepId, intent)
        /\ Start(p, [Idle EXCEPT !.kind = "authorize", !.pc = "store", !.t = WriteTarget,
                                 !.id = i, !.step = WriteStepId, !.intent = intent])
    BY <1>5 DEF RunWrite
  <2> PICK c : c = [Idle EXCEPT !.kind = "authorize", !.pc = "store", !.t = WriteTarget,
                                !.id = i, !.step = WriteStepId, !.intent = intent]
    OBVIOUS
  <2>1. WriteTarget \in PlanTargets /\ i \in Nat
    BY PostureAssumption
       DEF Ids, WriteTarget, PlanTargets, CapabilityPosture, AnchorAssurance
  <2>2. WriteStepId \in StepNames
    BY DEF WriteStepId, StepNames
  <2>3. WriteStepId \in authz[i].steps /\ authz[i].intent = intent
    BY DEF AuthorizesExecution, AuthorizesStep
  <2>4. /\ c \in CommandRecords /\ c.kind = "authorize" /\ c.pc = "store"
        /\ c.t = WriteTarget /\ c.id = i /\ c.step = WriteStepId /\ c.intent = intent
    BY <2>1, <2>2, IdleOK DEF CommandRecords, Kinds
  <2>5. CommandOK(c)
    BY <2>1, <2>3, <2>4 DEF CommandOK, Requested
  <2> QED
    BY <2>5, StartStep
<1> QED
  BY <1>1, <1>2, <1>3, <1>4, <1>5

\* What a discovery read before the witness is an anchor reading that is
\* never "verified", and its baseline is not ahead of the witness.
LEMMA FirstReading ==
    ASSUME PostureInv,
           NEW a, NEW now,
           \/ /\ Exported /\ a = AnchorFromExport(export) /\ now = export.then
           \/ /\ \E s \in {store, Opened(store)} : a = AnchorFromStore(s)
              /\ now = witness.value
    PROVE  /\ a \in AnchorReadings /\ a.evidence # "provisioned_verified"
           /\ now \in Nat /\ now <= witness.value
           /\ a.value = "hardware_witness" => a.baseline <= now
<1> USE DEF PostureInv, WorldInv
<1>1. CASE Exported /\ a = AnchorFromExport(export) /\ now = export.then
  BY <1>1 DEF Exported, AnchorFromExport, Anchor, AnchorReadings, AnchorAssurance,
              AnchorEvidenceState, None
<1>2. ASSUME NEW s \in {store, Opened(store)}, a = AnchorFromStore(s), now = witness.value
      PROVE  /\ a \in AnchorReadings /\ a.evidence # "provisioned_verified"
             /\ now \in Nat /\ now <= witness.value
             /\ a.value = "hardware_witness" => a.baseline <= now
  <2>1. s \in [config : Settings, file : Files, baseline : Nat, at : Nat]
        /\ s.baseline = store.baseline
    BY DEF Opened, Files
  <2> QED
    BY <1>2, <2>1 DEF AnchorFromStore, Anchor, AnchorReadings, AnchorAssurance,
                      AnchorEvidenceState, None
<1> QED
  BY <1>1, <1>2

\* A discovery concluded from a reading of the witness is verified only if
\* the witness shows the baseline.
LEMMA SecondReading ==
    ASSUME WorldInv, NEW a \in AnchorReadings
    PROVE  /\ WithWitness(a) \in AnchorReadings
           /\ WithWitness(a).baseline = a.baseline
           /\ WithWitness(a).evidence = "provisioned_verified" => witness.value = a.baseline
BY DEF WorldInv, WithWitness, AnchorReadings, AnchorEvidenceState

LEMMA DiscoveryType ==
    ASSUME NEW a \in AnchorReadings, NEW cap \in CapabilityPosture
    PROVE  /\ Discovery(cap, a) \in Discoveries
           /\ Discovery(cap, a).evidence = a.evidence
           /\ Discovery(cap, a).baseline = a.baseline
BY DEF Discovery, Discoveries, AnchorReadings


\* A command that has its discovery either ends or, fresh, goes on to spend
\* the authorization; what it leaves behind is true.
LEMMA ConcludeStep ==
    ASSUME PostureInv, NEW p \in Processes, NEW d \in Discoveries, NEW then \in Nat,
           d.evidence = "provisioned_verified" => then = d.baseline,
           Conclude(p, d, then), UNCHANGED << witness, export, authz >>
    PROVE  CommandsInv' /\ ReviewedInv' /\ VerifiedWasTrue'
<1> DEFINE c == proc[p]
           goes == c.kind = "authorize" /\ IsFresh(authz[c.id], d, c.t)
           n == [Idle EXCEPT !.kind = "authorize", !.pc = "consume", !.t = c.t,
                     !.id = c.id, !.step = c.step, !.intent = c.intent, !.d = d]
<1>0. CommandOK(c) /\ c \in CommandRecords
  BY DEF PostureInv, CommandsInv, CommandOK
<1>1. /\ proc' = [proc EXCEPT ![p] = IF goes THEN n ELSE Idle]
      /\ reviewed' = IF c.kind = "plan" THEN [d |-> d, t |-> c.t, then |-> then] ELSE reviewed
      /\ verdict' = IF c.kind = "doctor"
                    THEN [ready |-> c.clear /\ d.evidence = "provisioned_verified",
                          sound |-> c.clear /\ then = d.baseline]
                    ELSE verdict
  BY DEF Conclude
<1>2. /\ n \in CommandRecords /\ n.kind = "authorize" /\ n.pc = "consume" /\ n.t = c.t
      /\ n.id = c.id /\ n.step = c.step /\ n.intent = c.intent /\ n.d = d
  BY <1>0, IdleOK DEF CommandRecords, Kinds
<1>3. goes => Requested(c) /\ PlanDigest(BuildPlan(d, c.t)) = authz[c.id].digest
  BY <1>0 DEF CommandOK, IsFresh
<1>4. c.kind = "plan" => c.t \in PlanTargets
  BY <1>0 DEF CommandOK
<1>5. ReviewedInv'
  <2>1. CASE c.kind = "plan"
    BY <1>1, <1>4, <2>1 DEF ReviewedInv
  <2>2. CASE c.kind # "plan"
    BY <1>1, <2>2 DEF ReviewedInv, PostureInv
  <2> QED
    BY <2>1, <2>2
<1>6. VerifiedWasTrue'
  <2>1. (reviewed # NoPlan /\ reviewed.d.evidence = "provisioned_verified"
            => reviewed.then = reviewed.d.baseline)'
    <3>1. CASE c.kind = "plan"
      BY <1>1, <3>1
    <3>2. CASE c.kind # "plan"
      BY <1>1, <3>2 DEF VerifiedWasTrue, PostureInv
    <3> QED
      BY <3>1, <3>2
  <2>2. (verdict.ready => verdict.sound)'
    <3>1. CASE c.kind = "doctor"
      BY <1>1, <3>1
    <3>2. CASE c.kind # "doctor"
      BY <1>1, <3>2 DEF VerifiedWasTrue, PostureInv
    <3> QED
      BY <3>1, <3>2
  <2> QED
    BY <2>1, <2>2 DEF VerifiedWasTrue
<1>7. CommandsInv'
  <2>1. Exported => Exported'
    BY DEF Exported
  <2>2. witness.value \in Nat /\ witness'.value \in Nat /\ witness.value <= witness'.value
    BY DEF PostureInv, WorldInv
  <2>3. \A i \in Ids : authz[i] # NoAuthz => authz'[i] = authz[i]
    OBVIOUS
  <2>4. DOMAIN proc' = Processes /\ proc'[p] = (IF goes THEN n ELSE Idle)
        /\ \A q \in Processes : q # p => proc'[q] = proc[q]
    BY <1>1 DEF PostureInv, CommandsInv
  <2>5. CommandOK(proc[p])'
    <3>1. CASE goes
      <4> HIDE DEF n, goes
      <4>1. proc'[p] = n
        BY <2>4, <3>1
      <4> QED
        BY <1>2, <1>3, <3>1, <4>1 DEF CommandOK, Requested, Fresh
    <3>2. CASE ~goes
      <4>1. proc'[p] = Idle
        BY <2>4, <3>2
      <4> QED
        BY <4>1, IdleOK DEF CommandOK
    <3> QED
      BY <3>1, <3>2
  <2>6. ASSUME NEW q \in Processes PROVE CommandOK(proc[q])'
    <3>1. CASE q = p
      BY <2>5, <3>1
    <3>2. CASE q # p
      <4>1. CommandsInv /\ proc'[q] = proc[q]
        BY <2>4, <3>2 DEF PostureInv
      <4> QED
        BY <2>1, <2>2, <2>3, <4>1, OtherCommand
    <3> QED
      BY <3>1, <3>2
  <2> QED
    BY <2>4, <2>6 DEF CommandsInv
<1> QED
  BY <1>5, <1>6, <1>7

\* Reading the store, or an export of it (discover_anchor_assurance).
LEMMA ReadStoreStep ==
    ASSUME PostureInv, NEW p \in Processes, ReadStore(p)
    PROVE  PostureInv'
<1> PICK c : c = proc[p]
  OBVIOUS
<1> PICK opened : opened = IF c.kind = "startup" THEN Opened(store) ELSE store
  OBVIOUS
<1> PICK a : a = IF c.pc = "export" THEN AnchorFromExport(export) ELSE AnchorFromStore(opened)
  OBVIOUS
<1> PICK now : now = IF c.pc = "export" THEN export.then ELSE witness.value
  OBVIOUS
<1> PICK cap : cap = DiscoverCapability(profile)
  OBVIOUS
<1>1. /\ c.kind # "idle" /\ c.pc \in {"store", "export"}
      /\ store' = opened
      /\ UNCHANGED << profile, witness, exchange, export, clock, authz, consumed,
                      todo, finished, grants, acts >>
      /\ IF a.value = "hardware_witness" /\ witness.config = "ok"
         THEN /\ proc' = [proc EXCEPT ![p].pc = "witness", ![p].a = a,
                                      ![p].cap = cap, ![p].then = now]
              /\ UNCHANGED << reviewed, verdict >>
         ELSE Conclude(p, Discovery(cap, a), now)
  BY DEF ReadStore
<1>2. CommandOK(c) /\ c \in CommandRecords
  BY DEF PostureInv, CommandsInv, CommandOK
<1>3. cap \in CapabilityPosture
  BY DEF DiscoverCapability, CapabilityPosture
<1>4. /\ a \in AnchorReadings /\ a.evidence # "provisioned_verified"
      /\ now \in Nat /\ now <= witness.value
      /\ a.value = "hardware_witness" => a.baseline <= now
  <2>1. opened \in {store, Opened(store)}
    OBVIOUS
  <2>2. c.pc = "export" => Exported
    BY <1>2 DEF CommandOK
  <2>3. \/ /\ Exported /\ a = AnchorFromExport(export) /\ now = export.then
        \/ /\ \E s \in {store, Opened(store)} : a = AnchorFromStore(s)
           /\ now = witness.value
    BY <2>1, <2>2
  <2> QED
    BY <2>3, FirstReading
<1>5. WorldInv'
  <2>1. /\ opened \in [config : Settings, file : Files, baseline : Nat, at : Nat]
        /\ opened.baseline = store.baseline
    BY DEF Opened, Files, PostureInv, WorldInv
  <2> QED
    BY <1>1, <2>1 DEF PostureInv, WorldInv
<1>6. ExportInv' /\ SignedInv' /\ TodoInv'
  BY <1>1 DEF PostureInv, ExportInv, Exported, SignedInv, TodoInv
<1>7. GrantsInv'
  BY <1>1, GrantsFrame DEF PostureInv
<1>8. CommandsInv' /\ ReviewedInv' /\ VerifiedWasTrue'
  <2>1. CASE a.value = "hardware_witness" /\ witness.config = "ok"
    <3>1. ReviewedInv' /\ VerifiedWasTrue'
      BY <1>1, <2>1 DEF PostureInv, ReviewedInv, VerifiedWasTrue
    <3>2. Exported => Exported'
      BY <1>1 DEF Exported
    <3>3. witness.value \in Nat /\ witness'.value \in Nat /\ witness.value <= witness'.value
      BY <1>1 DEF PostureInv, WorldInv
    <3>4. \A i \in Ids : authz[i] # NoAuthz => authz'[i] = authz[i]
      BY <1>1
    <3> PICK n : n = [c EXCEPT !.pc = "witness", !.a = a, !.cap = cap, !.then = now]
      OBVIOUS
    <3>5. DOMAIN proc' = Processes /\ proc'[p] = n
          /\ \A q \in Processes : q # p => proc'[q] = proc[q]
      BY <1>1, <2>1 DEF PostureInv, CommandsInv
    <3>6. /\ n \in CommandRecords /\ n.pc = "witness" /\ n.a = a /\ n.then = now
          /\ n.kind = c.kind /\ n.t = c.t /\ n.id = c.id /\ n.step = c.step
          /\ n.intent = c.intent
      BY <1>2, <1>3, <1>4 DEF CommandRecords
    <3>7. CommandOK(proc[p])'
      BY <1>1, <1>2, <1>4, <2>1, <3>5, <3>6 DEF CommandOK, Requested
    <3>8. ASSUME NEW q \in Processes PROVE CommandOK(proc[q])'
      <4>1. CASE q = p
        BY <3>7, <4>1
      <4>2. CASE q # p
        <5>1. CommandsInv /\ proc'[q] = proc[q]
          BY <3>5, <4>2 DEF PostureInv
        <5> QED
          BY <3>2, <3>3, <3>4, <5>1, OtherCommand
      <4> QED
        BY <4>1, <4>2
    <3> QED
      BY <3>1, <3>5, <3>8 DEF CommandsInv
  <2>2. CASE ~(a.value = "hardware_witness" /\ witness.config = "ok")
    <3> PICK d : d = Discovery(cap, a)
      OBVIOUS
    <3>1. d \in Discoveries /\ d.evidence # "provisioned_verified"
      BY <1>3, <1>4, DiscoveryType
    <3>2. Conclude(p, d, now) /\ UNCHANGED << witness, export, authz >>
      BY <1>1, <2>2
    <3> QED
      BY <1>4, <3>1, <3>2, ConcludeStep
  <2> QED
    BY <2>1, <2>2
<1> QED
  BY <1>5, <1>6, <1>7, <1>8 DEF PostureInv

\* Reading the witness and comparing (discover_anchor_assurance, the end).
\* The baseline was not ahead when it was read and the witness never falls,
\* so a witness that shows the baseline now showed it then.
LEMMA ReadWitnessStep ==
    ASSUME PostureInv, NEW p \in Processes, ReadWitness(p)
    PROVE  PostureInv'
<1> PICK c : c = proc[p]
  OBVIOUS
<1> PICK a : a = WithWitness(c.a)
  OBVIOUS
<1> PICK d : d = Discovery(c.cap, a)
  OBVIOUS
<1>1. /\ c.pc = "witness"
      /\ Conclude(p, d, c.then)
      /\ UNCHANGED << profile, store, witness, exchange, export, clock, authz,
                      consumed, todo, finished, grants, acts >>
  BY DEF ReadWitness
<1>2. CommandOK(c) /\ c \in CommandRecords
  BY DEF PostureInv, CommandsInv, CommandOK
<1>3. /\ c.a \in AnchorReadings /\ c.cap \in CapabilityPosture /\ c.then \in Nat
      /\ c.a.baseline <= c.then /\ c.then <= witness.value
  BY <1>1, <1>2 DEF CommandOK, CommandRecords
<1>4. /\ a \in AnchorReadings /\ a.baseline = c.a.baseline
      /\ a.evidence = "provisioned_verified" => witness.value = c.a.baseline
  BY <1>3, SecondReading DEF PostureInv
<1>5. d \in Discoveries /\ d.evidence = a.evidence /\ d.baseline = a.baseline
  BY <1>3, <1>4, DiscoveryType
<1>6. d.evidence = "provisioned_verified" => c.then = d.baseline
  BY <1>3, <1>4, <1>5 DEF AnchorReadings
<1>7. CommandsInv' /\ ReviewedInv' /\ VerifiedWasTrue'
  BY <1>1, <1>3, <1>5, <1>6, ConcludeStep
<1>8. WorldInv' /\ ExportInv' /\ SignedInv' /\ TodoInv'
  BY <1>1 DEF PostureInv, WorldInv, ExportInv, Exported, SignedInv, TodoInv
<1>9. GrantsInv'
  BY <1>1, GrantsFrame DEF PostureInv
<1> QED
  BY <1>7, <1>8, <1>9 DEF PostureInv

\* Spending the id (try_consume): a grant is made for an id nobody spent.
LEMMA ConsumeStep ==
    ASSUME PostureInv, NEW p \in Processes, Consume(p)
    PROVE  PostureInv'
<1> PICK c : c = proc[p]
  OBVIOUS
<1> PICK g : g = [by |-> p, id |-> c.id, step |-> c.step,
                  intent |-> c.intent, d |-> c.d, t |-> c.t]
  OBVIOUS
<1>1. /\ c.kind = "authorize" /\ c.pc = "consume"
      /\ consumed' = consumed \cup {c.id}
      /\ grants' = IF c.id \notin consumed THEN grants \cup {g} ELSE grants
      /\ proc' = [proc EXCEPT ![p] = Idle]
      /\ UNCHANGED << profile, store, witness, exchange, export, clock, authz,
                      reviewed, todo, finished, verdict, acts >>
  BY DEF Consume, TryConsume
<1>2. CommandOK(c)
  BY DEF PostureInv, CommandsInv
<1>3. g.id = c.id /\ Requested(g) /\ Fresh(g)
  BY <1>1, <1>2 DEF CommandOK, Requested, Fresh
<1>4. GrantsInv'
  <2>1. CASE c.id \in consumed
    BY <1>1, <2>1, GrantsFrame DEF PostureInv
  <2>2. CASE c.id \notin consumed
    <3>1. \A h \in grants : h.id \in consumed /\ Requested(h) /\ Fresh(h)
      BY DEF PostureInv, GrantsInv
    <3>2. \A h \in grants' : h.id \in consumed' /\ Requested(h)' /\ Fresh(h)'
      BY <1>1, <1>3, <2>2, <3>1 DEF Requested, Fresh
    <3>3. GrantedOnce'
      BY <1>1, <1>3, <2>2, <3>1 DEF PostureInv, GrantsInv, GrantedOnce
    <3> QED
      BY <3>2, <3>3 DEF GrantsInv
  <2> QED
    BY <2>1, <2>2
<1>5. CommandsInv'
  <2>1. Exported => Exported'
    BY <1>1 DEF Exported
  <2>2. witness.value \in Nat /\ witness'.value \in Nat /\ witness.value <= witness'.value
    BY <1>1 DEF PostureInv, WorldInv
  <2>3. \A i \in Ids : authz[i] # NoAuthz => authz'[i] = authz[i]
    BY <1>1
  <2>4. DOMAIN proc' = Processes /\ proc'[p] = Idle
        /\ \A q \in Processes : q # p => proc'[q] = proc[q]
    BY <1>1 DEF PostureInv, CommandsInv
  <2>5. ASSUME NEW q \in Processes PROVE CommandOK(proc[q])'
    <3>1. CASE q = p
      BY <2>4, <3>1, IdleOK DEF CommandOK
    <3>2. CASE q # p
      <4>1. CommandsInv /\ proc'[q] = proc[q]
        BY <2>4, <3>2 DEF PostureInv
      <4> QED
        BY <2>1, <2>2, <2>3, <4>1, OtherCommand
    <3> QED
      BY <3>1, <3>2
  <2> QED
    BY <2>4, <2>5 DEF CommandsInv
<1>6. WorldInv' /\ ExportInv' /\ SignedInv' /\ TodoInv' /\ ReviewedInv' /\ VerifiedWasTrue'
  BY <1>1 DEF PostureInv, WorldInv, ExportInv, Exported, SignedInv, TodoInv,
              ReviewedInv, VerifiedWasTrue
<1> QED
  BY <1>4, <1>5, <1>6 DEF PostureInv


\* The authority signs what it reviewed, in a place that was free.
LEMMA SignAuthorizationStep ==
    ASSUME PostureInv, SignAuthorization
    PROVE  PostureInv'
<1>1. /\ reviewed # NoPlan
      /\ UNCHANGED << profile, store, witness, exchange, export, clock, consumed,
                      reviewed, todo, finished, proc, verdict, grants >>
  BY DEF SignAuthorization
<1> PICK i \in Ids, by \in {"pinned", "foreign"}, e \in clock + 1 .. MaxClock,
         steps \in SUBSET StepIds(BuildPlan(reviewed.d, reviewed.t)) :
      /\ authz[i] = NoAuthz
      /\ Buildable(BuildPlan(reviewed.d, reviewed.t), steps, clock, e)
      /\ \/ authz' = [authz EXCEPT ![i] = PlanAuthorization(reviewed, steps, by, e)]
         \/ \E intent \in Intents : authz' = [authz EXCEPT ![i] =
                PlanAuthorizationV2(reviewed, steps, by, e, intent)]
  BY DEF SignAuthorization
<1>2. reviewed.d \in Discoveries /\ reviewed.t \in PlanTargets
  BY <1>1 DEF PostureInv, ReviewedInv
<1>3. PICK x : /\ authz' = [authz EXCEPT ![i] = x]
               /\ SignedFor(x)
  <2> DEFINE plan == BuildPlan(reviewed.d, reviewed.t)
             y == PlanAuthorization(reviewed, steps, by, e)
  <2>1. /\ y.review = reviewed /\ y.digest = PlanDigest(plan) /\ y.steps = steps
        /\ y.risk = RiskClass(plan, steps) /\ y.schema = 1 /\ y.intent = NoIntent
    BY DEF PlanAuthorization
  <2>2. /\ steps \subseteq StepIds(plan)
        /\ \A id \in steps : StepOf(plan, id).level \notin NeverPlanAuthorizationLevels
    BY DEF Buildable
  <2>3. CASE authz' = [authz EXCEPT ![i] = y]
    <3> HIDE DEF y
    <3>1. SignedFor(y)
      BY <1>2, <2>1, <2>2 DEF SignedFor
    <3> QED
      BY <2>3, <3>1
  <2>4. ASSUME NEW intent \in Intents,
               authz' = [authz EXCEPT ![i] = PlanAuthorizationV2(reviewed, steps, by, e, intent)]
        PROVE  \E x : authz' = [authz EXCEPT ![i] = x] /\ SignedFor(x)
    <3> DEFINE z == PlanAuthorizationV2(reviewed, steps, by, e, intent)
    <3>1. /\ z.review = reviewed /\ z.digest = PlanDigest(plan) /\ z.steps = steps
          /\ z.risk = RiskClass(plan, steps) /\ z.schema = 2
      BY DEF PlanAuthorizationV2, PlanAuthorization
    <3> HIDE DEF z
    <3>2. SignedFor(z)
      BY <1>2, <2>2, <3>1 DEF SignedFor
    <3> QED
      BY <2>4, <3>2 DEF z
  <2> QED
    BY <2>3, <2>4
<1>4. \A j \in Ids : authz[j] # NoAuthz => authz'[j] = authz[j]
  BY <1>3
<1>5. SignedInv'
  <2>1. ASSUME NEW j \in Ids, authz'[j] # NoAuthz PROVE SignedFor(authz'[j])
    <3>1. CASE j = i /\ i \in DOMAIN authz
      BY <1>3, <3>1
    <3>2. CASE ~(j = i /\ i \in DOMAIN authz)
      <4>1. authz'[j] = authz[j]
        BY <1>3, <3>2
      <4> QED
        BY <2>1, <4>1 DEF PostureInv, SignedInv
    <3> QED
      BY <3>1, <3>2
  <2> QED
    BY <2>1 DEF SignedInv
<1>6. CommandsInv'
  <2>1. Exported => Exported'
    BY <1>1 DEF Exported
  <2>2. witness.value \in Nat /\ witness'.value \in Nat /\ witness.value <= witness'.value
    BY <1>1 DEF PostureInv, WorldInv
  <2>3. ASSUME NEW q \in Processes PROVE CommandOK(proc[q])'
    BY <1>1, <1>4, <2>1, <2>2, OtherCommand DEF PostureInv
  <2> QED
    BY <1>1, <2>3 DEF CommandsInv, PostureInv
<1>7. GrantsInv'
  BY <1>1, <1>4, GrantsFrame DEF PostureInv
<1>8. WorldInv' /\ ExportInv' /\ TodoInv' /\ ReviewedInv' /\ VerifiedWasTrue'
  BY <1>1 DEF PostureInv, WorldInv, ExportInv, Exported, TodoInv,
              ReviewedInv, VerifiedWasTrue
<1> QED
  BY <1>5, <1>6, <1>7, <1>8 DEF PostureInv

\* Signing an export, moving the witness or the mark, editing the host,
\* carrying out a step: the world moves, never the witness backwards, and
\* every command in flight keeps what it relies on.
LEMMA WorldStep ==
    ASSUME PostureInv, WorldInv', ExportInv', TodoInv',
           Exported => Exported', witness.value <= witness'.value,
           UNCHANGED << authz, consumed, reviewed, proc, verdict, grants >>
    PROVE  PostureInv'
<1>1. witness.value \in Nat /\ witness'.value \in Nat
  BY DEF PostureInv, WorldInv
<1>2. \A i \in Ids : authz[i] # NoAuthz => authz'[i] = authz[i]
  OBVIOUS
<1>3. ASSUME NEW q \in Processes PROVE CommandOK(proc[q])'
  BY <1>1, <1>2, OtherCommand DEF PostureInv
<1>4. CommandsInv'
  BY <1>3 DEF CommandsInv, PostureInv
<1>5. GrantsInv'
  BY <1>2, GrantsFrame DEF PostureInv
<1>6. SignedInv' /\ ReviewedInv' /\ VerifiedWasTrue'
  BY DEF PostureInv, SignedInv, ReviewedInv, VerifiedWasTrue
<1> QED
  BY <1>4, <1>5, <1>6 DEF PostureInv

LEMMA SignExportStep ==
    ASSUME PostureInv, SignExport
    PROVE  PostureInv'
<1> PICK flaw, e :
      export' = [baseline |-> store.baseline, at |-> store.at, issued |-> clock,
                 expires |-> e, flaw |-> flaw, then |-> witness.value]
  BY DEF SignExport
<1>1. UNCHANGED << profile, store, witness, authz, consumed, reviewed, todo, proc,
                   verdict, grants >>
  BY DEF SignExport
<1>2. Exported'
  BY <1>1 DEF Exported, PostureInv, WorldInv
<1>3. WorldInv' /\ ExportInv' /\ TodoInv' /\ witness.value <= witness'.value
  BY <1>1, <1>2 DEF PostureInv, WorldInv, ExportInv, TodoInv
<1> QED
  BY <1>1, <1>2, <1>3, WorldStep

\* An export stays good while the witness does not fall.
LEMMA ExportFrame ==
    ASSUME WorldInv, WorldInv', ExportInv, export' = export, witness.value <= witness'.value
    PROVE  ExportInv' /\ (Exported => Exported')
BY DEF WorldInv, ExportInv, Exported

LEMMA GatedMutationStep ==
    ASSUME PostureInv, MoveWitness \/ RecordMark
    PROVE  PostureInv'
<1>1. UNCHANGED << profile, export, authz, consumed, reviewed, todo, proc,
                   verdict, grants >>
  BY DEF MoveWitness, RecordMark
<1>2. WorldInv' /\ witness.value <= witness'.value
  <2>1. CASE MoveWitness
    BY <2>1 DEF MoveWitness, PostureInv, WorldInv
  <2>2. CASE RecordMark
    BY <2>2 DEF RecordMark, PostureInv, WorldInv
  <2> QED
    BY <2>1, <2>2
<1>3. ExportInv' /\ (Exported => Exported')
  BY <1>1, <1>2, ExportFrame DEF PostureInv
<1>4. TodoInv'
  BY <1>1 DEF PostureInv, TodoInv
<1> QED
  BY <1>1, <1>2, <1>3, <1>4, WorldStep

LEMMA EditStep ==
    ASSUME PostureInv, Edit
    PROVE  PostureInv'
<1>1. /\ todo = << >>
      /\ UNCHANGED << export, authz, consumed, reviewed, todo, proc, verdict, grants >>
  BY DEF Edit
<1>2. WorldInv' /\ witness.value <= witness'.value
  <2>1. CASE UNCHANGED << store, witness >>
    BY <2>1 DEF PostureInv, WorldInv
  <2>2. CASE UNCHANGED witness /\ store' # store
    <3>1. /\ store' \in [config : Settings, file : Files, baseline : Nat, at : Nat]
          /\ store'.baseline <= store.baseline
      BY <2>2 DEF Edit, PostureInv, WorldInv, Settings, Files
    <3> QED
      BY <2>2, <3>1 DEF PostureInv, WorldInv
  <2>3. CASE UNCHANGED store /\ witness' # witness
    <3>1. \/ \E c \in Settings : witness' = [witness EXCEPT !.config = c]
          \/ witness' = [witness EXCEPT !.up = ~ @]
      BY <2>3 DEF Edit
    <3>2. witness \in [config : Settings, up : BOOLEAN, value : Nat]
      BY DEF PostureInv, WorldInv
    <3>3. CASE \E c \in Settings : witness' = [witness EXCEPT !.config = c]
      BY <2>3, <3>2, <3>3 DEF PostureInv, WorldInv
    <3>4. CASE witness' = [witness EXCEPT !.up = ~ @]
      <4> DEFINE b == ~ witness.up
      <4>1. b \in BOOLEAN
        OBVIOUS
      <4>2. witness' = [witness EXCEPT !.up = b]
        BY <3>4
      <4> HIDE DEF b
      <4> QED
        BY <2>3, <3>2, <4>1, <4>2 DEF PostureInv, WorldInv
    <3> QED
      BY <3>1, <3>3, <3>4
  <2> QED
    BY <2>1, <2>2, <2>3 DEF Edit
<1>3. ExportInv' /\ (Exported => Exported')
  BY <1>1, <1>2, ExportFrame DEF PostureInv
<1>4. TodoInv'
  BY <1>1, EmptySeq DEF TodoInv, OrderOK
<1> QED
  BY <1>1, <1>2, <1>3, <1>4, WorldStep

\* The operator takes up a safe plan: it is in order.
LEMMA FollowStep ==
    ASSUME PostureInv, Follow
    PROVE  PostureInv'
<1>1. UNCHANGED << profile, store, witness, export, authz, consumed, reviewed, proc,
                   verdict, grants >>
  BY DEF Follow
<1>2. WorldInv' /\ witness.value <= witness'.value
  BY <1>1 DEF PostureInv, WorldInv
<1>3. ExportInv' /\ (Exported => Exported')
  BY <1>1, <1>2, ExportFrame DEF PostureInv
<1>4. TodoInv'
  <2> PICK d, t : d = reviewed.d /\ t = reviewed.t
    OBVIOUS
  <2> PICK steps : steps = BuildPlan(d, t).steps
    OBVIOUS
  <2>1. /\ reviewed # NoPlan /\ BuildPlan(d, t).safe /\ todo' = steps
        /\ d.capability = DiscoverCapability(profile)
    BY DEF Follow
  <2>2. d \in Discoveries /\ t \in PlanTargets
    BY <2>1 DEF PostureInv, ReviewedInv
  <2>3. steps \in Seq(PlanSteps)
    BY <2>2, BuildPlanType
  <2>4. ASSUME NEW i \in DOMAIN steps,
               steps[i].id = "anchor_assurance.deactivate_anchor",
               d.capability # "read_only"
        PROVE  \E j \in 1 .. i - 1 :
                  steps[j].id = "capability_posture.deactivate_write_protection"
    <3>1. i > 1 /\ steps[1].id = "capability_posture.deactivate_write_protection"
      BY <2>1, <2>2, <2>4, WriteGoesFirst
    <3>2. i \in Nat
      BY <2>3, LenProperties
    <3> QED
      BY <3>1, <3>2
  <2>5. OrderOK(steps, d.capability)
    BY <2>4 DEF OrderOK
  <2> QED
    BY <1>1, <2>1, <2>3, <2>5 DEF TodoInv
<1> QED
  BY <1>1, <1>2, <1>3, <1>4, WorldStep

\* Carrying out the first step of a list that is in order leaves the rest in
\* order: the step that would be missed is the one just done.
LEMMA OrderOfTail ==
    ASSUME NEW steps \in Seq(PlanSteps), steps # << >>, NEW cap, NEW capAfter,
           OrderOK(steps, cap),
           cap = "read_only" => capAfter = "read_only",
           Head(steps).id = "capability_posture.deactivate_write_protection"
              => capAfter = "read_only"
    PROVE  Tail(steps) \in Seq(PlanSteps) /\ OrderOK(Tail(steps), capAfter)
<1>1. /\ Tail(steps) \in Seq(PlanSteps) /\ Len(steps) \in Nat
      /\ Len(Tail(steps)) = Len(steps) - 1
      /\ Head(steps) = steps[1]
      /\ \A i \in 1 .. Len(Tail(steps)) : Tail(steps)[i] = steps[i + 1]
  BY HeadTailProperties, LenProperties
<1>2. DOMAIN Tail(steps) = 1 .. Len(Tail(steps)) /\ DOMAIN steps = 1 .. Len(steps)
  BY <1>1, LenProperties
<1>3. ASSUME NEW i \in DOMAIN Tail(steps), capAfter # "read_only",
             Tail(steps)[i].id = "anchor_assurance.deactivate_anchor"
      PROVE  \E j \in 1 .. i - 1 :
                Tail(steps)[j].id = "capability_posture.deactivate_write_protection"
  <2>1. i + 1 \in DOMAIN steps /\ steps[i + 1].id = "anchor_assurance.deactivate_anchor"
    BY <1>1, <1>2, <1>3
  <2>2. PICK k \in 1 .. (i + 1) - 1 :
            steps[k].id = "capability_posture.deactivate_write_protection"
    BY <1>3, <2>1 DEF OrderOK
  <2>3. k # 1
    BY <1>1, <1>3, <2>2
  <2>4. i \in Nat /\ k \in Nat /\ k - 1 \in 1 .. i - 1
    BY <1>1, <1>2, <1>3, <2>2, <2>3
  <2>5. k - 1 \in 1 .. Len(Tail(steps))
    BY <1>1, <1>2, <1>3, <2>4
  <2>6. Tail(steps)[k - 1] = steps[(k - 1) + 1]
    BY <1>1, <2>5
  <2>7. (k - 1) + 1 = k
    BY <2>4
  <2> QED
    BY <2>2, <2>4, <2>6, <2>7
<1> QED
  BY <1>1, <1>3 DEF OrderOK

\* One step of the plan is carried out, or the attempt ends.
LEMMA CarryStep ==
    ASSUME PostureInv, Carry
    PROVE  /\ PostureInv'
           /\ witness.up /\ ~witness'.up => DiscoverCapability(profile) = "read_only"
<1>1. /\ todo # << >>
      /\ UNCHANGED << exchange, export, clock, authz, consumed, reviewed, proc,
                      verdict, grants, acts >>
  BY DEF Carry
<1> PICK s : s = Head(todo)
  OBVIOUS
<1>2. \/ /\ profile' = ProfileAfter(s.id)
         /\ witness' = WitnessAfter(s.id)
         /\ store' = StoreAfter(s.id)
         /\ todo' = Tail(todo)
      \/ /\ todo' = << >>
         /\ UNCHANGED << profile, witness, store >>
  BY DEF Carry
<1>3. CASE todo' = << >> /\ UNCHANGED << profile, witness, store >>
  <2>1. WorldInv' /\ witness.value <= witness'.value
    BY <1>3 DEF PostureInv, WorldInv
  <2>2. ExportInv' /\ (Exported => Exported')
    BY <1>1, <2>1, ExportFrame DEF PostureInv
  <2>3. TodoInv'
    BY <1>3, EmptySeq DEF TodoInv, OrderOK
  <2> QED
    BY <1>1, <1>3, <2>1, <2>2, <2>3, WorldStep
<1>4. CASE /\ profile' = ProfileAfter(s.id) /\ witness' = WitnessAfter(s.id)
           /\ store' = StoreAfter(s.id) /\ todo' = Tail(todo)
  <2>1. WorldInv' /\ witness.value <= witness'.value
    <3>1. CASE s.id = "anchor_assurance.provision_hardware_witness_anchor"
      BY <1>4, <3>1 DEF PostureInv, WorldInv, WitnessAfter, StoreAfter, Settings, Files
    <3>2. CASE s.id # "anchor_assurance.provision_hardware_witness_anchor"
      <4>1. UNCHANGED store
        BY <1>4, <3>2 DEF StoreAfter
      <4>2. /\ witness' \in [config : Settings, up : BOOLEAN, value : Nat]
            /\ witness'.value = witness.value
        BY <1>4, <3>2 DEF PostureInv, WorldInv, WitnessAfter, Settings
      <4> QED
        BY <4>1, <4>2 DEF PostureInv, WorldInv
    <3> QED
      BY <3>1, <3>2
  <2>2. ExportInv' /\ (Exported => Exported')
    BY <1>1, <2>1, ExportFrame DEF PostureInv
  <2>3. TodoInv'
    <3> PICK cap, after : cap = DiscoverCapability(profile) /\ after = DiscoverCapability(profile')
      OBVIOUS
    <3>1. cap = "read_only" => after = "read_only"
      BY <1>4 DEF ProfileAfter, DiscoverCapability, GrantsWrite
    <3>2. s.id = "capability_posture.deactivate_write_protection" => after = "read_only"
      BY <1>4 DEF ProfileAfter, DiscoverCapability, GrantsWrite
    <3>3. todo \in Seq(PlanSteps) /\ OrderOK(todo, cap)
      BY DEF PostureInv, TodoInv
    <3>4. Tail(todo) \in Seq(PlanSteps) /\ OrderOK(Tail(todo), after)
      BY <1>1, <3>1, <3>2, <3>3, OrderOfTail
    <3>5. todo' \in Seq(PlanSteps) /\ OrderOK(todo', after)
      BY <1>4, <3>4
    <3> QED
      BY <3>5 DEF TodoInv
  <2>4. ASSUME witness.up, ~witness'.up
        PROVE  DiscoverCapability(profile) = "read_only"
    <3>1. s.id = "anchor_assurance.deactivate_anchor"
      BY <1>4, <2>4 DEF WitnessAfter, PostureInv, WorldInv
    <3>2. todo \in Seq(PlanSteps) /\ OrderOK(todo, DiscoverCapability(profile))
      BY DEF PostureInv, TodoInv
    <3>3. Len(todo) \in Nat /\ DOMAIN todo = 1 .. Len(todo) /\ 1 \in DOMAIN todo
          /\ todo[1] = s
      BY <1>1, <3>2, EmptySeq, LenProperties, HeadTailProperties
    <3> QED
      BY <3>1, <3>2, <3>3 DEF OrderOK
  <2> QED
    BY <1>1, <2>1, <2>2, <2>3, <2>4, WorldStep
<1> QED
  BY <1>2, <1>3, <1>4

LEMMA TickStep ==
    ASSUME PostureInv, Tick \/ UNCHANGED pvars
    PROVE  PostureInv'
<1>1. UNCHANGED << profile, store, witness, export, authz, consumed, reviewed, todo,
                   proc, verdict, grants >>
  BY DEF Tick, pvars
<1>2. WorldInv' /\ witness.value <= witness'.value
  BY <1>1 DEF PostureInv, WorldInv
<1>3. ExportInv' /\ (Exported => Exported')
  BY <1>1, <1>2, ExportFrame DEF PostureInv
<1>4. TodoInv'
  BY <1>1 DEF PostureInv, TodoInv
<1> QED
  BY <1>1, <1>2, <1>3, <1>4, WorldStep
-----------------------------------------------------------------------------
LEMMA NextInv == PostureInv /\ [Next]_pvars => PostureInv'
<1> SUFFICES ASSUME PostureInv, [Next]_pvars PROVE PostureInv'
  OBVIOUS
<1>1. ASSUME NEW p \in Processes,
             \/ RunPlan(p) \/ RunDoctor(p) \/ RunStartupCheck(p) \/ RunAuthorize(p)
             \/ RunWrite(p)
      PROVE  PostureInv'
  BY <1>1, RunStep
<1>2. ASSUME NEW p \in Processes, ReadStore(p) PROVE PostureInv'
  BY <1>2, ReadStoreStep
<1>3. ASSUME NEW p \in Processes, ReadWitness(p) PROVE PostureInv'
  BY <1>3, ReadWitnessStep
<1>4. ASSUME NEW p \in Processes, Consume(p) PROVE PostureInv'
  BY <1>4, ConsumeStep
<1>5. CASE SignAuthorization
  BY <1>5, SignAuthorizationStep
<1>6. CASE SignExport
  BY <1>6, SignExportStep
<1>7. CASE MoveWitness \/ RecordMark
  BY <1>7, GatedMutationStep
<1>8. CASE Edit
  BY <1>8, EditStep
<1>9. CASE Follow
  BY <1>9, FollowStep
<1>10. CASE Carry
  BY <1>10, CarryStep
<1>11. CASE Tick \/ UNCHANGED pvars
  BY <1>11, TickStep
<1> QED
  BY <1>1, <1>2, <1>3, <1>4, <1>5, <1>6, <1>7, <1>8, <1>9, <1>10, <1>11 DEF Next

\* What the invariant says of the grants, in terms of the plan reviewed.
LEMMA GrantsFollow == PostureInv => GrantsSound
<1> SUFFICES ASSUME PostureInv PROVE GrantsSound
  OBVIOUS
<1>1. ASSUME NEW g \in grants
      PROVE  LET r == authz[g.id].review IN
             /\ g.d = r.d /\ g.t = r.t /\ g.intent = authz[g.id].intent
             /\ AuthorizationLevelAtLeast(authz[g.id].risk,
                    StepOf(BuildPlan(g.d, g.t), g.step).level)
  <2> PICK x : x = authz[g.id]
    OBVIOUS
  <2>1. Requested(g) /\ Fresh(g)
    BY DEF PostureInv, GrantsInv
  <2>2. SignedFor(x)
    BY <2>1 DEF PostureInv, SignedInv, Requested
  <2>3. /\ g.d \in Discoveries /\ x.review.d \in Discoveries /\ x.review.t \in PlanTargets
        /\ PlanDigest(BuildPlan(g.d, g.t)) = PlanDigest(BuildPlan(x.review.d, x.review.t))
    BY <2>1, <2>2 DEF Fresh, SignedFor
  <2>4. g.d = x.review.d /\ g.t = x.review.t
    BY <2>3, DigestDeterminesPlan
  <2>5. g.step \in x.steps /\ g.intent = x.intent
    BY <2>1 DEF Requested
  <2>6. AuthorizationLevelAtLeast(RiskClass(BuildPlan(x.review.d, x.review.t), x.steps),
            StepOf(BuildPlan(x.review.d, x.review.t), g.step).level)
    BY <2>2, <2>3, <2>5, RiskClassCovers DEF SignedFor
  <2>7. AuthorizationLevelAtLeast(x.risk, StepOf(BuildPlan(g.d, g.t), g.step).level)
    BY <2>2, <2>4, <2>6 DEF SignedFor
  <2> QED
    BY <2>4, <2>5, <2>7
<1>2. GrantedAsReviewed
  BY <1>1 DEF GrantedAsReviewed
<1>3. GrantWithinRisk
  BY <1>1 DEF GrantWithinRisk
<1>4. GrantedOnce
  BY DEF PostureInv, GrantsInv
<1> QED
  BY <1>2, <1>3, <1>4 DEF GrantsSound
-----------------------------------------------------------------------------
\* Discovery reads the store and the witness apart while writes run; yet an
\* anchor is reported verified, and the doctor ready, only when both agreed
\* at the moment the baseline was read or exported (security_discovery.py,
\* security_doctor.py).
THEOREM VerifiedMeansAgreement == Spec => []VerifiedWasTrue
<1>1. PostureInv => VerifiedWasTrue
  BY DEF PostureInv
<1> QED
  BY <1>1, InitInv, NextInv, PTL DEF Spec

\* However many coordinators race, an authorization is granted once, for the
\* very plan its authority reviewed, within the risk class it was signed for
\* (execution_coordinator.py, security_plan_digest.py).
THEOREM GrantsAreSound == Spec => []GrantsSound
BY InitInv, NextInv, GrantsFollow, PTL DEF Spec

\* A plan carried out in its order never stops the witness while WRITE is on
\* (security_plan.py:955).
THEOREM WriteGoesBeforeAnchor == Spec => AnchorOutlivesWrite
<1>1. PostureInv /\ [Next]_pvars =>
          [todo # << >> /\ witness.up /\ ~witness'.up
              => DiscoverCapability(profile) = "read_only"]_pvars
  <2> SUFFICES ASSUME PostureInv, Next, todo # << >>, witness.up, ~witness'.up
               PROVE  DiscoverCapability(profile) = "read_only"
    OBVIOUS
  <2>1. CASE Carry
    BY <2>1, CarryStep
  <2>2. CASE ~Carry
    <3>1. witness' = witness \/ MoveWitness \/ Edit
      BY <2>2 DEF Next, RunPlan, RunDoctor, RunStartupCheck, RunAuthorize, RunWrite,
                  Start, ReadStore, ReadWitness, Consume, SignAuthorization, SignExport,
                  RecordMark, Follow, Tick
    <3>2. ~MoveWitness
      BY DEF MoveWitness, PostureInv, WorldInv
    <3>3. ~Edit
      BY DEF Edit
    <3> QED
      BY <3>1, <3>2, <3>3
  <2> QED
    BY <2>1, <2>2
<1> QED
  BY <1>1, InitInv, NextInv, PTL DEF Spec, AnchorOutlivesWrite
=============================================================================
