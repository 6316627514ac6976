---------------------------- MODULE SecurityPlan ----------------------------
(***************************************************************************)
(* The posture planner and the digest over its plan: security_plan.py and  *)
(* security_plan_digest.py as pure operators.  A deployment has two axes,  *)
(* what it may do (capability posture) and what protects its store against *)
(* rollback (anchor assurance).  A plan is computed from a discovery d,    *)
(*   [capability, value, evidence, baseline, witness, at],                 *)
(* and a target t = [capability, anchor].  Wording is left out; a step     *)
(* keeps every field a consumer or a reviewer can act on, its order is its *)
(* place in the sequence.                                                  *)
(***************************************************************************)
EXTENDS Naturals, Sequences

CapabilityPosture == {"read_only", "write_protected"}
AnchorAssurance == {"none", "software", "hardware_witness", "unknown"}

AnchorEvidenceState ==
    { "unconfigured", "configuration_invalid", "configured_not_created",
      "store_error", "configured_unprovisioned", "provisioned_unverified",
      "provisioned_unreachable", "provisioned_verified",
      "provisioned_mismatch" }

\* _coerce_and_validate_targets: "unknown" is evidence, never a target.
PlanTargets ==
    [capability : CapabilityPosture, anchor : AnchorAssurance \ {"unknown"}]

TargetValidity(t) ==
    CASE t.capability = "write_protected" /\ t.anchor = "none" ->
             "invalid_combination"
      [] t.anchor = "software" -> "valid_not_implemented"
      [] OTHER -> "valid"

AnchorTransitionKind(current, target) ==
    IF current = target THEN "no_change"
    ELSE IF current = "none" THEN "upgrade"
    ELSE IF target = "none" THEN "downgrade"
    ELSE "lateral"

CapabilityTransitionKind(current, target) ==
    IF current = target THEN "no_change"
    ELSE IF target = "write_protected" THEN "upgrade"
    ELSE "downgrade"

AnchorEvidenceIsClean(evidence, target) ==
    evidence = IF target = "none" THEN "unconfigured" ELSE "provisioned_verified"

\* PlanStep
PlanStep(id, axis, class, level, available, impact, ready, blocked) ==
    [ id |-> id, axis |-> axis, class |-> class, level |-> level,
      available |-> available, impact |-> impact, ready |-> ready,
      blocked |-> blocked ]

NoChange(id, axis) ==
    PlanStep(id, axis, "none", "none_required", TRUE, "none", TRUE, FALSE)

AnchorStep(id, class, level, available, impact) ==
    PlanStep(id, "anchor_assurance", class, level, available, impact,
             available, ~available)

\* Only a hardware witness can be deactivated.
AnchorDowngrade(current) ==
    PlanStep("anchor_assurance.deactivate_anchor", "anchor_assurance",
             "deactivation", "configuration_change",
             current = "hardware_witness", "decreases_assurance",
             TRUE, current # "hardware_witness")

AnchorAssuranceSteps(d, target, transition) ==
    CASE transition = "no_change" -> << NoChange("anchor_assurance.no_change", "anchor_assurance") >>
      [] transition = "downgrade" -> << AnchorDowngrade(d.value) >>
      [] OTHER ->
           (IF transition = "lateral" /\ d.value = "hardware_witness"
            THEN << AnchorStep("anchor_assurance.deactivate_current_anchor", "deactivation",
                        "configuration_change", TRUE, "decreases_assurance") >>
            ELSE << >>)
        \o (IF target = "hardware_witness"
            THEN << AnchorStep("anchor_assurance.provision_hardware_witness_anchor",
                        "anchor_provisioning",
                        "interactive_hardware_confirmation", TRUE,
                        "increases_assurance"),
                    AnchorStep("anchor_assurance.deploy_witness_daemon", "service_deployment",
                        "interactive_hardware_confirmation", TRUE,
                        "increases_assurance") >>
            ELSE << AnchorStep("anchor_assurance.provision_software_witness_anchor",
                        "anchor_provisioning", "undetermined_not_implemented",
                        FALSE, "increases_assurance") >>)

\* The activation decision is always blocked: this planner never performs it.
Milestone9ActivationStep(ready) ==
    PlanStep("capability_posture.milestone_9_activation", "capability_posture",
             "activation", "milestone_9_activation_decision", TRUE,
             "enables_mutation_capability", ready, TRUE)

CapabilityUpgradeStep(id, ready) ==
    PlanStep(id, "capability_posture",
             "configuration", "configuration_change", TRUE,
             "enables_mutation_capability", ready, ~ready)

CapabilityPostureSteps(target, transition, ready) ==
    CASE transition = "no_change" ->
             << NoChange("capability_posture.no_change", "capability_posture") >>
          \o (IF target = "write_protected"
              THEN << Milestone9ActivationStep(ready) >> ELSE << >>)
      [] transition = "downgrade" ->
             << PlanStep("capability_posture.deactivate_write_protection",
                    "capability_posture", "deactivation",
                    "configuration_change", TRUE,
                    "disables_mutation_capability", TRUE, FALSE) >>
      [] OTHER ->
             << CapabilityUpgradeStep("capability_posture.populate_write_endpoints", ready),
                CapabilityUpgradeStep("capability_posture.set_profile_engineer", ready),
                Milestone9ActivationStep(ready) >>

BlockForMismatch(step) ==
    IF step.class = "none" THEN step
    ELSE [step EXCEPT !.ready = FALSE, !.blocked = TRUE]

\* Bug: the anchor's steps come first whatever the plan does to WRITE.
AnchorFirst(capTransition, anchorTarget, anchorTransition) == FALSE

\* WRITE is switched off before the anchor it depends on.
CapabilityMustGoFirst(capTransition, anchorTarget, anchorTransition) ==
    /\ capTransition = "downgrade"
    /\ anchorTarget = "none"
    /\ anchorTransition # "no_change"

OverallStatus(mismatch, validity, capTransition, anchorTransition) ==
    IF mismatch THEN "blocked_anomaly_detected"
    ELSE IF validity = "valid_not_implemented" THEN "blocked_not_implemented"
    ELSE IF capTransition = "no_change" /\ anchorTransition = "no_change"
         THEN "already_satisfied"
    ELSE "plan_generated"

\* _build_plan_from_discovery
BuildPlan(d, t) ==
    LET validity == TargetValidity(t)
        capT  == CapabilityTransitionKind(d.capability, t.capability)
        ancT  == AnchorTransitionKind(d.value, t.anchor)
        ready == d.value = t.anchor /\ AnchorEvidenceIsClean(d.evidence, t.anchor)
        anc   == AnchorAssuranceSteps(d, t.anchor, ancT)
        cap   == CapabilityPostureSteps(t.capability, capT, ready)
        steps == IF CapabilityMustGoFirst(capT, t.anchor, ancT)
                 THEN cap \o anc ELSE anc \o cap
        mismatch == d.evidence = "provisioned_mismatch"
        plan(status, safe, ss) ==
            [ current |-> d, target |-> t, validity |-> validity,
              status |-> status, safe |-> safe, steps |-> ss ]
    IN  IF validity = "invalid_combination"
        THEN plan("blocked_invalid_target", FALSE, << >>)
        ELSE IF d.value = "unknown"
        THEN plan("blocked_indeterminate_current_state", FALSE, << >>)
        ELSE plan(OverallStatus(mismatch, validity, capT, ancT),
                  validity = "valid" /\ ~mismatch,
                  IF mismatch
                  THEN [i \in DOMAIN steps |-> BlockForMismatch(steps[i])]
                  ELSE steps)

StepIds(plan) == {plan.steps[i].id : i \in DOMAIN plan.steps}
StepOf(plan, id) == plan.steps[CHOOSE i \in DOMAIN plan.steps : plan.steps[i].id = id]
-----------------------------------------------------------------------------
(* The digest: what a signature over a plan binds.  Injective, so the      *)
(* payload stands for its digest.                                          *)

StepPayload(plan, i) ==
    LET s == plan.steps[i]
    IN  [id |-> s.id, order |-> i, axis |-> s.axis, class |-> s.class,
         level |-> s.level]

\* Bug: the values alone are bound, not the evidence behind them.
ValuesOnly(d) == << d.capability, d.value >>

EvidenceFingerprintPayload(d) ==
    << d.capability, d.value, d.evidence, d.baseline, d.witness, d.at >>

PlanDigest(plan) ==
    [ target      |-> plan.target,
      validity    |-> plan.validity,
      steps       |-> [i \in DOMAIN plan.steps |-> StepPayload(plan, i)],
      fingerprint |-> EvidenceFingerprintPayload(plan.current),
      status      |-> plan.status,
      safe        |-> plan.safe ]
=============================================================================
