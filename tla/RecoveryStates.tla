--------------------------- MODULE RecoveryStates ---------------------------
(***************************************************************************)
(* The closed recovery state machine of a Tier 1 contract, the state sets  *)
(* the store, the rate policy and the idempotency index select on, and the *)
(* fault classification of the executor.  Constant-level definitions only. *)
(***************************************************************************)

RecoveryState ==
  {"preparing", "prepared", "executing", "verified", "failed",
   "reconciliation", "rolling_back", "rolled_back", "rollback_failed",
   "expired"}

\* LEGAL_TRANSITIONS whose rule is not manual_only.
AutomaticTransitions ==
  ({"preparing"} \X {"prepared", "failed", "expired"})
    \cup ({"prepared"} \X {"executing", "failed", "expired"})
    \cup ({"executing"} \X {"verified", "failed", "reconciliation"})
    \cup ({"verified"} \X {"rolling_back"})
    \cup ({"rolling_back"} \X {"rolled_back", "rollback_failed", "reconciliation"})

\* The exits of RECONCILIATION, all of them manual_only.
ManualTransitions ==
  {"reconciliation"} \X
    {"verified", "failed", "rolling_back", "rolled_back", "rollback_failed"}

\* require_transition(current, target, manual=...)
RequireTransition(current, target, manual) ==
  \/ <<current, target>> \in AutomaticTransitions
  \/ manual /\ <<current, target>> \in ManualTransitions

\* is_terminal: no outgoing entry in LEGAL_TRANSITIONS.
IsTerminal(state) ==
  \A t \in RecoveryState :
    <<state, t>> \notin AutomaticTransitions \cup ManualTransitions

\* A historical contract in one of these forbids a fresh attempt at the key.
BlockingStates ==
  {"preparing", "prepared", "executing", "verified", "reconciliation",
   "rolling_back", "rollback_failed"}

\* A contract in one of these holds its target's reservation.
ReservationStates ==
  {"executing", "reconciliation", "rolling_back", "rollback_failed"}

InterruptedStates == {"executing", "rolling_back"}

CooldownStates == {"verified", "failed", "rolled_back", "rollback_failed"}

InFlightStates == {"executing", "rolling_back"}

----------------------------------------------------------------------------
\* Operator declarations that resolve a RECONCILIATION, by what was uncertain.
ForwardOutcomes  == {"confirmed_applied", "confirmed_not_applied"}
RollbackOutcomes == {"confirmed_rollback_applied", "confirmed_rollback_not_applied"}
ReconciliationOutcome == ForwardOutcomes \cup RollbackOutcomes

OutcomeTargetState ==
  [o \in ReconciliationOutcome |->
     CASE o = "confirmed_applied"              -> "verified"
       [] o = "confirmed_not_applied"          -> "failed"
       [] o = "confirmed_rollback_applied"     -> "rolled_back"
       [] o = "confirmed_rollback_not_applied" -> "rollback_failed"]

\* Mutant: any conclusion is accepted, whatever was interrupted.
OutcomesForAny(origin) == ReconciliationOutcome

\* The outcomes an operator may declare when `origin' was interrupted.
OutcomesFor(origin) ==
  CASE origin = "executing"    -> ForwardOutcomes
    [] origin = "rolling_back" -> RollbackOutcomes
    [] OTHER                   -> {}

----------------------------------------------------------------------------
EffectKnowledge ==
  {"proven_none", "verified_success", "ambiguous", "verified_failure"}

\* Mutant: an unanswered request counts as a failed one.
ClassifyOptimistically(duringRollback, knowledge) ==
  CASE knowledge = "verified_success" -> IF duringRollback THEN "rolled_back" ELSE "verified"
    [] OTHER                          -> IF duringRollback THEN "rollback_failed" ELSE "failed"

\* classify_fault: the state a send outcome leads to, during a rollback or not.
ClassifyFault(duringRollback, knowledge) ==
  CASE knowledge = "ambiguous"        -> "reconciliation"
    [] knowledge = "verified_success" -> IF duringRollback THEN "rolled_back" ELSE "verified"
    [] OTHER                          -> IF duringRollback THEN "rollback_failed" ELSE "failed"
=============================================================================
