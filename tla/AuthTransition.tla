--------------------------- MODULE AuthTransition --------------------------
(***************************************************************************)
(* The change of the appliance's authentication methods around bootstrap:  *)
(* key authentication alone, then key and basic, then key alone again.     *)
(* Each of the two changes is sent at most once over a fresh transport,    *)
(* its answer may be lost, and the outcome is what a later observation     *)
(* shows. A request whose answer was lost may still be on its way while    *)
(* the coordinator observes, and take effect afterwards or never.          *)
(* The bounded retries of one observation are folded into its outcome.     *)
(***************************************************************************)
EXTENDS Integers, FiniteSets

CONSTANT MaxUnrelated   \* bound: edits of the unrelated settings

ASSUME UnrelatedBound == MaxUnrelated \in Nat

VARIABLES
    methods,        \* the appliance's methods: "key" or "key_and_basic"
    unrelated,      \* the version of its other settings
    onTheWay,       \* changes sent whose effect is still open
    coord,          \* the coordinator object
    report          \* the last AuthTransitionResult

authVars == <<methods, unrelated, onTheWay, coord, report>>

Target == [enable |-> "key_and_basic", restore |-> "key"]
Source == [enable |-> "key", restore |-> "key_and_basic"]
ConfirmedState == [enable |-> "basicauth_confirmed", restore |-> "keyauth_restored"]
UnchangedState == [enable |-> "keyauth_confirmed", restore |-> "basicauth_confirmed"]
SentState == [enable |-> "basicauth_enable_sent", restore |-> "restore_sent"]
IndeterminateState == [enable |-> "basicauth_enable_indeterminate", restore |-> "restore_indeterminate"]
Checking == [enable |-> "enable_check", restore |-> "restore_check"]
ObservationFindings == {"malformed_response", "infrastructure_failure", "reconnect_exhausted"}

NoReport == [state |-> "none", delivery |-> "not_attempted", finding |-> "none"]

AuthInit ==
    /\ methods \in {"key", "key_and_basic"}
    /\ unrelated = 0
    /\ onTheWay = {}
    /\ coord = [state |-> "none", pc |-> "idle", baseline |-> 0, delivery |-> "not_attempted",
                attempted |-> {}, sent |-> [enable |-> 0, restore |-> 0]]
    /\ report = NoReport

\* _result
AuthReport(state, delivery, finding) ==
    /\ coord' = [coord EXCEPT !.state = state, !.pc = "idle"]
    /\ report' = [state |-> state, delivery |-> delivery, finding |-> finding]
    /\ UNCHANGED <<methods, unrelated, onTheWay>>

OutOfBand(delivery, finding) == AuthReport("out_of_band_recovery_required", delivery, finding)

\* The sequence each call insists on.
InSequence(op) ==
    IF op = "enable" THEN "enable" \notin coord.attempted /\ coord.state = "none"
    ELSE "restore" \notin coord.attempted /\ coord.state = "basicauth_confirmed"

\* enable_basic_auth and restore_key_auth up to the change itself: the
\* appliance must be observed in the state the change starts from.
AuthCall(op) ==
    /\ coord.pc = "idle"
    /\ IF ~InSequence(op)
       THEN OutOfBand("not_attempted", "invalid_sequence")
       ELSE \/ \E finding \in ObservationFindings : OutOfBand("not_attempted", finding)
            \/ /\ op = "restore" /\ unrelated # coord.baseline
               /\ OutOfBand("not_attempted", "unrelated_settings_changed")
            \/ /\ methods # Source[op] /\ (op = "restore" => unrelated = coord.baseline)
               /\ OutOfBand("not_attempted", "unexpected_initial_state")
            \/ /\ methods = Source[op] /\ (op = "restore" => unrelated = coord.baseline)
               /\ coord' = [coord EXCEPT !.pc = op, !.attempted = @ \cup {op},
                                         !.state = IF op = "enable" THEN "keyauth_confirmed" ELSE @,
                                         !.baseline = IF op = "enable" THEN unrelated ELSE @]
               /\ UNCHANGED <<methods, unrelated, onTheWay, report>>

\* A lost answer taken for a request that never left.
LostAsNotSent(answer) ==
    IF answer = "lost" THEN "known_not_sent" ELSE "response_received"

\* The answer of a change that was sent: received, or lost with the request
\* still on its way.
DeliveryOf(answer) ==
    IF answer = "lost" THEN "sent_result_indeterminate" ELSE "response_received"

\* _fresh_mutation: no transport, or a request known not to have left; or one
\* sent, whose effect is open until the appliance carries it out.
AuthMutate(op) ==
    /\ coord.pc = op
    /\ \/ /\ coord' = [coord EXCEPT !.pc = Checking[op], !.delivery = "known_not_sent"]
          /\ UNCHANGED onTheWay
       \/ \E answer \in {"received", "lost"} :
            /\ coord' = [coord EXCEPT !.pc = Checking[op], !.delivery = DeliveryOf(answer),
                            !.sent[op] = @ + 1,
                            !.state = IF answer = "lost" THEN IndeterminateState[op] ELSE SentState[op]]
            /\ onTheWay' = onTheWay \cup {op}
    /\ UNCHANGED <<methods, unrelated, report>>

\* The verdict after the change, from what is observed.
AuthVerdict(op, observed) ==
    CASE observed = Target[op] -> AuthReport(ConfirmedState[op], coord.delivery, "expected_state_confirmed")
      [] observed = Source[op] /\ coord.delivery \in {"known_not_sent", "sent_result_indeterminate"} ->
           AuthReport(UnchangedState[op], coord.delivery, "mutation_not_observed")
      [] OTHER -> OutOfBand(coord.delivery, "unexpected_post_state")

AuthCheck(op) ==
    /\ coord.pc = Checking[op]
    /\ \/ \E finding \in ObservationFindings : OutOfBand(coord.delivery, finding)
       \/ /\ unrelated # coord.baseline
          /\ OutOfBand(coord.delivery, "unrelated_settings_changed")
       \/ /\ unrelated = coord.baseline
          /\ AuthVerdict(op, methods)

\* The appliance carries out a change, or drops it.
TakeEffect(op) ==
    /\ op \in onTheWay
    /\ onTheWay' = onTheWay \ {op}
    /\ methods' \in {methods, Target[op]}
    /\ UNCHANGED <<unrelated, coord, report>>

EditUnrelated ==
    /\ unrelated < MaxUnrelated
    /\ unrelated' = unrelated + 1
    /\ UNCHANGED <<methods, onTheWay, coord, report>>

AuthNext ==
    \/ \E op \in {"enable", "restore"} : AuthCall(op) \/ AuthMutate(op) \/ AuthCheck(op) \/ TakeEffect(op)
    \/ EditUnrelated

AuthSpec == AuthInit /\ [][AuthNext]_authVars

-----------------------------------------------------------------------------
(* Neither change is ever sent twice, also when it was not observed to have *)
(* taken effect and the coordinator is back in the state it started from.   *)
SentAtMostOnce == \A op \in {"enable", "restore"} : coord.sent[op] <= 1

(* Once the coordinator reports the original method restored, basic         *)
(* authentication is off and stays off: no change of its own is still on    *)
(* its way that could turn it on again.                                     *)
RestoredStaysRestored == coord.state = "keyauth_restored" => methods = "key"

(* When an enabling change takes effect after the coordinator looked,       *)
(* basic authentication is on while its state says key authentication       *)
(* alone; the result it gave then never claims that the change was not      *)
(* sent.                                                                    *)
LateEffectIsReported ==
    (coord.pc = "idle" /\ coord.state = "keyauth_confirmed" /\ methods = "key_and_basic")
        => report.delivery = "sent_result_indeterminate"

(* The transition sends each change once, and what it reports stays true    *)
(* when a change takes effect late (security_auth_transition.py).           *)
TransitionSound == SentAtMostOnce /\ RestoredStaysRestored /\ LateEffectIsReported
=============================================================================
