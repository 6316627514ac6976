-------------------------- MODULE OperationsProofs --------------------------
(***************************************************************************)
(* Proofs about the programs that share no state with each other: the      *)
(* authentication transition, the nonce counter, the laboratory ceremony,  *)
(* the setup commands and their wizard, the write adapters, the read       *)
(* server and the guidance tool.                                           *)
(***************************************************************************)
EXTENDS AuthTransition, NonceCounter, LabCredential, WriteAdapters, SetupCommands,
        SetupWizard, ReadServer, PfrestDocs,
        FiniteSetTheorems, SequenceTheorems, TLAPS

Op == {"enable", "restore"}

AuthState ==
    {"none", "out_of_band_recovery_required", "basicauth_confirmed", "keyauth_restored",
     "keyauth_confirmed", "basicauth_enable_sent", "restore_sent",
     "basicauth_enable_indeterminate", "restore_indeterminate"}

AuthTypeOK ==
    /\ methods \in {"key", "key_and_basic"} /\ unrelated \in Nat
    /\ onTheWay \subseteq Op
    /\ coord \in [state : AuthState, pc : {"idle", "enable", "restore", "enable_check", "restore_check"},
                  baseline : Nat,
                  delivery : {"not_attempted", "known_not_sent", "sent_result_indeterminate", "response_received"},
                  attempted : SUBSET Op, sent : [Op -> Nat]]
    /\ report.delivery \in {"not_attempted", "known_not_sent", "sent_result_indeterminate", "response_received"}

\* A change is sent at most once, in its own call, and the second change only
\* after the first was seen to have taken effect.
AuthSentInv ==
    /\ \A op \in Op : coord.sent[op] = 0 \/ (coord.sent[op] = 1 /\ op \in coord.attempted /\ coord.pc # op)
    /\ \A op \in Op : coord.pc \in {op, Checking[op]} => op \in coord.attempted
    /\ \A op \in onTheWay : coord.sent[op] = 1
    /\ coord.state = "none" => coord.attempted = {}
    /\ coord.state \in {"basicauth_confirmed", "keyauth_restored"} \/ "restore" \in coord.attempted =>
         "enable" \in coord.attempted /\ coord.pc \notin {"enable", "enable_check"} /\ "enable" \notin onTheWay

\* From the check before the enabling change on, basic authentication is on
\* only if that change has taken effect, and nothing is open if it was not sent.
AuthEnableInv ==
    /\ coord.pc = "enable" => methods = "key" /\ onTheWay = {}
    /\ coord.pc = "enable_check" =>
         /\ "restore" \notin onTheWay
         /\ methods = "key_and_basic" => "enable" \notin onTheWay
         /\ coord.delivery = "known_not_sent" => methods = "key" /\ onTheWay = {}
    /\ coord.pc = "idle" /\ coord.state = "keyauth_confirmed" =>
         \/ report.delivery = "sent_result_indeterminate"
         \/ methods = "key" /\ onTheWay = {}

AuthInv == AuthTypeOK /\ AuthSentInv /\ AuthEnableInv /\ RestoredStaysRestored

LEMMA AuthInitInv == AuthInit => AuthInv
<1> SUFFICES ASSUME AuthInit PROVE AuthInv
  OBVIOUS
<1>1. /\ coord.sent \in [Op -> Nat] /\ coord.sent["enable"] = 0 /\ coord.sent["restore"] = 0
      /\ coord.state = "none" /\ coord.pc = "idle" /\ coord.attempted = {} /\ onTheWay = {}
  BY DEF AuthInit, Op
<1>2. AuthTypeOK
  BY <1>1 DEF AuthInit, AuthTypeOK, NoReport, AuthState
<1> QED
  BY <1>1, <1>2 DEF AuthInv, AuthSentInv, AuthEnableInv, RestoredStaysRestored, Op, Checking

\* Every field of the coordinator but its state and its place in the call.
SameAuthCall ==
    /\ coord'.baseline = coord.baseline /\ coord'.delivery = coord.delivery
    /\ coord'.attempted = coord.attempted /\ coord'.sent = coord.sent

LEMMA AuthReportIs ==
    ASSUME AuthTypeOK, NEW st \in AuthState, NEW d, NEW f, AuthReport(st, d, f)
    PROVE  /\ coord'.state = st /\ coord'.pc = "idle" /\ SameAuthCall /\ report'.delivery = d
           /\ UNCHANGED <<methods, unrelated, onTheWay>>
           /\ d \in {"not_attempted", "known_not_sent", "sent_result_indeterminate", "response_received"} =>
                AuthTypeOK'
  BY DEF AuthTypeOK, AuthReport, SameAuthCall

\* A report that claims nothing of the methods keeps the invariant.
LEMMA OutOfBandKeeps ==
    ASSUME AuthInv, NEW d \in {"not_attempted", "known_not_sent", "sent_result_indeterminate", "response_received"},
           NEW f, OutOfBand(d, f)
    PROVE  AuthInv'
<1>1. /\ coord'.state = "out_of_band_recovery_required" /\ coord'.pc = "idle" /\ SameAuthCall
      /\ UNCHANGED <<methods, unrelated, onTheWay>> /\ AuthTypeOK'
  BY AuthReportIs DEF OutOfBand, AuthInv, AuthState
<1> QED
  BY <1>1 DEF AuthInv, AuthSentInv, AuthEnableInv, RestoredStaysRestored, SameAuthCall, Op, Checking

LEMMA AuthCallKeeps ==
    ASSUME AuthInv, NEW op \in Op, AuthCall(op) PROVE AuthInv'
<1>1. ASSUME NEW f, OutOfBand("not_attempted", f) PROVE AuthInv'
  BY <1>1, OutOfBandKeeps
<1>2. ASSUME InSequence(op), methods = Source[op],
             coord' = [coord EXCEPT !.pc = op, !.attempted = @ \cup {op},
                                    !.state = IF op = "enable" THEN "keyauth_confirmed" ELSE @,
                                    !.baseline = IF op = "enable" THEN unrelated ELSE @],
             UNCHANGED <<methods, unrelated, onTheWay, report>>
      PROVE  AuthInv'
  <2>1. /\ coord'.pc = op /\ coord'.attempted = coord.attempted \cup {op}
        /\ coord'.state = IF op = "enable" THEN "keyauth_confirmed" ELSE coord.state
        /\ coord'.sent = coord.sent /\ coord'.delivery = coord.delivery
        /\ AuthTypeOK'
    BY <1>2 DEF AuthInv, AuthTypeOK, AuthState, Op
  <2>2. coord.pc = "idle"
    BY DEF AuthCall
  <2>3. CASE op = "enable"
    <3>1. coord.attempted = {} /\ methods = "key" /\ onTheWay = {} /\ coord.sent["enable"] = 0 /\ coord.sent["restore"] = 0
      BY <1>2, <2>3 DEF InSequence, Source, AuthInv, AuthSentInv, AuthTypeOK, Op
    <3> QED
      BY <1>2, <2>1, <2>2, <2>3, <3>1
      DEF AuthInv, AuthSentInv, AuthEnableInv, RestoredStaysRestored, Op, Checking
  <2>4. CASE op = "restore"
    <3>1. coord.state = "basicauth_confirmed" /\ "restore" \notin coord.attempted
      BY <1>2, <2>4 DEF InSequence
    <3> QED
      BY <1>2, <2>1, <2>2, <2>4, <3>1
      DEF AuthInv, AuthSentInv, AuthEnableInv, RestoredStaysRestored, Op, Checking
  <2> QED
    BY <2>3, <2>4 DEF Op
<1> QED
  BY <1>1, <1>2 DEF AuthCall

LEMMA AuthMutateKeeps ==
    ASSUME AuthInv, NEW op \in Op, AuthMutate(op) PROVE AuthInv'
<1>0. /\ coord.pc = op /\ UNCHANGED <<methods, unrelated, report>>
      /\ Checking[op] \in {"enable_check", "restore_check"}
  BY DEF AuthMutate, Checking, Op
<1>1. CASE /\ coord' = [coord EXCEPT !.pc = Checking[op], !.delivery = "known_not_sent"]
           /\ UNCHANGED onTheWay
  <2>1. /\ coord'.pc = Checking[op] /\ coord'.delivery = "known_not_sent" /\ coord'.state = coord.state
        /\ coord'.attempted = coord.attempted /\ coord'.sent = coord.sent /\ AuthTypeOK'
    BY <1>0, <1>1 DEF AuthInv, AuthTypeOK
  <2> QED
    BY <1>0, <1>1, <2>1 DEF AuthInv, AuthSentInv, AuthEnableInv, RestoredStaysRestored, Op, Checking
<1>2. ASSUME NEW response \in {"received", "lost"},
             coord' = [coord EXCEPT !.pc = Checking[op], !.delivery = DeliveryOf(response),
                            !.sent[op] = @ + 1,
                            !.state = IF response = "lost" THEN IndeterminateState[op] ELSE SentState[op]],
             onTheWay' = onTheWay \cup {op}
      PROVE  AuthInv'
  <2> DEFINE st == IF response = "lost" THEN IndeterminateState[op] ELSE SentState[op]
             n == [coord.sent EXCEPT ![op] = @ + 1]
  <2>0. /\ st \in AuthState \ {"none", "basicauth_confirmed", "keyauth_restored", "keyauth_confirmed"}
        /\ DeliveryOf(response) \in {"sent_result_indeterminate", "response_received"}
    BY DEF IndeterminateState, SentState, AuthState, Op, DeliveryOf
  <2>1. coord.sent[op] = 0 /\ op \in coord.attempted /\ coord.sent \in [Op -> Nat]
    BY <1>0 DEF AuthInv, AuthSentInv, AuthTypeOK, Op
  <2>2. n \in [Op -> Nat] /\ n[op] = 1 /\ \A p \in Op : p # op => n[p] = coord.sent[p]
    BY <2>1
  <2>3. coord' = [coord EXCEPT !.pc = Checking[op], !.delivery = DeliveryOf(response), !.sent = n, !.state = st]
    BY <1>2 DEF AuthInv, AuthTypeOK
  <2> HIDE DEF n, st
  <2>4. /\ coord'.pc = Checking[op] /\ coord'.delivery = DeliveryOf(response) /\ coord'.state = st
        /\ coord'.attempted = coord.attempted /\ coord'.sent = n
    BY <2>3 DEF AuthInv, AuthTypeOK
  <2>5. AuthTypeOK'
    BY <1>0, <1>2, <2>0, <2>2, <2>3 DEF AuthInv, AuthTypeOK
  <2> QED
    BY <1>0, <1>2, <2>0, <2>1, <2>2, <2>4, <2>5
    DEF AuthInv, AuthSentInv, AuthEnableInv, RestoredStaysRestored, Op, Checking
<1> QED
  BY <1>1, <1>2 DEF AuthMutate

LEMMA AuthCheckKeeps ==
    ASSUME AuthInv, NEW op \in Op, AuthCheck(op) PROVE AuthInv'
<1>0. /\ coord.pc = Checking[op]
      /\ coord.delivery \in {"not_attempted", "known_not_sent", "sent_result_indeterminate", "response_received"}
  BY DEF AuthCheck, AuthInv, AuthTypeOK
<1>1. ASSUME NEW f, OutOfBand(coord.delivery, f) PROVE AuthInv'
  BY <1>0, <1>1, OutOfBandKeeps
<1>2. ASSUME methods = Target[op], AuthReport(ConfirmedState[op], coord.delivery, "expected_state_confirmed")
      PROVE  AuthInv'
  <2>1. ConfirmedState[op] \in AuthState
    BY DEF ConfirmedState, AuthState, Op
  <2>2. /\ coord'.state = ConfirmedState[op] /\ coord'.pc = "idle" /\ SameAuthCall
        /\ UNCHANGED <<methods, unrelated, onTheWay>> /\ AuthTypeOK'
    BY <1>0, <1>2, <2>1, AuthReportIs DEF AuthInv
  <2> QED
    BY <1>0, <1>2, <2>2
    DEF AuthInv, AuthSentInv, AuthEnableInv, RestoredStaysRestored, SameAuthCall, Op, Checking,
        ConfirmedState, Target
<1>3. ASSUME methods = Source[op], coord.delivery \in {"known_not_sent", "sent_result_indeterminate"},
             AuthReport(UnchangedState[op], coord.delivery, "mutation_not_observed")
      PROVE  AuthInv'
  <2>1. UnchangedState[op] \in AuthState
    BY DEF UnchangedState, AuthState, Op
  <2>2. /\ coord'.state = UnchangedState[op] /\ coord'.pc = "idle" /\ SameAuthCall
        /\ UNCHANGED <<methods, unrelated, onTheWay>> /\ AuthTypeOK' /\ report'.delivery = coord.delivery
    BY <1>0, <1>3, <2>1, AuthReportIs DEF AuthInv
  <2> QED
    BY <1>0, <1>3, <2>2
    DEF AuthInv, AuthSentInv, AuthEnableInv, RestoredStaysRestored, SameAuthCall, Op, Checking,
        UnchangedState, Source
<1> QED
  BY <1>1, <1>2, <1>3 DEF AuthCheck, AuthVerdict

LEMMA AuthApplianceKeeps ==
    ASSUME AuthInv, EditUnrelated \/ \E op \in Op : TakeEffect(op) PROVE AuthInv'
<1>1. CASE EditUnrelated
  BY <1>1 DEF EditUnrelated, AuthInv, AuthTypeOK, AuthSentInv, AuthEnableInv, RestoredStaysRestored
<1>2. ASSUME NEW op \in Op, TakeEffect(op) PROVE AuthInv'
  <2>1. /\ op \in onTheWay /\ onTheWay' = onTheWay \ {op} /\ UNCHANGED <<unrelated, coord, report>>
        /\ methods' = methods \/ methods' = IF op = "enable" THEN "key_and_basic" ELSE "key"
    BY <1>2 DEF TakeEffect, Target, Op
  <2> QED
    BY <2>1 DEF AuthInv, AuthTypeOK, AuthSentInv, AuthEnableInv, RestoredStaysRestored, Op, Checking
<1> QED
  BY <1>1, <1>2

LEMMA AuthInvariance == AuthSpec => []AuthInv
<1>1. AuthInv /\ [AuthNext]_authVars => AuthInv'
  <2>1. CASE UNCHANGED authVars
    BY <2>1 DEF authVars, AuthInv, AuthTypeOK, AuthSentInv, AuthEnableInv, RestoredStaysRestored
  <2> QED
    BY <2>1, AuthCallKeeps, AuthMutateKeeps, AuthCheckKeeps, AuthApplianceKeeps DEF AuthNext, Op
<1> QED
  BY <1>1, AuthInitInv, PTL DEF AuthSpec

\* The coordinator (security_auth_transition.py) sends each change of the
\* authentication methods at most once; once it reports the original method
\* restored, basic authentication is off and stays off, although a change whose
\* answer was lost may take effect late; and a late effect is never one it
\* claimed not to have sent.
THEOREM TransitionIsSound == AuthSpec => []TransitionSound
<1>1. AuthInv => TransitionSound
  <2> SUFFICES ASSUME AuthInv PROVE TransitionSound
    OBVIOUS
  <2>1. SentAtMostOnce
    BY DEF AuthInv, AuthSentInv, SentAtMostOnce, Op
  <2>2. LateEffectIsReported
    BY DEF AuthInv, AuthEnableInv, LateEffectIsReported
  <2> QED
    BY <2>1, <2>2 DEF TransitionSound, AuthInv
<1> QED
  BY <1>1, AuthInvariance, PTL

-----------------------------------------------------------------------------
(* The nonce counter: a counter file with one process at a time never      *)
(* gives a value out twice.                                                *)

Value == 1..MaxNonceCounter

\* Every value given out so far is at most b.
UsedUpTo(b) == \A n \in Value : issued[n] > 0 => n <= b

\* What is on a file bounds what has been used; a torn file bounds nothing but
\* is never read.
Covers(c) ==
  /\ c = Absent => UsedUpTo(0)
  /\ c \in Nat => UsedUpTo(c) /\ c <= MaxNonceCounter

OneAtATime == \A p, q \in Proc : pc[p] # "closed" /\ pc[q] # "closed" => p = q

\* A process on its way to use a value has taken one above all used ones, and
\* has it on the disk when it uses it.
HoldsFresh ==
  \A p \in Proc :
    /\ pc[p] = "ready" => file \in Nat
    /\ pc[p] = "create" => value[p] = 0
    /\ pc[p] = "truncate" => value[p] > 0
    /\ pc[p] \in {"create", "truncate", "write", "sync"} =>
         IF value[p] = 0 THEN UsedUpTo(0) ELSE UsedUpTo(value[p] - 1)
    /\ pc[p] = "sync" => file = value[p]
    /\ pc[p] = "use" =>
         value[p] > 0 /\ UsedUpTo(value[p] - 1) /\ file = value[p] /\ durable = value[p]

NonceInv ==
  /\ TypeOK /\ NonceUnique
  /\ Covers(file) /\ Covers(durable)
  /\ OneAtATime /\ HoldsFresh

-----------------------------------------------------------------------------
LEMMA NonceInit == Init => NonceInv
<1> SUFFICES ASSUME Init PROVE NonceInv
  OBVIOUS
<1>1. TypeOK
  BY NonceAssumption DEF Init, TypeOK, Content, Location
<1>2. NonceUnique /\ Covers(file) /\ Covers(durable)
  BY DEF Init, NonceUnique, Covers, UsedUpTo, Absent, Value
<1>3. OneAtATime /\ HoldsFresh
  BY DEF Init, OneAtATime, HoldsFresh
<1> QED
  BY <1>1, <1>2, <1>3 DEF NonceInv

LEMMA NonceStep ==
  ASSUME Exclusive, NonceInv, NEW p \in Proc, Step(p) PROVE NonceInv'
<1> USE NonceAssumption DEF NonceInv, Go, Value
<1>0. \A q \in Proc : q # p /\ pc[p] # "closed" => pc[q] = "closed"
  BY DEF OneAtATime
<1>1. CASE Open(p)
  <2>0. \A q \in Proc : pc[q] = "closed"
    BY <1>1 DEF Open
  <2>1. /\ UNCHANGED <<file, durable, crashes, issued>>
        /\ \A q \in Proc : q # p => pc'[q] = "closed" /\ value'[q] = value[q]
        /\ \/ file = Absent /\ pc'[p] = "create" /\ value'[p] = 0
           \/ file \in Nat /\ pc'[p] = "ready" /\ value' = value
    BY <1>1, <2>0 DEF Open, Readable, TypeOK
  <2>2. TypeOK'
    <3>1. value' \in [Proc -> 0..MaxNonceCounter]
      BY <1>1 DEF Open, TypeOK
    <3>2. pc' \in [Proc -> Location]
      BY <1>1 DEF Open, TypeOK, Location
    <3> QED
      BY <2>1, <3>1, <3>2 DEF TypeOK
  <2>3. NonceUnique' /\ Covers(file)' /\ Covers(durable)'
    BY <2>1 DEF NonceUnique, Covers, UsedUpTo
  <2>4. OneAtATime'
    BY <2>1 DEF OneAtATime
  <2>5. HoldsFresh'
    BY <2>1 DEF HoldsFresh, Covers, UsedUpTo
  <2> QED
    BY <2>2, <2>3, <2>4, <2>5
<1>2. CASE TakeNext(p)
  <2>1. /\ UNCHANGED <<file, durable, crashes, issued>> /\ file \in Nat
        /\ \A q \in Proc : q # p => pc'[q] = "closed" /\ value'[q] = value[q]
        /\ \/ pc'[p] = "truncate" /\ value'[p] = file + 1 /\ file < MaxNonceCounter
           \/ pc'[p] = "closed" /\ value' = value
    BY <1>0, <1>2 DEF TakeNext, TypeOK, HoldsFresh
  <2>2. TypeOK'
    BY <1>2, <2>1 DEF TakeNext, TypeOK, Location
  <2>3. NonceUnique' /\ Covers(file)' /\ Covers(durable)'
    BY <2>1 DEF NonceUnique, Covers, UsedUpTo
  <2>4. OneAtATime'
    BY <2>1 DEF OneAtATime
  <2>5. HoldsFresh'
    BY <2>1 DEF HoldsFresh, Covers, UsedUpTo
  <2> QED
    BY <2>2, <2>3, <2>4, <2>5
<1>3. CASE Truncate(p) \/ Write(p)
  <2>1. /\ UNCHANGED <<durable, value, crashes, issued>>
        /\ \A q \in Proc : q # p => pc'[q] = "closed"
        /\ IF value[p] = 0 THEN UsedUpTo(0) ELSE UsedUpTo(value[p] - 1)
        /\ \/ file' = Torn /\ pc'[p] = "write"
           \/ file' = value[p] /\ pc'[p] = "sync"
    BY <1>0, <1>3 DEF Truncate, Write, TypeOK, HoldsFresh
  <2>2. TypeOK'
    BY <1>3 DEF Truncate, Write, TypeOK, Location, Content
  <2>3. NonceUnique' /\ Covers(file)' /\ Covers(durable)'
    BY <2>1 DEF NonceUnique, Covers, UsedUpTo, Torn, Absent, TypeOK
  <2>4. OneAtATime'
    BY <2>1 DEF OneAtATime
  <2>5. HoldsFresh'
    BY <2>1 DEF HoldsFresh, UsedUpTo
  <2> QED
    BY <2>2, <2>3, <2>4, <2>5
<1>4. CASE Sync(p)
  <2>1. /\ UNCHANGED <<file, value, crashes, issued>> /\ durable' = file /\ file = value[p]
        /\ \A q \in Proc : q # p => pc'[q] = "closed"
        /\ \/ pc'[p] = "ready" /\ value[p] = 0
           \/ pc'[p] = "use" /\ value[p] > 0 /\ UsedUpTo(value[p] - 1)
    BY <1>0, <1>4 DEF Sync, TypeOK, HoldsFresh
  <2>2. TypeOK'
    BY <1>4 DEF Sync, TypeOK, Location
  <2>3. NonceUnique' /\ Covers(file)' /\ Covers(durable)'
    BY <2>1 DEF NonceUnique, Covers, UsedUpTo
  <2>4. OneAtATime'
    BY <2>1 DEF OneAtATime
  <2>5. HoldsFresh'
    BY <2>1 DEF HoldsFresh, UsedUpTo, TypeOK
  <2> QED
    BY <2>2, <2>3, <2>4, <2>5
<1>5. CASE Use(p)
  <2>1. /\ UNCHANGED <<file, durable, value, crashes>> /\ file = value[p] /\ durable = value[p]
        /\ value[p] \in Value /\ UsedUpTo(value[p] - 1) /\ pc'[p] = "ready"
        /\ \A q \in Proc : q # p => pc'[q] = "closed"
    BY <1>0, <1>5 DEF Use, TypeOK, HoldsFresh
  <2>2. issued[value[p]] = 0
    BY <2>1 DEF UsedUpTo, TypeOK
  <2>3. issued'[value[p]] = 1 /\ \A n \in Value : n # value[p] => issued'[n] = issued[n]
    BY <1>5, <2>1, <2>2 DEF Use, TypeOK
  <2>4. TypeOK'
    BY <1>5, <2>1 DEF Use, TypeOK, Location
  <2>5. NonceUnique'
    BY <2>3 DEF NonceUnique
  <2>6. \A n \in Value : issued'[n] > 0 => n <= value[p]
    BY <2>1, <2>3 DEF UsedUpTo
  <2>7. Covers(file)' /\ Covers(durable)'
    BY <2>1, <2>6 DEF Covers, UsedUpTo, Absent
  <2>8. OneAtATime' /\ HoldsFresh'
    BY <2>1 DEF OneAtATime, HoldsFresh
  <2> QED
    BY <2>4, <2>5, <2>7, <2>8
<1>6. CASE Close(p) \/ Crash(p)
  <2>1. UNCHANGED <<file, durable, value, issued>> /\ \A q \in Proc : pc'[q] = pc[q] \/ pc'[q] = "closed"
    BY <1>6 DEF Close, Crash, TypeOK
  <2>2. TypeOK'
    BY <1>6 DEF Close, Crash, TypeOK, Location
  <2>3. NonceUnique' /\ Covers(file)' /\ Covers(durable)'
    BY <2>1 DEF NonceUnique, Covers, UsedUpTo
  <2>4. OneAtATime' /\ HoldsFresh'
    BY <2>1 DEF OneAtATime, HoldsFresh, UsedUpTo
  <2> QED
    BY <2>2, <2>3, <2>4
<1> QED
  BY <1>1, <1>2, <1>3, <1>4, <1>5, <1>6 DEF Step

LEMMA NoncePowerLoss ==
  ASSUME NonceInv, PowerLoss PROVE NonceInv'
<1> USE NonceAssumption DEF NonceInv, PowerLoss
<1>1. /\ UNCHANGED <<value, issued>> /\ file' \in {file, durable, Torn} /\ durable' = file'
      /\ \A q \in Proc : pc'[q] = "closed"
  OBVIOUS
<1>2. TypeOK'
  BY <1>1 DEF TypeOK, Location, Content
<1>3. NonceUnique' /\ Covers(file)' /\ Covers(durable)'
  BY <1>1 DEF NonceUnique, Covers, UsedUpTo, Torn, Absent
<1>4. OneAtATime' /\ HoldsFresh'
  BY <1>1 DEF OneAtATime, HoldsFresh
<1> QED
  BY <1>2, <1>3, <1>4

\* The invariant holds of every behaviour in which the processes of a counter
\* file (NonceCounter of key_lifecycle.py) take turns.
THEOREM NonceInvariant == ASSUME Exclusive PROVE Spec => []NonceInv
<1>1. NonceInv /\ [Next]_vars => NonceInv'
  <2> SUFFICES ASSUME NonceInv, [Next]_vars PROVE NonceInv'
    OBVIOUS
  <2>1. CASE UNCHANGED vars
    BY <2>1 DEF vars, NonceInv, TypeOK, NonceUnique, Covers, UsedUpTo, OneAtATime, HoldsFresh
  <2>2. CASE Next
    BY <2>2, NonceStep, NoncePowerLoss DEF Next
  <2> QED
    BY <2>1, <2>2
<1> QED
  BY <1>1, NonceInit, PTL DEF Spec

\* With one process at a time, no counter value goes into two nonces, whatever
\* crashes and power losses come between the system calls of next().
THEOREM NonceNeverReused == ASSUME Exclusive PROVE Spec => []NonceUnique
<1>1. NonceInv => NonceUnique
  BY DEF NonceInv
<1> QED
  BY <1>1, NonceInvariant, PTL

\* With one process at a time, a value that next() returned and a nonce was
\* built from is on the disk: no power loss brings back a smaller counter.
THEOREM UsedStaysDurable == ASSUME Exclusive PROVE Spec => []UsedIsDurable
<1>1. NonceInv => UsedIsDurable
  BY DEF NonceInv, Covers, UsedUpTo, Value, UsedIsDurable, Readable
<1> QED
  BY <1>1, NonceInvariant, PTL


-----------------------------------------------------------------------------
(* The laboratory ceremony.                                                *)

LabPc == {"idle", "password", "grant", "reread_granted", "make_key", "store", "finalize", "reread_final"}

\* From the moment the key is made it is one of the account's, and from the
\* moment it is stored it is in its file, whoever edits the account.
LabInv ==
    /\ labAccount \in [priv : SUBSET {"scope", "make_key", "more"}, password : Nat, keys : SUBSET Nat,
                       disabled : BOOLEAN]
    /\ ceremony \in [pc : LabPc, outcome : {"none", "prestate_mismatch", "failed", "completed"}, run : Nat]
    /\ labLeft \in [ceremonies : Nat, edits : Nat]
    /\ ceremony.pc \in {"store", "finalize", "reread_final"} => ceremony.run \in labAccount.keys
    /\ ceremony.pc \in {"finalize", "reread_final"} => ceremony.run \in labFiles

\* what a step may do to the account and the files without disturbing anything
LEMMA LabMoves ==
  ASSUME LabInv, NEW a \in [priv : SUBSET {"scope", "make_key", "more"}, password : Nat, keys : SUBSET Nat,
                            disabled : BOOLEAN],
         labAccount.keys \subseteq a.keys, NEW to \in LabPc,
         to \in {"store", "finalize", "reread_final"} => ceremony.run \in a.keys,
         to \in {"finalize", "reread_final"} => ceremony.run \in labFiles,
         UNCHANGED <<labFiles, labLeft>>, AccountRequest(a, to)
  PROVE  LabInv'
BY DEF LabInv, AccountRequest, CeremonyTo, EndCeremony, LabPc

LEMMA LabStep ==
  ASSUME LabInv, [LabNext]_labVars
  PROVE  LabInv'
<1> USE DEF LabInv, LabPc
<1>1. CASE ObserveAccount
  BY <1>1 DEF ObserveAccount
<1>2. CASE ResetPassword
  <2> DEFINE a == [labAccount EXCEPT !.password = ceremony.run]
  <2>1. /\ a \in [priv : SUBSET {"scope", "make_key", "more"}, password : Nat, keys : SUBSET Nat,
                  disabled : BOOLEAN]
        /\ a.keys = labAccount.keys
    OBVIOUS
  <2> QED
    BY <1>2, <2>1, LabMoves DEF ResetPassword
<1>3. CASE GrantTemporary
  <2> DEFINE a == [labAccount EXCEPT !.priv = TemporaryPrivileges]
  <2>1. /\ a \in [priv : SUBSET {"scope", "make_key", "more"}, password : Nat, keys : SUBSET Nat,
                  disabled : BOOLEAN]
        /\ a.keys = labAccount.keys
    BY DEF TemporaryPrivileges, StartingPrivileges
  <2> QED
    BY <1>3, <2>1, LabMoves DEF GrantTemporary
<1>4. CASE RereadGranted
  BY <1>4 DEF RereadGranted, CeremonyTo, EndCeremony
<1>5. CASE MakeKey
  <2> DEFINE a == [labAccount EXCEPT !.keys = @ \cup {ceremony.run}]
  <2>1. /\ a \in [priv : SUBSET {"scope", "make_key", "more"}, password : Nat, keys : SUBSET Nat,
                  disabled : BOOLEAN]
        /\ a.keys = labAccount.keys \cup {ceremony.run}
    OBVIOUS
  <2>2. CASE AccountRequest(a, "store")
    BY <1>5, <2>1, <2>2, LabMoves DEF MakeKey
  <2>3. CASE UNCHANGED labAccount /\ EndCeremony("failed")
    BY <1>5, <2>3 DEF MakeKey, EndCeremony
  <2> QED
    BY <1>5, <2>2, <2>3 DEF MakeKey
<1>6. CASE StoreKey
  BY <1>6 DEF StoreKey, CeremonyAt, CeremonyTo, EndCeremony
<1>7. CASE ApplyFinal
  <2> DEFINE a == [labAccount EXCEPT !.priv = FinalPrivileges]
  <2>1. /\ a \in [priv : SUBSET {"scope", "make_key", "more"}, password : Nat, keys : SUBSET Nat,
                  disabled : BOOLEAN]
        /\ a.keys = labAccount.keys
    BY DEF FinalPrivileges, StartingPrivileges
  <2> QED
    BY <1>7, <2>1, LabMoves DEF ApplyFinal, CeremonyAt
<1>8. CASE RereadFinal
  BY <1>8 DEF RereadFinal, CeremonyAt, EndCeremony
<1>9. CASE DieCeremony
  BY <1>9 DEF DieCeremony
<1>10. CASE EditAccount
  <2>1. PICK n \in Nat : n = labLeft.edits + 1
    OBVIOUS
  <2>2. labLeft' = [labLeft EXCEPT !.edits = n] /\ UNCHANGED <<labFiles, ceremony>>
    BY <1>10, <2>1 DEF EditAccount
  <2>3. \/ labAccount' = [labAccount EXCEPT !.priv = labAccount.priv \cup {"make_key"}]
        \/ labAccount' = [labAccount EXCEPT !.priv = StartingPrivileges]
        \/ labAccount' = [labAccount EXCEPT !.disabled = ~labAccount.disabled]
    BY <1>10 DEF EditAccount
  <2>4. /\ labAccount' \in [priv : SUBSET {"scope", "make_key", "more"}, password : Nat, keys : SUBSET Nat,
                            disabled : BOOLEAN]
        /\ labAccount'.keys = labAccount.keys
    <3>1. CASE labAccount' = [labAccount EXCEPT !.priv = labAccount.priv \cup {"make_key"}]
      BY <3>1
    <3>2. CASE labAccount' = [labAccount EXCEPT !.priv = StartingPrivileges]
      BY <3>2 DEF StartingPrivileges
    <3>3. CASE labAccount' = [labAccount EXCEPT !.disabled = ~labAccount.disabled]
      BY <3>3
    <3> QED
      BY <2>3, <3>1, <3>2, <3>3
  <2> QED
    BY <2>2, <2>4
<1>11. CASE UNCHANGED labVars
  BY <1>11 DEF labVars
<1> QED
  BY <1>1, <1>2, <1>3, <1>4, <1>5, <1>6, <1>7, <1>8, <1>9, <1>10, <1>11 DEF LabNext

\* A ceremony that reports completion left a key that works and is stored, and
\* read last an account with exactly the final privileges, whatever failed or
\* died in earlier ceremonies and whoever edited the account meanwhile
\* (recover_tier1_lab_credential in
\* security_tier1_lab_credential_recovery.py).
THEOREM CompletedCeremonyIsClean == LabSpec => CompletedCeremonyClean
<1>1. LabInit => LabInv
  BY DEF LabInit, LabInv, LabPc, StartingPrivileges
<1>2. LabInv /\ [LabNext]_labVars => LabInv'
  BY LabStep
<1>3. LabInv /\ [LabNext]_labVars =>
        [ceremony'.outcome = "completed" /\ ceremony.outcome # "completed" =>
           /\ labAccount.priv = FinalPrivileges
           /\ ceremony.run \in labFiles \cap labAccount.keys]_labVars
  <2> SUFFICES ASSUME LabInv, LabNext, ceremony'.outcome = "completed", ceremony.outcome # "completed"
               PROVE  /\ labAccount.priv = FinalPrivileges
                      /\ ceremony.run \in labFiles \cap labAccount.keys
    OBVIOUS
  <2>1. CASE RereadFinal
    BY <2>1 DEF RereadFinal, CeremonyAt, HoldsExactly, EndCeremony, LabInv
  <2>2. CASE ~RereadFinal
    <3>1. ceremony'.outcome \in {"none", "prestate_mismatch", "failed", ceremony.outcome}
      <4>1. CASE ObserveAccount
        BY <4>1 DEF ObserveAccount
      <4>2. CASE DieCeremony \/ EditAccount
        BY <4>2 DEF DieCeremony, EditAccount, LabInv
      <4>3. CASE RereadGranted \/ StoreKey
        BY <4>3 DEF RereadGranted, StoreKey, CeremonyTo, EndCeremony, LabInv
      <4>4. ASSUME NEW a, NEW to, AccountRequest(a, to)
            PROVE  ceremony'.outcome \in {"failed", ceremony.outcome}
        BY <4>4 DEF AccountRequest, CeremonyTo, EndCeremony, LabInv
      <4>5. CASE ResetPassword \/ GrantTemporary \/ ApplyFinal
        BY <4>4, <4>5 DEF ResetPassword, GrantTemporary, ApplyFinal
      <4>6. CASE MakeKey
        <5>1. CASE EndCeremony("failed")
          BY <5>1 DEF EndCeremony, LabInv
        <5> QED
          BY <4>4, <4>6, <5>1 DEF MakeKey
      <4> QED
        BY <2>2, <4>1, <4>2, <4>3, <4>5, <4>6 DEF LabNext
    <3> QED
      BY <3>1
  <2> QED
    BY <2>1, <2>2
<1> QED
  BY <1>1, <1>2, <1>3, PTL DEF LabSpec, CompletedCeremonyClean


-----------------------------------------------------------------------------
(* The setup commands.                                                     *)

ConfigType == [kind : {"config"}, entry : PlanChoices \cup {NoEntry}, other : Nat, parses : BOOLEAN]
PlanType == { SetupPlanDigest(c, d) : c \in PlanChoices, d \in Nat }
TokenType ==
    [domain : {"apply"}, binding : [plan : PlanType, choice : PlanChoices], key : Nat]
      \cup [domain : {"client"},
            binding : [plan : PlanType, existing : {NoFile} \cup ConfigType, proposed : ConfigType], key : Nat]

KeyHeld == {"key_write", "key_sync", "key_unlink"}
KeyCommand == [pc : KeyHeld, file : Nat]
PlanCommand ==
    [pc : {"apply", "confirmed", "read"}, choice : PlanChoices, plan : PlanType, token : TokenType \cup {NoToken}]
WriteCommand ==
    [pc : {"merge", "parent", "backup", "fill", "replace", "verify"}, choice : PlanChoices, plan : PlanType,
     token : TokenType \cup {NoToken}, existing : {NoFile} \cup ConfigType, proposed : ConfigType,
     saved : BOOLEAN, uncovered : BOOLEAN]
CommandType == {Idle, [pc |-> "key_create"]} \cup KeyCommand \cup PlanCommand \cup WriteCommand

SetupType ==
    /\ posture \in Nat
    /\ key \in {NoFile} \cup [id : Nat, filled : BOOLEAN]
    /\ config \in {NoFile} \cup ConfigType
    /\ backup \in {NoFile, Unfilled} \cup ConfigType
    /\ cmds \in [Commands -> CommandType]
    /\ printed \subseteq TokenType
    /\ spent \in [commands : Nat, edits : Nat, keys : Nat]

\* the command made the backup that is there
Holding(c) == c.pc = "fill" \/ (c.pc \in {"replace", "verify"} /\ c.saved)

\* What a command relies on: the token it was given was printed, what it
\* confirmed was shown, and until somebody overtakes it the file is as it was
\* when its backup was taken, or as it wrote it.
CommandInv(c) ==
    /\ c.pc \in {"apply", "read", "merge"} => c.token \in printed \cup {NoToken}
    /\ c.pc = "confirmed" =>
         \E t \in printed : t.domain = "apply" /\ t.binding.plan = c.plan /\ t.binding.choice = c.choice
    /\ c.pc \in {"parent", "backup", "fill", "replace", "verify"} =>
         \E t \in printed : /\ t.domain = "client" /\ t.binding.plan = c.plan
                            /\ t.binding.existing = c.existing /\ t.binding.proposed = c.proposed
    /\ c.pc \in {"merge", "parent", "backup", "fill"} => c.saved = FALSE /\ c.uncovered = FALSE
    /\ c.pc = "fill" => backup = Unfilled
    /\ c.pc \in {"replace", "verify"} /\ c.saved => backup \in ConfigType
    /\ c.pc = "replace" /\ ~c.uncovered => config = NoFile \/ (c.saved /\ backup = config)
    /\ c.pc = "verify" /\ ~c.uncovered => config = c.proposed

CommandsInv ==
    /\ \A p \in Commands : CommandInv(cmds[p])
    /\ \A p, q \in Commands : Holding(cmds[p]) /\ Holding(cmds[q]) => p = q

\* Key files: every command that stores one has its own, and one that is about
\* to unlink its file still finds it, unless it was removed by hand.
KeyInv ==
    /\ key # NoFile => key.id <= spent.keys
    /\ \A p \in Commands : cmds[p].pc \in KeyHeld => cmds[p].file <= spent.keys
    /\ \A p, q \in Commands :
         cmds[p].pc \in KeyHeld /\ cmds[q].pc \in KeyHeld /\ cmds[p].file = cmds[q].file => p = q
    /\ ~handRemoved => \A p \in Commands : cmds[p].pc = "key_unlink" => key # NoFile /\ key.id = cmds[p].file

SetupInv == SetupType /\ CommandsInv /\ lost = {}

LEMMA FileKinds ==
  /\ \A f \in ConfigType : f.kind = "config" /\ f.other \in Nat
  /\ NoFile.kind = "absent" /\ Unfilled.kind = "unfilled" /\ NoFile # Unfilled
  /\ NoFile \notin ConfigType /\ Unfilled \notin ConfigType
BY DEF ConfigType, NoFile, Unfilled

LEMMA SetupStart == SetupInit => SetupInv
<1> SUFFICES ASSUME SetupInit PROVE SetupInv
  OBVIOUS
<1>1. ConfigOf(NoEntry, 1, TRUE) \in ConfigType
  BY DEF ConfigOf, ConfigType
<1>2. \A p \in Commands : cmds[p] = Idle
  BY DEF SetupInit
<1>3. SetupType
  BY <1>1 DEF SetupInit, SetupType, CommandType
<1>4. CommandsInv
  BY <1>2 DEF CommandsInv, CommandInv, Holding, Idle
<1> QED
  BY <1>3, <1>4 DEF SetupInv, SetupInit

\* a command whose files nobody touches
LEMMA CommandKept ==
  ASSUME NEW c, CommandInv(c), printed \subseteq printed', UNCHANGED <<config, backup>>
  PROVE  CommandInv(c)'
BY DEF CommandInv

\* one command moves and the client's files stay
LEMMA CommandMoves ==
  ASSUME SetupType, CommandsInv, printed \subseteq printed', UNCHANGED <<config, backup>>,
         NEW p \in Commands, NEW c \in CommandType, cmds' = [cmds EXCEPT ![p] = c],
         CommandInv(c)', Holding(c) => Holding(cmds[p])
  PROVE  CommandsInv' /\ cmds' \in [Commands -> CommandType]
<1>0. cmds \in [Commands -> CommandType]
  BY DEF SetupType
<1>1. ASSUME NEW q \in Commands
      PROVE  CommandInv(cmds[q])' /\ (Holding(cmds'[q]) => Holding(cmds[q]))
  <2>1. PICK d : d = cmds'[q] /\ CommandInv(d)' /\ (Holding(d) => Holding(cmds[q]))
    <3>1. CASE q = p
      BY <1>0, <3>1
    <3>2. CASE q # p
      <4>1. PICK d : d = cmds[q]
        OBVIOUS
      <4>2. d = cmds'[q] /\ CommandInv(d)
        BY <1>0, <3>2, <4>1 DEF CommandsInv
      <4> QED
        BY <4>1, <4>2, CommandKept
    <3> QED
      BY <3>1, <3>2
  <2> QED
    BY <2>1 DEF CommandInv
<1>2. \A q, r \in Commands : Holding(cmds'[q]) /\ Holding(cmds'[r]) => q = r
  BY <1>1 DEF CommandsInv
<1> QED
  BY <1>0, <1>1, <1>2 DEF CommandsInv, Holding

LEMMA CommandEnds ==
  ASSUME SetupType, CommandsInv, printed \subseteq printed', UNCHANGED <<config, backup>>,
         NEW p \in Commands, EndCommand(p)
  PROVE  CommandsInv' /\ cmds' \in [Commands -> CommandType]
<1>1. Idle \in CommandType /\ CommandInv(Idle)' /\ ~Holding(Idle)
  BY DEF CommandType, CommandInv, Holding, Idle
<1> QED
  BY <1>1, CommandMoves DEF EndCommand

LEMMA CommandTypes ==
  ASSUME SetupType, NEW p \in Commands
  PROVE  /\ cmds[p].pc \in KeyHeld => cmds[p] \in KeyCommand
         /\ cmds[p].pc \in {"apply", "confirmed", "read"} => cmds[p] \in PlanCommand
         /\ cmds[p].pc \in {"merge", "parent", "backup", "fill", "replace", "verify"} => cmds[p] \in WriteCommand
<1>1. cmds[p] \in CommandType
  BY DEF SetupType
<1> QED
  BY <1>1 DEF CommandType, KeyCommand, KeyHeld, PlanCommand, WriteCommand, Idle

\* a step of a command that leaves everything but the key and the bounds alone
LEMMA SetupMoves ==
  ASSUME SetupInv, posture' \in Nat, key' \in {NoFile} \cup [id : Nat, filled : BOOLEAN],
         spent' \in [commands : Nat, edits : Nat, keys : Nat], printed' \subseteq TokenType,
         UNCHANGED <<config, backup, lost>>, CommandsInv', cmds' \in [Commands -> CommandType]
  PROVE  SetupInv'
BY DEF SetupInv, SetupType

-----------------------------------------------------------------------------
\* init-confirm-key
KeyAction(p) ==
    \/ InitConfirmKey(p) \/ CreateKeyFile(p) \/ WriteKeyFile(p) \/ SyncKeyFile(p) \/ CheckKeyFile(p)
    \/ UndoKeyFile(p)

LEMMA KeyActionInv ==
  ASSUME SetupInv, NEW p \in Commands, KeyAction(p)
  PROVE  SetupInv'
<1>0. SetupType /\ CommandsInv
  BY DEF SetupInv
<1>1. UNCHANGED <<posture, config, backup, printed, lost>>
  BY DEF KeyAction, InitConfirmKey, CreateKeyFile, WriteKeyFile, SyncKeyFile, CheckKeyFile, UndoKeyFile
<1>2. posture' \in Nat /\ printed \subseteq printed' /\ printed' \subseteq TokenType /\ UNCHANGED <<config, backup>>
  BY <1>0, <1>1 DEF SetupType
<1>3. PICK n \in Nat : n = spent.keys + 1
  BY <1>0 DEF SetupType
<1>4. spent' \in [commands : Nat, edits : Nat, keys : Nat]
  <2>1. \/ UNCHANGED spent
        \/ spent' = [spent EXCEPT !.commands = spent.commands + 1]
        \/ spent' = [spent EXCEPT !.keys = n]
    BY <1>3 DEF KeyAction, InitConfirmKey, CreateKeyFile, WriteKeyFile, SyncKeyFile, CheckKeyFile, UndoKeyFile, BeginCommand
  <2> QED
    BY <1>0, <2>1 DEF SetupType
<1>5. CASE InitConfirmKey(p)
  <2> DEFINE c == [pc |-> "key_create"]
  <2>1. c \in CommandType /\ CommandInv(c)' /\ ~Holding(c)
    BY DEF CommandType, CommandInv, Holding
  <2>2. cmds' = [cmds EXCEPT ![p] = c] /\ UNCHANGED key
    BY <1>5 DEF InitConfirmKey, BeginCommand
  <2> HIDE DEF c
  <2>3. CommandsInv' /\ cmds' \in [Commands -> CommandType]
    BY <1>0, <1>2, <2>1, <2>2, CommandMoves
  <2> QED
    BY <1>0, <1>1, <1>2, <1>4, <2>2, <2>3, SetupMoves DEF SetupType
<1>6. CASE CreateKeyFile(p)
  <2>1. CASE EndCommand(p) /\ UNCHANGED key
    <3>1. CommandsInv' /\ cmds' \in [Commands -> CommandType]
      BY <1>0, <1>2, <2>1, CommandEnds
    <3> QED
      BY <1>0, <1>1, <1>2, <1>4, <2>1, <3>1, SetupMoves DEF SetupType
  <2>2. CASE /\ key = NoFile /\ key' = [id |-> n, filled |-> FALSE]
             /\ cmds' = [cmds EXCEPT ![p] = [pc |-> "key_write", file |-> n]]
    <3> DEFINE c == [pc |-> "key_write", file |-> n]
    <3>1. c \in CommandType /\ CommandInv(c)' /\ ~Holding(c)
      BY DEF CommandType, KeyCommand, KeyHeld, CommandInv, Holding
    <3>2. cmds' = [cmds EXCEPT ![p] = c]
      BY <2>2
    <3> HIDE DEF c
    <3>3. CommandsInv' /\ cmds' \in [Commands -> CommandType]
      BY <1>0, <1>2, <3>1, <3>2, CommandMoves
    <3> QED
      BY <1>1, <1>2, <1>4, <2>2, <3>3, SetupMoves
  <2> QED
    BY <1>3, <1>6, <2>1, <2>2 DEF CreateKeyFile
<1>7. CASE WriteKeyFile(p) \/ SyncKeyFile(p) \/ CheckKeyFile(p) \/ UndoKeyFile(p)
  <2>1. /\ cmds[p] \in KeyCommand
        /\ EndCommand(p) \/ \E to \in {"key_sync", "key_unlink"} : cmds' = [cmds EXCEPT ![p].pc = to]
    BY <1>0, <1>7, CommandTypes DEF WriteKeyFile, SyncKeyFile, CheckKeyFile, UndoKeyFile, CommandAt, MoveTo, KeyHeld
  <2>2. CommandsInv' /\ cmds' \in [Commands -> CommandType]
    <3>1. CASE EndCommand(p)
      BY <1>0, <1>2, <3>1, CommandEnds
    <3>2. ASSUME NEW to \in {"key_sync", "key_unlink"}, cmds' = [cmds EXCEPT ![p].pc = to]
          PROVE  CommandsInv' /\ cmds' \in [Commands -> CommandType]
      <4>0. PICK old \in KeyCommand : old = cmds[p]
        BY <2>1
      <4> DEFINE c == [old EXCEPT !.pc = to]
      <4>1. c \in CommandType /\ c.pc = to
        BY DEF CommandType, KeyCommand, KeyHeld
      <4>2. cmds' = [cmds EXCEPT ![p] = c]
        BY <3>2, <4>0
      <4> HIDE DEF c
      <4>3. CommandInv(c)' /\ ~Holding(c)
        BY <4>1 DEF CommandInv, Holding
      <4> QED
        BY <1>0, <1>2, <4>1, <4>2, <4>3, CommandMoves
    <3> QED
      BY <2>1, <3>1, <3>2
  <2>3. UNCHANGED key \/ (key # NoFile /\ key' = [key EXCEPT !.filled = TRUE]) \/ key' = NoFile
    BY <1>7 DEF WriteKeyFile, SyncKeyFile, CheckKeyFile, UndoKeyFile
  <2>4. key' \in {NoFile} \cup [id : Nat, filled : BOOLEAN]
    BY <1>0, <2>3 DEF SetupType
  <2> QED
    BY <1>1, <1>2, <1>4, <2>2, <2>4, SetupMoves
<1> QED
  BY <1>5, <1>6, <1>7 DEF KeyAction


\* apply and write-client-config up to the confirmation
PlanAction(p) ==
    SetupApply(p) \/ WriteClientConfig(p) \/ ConfirmApply(p) \/ RunApply(p) \/ ReadExisting(p) \/ ConfirmWrite(p)

\* The token of the confirmation is printed, or it is one printed before.
LEMMA ConfirmMoves ==
  ASSUME SetupType, CommandsInv, UNCHANGED <<config, backup>>, NEW p \in Commands, NEW token \in TokenType,
         NEW to, NEW old \in CommandType, old = cmds[p], old.pc \in {"apply", "merge"},
         \A c : c = [old EXCEPT !.pc = to, !.token = token]
                  => c \in CommandType /\ ~Holding(c) /\ (token \in printed => CommandInv(c)),
         Confirm(p, token, to)
  PROVE  /\ CommandsInv' /\ cmds' \in [Commands -> CommandType]
         /\ printed \subseteq printed' /\ printed' \subseteq TokenType
<1>1. CASE old.token = NoToken
  <2>1. printed' = printed \cup {token} /\ EndCommand(p)
    BY <1>1 DEF Confirm
  <2> QED
    BY <2>1, CommandEnds DEF SetupType
<1>2. CASE old.token # NoToken /\ old.token = token
  <2>1. UNCHANGED printed /\ cmds' = [cmds EXCEPT ![p] = [old EXCEPT !.pc = to, !.token = token]]
    BY <1>2 DEF Confirm
  <2>2. token \in printed
    BY <1>2 DEF CommandsInv, CommandInv
  <2>3. PICK c : c = [old EXCEPT !.pc = to, !.token = token]
    OBVIOUS
  <2>4. c \in CommandType /\ ~Holding(c) /\ CommandInv(c)
    BY <2>2, <2>3
  <2>5. CommandInv(c)'
    BY <2>1, <2>4, CommandKept
  <2> QED
    BY <2>1, <2>3, <2>4, <2>5, CommandMoves DEF SetupType
<1>3. CASE old.token # NoToken /\ old.token # token
  <2>1. UNCHANGED printed /\ EndCommand(p)
    BY <1>3 DEF Confirm
  <2> QED
    BY <2>1, CommandEnds DEF SetupType
<1> QED
  BY <1>1, <1>2, <1>3

LEMMA KeyId ==
  ASSUME SetupType, KeyUsable
  PROVE  key.id \in Nat
BY DEF SetupType, KeyUsable

LEMMA ConfirmApplyInv ==
  ASSUME SetupInv, NEW p \in Commands, ConfirmApply(p)
  PROVE  SetupInv' /\ UNCHANGED key
<1>0. SetupType /\ CommandsInv
  BY DEF SetupInv
<1>1. UNCHANGED <<posture, key, config, backup, lost, spent>> /\ cmds[p].pc = "apply"
  BY DEF ConfirmApply, CommandAt
<1>2. PICK old \in PlanCommand : old = cmds[p]
  BY <1>0, <1>1, CommandTypes
<1>3. /\ CommandsInv' /\ cmds' \in [Commands -> CommandType]
      /\ printed \subseteq printed' /\ printed' \subseteq TokenType
  <2>1. CASE KeyUsable
    <3>1. PICK token : token = Token("apply", ApplyBinding(old.choice, old.plan), key.id)
      OBVIOUS
    <3>2. /\ token \in TokenType /\ token.domain = "apply" /\ token.binding.plan = old.plan
          /\ token.binding.choice = old.choice
      <4>1. key.id \in Nat /\ old.choice \in PlanChoices /\ old.plan \in PlanType
        BY <1>0, <2>1, KeyId DEF PlanCommand
      <4>2. ApplyBinding(old.choice, old.plan) \in [plan : PlanType, choice : PlanChoices]
        BY <4>1 DEF ApplyBinding
      <4> QED
        BY <3>1, <4>1, <4>2 DEF Token, TokenType, ApplyBinding
    <3>3. ASSUME NEW c, c = [old EXCEPT !.pc = "confirmed", !.token = token]
          PROVE  c \in CommandType /\ ~Holding(c) /\ (token \in printed => CommandInv(c))
      <4>1. c \in PlanCommand /\ c.pc = "confirmed" /\ c.plan = old.plan /\ c.choice = old.choice
        BY <3>2, <3>3 DEF PlanCommand
      <4> QED
        BY <3>2, <4>1 DEF CommandType, Holding, CommandInv
    <3>4. Confirm(p, token, "confirmed")
      BY <1>2, <2>1, <3>1 DEF ConfirmApply
    <3>5. old \in CommandType /\ old.pc \in {"apply", "merge"}
      BY <1>1, <1>2 DEF CommandType
    <3> QED
      BY <1>0, <1>1, <1>2, <3>2, <3>3, <3>4, <3>5, ConfirmMoves
  <2>2. CASE ~KeyUsable
    <3>1. EndCommand(p) /\ UNCHANGED printed
      BY <2>2 DEF ConfirmApply
    <3> QED
      BY <1>0, <1>1, <3>1, CommandEnds DEF SetupType
  <2> QED
    BY <2>1, <2>2
<1> QED
  BY <1>0, <1>1, <1>3, SetupMoves DEF SetupType

LEMMA ConfirmWriteInv ==
  ASSUME SetupInv, NEW p \in Commands, ConfirmWrite(p)
  PROVE  SetupInv' /\ UNCHANGED key
<1>0. SetupType /\ CommandsInv
  BY DEF SetupInv
<1>1. UNCHANGED <<posture, key, config, backup, lost, spent>> /\ cmds[p].pc = "merge"
  BY DEF ConfirmWrite, CommandAt
<1>2. PICK old \in WriteCommand : old = cmds[p]
  BY <1>0, <1>1, CommandTypes
<1>3. /\ CommandsInv' /\ cmds' \in [Commands -> CommandType]
      /\ printed \subseteq printed' /\ printed' \subseteq TokenType
  <2>1. CASE KeyUsable
    <3>1. PICK token : token = Token("client", WriteBinding(old.plan, old.existing, old.proposed), key.id)
      OBVIOUS
    <3>2. /\ token \in TokenType /\ token.domain = "client" /\ token.binding.plan = old.plan
          /\ token.binding.existing = old.existing /\ token.binding.proposed = old.proposed
      <4>1. /\ key.id \in Nat /\ old.plan \in PlanType /\ old.existing \in {NoFile} \cup ConfigType
            /\ old.proposed \in ConfigType
        BY <1>0, <2>1, KeyId DEF WriteCommand
      <4>2. WriteBinding(old.plan, old.existing, old.proposed)
              \in [plan : PlanType, existing : {NoFile} \cup ConfigType, proposed : ConfigType]
        BY <4>1 DEF WriteBinding
      <4> QED
        BY <3>1, <4>1, <4>2 DEF Token, TokenType, WriteBinding
    <3>3. ASSUME NEW c, c = [old EXCEPT !.pc = "parent", !.token = token]
          PROVE  c \in CommandType /\ ~Holding(c) /\ (token \in printed => CommandInv(c))
      <4>1. /\ c \in WriteCommand /\ c.pc = "parent" /\ c.plan = old.plan /\ c.existing = old.existing
            /\ c.proposed = old.proposed /\ c.saved = old.saved /\ c.uncovered = old.uncovered
        BY <3>2, <3>3 DEF WriteCommand
      <4>2. old.saved = FALSE /\ old.uncovered = FALSE
        BY <1>0, <1>1, <1>2 DEF CommandsInv, CommandInv
      <4> QED
        BY <3>2, <4>1, <4>2 DEF CommandType, Holding, CommandInv
    <3>4. Confirm(p, token, "parent")
      BY <1>2, <2>1, <3>1 DEF ConfirmWrite
    <3>5. old \in CommandType /\ old.pc \in {"apply", "merge"}
      BY <1>1, <1>2 DEF CommandType
    <3> QED
      BY <1>0, <1>1, <1>2, <3>2, <3>3, <3>4, <3>5, ConfirmMoves
  <2>2. CASE ~KeyUsable
    <3>1. EndCommand(p) /\ UNCHANGED printed
      BY <2>2 DEF ConfirmWrite
    <3> QED
      BY <1>0, <1>1, <3>1, CommandEnds DEF SetupType
  <2> QED
    BY <2>1, <2>2
<1> QED
  BY <1>0, <1>1, <1>3, SetupMoves DEF SetupType

LEMMA StartSetupInv ==
  ASSUME SetupInv, NEW p \in Commands, NEW kind \in {"apply", "read"}, StartSetup(p, kind)
  PROVE  SetupInv' /\ UNCHANGED key
<1>0. SetupType /\ CommandsInv
  BY DEF SetupInv
<1>1. PICK choice \in PlanChoices, token \in printed \cup {NoToken} :
        /\ BeginCommand(p, [pc |-> kind, choice |-> choice, plan |-> SetupPlanDigest(choice, posture),
                            token |-> token])
        /\ UNCHANGED <<posture, key, config, backup, printed, lost>>
  BY DEF StartSetup
<1>2. PICK digest \in PlanType : digest = SetupPlanDigest(choice, posture)
  BY <1>0 DEF PlanType, SetupType
<1> DEFINE c == [pc |-> kind, choice |-> choice, plan |-> digest, token |-> token]
<1>3. c \in PlanCommand /\ c.pc = kind /\ c.token = token
  BY <1>0 DEF PlanCommand, SetupType
<1>4. cmds' = [cmds EXCEPT ![p] = c] /\ spent' = [spent EXCEPT !.commands = spent.commands + 1]
  BY <1>1, <1>2 DEF BeginCommand
<1> HIDE DEF c
<1>5. c \in CommandType /\ CommandInv(c)' /\ ~Holding(c)
  BY <1>1, <1>3 DEF CommandType, CommandInv, Holding
<1>6. spent' \in [commands : Nat, edits : Nat, keys : Nat]
  BY <1>0, <1>4 DEF SetupType
<1>7. CommandsInv' /\ cmds' \in [Commands -> CommandType]
  BY <1>0, <1>1, <1>4, <1>5, CommandMoves
<1> QED
  BY <1>0, <1>1, <1>6, <1>7, SetupMoves DEF SetupType

LEMMA RunApplyInv ==
  ASSUME SetupInv, NEW p \in Commands, RunApply(p)
  PROVE  SetupInv' /\ UNCHANGED key
<1>0. SetupType /\ CommandsInv
  BY DEF SetupInv
<1>1. UNCHANGED <<key, config, backup, printed, lost, spent>> /\ EndCommand(p)
  BY DEF RunApply
<1>2. posture' \in Nat
  BY <1>0 DEF RunApply, SetupType
<1>3. CommandsInv' /\ cmds' \in [Commands -> CommandType]
  BY <1>0, <1>1, CommandEnds
<1> QED
  BY <1>0, <1>1, <1>2, <1>3, SetupMoves DEF SetupType

LEMMA ReadExistingInv ==
  ASSUME SetupInv, NEW p \in Commands, ReadExisting(p)
  PROVE  SetupInv' /\ UNCHANGED key
<1>0. SetupType /\ CommandsInv
  BY DEF SetupInv
<1>1. UNCHANGED <<posture, key, config, backup, printed, lost, spent>> /\ cmds[p].pc = "read"
  BY DEF ReadExisting, CommandAt
<1>2. PICK old \in PlanCommand : old = cmds[p]
  BY <1>0, <1>1, CommandTypes
<1>3. PICK existing, proposed : existing = config /\ proposed = MergedEntry(config, old.choice)
  OBVIOUS
<1>4. proposed \in ConfigType
  <2>1. old.choice \in PlanChoices
    BY DEF PlanCommand
  <2>2. CASE config = NoFile
    BY <1>3, <2>1, <2>2 DEF MergedEntry, ConfigOf, ConfigType
  <2>3. CASE config # NoFile
    BY <1>0, <1>3, <2>1, <2>3 DEF MergedEntry, ConfigType, SetupType
  <2> QED
    BY <2>2, <2>3
<1> DEFINE c == [pc |-> "merge", choice |-> old.choice, plan |-> old.plan, token |-> old.token,
                 existing |-> existing, proposed |-> proposed, saved |-> FALSE, uncovered |-> FALSE]
<1>5. EndCommand(p) \/ cmds' = [cmds EXCEPT ![p] = c]
  BY <1>2, <1>3 DEF ReadExisting
<1>6. /\ c \in WriteCommand /\ c.pc = "merge" /\ c.token = old.token /\ c.saved = FALSE /\ c.uncovered = FALSE
  BY <1>0, <1>3, <1>4 DEF WriteCommand, PlanCommand, SetupType
<1> HIDE DEF c
<1>7. old.token \in printed \cup {NoToken}
  BY <1>0, <1>1, <1>2 DEF CommandsInv, CommandInv
<1>8. c \in CommandType /\ CommandInv(c)' /\ ~Holding(c)
  BY <1>1, <1>6, <1>7 DEF CommandType, CommandInv, Holding
<1>9. CommandsInv' /\ cmds' \in [Commands -> CommandType]
  <2>1. CASE EndCommand(p)
    BY <1>0, <1>1, <2>1, CommandEnds
  <2>2. CASE cmds' = [cmds EXCEPT ![p] = c]
    BY <1>0, <1>1, <1>8, <2>2, CommandMoves
  <2> QED
    BY <1>5, <2>1, <2>2
<1> QED
  BY <1>0, <1>1, <1>9, SetupMoves DEF SetupType

LEMMA PlanActionInv ==
  ASSUME SetupInv, NEW p \in Commands, PlanAction(p)
  PROVE  SetupInv' /\ KeyOfAnotherKept
<1>1. SetupInv' /\ UNCHANGED key
  BY StartSetupInv, ConfirmApplyInv, RunApplyInv, ReadExistingInv, ConfirmWriteInv
     DEF PlanAction, SetupApply, WriteClientConfig
<1> QED
  BY <1>1 DEF KeyOfAnotherKept


\* the file operations of write-client-config
FileAction(p) ==
    EnsureParentDirectory(p) \/ CreateBackup(p) \/ FillBackup(p) \/ ReplaceConfig(p) \/ VerifyConfig(p)

\* while a backup is there, and only then, somebody may hold it
LEMMA BackupHeld ==
  ASSUME SetupType, CommandsInv, NEW p \in Commands, Holding(cmds[p])
  PROVE  backup # NoFile
BY FileKinds DEF CommandsInv, CommandInv, Holding

\* the command goes on to another step, with a backup or without
Stepped(old, to, save) == [old EXCEPT !.pc = to, !.saved = save]

LEMMA StepTo ==
  ASSUME NEW old \in WriteCommand, NEW to \in {"backup", "fill", "replace", "verify"}, NEW save \in BOOLEAN, NEW c,
         c = Stepped(old, to, save)
  PROVE  /\ c \in CommandType /\ c.pc = to /\ c.saved = save /\ c.uncovered = old.uncovered /\ c.plan = old.plan
         /\ c.existing = old.existing /\ c.proposed = old.proposed
BY DEF WriteCommand, CommandType, Stepped

\* the directory is there
LEMMA EnsureParentDirectoryInv ==
  ASSUME SetupInv, NEW p \in Commands, EnsureParentDirectory(p)
  PROVE  SetupInv' /\ UNCHANGED key
<1>0. SetupType /\ CommandsInv
  BY DEF SetupInv
<1>1. UNCHANGED <<posture, key, config, backup, printed, lost, spent>> /\ cmds[p].pc = "parent"
  BY DEF EnsureParentDirectory, CommandAt
<1>2. PICK old \in WriteCommand : old = cmds[p]
  BY <1>0, <1>1, CommandTypes
<1>3. CommandInv(old) /\ old.saved \in BOOLEAN
  BY <1>0, <1>2 DEF CommandsInv, WriteCommand
<1>4. CommandsInv' /\ cmds' \in [Commands -> CommandType]
  <2>1. CASE EndCommand(p)
    BY <1>0, <1>1, <2>1, CommandEnds
  <2>2. CASE MoveTo(p, "backup")
    <3>1. PICK c : c = Stepped(old, "backup", old.saved)
      OBVIOUS
    <3>2. cmds' = [cmds EXCEPT ![p] = c]
      <4>1. c = [old EXCEPT !.pc = "backup"]
        BY <3>1 DEF WriteCommand, Stepped
      <4> QED
        BY <1>2, <2>2, <4>1 DEF MoveTo
    <3>3. /\ c \in CommandType /\ c.pc = "backup" /\ c.saved = old.saved /\ c.uncovered = old.uncovered /\ c.plan = old.plan
          /\ c.existing = old.existing /\ c.proposed = old.proposed
      BY <1>3, <3>1, StepTo
    <3>4. CommandInv(c)' /\ ~Holding(c)
      BY <1>1, <1>2, <1>3, <3>3 DEF CommandInv, Holding
    <3> QED
      BY <1>0, <1>1, <3>2, <3>3, <3>4, CommandMoves
  <2> QED
    BY <2>1, <2>2 DEF EnsureParentDirectory
<1> QED
  BY <1>0, <1>1, <1>4, SetupMoves DEF SetupType

\* The exclusive creation: nobody else holds a backup then.
LEMMA CreateBackupInv ==
  ASSUME SetupInv, NEW p \in Commands, CreateBackup(p)
  PROVE  SetupInv' /\ UNCHANGED key
<1>0. SetupType /\ CommandsInv /\ lost = {}
  BY DEF SetupInv
<1>1. UNCHANGED <<posture, key, config, printed, lost, spent>> /\ cmds[p].pc = "backup"
  BY DEF CreateBackup, CommandAt
<1>2. PICK old \in WriteCommand : old = cmds[p]
  BY <1>0, <1>1, CommandTypes
<1>3. /\ CommandInv(old) /\ old.saved = FALSE /\ old.uncovered = FALSE
  BY <1>0, <1>1, <1>2 DEF CommandsInv, CommandInv
<1>4. \/ config = NoFile /\ MoveTo(p, "replace") /\ UNCHANGED backup
      \/ EndCommand(p) /\ UNCHANGED backup
      \/ config # NoFile /\ backup = NoFile /\ backup' = Unfilled /\ MoveTo(p, "fill")
  BY DEF CreateBackup
<1>5. ASSUME NEW to \in {"replace", "fill"}, MoveTo(p, to)
      PROVE  \E c \in CommandType : /\ cmds' = [cmds EXCEPT ![p] = c] /\ c.pc = to /\ c.saved = FALSE
                                    /\ c.uncovered = FALSE /\ c.plan = old.plan
                                    /\ c.existing = old.existing /\ c.proposed = old.proposed
  <2>1. PICK c : c = Stepped(old, to, FALSE)
    OBVIOUS
  <2>2. c = [old EXCEPT !.pc = to]
    BY <1>3, <2>1 DEF WriteCommand, Stepped
  <2>3. cmds' = [cmds EXCEPT ![p] = c]
    BY <1>2, <1>5, <2>2 DEF MoveTo
  <2>4. /\ c \in CommandType /\ c.pc = to /\ c.saved = FALSE /\ c.uncovered = old.uncovered /\ c.plan = old.plan
        /\ c.existing = old.existing /\ c.proposed = old.proposed
    BY <2>1 DEF Stepped, WriteCommand, CommandType
  <2> QED
    BY <1>3, <2>3, <2>4
<1>6. CASE config = NoFile /\ MoveTo(p, "replace") /\ UNCHANGED backup
  <2>1. PICK c \in CommandType : /\ cmds' = [cmds EXCEPT ![p] = c] /\ c.pc = "replace" /\ c.saved = FALSE
                                 /\ c.uncovered = FALSE /\ c.plan = old.plan
                                 /\ c.existing = old.existing /\ c.proposed = old.proposed
    BY <1>5, <1>6
  <2>2. CommandInv(c)' /\ ~Holding(c)
    BY <1>1, <1>2, <1>3, <1>6, <2>1 DEF CommandInv, Holding
  <2>3. CommandsInv' /\ cmds' \in [Commands -> CommandType]
    BY <1>0, <1>1, <1>6, <2>1, <2>2, CommandMoves
  <2> QED
    BY <1>0, <1>1, <1>6, <2>3, SetupMoves DEF SetupType
<1>7. CASE EndCommand(p) /\ UNCHANGED backup
  <2>1. CommandsInv' /\ cmds' \in [Commands -> CommandType]
    BY <1>0, <1>1, <1>7, CommandEnds
  <2> QED
    BY <1>0, <1>1, <1>7, <2>1, SetupMoves DEF SetupType
<1>8. CASE config # NoFile /\ backup = NoFile /\ backup' = Unfilled /\ MoveTo(p, "fill")
  <2>1. PICK c \in CommandType : /\ cmds' = [cmds EXCEPT ![p] = c] /\ c.pc = "fill" /\ c.saved = FALSE
                                 /\ c.uncovered = FALSE /\ c.plan = old.plan
                                 /\ c.existing = old.existing /\ c.proposed = old.proposed
    BY <1>5, <1>8
  <2>2. CommandInv(c)'
    BY <1>1, <1>2, <1>3, <1>8, <2>1 DEF CommandInv
  <2>3. cmds \in [Commands -> CommandType]
    BY <1>0 DEF SetupType
  <2>4. ASSUME NEW q \in Commands, q # p
        PROVE  cmds'[q] = cmds[q] /\ ~Holding(cmds[q]) /\ CommandInv(cmds[q])'
    <3>1. cmds'[q] = cmds[q] /\ ~Holding(cmds[q])
      BY <1>0, <1>8, <2>1, <2>3, <2>4, BackupHeld
    <3>2. PICK d : d = cmds[q] /\ CommandInv(d) /\ ~Holding(d)
      BY <1>0, <3>1 DEF CommandsInv
    <3>3. CommandInv(d)'
      BY <1>1, <1>8, <3>2, FileKinds DEF CommandInv, Holding
    <3> QED
      BY <3>1, <3>2, <3>3 DEF CommandInv
  <2>5. cmds'[p] = c
    BY <2>1, <2>3
  <2>6. CommandsInv'
    <3>1. CommandInv(cmds[p])'
      BY <2>2, <2>5 DEF CommandInv
    <3>2. \A q \in Commands : CommandInv(cmds[q])'
      BY <2>4, <3>1
    <3>3. \A q, r \in Commands : Holding(cmds'[q]) /\ Holding(cmds'[r]) => q = r
      BY <2>4
    <3> QED
      BY <3>2, <3>3 DEF CommandsInv, Holding
  <2>7. SetupType'
    BY <1>0, <1>1, <1>8, <2>1, <2>3 DEF SetupType
  <2> QED
    BY <1>0, <1>1, <2>6, <2>7 DEF SetupInv
<1> QED
  BY <1>4, <1>6, <1>7, <1>8

\* the backup is taken, in full or cut short
Saved(old, short) == [old EXCEPT !.pc = "replace", !.saved = TRUE, !.uncovered = short]

LEMMA FillBackupInv ==
  ASSUME SetupInv, NEW p \in Commands, FillBackup(p)
  PROVE  SetupInv' /\ UNCHANGED key
<1>0. SetupType /\ CommandsInv /\ lost = {}
  BY DEF SetupInv
<1>1. UNCHANGED <<posture, key, config, printed, lost, spent>> /\ cmds[p].pc = "fill"
  BY DEF FillBackup, CommandAt
<1>2. PICK old \in WriteCommand : old = cmds[p]
  BY <1>0, <1>1, CommandTypes
<1>3. /\ CommandInv(old) /\ old.uncovered = FALSE /\ Holding(old)
  BY <1>0, <1>1, <1>2 DEF CommandsInv, CommandInv, Holding
<1>4. CASE EndCommand(p) /\ UNCHANGED backup
  <2>1. CommandsInv' /\ cmds' \in [Commands -> CommandType]
    BY <1>0, <1>1, <1>4, CommandEnds
  <2> QED
    BY <1>0, <1>1, <1>4, <2>1, SetupMoves DEF SetupType
<1>5. ASSUME NEW short \in BOOLEAN, config # NoFile, backup' = IF short THEN Truncated ELSE config,
             cmds' = [cmds EXCEPT ![p].pc = "replace", ![p].saved = TRUE, ![p].uncovered = short]
      PROVE  SetupInv' /\ UNCHANGED key
  <2>0. cmds \in [Commands -> CommandType] /\ config \in ConfigType /\ backup' \in ConfigType
    <3>1. Truncated \in ConfigType
      BY DEF Truncated, ConfigOf, ConfigType
    <3> QED
      BY <1>0, <1>5, <3>1 DEF SetupType
  <2>1. PICK c : c = Saved(old, short)
    OBVIOUS
  <2>2. /\ c \in CommandType /\ c.pc = "replace" /\ c.saved = TRUE /\ c.uncovered = short /\ c.plan = old.plan
        /\ c.existing = old.existing /\ c.proposed = old.proposed
    BY <1>3, <2>1 DEF Saved, WriteCommand, CommandType
  <2>3. cmds' = [cmds EXCEPT ![p] = c]
    BY <1>2, <1>5, <2>0, <2>1 DEF Saved
  <2>4. CommandInv(c)'
    BY <1>1, <1>2, <1>3, <1>5, <2>0, <2>2 DEF CommandInv
  <2>5. ASSUME NEW q \in Commands, q # p
        PROVE  cmds'[q] = cmds[q] /\ ~Holding(cmds[q]) /\ CommandInv(cmds[q])'
    <3>1. cmds'[q] = cmds[q] /\ ~Holding(cmds[q])
      BY <1>0, <1>2, <1>3, <2>0, <2>3, <2>5 DEF CommandsInv
    <3>2. PICK d : d = cmds[q] /\ CommandInv(d) /\ ~Holding(d)
      BY <1>0, <3>1 DEF CommandsInv
    <3>3. CommandInv(d)'
      BY <1>1, <1>5, <3>2 DEF CommandInv, Holding
    <3> QED
      BY <3>1, <3>2, <3>3 DEF CommandInv
  <2>6. cmds'[p] = c
    BY <2>0, <2>3
  <2>7. CommandsInv'
    <3>1. CommandInv(cmds[p])'
      BY <2>4, <2>6 DEF CommandInv
    <3>2. \A q \in Commands : CommandInv(cmds[q])'
      BY <2>5, <3>1
    <3>3. \A q, r \in Commands : Holding(cmds'[q]) /\ Holding(cmds'[r]) => q = r
      BY <2>5
    <3> QED
      BY <3>2, <3>3 DEF CommandsInv, Holding
  <2>8. SetupType'
    BY <1>0, <1>1, <1>5, <2>0, <2>2, <2>3 DEF SetupType
  <2> QED
    BY <1>0, <1>1, <2>7, <2>8 DEF SetupInv
<1> QED
  BY <1>4, <1>5 DEF FillBackup


\* what becomes of a command while another one, or the client, writes the file
Passed(c, content) ==
    IF c.pc \in {"replace", "verify"} /\ content # config THEN [c EXCEPT !.uncovered = TRUE] ELSE c

LEMMA PassedBy ==
  ASSUME SetupType, NEW c \in CommandType, CommandInv(c), NEW d, d = Passed(c, config'),
         UNCHANGED printed, backup' = backup \/ ~Holding(c)
  PROVE  d \in CommandType /\ CommandInv(d)' /\ Holding(d) = Holding(c)
<1>1. CASE c.pc \in {"replace", "verify"} /\ config' # config
  <2>1. c \in WriteCommand
    BY <1>1 DEF CommandType, KeyCommand, KeyHeld, PlanCommand, Idle
  <2>2. d = [c EXCEPT !.uncovered = TRUE]
    BY <1>1 DEF Passed
  <2>3. /\ d \in CommandType /\ d.pc = c.pc /\ d.uncovered = TRUE /\ d.plan = c.plan /\ d.existing = c.existing
        /\ d.proposed = c.proposed /\ d.saved = c.saved
    BY <2>1, <2>2 DEF WriteCommand, CommandType
  <2>4. CommandInv(d)'
    BY <1>1, <2>3 DEF CommandInv, Holding
  <2>5. Holding(d) = Holding(c)
    BY <2>3 DEF Holding
  <2> QED
    BY <2>3, <2>4, <2>5
<1>2. CASE ~(c.pc \in {"replace", "verify"} /\ config' # config)
  <2>1. d = c
    BY <1>2 DEF Passed
  <2>2. CommandInv(c)'
    BY <1>2 DEF CommandInv, Holding
  <2> QED
    BY <2>1, <2>2
<1> QED
  BY <1>1, <1>2

\* Somebody writes the file: everybody else is overtaken or sees no change.
LEMMA FileMoves ==
  ASSUME SetupType, CommandsInv, UNCHANGED printed, NEW writers \in SUBSET Commands,
         cmds' \in [Commands -> CommandType],
         \A q \in Commands \ writers : cmds'[q] = Passed(cmds[q], config'),
         \A q \in Commands \ writers : backup' = backup \/ ~Holding(cmds[q]),
         \A q \in writers : CommandInv(cmds[q])' /\ (Holding(cmds'[q]) => Holding(cmds[q]))
  PROVE  CommandsInv'
<1>0. cmds \in [Commands -> CommandType]
  BY DEF SetupType
<1>1. ASSUME NEW q \in Commands
      PROVE  CommandInv(cmds[q])' /\ (Holding(cmds'[q]) => Holding(cmds[q]))
  <2>1. CASE q \in writers
    BY <2>1
  <2>2. CASE q \notin writers
    <3>1. PICK c \in CommandType : c = cmds[q] /\ CommandInv(c)
      BY <1>0 DEF CommandsInv
    <3>2. PICK d : d = Passed(c, config')
      OBVIOUS
    <3>3. CommandInv(d)' /\ Holding(d) = Holding(c)
      BY <2>2, <3>1, <3>2, PassedBy
    <3>4. d = cmds'[q]
      BY <2>2, <3>1, <3>2
    <3> QED
      BY <3>1, <3>3, <3>4 DEF CommandInv
  <2> QED
    BY <2>1, <2>2
<1>2. \A q, r \in Commands : Holding(cmds'[q]) /\ Holding(cmds'[r]) => q = r
  BY <1>1 DEF CommandsInv
<1> QED
  BY <1>1, <1>2 DEF CommandsInv, Holding

\* the commands as a function: all but the writers are passed by
LEMMA OvertakenIs ==
  ASSUME SetupType, CommandsInv, NEW writers \in SUBSET Commands, NEW content
  PROVE  /\ DOMAIN Overtaken(writers, content) = Commands
         /\ \A q \in Commands : Overtaken(writers, content)[q] =
              IF q \in writers THEN cmds[q] ELSE Passed(cmds[q], content)
         /\ Overtaken(writers, content) \in [Commands -> CommandType]
<1>1. \A q \in Commands : Overtaken(writers, content)[q] =
        IF q \in writers THEN cmds[q] ELSE Passed(cmds[q], content)
  BY DEF Overtaken, Passed
<1>2. \A q \in Commands : cmds[q] \in CommandType
  BY DEF SetupType
<1>3. ASSUME NEW q \in Commands PROVE Passed(cmds[q], content) \in CommandType
  <2>1. PICK c \in CommandType : c = cmds[q]
    BY <1>2
  <2>2. CASE c.pc \in {"replace", "verify"}
    <3>1. c \in WriteCommand
      BY <2>2 DEF CommandType, KeyCommand, KeyHeld, PlanCommand, Idle
    <3>2. [c EXCEPT !.uncovered = TRUE] \in WriteCommand
      BY <3>1 DEF WriteCommand
    <3> QED
      BY <2>1, <3>2 DEF Passed, CommandType
  <2>3. CASE c.pc \notin {"replace", "verify"}
    BY <2>1, <2>3 DEF Passed
  <2> QED
    BY <2>2, <2>3
<1>4. Overtaken(writers, content) = [q \in Commands |-> Overtaken(writers, content)[q]]
  BY DEF Overtaken
<1>5. \A q \in Commands : Overtaken(writers, content)[q] \in CommandType
  BY <1>1, <1>2, <1>3
<1>6. DOMAIN Overtaken(writers, content) = Commands
  BY DEF Overtaken
<1> QED
  BY <1>1, <1>4, <1>5, <1>6

\* The rename: what was in the file when the backup was taken is in the backup.
LEMMA ReplaceConfigInv ==
  ASSUME SetupInv, NEW p \in Commands, ReplaceConfig(p)
  PROVE  SetupInv' /\ UNCHANGED key
<1>0. SetupType /\ CommandsInv /\ lost = {}
  BY DEF SetupInv
<1>1. UNCHANGED <<posture, key, backup, printed, spent>> /\ cmds[p].pc = "replace"
  BY DEF ReplaceConfig, CommandAt
<1>2. PICK old \in WriteCommand : old = cmds[p] /\ CommandInv(old)
  BY <1>0, <1>1, CommandTypes DEF CommandsInv
<1>3. PICK new \in ConfigType : new = old.proposed
  BY DEF WriteCommand
<1>4. config' = new
  BY <1>2, <1>3 DEF ReplaceConfig
<1>5. PICK o : o = Overtaken({p}, new)
  OBVIOUS
<1>6. /\ o \in [Commands -> CommandType] /\ o[p] = old
      /\ \A q \in Commands \ {p} : o[q] = Passed(cmds[q], config')
  BY <1>0, <1>2, <1>4, <1>5, OvertakenIs
<1>7. PICK c : c = Stepped(old, "verify", old.saved)
  OBVIOUS
<1>8. /\ c \in CommandType /\ c.pc = "verify" /\ c.saved = old.saved /\ c.uncovered = old.uncovered /\ c.plan = old.plan
      /\ c.existing = old.existing /\ c.proposed = old.proposed
  BY <1>7, StepTo DEF WriteCommand
<1>9. cmds' = [o EXCEPT ![p] = c]
  <2>1. c = [old EXCEPT !.pc = "verify"]
    BY <1>7 DEF Stepped, WriteCommand
  <2>2. cmds' = [o EXCEPT ![p].pc = "verify"]
    BY <1>2, <1>3, <1>5 DEF ReplaceConfig
  <2> QED
    BY <1>6, <2>1, <2>2
<1>10. cmds' \in [Commands -> CommandType] /\ cmds'[p] = c /\ \A q \in Commands \ {p} : cmds'[q] = o[q]
  BY <1>6, <1>8, <1>9
<1>11. CommandInv(c)' /\ (Holding(c) => Holding(old))
  BY <1>1, <1>2, <1>3, <1>4, <1>8 DEF CommandInv, Holding
<1>12. CommandInv(cmds[p])'
  BY <1>10, <1>11 DEF CommandInv
<1>13. CommandsInv'
  <2>1. PICK w \in SUBSET Commands : w = {p}
    OBVIOUS
  <2>2. \A q \in Commands \ w : cmds'[q] = Passed(cmds[q], config')
    BY <1>6, <1>10, <2>1
  <2>3. \A q \in w : CommandInv(cmds[q])' /\ (Holding(cmds'[q]) => Holding(cmds[q]))
    BY <1>2, <1>10, <1>11, <1>12, <2>1
  <2>4. \A q \in Commands \ w : backup' = backup \/ ~Holding(cmds[q])
    BY <1>1
  <2>5. UNCHANGED printed
    BY <1>1
  <2> QED
    BY <1>0, <1>10, <2>2, <2>3, <2>4, <2>5, FileMoves
<1>14. lost' = {}
  <2>1. Displaces(p, new, backup) = {}
    <3> SUFFICES ASSUME NEW d \in {backup} \cup (IF old.uncovered THEN {} ELSE {config}), d.kind = "config"
                 PROVE  backup.kind = "config" /\ backup.other = d.other
      BY <1>2 DEF Displaces
    <3>1. CASE d = backup
      BY <3>1
    <3>2. CASE d = config /\ ~old.uncovered
      <4>1. config = NoFile \/ (old.saved /\ backup = config)
        BY <1>1, <1>2, <3>2 DEF CommandInv
      <4> QED
        BY <3>2, <4>1, FileKinds
    <3> QED
      BY <3>1, <3>2
  <2> QED
    BY <1>0, <1>2, <1>3, <2>1 DEF ReplaceConfig
<1>15. SetupType'
  BY <1>0, <1>1, <1>4, <1>10 DEF SetupType
<1> QED
  BY <1>1, <1>13, <1>14, <1>15 DEF SetupInv

\* The read-back: a rollback puts the backup back.
LEMMA VerifyConfigInv ==
  ASSUME SetupInv, NEW p \in Commands, VerifyConfig(p)
  PROVE  SetupInv' /\ UNCHANGED key
<1>0. SetupType /\ CommandsInv /\ lost = {}
  BY DEF SetupInv
<1>1. UNCHANGED <<posture, key, printed, spent>> /\ cmds[p].pc = "verify"
  BY DEF VerifyConfig, CommandAt
<1>2. PICK old \in WriteCommand : old = cmds[p] /\ CommandInv(old)
  BY <1>0, <1>1, CommandTypes DEF CommandsInv
<1>3. CASE UNCHANGED <<config, backup, lost>> /\ EndCommand(p)
  <2>1. CommandsInv' /\ cmds' \in [Commands -> CommandType]
    BY <1>0, <1>1, <1>3, CommandEnds
  <2> QED
    BY <1>0, <1>1, <1>3, <2>1, SetupMoves DEF SetupType
<1>4. PICK restored, copy :
        restored = (IF old.saved THEN backup ELSE NoFile) /\ copy = (IF old.saved THEN NoFile ELSE backup)
  OBVIOUS
<1>5. CASE /\ config # old.proposed /\ config' = restored /\ backup' = copy
           /\ lost' = lost \cup Displaces(p, restored, copy)
           /\ cmds' = [Overtaken({p}, restored) EXCEPT ![p] = Idle]
  <2>1. PICK o : o = Overtaken({p}, restored)
    OBVIOUS
  <2>2. /\ o \in [Commands -> CommandType]
        /\ \A q \in Commands \ {p} : o[q] = Passed(cmds[q], config')
    BY <1>0, <1>5, <2>1, OvertakenIs
  <2>3. /\ cmds' \in [Commands -> CommandType] /\ cmds'[p] = Idle
        /\ \A q \in Commands \ {p} : cmds'[q] = o[q]
    BY <1>5, <2>1, <2>2 DEF CommandType
  <2>4. CommandInv(cmds[p])' /\ ~Holding(cmds'[p])
    BY <2>3 DEF CommandInv, Holding, Idle
  <2>5. ASSUME NEW q \in Commands \ {p} PROVE backup' = backup \/ ~Holding(cmds[q])
    <3>1. CASE old.saved
      <4>1. Holding(cmds[p])
        BY <1>1, <1>2, <3>1 DEF Holding
      <4> QED
        BY <1>0, <4>1 DEF CommandsInv
    <3>2. CASE ~old.saved
      BY <1>4, <1>5, <3>2
    <3> QED
      BY <3>1, <3>2
  <2>6. CommandsInv'
    <3>1. PICK w \in SUBSET Commands : w = {p}
      OBVIOUS
    <3>2. \A q \in Commands \ w : cmds'[q] = Passed(cmds[q], config')
      BY <2>2, <2>3, <3>1
    <3>3. \A q \in w : CommandInv(cmds[q])' /\ (Holding(cmds'[q]) => Holding(cmds[q]))
      BY <2>4, <3>1
    <3>4. \A q \in Commands \ w : backup' = backup \/ ~Holding(cmds[q])
      BY <2>5, <3>1
    <3>5. UNCHANGED printed
      BY <1>1
    <3> QED
      BY <1>0, <2>3, <3>2, <3>3, <3>4, <3>5, FileMoves
  <2>7. Displaces(p, restored, copy) = {}
    <3> SUFFICES ASSUME NEW d \in {backup} \cup (IF old.uncovered THEN {} ELSE {config}), d.kind = "config"
                 PROVE  \E e \in {restored, copy} : e.kind = "config" /\ e.other = d.other
      BY <1>2 DEF Displaces
    <3>1. CASE d = backup
      BY <1>4, <3>1
    <3>2. CASE d = config /\ ~old.uncovered
      BY <1>1, <1>2, <1>5, <3>2 DEF CommandInv
    <3> QED
      BY <3>1, <3>2
  <2>8. config' \in {NoFile} \cup ConfigType /\ backup' \in {NoFile, Unfilled} \cup ConfigType
    BY <1>0, <1>1, <1>2, <1>4, <1>5 DEF CommandInv, SetupType
  <2>9. SetupType'
    BY <1>0, <1>1, <2>3, <2>8 DEF SetupType
  <2> QED
    BY <1>0, <1>1, <1>5, <2>6, <2>7, <2>9 DEF SetupInv
<1> QED
  BY <1>2, <1>3, <1>4, <1>5 DEF VerifyConfig


LEMMA FileActionInv ==
  ASSUME SetupInv, NEW p \in Commands, FileAction(p)
  PROVE  SetupInv' /\ KeyOfAnotherKept
<1>1. SetupInv' /\ UNCHANGED key
  BY EnsureParentDirectoryInv, CreateBackupInv, FillBackupInv, ReplaceConfigInv, VerifyConfigInv DEF FileAction
<1> QED
  BY <1>1 DEF KeyOfAnotherKept

LEMMA DieSetupInv ==
  ASSUME SetupInv, NEW p \in Commands, DieSetup(p)
  PROVE  SetupInv' /\ KeyOfAnotherKept
<1>0. SetupType /\ CommandsInv
  BY DEF SetupInv
<1>1. UNCHANGED <<posture, key, config, backup, printed, lost, spent>> /\ EndCommand(p)
  BY DEF DieSetup
<1>2. CommandsInv' /\ cmds' \in [Commands -> CommandType]
  BY <1>0, <1>1, CommandEnds
<1> QED
  BY <1>0, <1>1, <1>2, SetupMoves DEF SetupType, KeyOfAnotherKept

\* The client or its user writes: everybody with a backup is overtaken.
LEMMA EditConfigInv ==
  ASSUME SetupInv, EditConfig
  PROVE  SetupInv' /\ KeyOfAnotherKept
<1>0. SetupType /\ CommandsInv
  BY DEF SetupInv
<1>1. UNCHANGED <<posture, key, backup, printed, lost>>
  BY DEF EditConfig
<1>2. config' \in ConfigType
  <2>1. PICK entry \in PlanChoices \cup {NoEntry} : entry = IF config = NoFile THEN NoEntry ELSE config.entry
    BY <1>0 DEF SetupType, ConfigType
  <2>2. PICK version \in Nat : version = spent.edits + 2
    BY <1>0 DEF SetupType
  <2>3. PICK parses \in BOOLEAN : config' = ConfigOf(entry, version, parses)
    BY <2>1, <2>2 DEF EditConfig
  <2>4. [kind |-> "config", entry |-> entry, other |-> version, parses |-> parses] \in ConfigType
    BY DEF ConfigType
  <2> QED
    BY <2>3, <2>4 DEF ConfigOf
<1>3. spent' \in [commands : Nat, edits : Nat, keys : Nat]
  <2>1. spent' = [spent EXCEPT !.edits = spent.edits + 1]
    BY DEF EditConfig
  <2> QED
    BY <1>0, <2>1 DEF SetupType
<1>4. PICK w \in SUBSET Commands : w = {}
  OBVIOUS
<1>5. PICK content : content = config'
  OBVIOUS
<1>6. cmds' = Overtaken(w, content)
  BY <1>4, <1>5 DEF EditConfig
<1>7. /\ cmds' \in [Commands -> CommandType]
      /\ \A q \in Commands \ w : cmds'[q] = Passed(cmds[q], config')
  BY <1>0, <1>4, <1>5, <1>6, OvertakenIs
<1>8. CommandsInv'
  <2>1. \A q \in w : CommandInv(cmds[q])' /\ (Holding(cmds'[q]) => Holding(cmds[q]))
    BY <1>4
  <2>2. \A q \in Commands \ w : backup' = backup \/ ~Holding(cmds[q])
    BY <1>1
  <2>3. UNCHANGED printed
    BY <1>1
  <2> QED
    BY <1>0, <1>7, <2>1, <2>2, <2>3, FileMoves
<1>9. SetupType'
  BY <1>0, <1>1, <1>2, <1>3, <1>7 DEF SetupType
<1> QED
  BY <1>1, <1>8, <1>9 DEF SetupInv, KeyOfAnotherKept

\* The rest of the surroundings: the discovered state, and what is removed by hand.
LEMMA ByHandInv ==
  ASSUME SetupInv, ChangePosture \/ RemoveBackup \/ RemoveKey
  PROVE  SetupInv' /\ KeyOfAnotherKept
<1>0. SetupType /\ CommandsInv
  BY DEF SetupInv
<1>1. UNCHANGED <<config, cmds, printed, lost, spent>>
  BY DEF ChangePosture, RemoveBackup, RemoveKey
<1>2. CommandsInv'
  <2>1. CASE UNCHANGED backup
    BY <1>0, <1>1, <2>1 DEF CommandsInv, CommandInv, Holding
  <2>2. CASE RemoveBackup
    BY <1>0, <1>1, <2>2 DEF RemoveBackup, CommandsInv, CommandInv, Holding, Idle
  <2> QED
    BY <2>1, <2>2 DEF ChangePosture, RemoveKey
<1>3. SetupType'
  BY <1>0, <1>1 DEF SetupType, ChangePosture, RemoveBackup, RemoveKey
<1>4. KeyOfAnotherKept
  BY DEF KeyOfAnotherKept, ChangePosture, RemoveBackup
<1> QED
  BY <1>1, <1>2, <1>3, <1>4 DEF SetupInv

-----------------------------------------------------------------------------
(* The key files.                                                          *)

\* no command that stores a key moves
Quiet == \A q \in Commands : cmds'[q].pc \in KeyHeld => cmds'[q] = cmds[q]

LEMMA KeysQuiet ==
  ASSUME KeyInv, Quiet, UNCHANGED <<key, handRemoved>>, spent'.keys = spent.keys
  PROVE  KeyInv'
BY DEF KeyInv, Quiet, KeyHeld

LEMMA MoveQuiet ==
  ASSUME SetupType, NEW p \in Commands, NEW c, cmds' = [cmds EXCEPT ![p] = c], c.pc \notin KeyHeld
  PROVE  Quiet
BY DEF SetupType, Quiet

LEMMA EndQuiet ==
  ASSUME SetupType, NEW p \in Commands, EndCommand(p)
  PROVE  Quiet
<1>1. Idle.pc \notin KeyHeld
  BY DEF Idle, KeyHeld
<1> QED
  BY <1>1, MoveQuiet DEF EndCommand

LEMMA PcQuiet ==
  ASSUME SetupType, NEW p \in Commands, cmds[p] \in PlanCommand \cup WriteCommand, NEW to, to \notin KeyHeld,
         MoveTo(p, to)
  PROVE  Quiet
<1>1. PICK c : c = [cmds[p] EXCEPT !.pc = to]
  OBVIOUS
<1>2. c.pc = to
  BY <1>1 DEF PlanCommand, WriteCommand
<1>3. cmds' = [cmds EXCEPT ![p] = c]
  BY <1>1 DEF MoveTo
<1> QED
  BY <1>2, <1>3, MoveQuiet

LEMMA ConfirmQuiet ==
  ASSUME SetupType, NEW p \in Commands, cmds[p] \in PlanCommand \cup WriteCommand, NEW token,
         NEW to \in {"confirmed", "parent"}, Confirm(p, token, to)
  PROVE  Quiet
<1>1. CASE EndCommand(p)
  BY <1>1, EndQuiet
<1>2. CASE cmds' = [cmds EXCEPT ![p] = [@ EXCEPT !.pc = to, !.token = token]]
  <2>1. PICK c : c = [cmds[p] EXCEPT !.pc = to, !.token = token]
    OBVIOUS
  <2>2. c.pc = to /\ to \notin KeyHeld
    BY <2>1 DEF PlanCommand, WriteCommand, KeyHeld
  <2>3. cmds' = [cmds EXCEPT ![p] = c]
    BY <1>2, <2>1
  <2> QED
    BY <2>2, <2>3, MoveQuiet
<1> QED
  BY <1>1, <1>2 DEF Confirm

LEMMA PlanQuiet ==
  ASSUME SetupInv, NEW p \in Commands, PlanAction(p)
  PROVE  Quiet /\ UNCHANGED key /\ spent'.keys = spent.keys
<1>0. SetupType
  BY DEF SetupInv
<1>1. ASSUME NEW kind \in {"apply", "read"}, StartSetup(p, kind)
      PROVE  Quiet /\ UNCHANGED key /\ spent'.keys = spent.keys
  <2>1. PICK choice, token, digest :
          /\ BeginCommand(p, [pc |-> kind, choice |-> choice, plan |-> digest, token |-> token]) /\ UNCHANGED key
    BY <1>1 DEF StartSetup
  <2>2. PICK c : c = [pc |-> kind, choice |-> choice, plan |-> digest, token |-> token]
    OBVIOUS
  <2>3. cmds' = [cmds EXCEPT ![p] = c] /\ spent' = [spent EXCEPT !.commands = spent.commands + 1]
    BY <2>1, <2>2 DEF BeginCommand
  <2>4. c.pc \notin KeyHeld /\ spent'.keys = spent.keys
    BY <1>0, <2>2, <2>3 DEF KeyHeld, SetupType
  <2> QED
    BY <1>0, <2>1, <2>3, <2>4, MoveQuiet
<1>2. CASE ConfirmApply(p) \/ ConfirmWrite(p)
  <2>1. cmds[p] \in PlanCommand \cup WriteCommand
    BY <1>0, <1>2, CommandTypes DEF ConfirmApply, ConfirmWrite, CommandAt
  <2>2. EndCommand(p) \/ \E token : \E to \in {"confirmed", "parent"} : Confirm(p, token, to)
    BY <1>2 DEF ConfirmApply, ConfirmWrite
  <2>3. Quiet
    BY <1>0, <2>1, <2>2, EndQuiet, ConfirmQuiet
  <2> QED
    BY <1>2, <2>3 DEF ConfirmApply, ConfirmWrite
<1>3. CASE RunApply(p)
  BY <1>0, <1>3, EndQuiet DEF RunApply
<1>4. CASE ReadExisting(p)
  <2>1. PICK c : c = [pc |-> "merge", choice |-> cmds[p].choice, plan |-> cmds[p].plan, token |-> cmds[p].token,
                      existing |-> config, proposed |-> MergedEntry(config, cmds[p].choice),
                      saved |-> FALSE, uncovered |-> FALSE]
    OBVIOUS
  <2>2. EndCommand(p) \/ cmds' = [cmds EXCEPT ![p] = c]
    BY <1>4, <2>1 DEF ReadExisting
  <2>3. c.pc \notin KeyHeld
    BY <2>1 DEF KeyHeld
  <2>4. Quiet
    BY <1>0, <2>2, <2>3, EndQuiet, MoveQuiet
  <2> QED
    BY <1>4, <2>4 DEF ReadExisting
<1> QED
  BY <1>1, <1>2, <1>3, <1>4 DEF PlanAction, SetupApply, WriteClientConfig

\* the others are passed by: none of them stores a key
LEMMA OvertakenQuiet ==
  ASSUME SetupType, CommandsInv, NEW writers \in SUBSET Commands, NEW content, NEW q \in Commands,
         Overtaken(writers, content)[q].pc \in KeyHeld
  PROVE  Overtaken(writers, content)[q] = cmds[q]
<1>1. Overtaken(writers, content)[q] = IF q \in writers THEN cmds[q] ELSE Passed(cmds[q], content)
  BY OvertakenIs
<1>2. CASE cmds[q].pc \in {"replace", "verify"}
  <2>1. cmds[q] \in WriteCommand
    BY <1>2, CommandTypes
  <2>2. [cmds[q] EXCEPT !.uncovered = TRUE].pc = cmds[q].pc
    BY <2>1 DEF WriteCommand
  <2> QED
    BY <1>1, <1>2, <2>2 DEF Passed, KeyHeld
<1>3. CASE cmds[q].pc \notin {"replace", "verify"}
  BY <1>1, <1>3 DEF Passed
<1> QED
  BY <1>2, <1>3

LEMMA FileQuiet ==
  ASSUME SetupInv, NEW p \in Commands, FileAction(p)
  PROVE  Quiet /\ UNCHANGED <<key, spent>>
<1>0. SetupType /\ CommandsInv
  BY DEF SetupInv
<1>1. cmds[p] \in WriteCommand
  BY <1>0, CommandTypes
     DEF FileAction, EnsureParentDirectory, CreateBackup, FillBackup, ReplaceConfig, VerifyConfig, CommandAt
<1>2. UNCHANGED <<key, spent>>
  BY DEF FileAction, EnsureParentDirectory, CreateBackup, FillBackup, ReplaceConfig, VerifyConfig
<1>3. CASE EndCommand(p)
  BY <1>0, <1>2, <1>3, EndQuiet
<1>4. ASSUME NEW to \in {"backup", "replace", "fill"}, MoveTo(p, to) PROVE Quiet
  <2>1. to \notin KeyHeld
    BY DEF KeyHeld
  <2> QED
    BY <1>0, <1>1, <1>4, <2>1, PcQuiet
<1>5. ASSUME NEW short \in BOOLEAN,
             cmds' = [cmds EXCEPT ![p].pc = "replace", ![p].saved = TRUE, ![p].uncovered = short]
      PROVE  Quiet
  <2>1. PICK c : c = Saved(cmds[p], short)
    OBVIOUS
  <2>2. c.pc \notin KeyHeld
    BY <1>1, <2>1 DEF Saved, WriteCommand, KeyHeld
  <2>3. cmds' = [cmds EXCEPT ![p] = c]
    BY <1>0, <1>5, <2>1 DEF Saved, SetupType
  <2> QED
    BY <1>0, <2>2, <2>3, MoveQuiet
<1>6. ASSUME NEW content, NEW c, c.pc \notin KeyHeld, cmds' = [Overtaken({p}, content) EXCEPT ![p] = c] PROVE Quiet
  <2>1. DOMAIN Overtaken({p}, content) = Commands
    BY <1>0, OvertakenIs
  <2> SUFFICES ASSUME NEW q \in Commands, cmds'[q].pc \in KeyHeld PROVE cmds'[q] = cmds[q]
    BY DEF Quiet
  <2>2. q # p /\ cmds'[q] = Overtaken({p}, content)[q]
    BY <1>6, <2>1
  <2> QED
    BY <1>0, <2>2, OvertakenQuiet
<1>7. CASE ReplaceConfig(p)
  <2>1. PICK o : o = Overtaken({p}, cmds[p].proposed)
    OBVIOUS
  <2>2. o[p] = cmds[p] /\ DOMAIN o = Commands
    BY <1>0, <2>1, OvertakenIs
  <2>3. PICK c : c = [cmds[p] EXCEPT !.pc = "verify"]
    OBVIOUS
  <2>4. c.pc \notin KeyHeld
    BY <1>1, <2>3 DEF WriteCommand, KeyHeld
  <2>5. cmds' = [o EXCEPT ![p].pc = "verify"]
    BY <1>7, <2>1 DEF ReplaceConfig
  <2>6. cmds' = [o EXCEPT ![p] = c]
    BY <2>2, <2>3, <2>5
  <2> QED
    BY <1>6, <2>1, <2>4, <2>6, <1>2
<1>8. CASE VerifyConfig(p)
  <2>1. EndCommand(p) \/ \E content : cmds' = [Overtaken({p}, content) EXCEPT ![p] = Idle]
    BY <1>8 DEF VerifyConfig
  <2>2. Idle.pc \notin KeyHeld
    BY DEF Idle, KeyHeld
  <2> QED
    BY <1>2, <1>3, <1>6, <2>1, <2>2
<1>9. CASE EnsureParentDirectory(p)
  BY <1>2, <1>3, <1>4, <1>9 DEF EnsureParentDirectory
<1>10. CASE CreateBackup(p)
  BY <1>2, <1>3, <1>4, <1>10 DEF CreateBackup
<1>11. CASE FillBackup(p)
  BY <1>2, <1>3, <1>5, <1>11 DEF FillBackup
<1> QED
  BY <1>7, <1>8, <1>9, <1>10, <1>11 DEF FileAction

\* A command fills the file it created, and unlinks the file it checked while
\* nobody removed that by hand.
LEMMA KeyActionKeys ==
  ASSUME SetupInv, KeyInv, NEW p \in Commands, KeyAction(p), UNCHANGED handRemoved
  PROVE  KeyInv' /\ KeyOfAnotherKept
<1>0. SetupType
  BY DEF SetupInv
<1>1. cmds \in [Commands -> CommandType] /\ spent.keys \in Nat
  BY <1>0 DEF SetupType
<1>2. CASE InitConfirmKey(p)
  <2>1. PICK c : c = [pc |-> "key_create"]
    OBVIOUS
  <2>2. cmds' = [cmds EXCEPT ![p] = c] /\ UNCHANGED key /\ spent' = [spent EXCEPT !.commands = spent.commands + 1]
    BY <1>2, <2>1 DEF InitConfirmKey, BeginCommand
  <2>3. c.pc \notin KeyHeld /\ spent'.keys = spent.keys
    BY <1>0, <2>1, <2>2 DEF KeyHeld, SetupType
  <2>4. KeyInv'
    BY <1>0, <2>2, <2>3, MoveQuiet, KeysQuiet
  <2> QED
    BY <2>2, <2>4 DEF KeyOfAnotherKept
<1>3. CASE EndCommand(p) /\ UNCHANGED <<key, spent>>
  <2>1. KeyInv'
    BY <1>0, <1>3, EndQuiet, KeysQuiet
  <2> QED
    BY <1>3, <2>1 DEF KeyOfAnotherKept
<1>4. CASE CreateKeyFile(p) /\ key = NoFile
  <2>1. PICK n \in Nat : n = spent.keys + 1
    BY <1>1
  <2>2. PICK c : c = [pc |-> "key_write", file |-> n]
    OBVIOUS
  <2>3. /\ key' = [id |-> n, filled |-> FALSE] /\ spent'.keys = n
        /\ cmds' = [cmds EXCEPT ![p] = c]
    BY <1>0, <1>4, <2>1, <2>2 DEF CreateKeyFile, SetupType
  <2>4. cmds'[p] = c /\ \A q \in Commands \ {p} : cmds'[q] = cmds[q]
    BY <1>1, <2>3
  <2>5. \A q \in Commands : cmds[q].pc \in KeyHeld => cmds[q].file \in Nat /\ cmds[q].file < n
    BY <1>0, <1>1, <2>1, CommandTypes DEF KeyInv, KeyCommand
  <2>6. key'.id <= spent'.keys /\ \A q \in Commands : cmds'[q].pc \in KeyHeld => cmds'[q].file <= spent'.keys
    BY <2>2, <2>3, <2>4, <2>5
  <2>7. \A q, r \in Commands :
          cmds'[q].pc \in KeyHeld /\ cmds'[r].pc \in KeyHeld /\ cmds'[q].file = cmds'[r].file => q = r
    BY <2>2, <2>4, <2>5 DEF KeyInv
  <2>8. ASSUME ~handRemoved', NEW q \in Commands, cmds'[q].pc = "key_unlink" PROVE FALSE
    BY <1>4, <2>2, <2>4, <2>8 DEF KeyInv
  <2>9. KeyInv'
    BY <2>6, <2>7, <2>8 DEF KeyInv
  <2> QED
    BY <1>4, <2>9 DEF KeyOfAnotherKept
<1>5. ASSUME NEW to \in {"key_sync", "key_unlink"}, MoveTo(p, to), cmds[p].pc \in KeyHeld, UNCHANGED spent,
             \/ UNCHANGED key
             \/ key # NoFile /\ key' = [key EXCEPT !.filled = TRUE],
             to = "key_unlink" => key # NoFile /\ key.id = cmds[p].file
      PROVE  KeyInv'
  <2>0. cmds[p] \in KeyCommand
    BY <1>0, <1>5, CommandTypes
  <2>1. PICK c : c = [cmds[p] EXCEPT !.pc = to]
    OBVIOUS
  <2>2. c.pc = to /\ to \in KeyHeld /\ c.file = cmds[p].file
    BY <2>0, <2>1 DEF KeyCommand, KeyHeld
  <2>3. cmds' = [cmds EXCEPT ![p] = c]
    BY <1>5, <2>1 DEF MoveTo
  <2>4. cmds'[p] = c /\ \A q \in Commands \ {p} : cmds'[q] = cmds[q]
    BY <1>1, <2>3
  <2>5. (key' = NoFile <=> key = NoFile) /\ (key # NoFile => key'.id = key.id)
    BY <1>0, <1>5 DEF SetupType, NoFile
  <2>6. \A q \in Commands : (cmds'[q].pc \in KeyHeld <=> cmds[q].pc \in KeyHeld)
    BY <1>5, <2>2, <2>4
  <2>7. \A q \in Commands : cmds'[q].pc \in KeyHeld => cmds'[q].file = cmds[q].file
    BY <2>2, <2>4
  <2>8. ASSUME ~handRemoved', NEW q \in Commands, cmds'[q].pc = "key_unlink" PROVE key' # NoFile /\ key'.id = cmds'[q].file
    BY <1>5, <2>2, <2>4, <2>5, <2>8 DEF KeyInv
  <2> QED
    BY <1>5, <2>5, <2>6, <2>7, <2>8 DEF KeyInv
<1>6. CASE WriteKeyFile(p)
  <2>1. /\ MoveTo(p, "key_sync") /\ cmds[p].pc = "key_write" /\ UNCHANGED spent
        /\ \/ UNCHANGED key
           \/ key # NoFile /\ key' = [key EXCEPT !.filled = TRUE] /\ key.id = cmds[p].file
    BY <1>6 DEF WriteKeyFile, CommandAt
  <2>2. KeyInv'
    BY <1>5, <2>1 DEF KeyHeld
  <2> QED
    BY <2>1, <2>2 DEF KeyOfAnotherKept
<1>7. CASE CheckKeyFile(p) /\ key # NoFile /\ key.id = cmds[p].file
  <2>1. MoveTo(p, "key_unlink") /\ cmds[p].pc \in KeyHeld /\ UNCHANGED <<key, spent>>
    BY <1>7 DEF CheckKeyFile, KeyHeld
  <2>2. KeyInv'
    BY <1>5, <1>7, <2>1
  <2> QED
    BY <2>1, <2>2 DEF KeyOfAnotherKept
<1>8. CASE UndoKeyFile(p)
  <2>1. cmds[p].pc = "key_unlink" /\ key' = NoFile /\ EndCommand(p) /\ UNCHANGED spent
    BY <1>8 DEF UndoKeyFile, CommandAt
  <2>2. ~handRemoved => key.id = cmds[p].file
    BY <2>1 DEF KeyInv
  <2>3. cmds'[p] = Idle /\ \A q \in Commands \ {p} : cmds'[q] = cmds[q]
    BY <1>1, <2>1 DEF EndCommand
  <2>4. Idle.pc \notin KeyHeld /\ "key_unlink" \in KeyHeld
    BY DEF Idle, KeyHeld
  <2>5. ASSUME ~handRemoved', NEW q \in Commands, cmds'[q].pc = "key_unlink" PROVE FALSE
    <3>1. q # p /\ cmds[q].pc = "key_unlink"
      BY <2>3, <2>4, <2>5
    <3>2. cmds[q].file = key.id /\ cmds[p].file = key.id
      BY <2>1, <2>5, <3>1 DEF KeyInv
    <3> QED
      BY <2>1, <2>4, <3>1, <3>2 DEF KeyInv
  <2>6. KeyInv'
    BY <2>1, <2>3, <2>4, <2>5 DEF KeyInv
  <2> QED
    BY <2>1, <2>2, <2>6 DEF KeyOfAnotherKept
<1> QED
  BY <1>2, <1>3, <1>4, <1>6, <1>7, <1>8 DEF KeyAction, CreateKeyFile, SyncKeyFile, CheckKeyFile

LEMMA KeyStep ==
  ASSUME SetupInv, KeyInv, SetupNext
  PROVE  KeyInv' /\ KeyOfAnotherKept
<1>0. SetupType /\ CommandsInv
  BY DEF SetupInv
<1>1. ASSUME NEW p \in Commands, KeyAction(p), UNCHANGED handRemoved PROVE KeyInv' /\ KeyOfAnotherKept
  BY <1>1, KeyActionKeys
<1>2. ASSUME NEW p \in Commands, PlanAction(p) \/ FileAction(p) \/ DieSetup(p), UNCHANGED handRemoved
      PROVE  KeyInv' /\ KeyOfAnotherKept
  <2>1. Quiet /\ UNCHANGED key /\ spent'.keys = spent.keys
    BY <1>0, <1>2, PlanQuiet, FileQuiet, EndQuiet DEF DieSetup
  <2> QED
    BY <1>2, <2>1, KeysQuiet DEF KeyOfAnotherKept
<1>3. CASE (EditConfig \/ ChangePosture \/ RemoveBackup) /\ UNCHANGED handRemoved
  <2>1. UNCHANGED key /\ spent'.keys = spent.keys
    <3>1. UNCHANGED spent \/ spent' = [spent EXCEPT !.edits = spent.edits + 1]
      BY <1>3 DEF EditConfig, ChangePosture, RemoveBackup
    <3> QED
      BY <1>0, <1>3, <3>1 DEF EditConfig, ChangePosture, RemoveBackup, SetupType
  <2>2. Quiet
    <3>1. CASE EditConfig
      <4>0. PICK w \in SUBSET Commands : w = {}
        OBVIOUS
      <4>1. PICK content : cmds' = Overtaken(w, content)
        BY <3>1, <4>0 DEF EditConfig
      <4> QED
        BY <1>0, <4>1, OvertakenQuiet DEF Quiet
    <3> QED
      BY <1>3, <3>1 DEF ChangePosture, RemoveBackup, Quiet
  <2> QED
    BY <1>3, <2>1, <2>2, KeysQuiet DEF KeyOfAnotherKept
<1>4. CASE RemoveKey
  <2>1. /\ key' = NoFile /\ UNCHANGED <<cmds, spent>>
        /\ handRemoved' = (handRemoved \/ \E p \in Commands : CommandAt(p, "key_unlink") /\ cmds[p].file = key.id)
    BY <1>4 DEF RemoveKey
  <2>2. ASSUME ~handRemoved', NEW p \in Commands, cmds[p].pc = "key_unlink" PROVE FALSE
    BY <2>1, <2>2 DEF KeyInv, CommandAt
  <2>3. KeyInv'
    BY <2>1, <2>2 DEF KeyInv
  <2> QED
    BY <1>4, <2>3 DEF KeyOfAnotherKept
<1> QED
  BY <1>1, <1>2, <1>3, <1>4 DEF SetupNext, KeyAction, PlanAction, FileAction

LEMMA SetupStep ==
  ASSUME SetupInv, SetupNext
  PROVE  SetupInv'
<1>1. ASSUME NEW p \in Commands, KeyAction(p) \/ PlanAction(p) \/ FileAction(p) \/ DieSetup(p)
      PROVE  SetupInv'
  BY <1>1, KeyActionInv, PlanActionInv, FileActionInv, DieSetupInv
<1>2. CASE EditConfig \/ ChangePosture \/ RemoveBackup \/ RemoveKey
  BY <1>2, EditConfigInv, ByHandInv
<1> QED
  BY <1>1, <1>2 DEF SetupNext, KeyAction, PlanAction, FileAction

\* Nothing is applied or written that the operator was not shown; no write of
\* the client's configuration displaces what its backup holds - an edit made
\* after the backup was taken, and what a short write left out of it, are
\* beyond that; and no command touches a confirmation key it did not create,
\* unless a key file was removed by hand between a command's check and its
\* unlink by name. For any number of commands, deaths and edits
\* (security_setup_apply.py, security_client_config_write.py,
\* security_setup_confirm_key.py).
THEOREM SetupIsFaithful == SetupSpec => SetupFaithful
<1>1. SetupInit => SetupInv /\ KeyInv
  <2>1. SetupInit => KeyInv
    BY DEF SetupInit, KeyInv, KeyHeld, Idle
  <2> QED
    BY <2>1, SetupStart
<1>2. SetupInv /\ KeyInv /\ [SetupNext]_setupVars => SetupInv' /\ KeyInv'
  <2> SUFFICES ASSUME SetupInv, KeyInv, UNCHANGED setupVars PROVE SetupInv' /\ KeyInv'
    BY SetupStep, KeyStep
  <2> QED
    BY DEF setupVars, SetupInv, SetupType, CommandsInv, CommandInv, Holding, KeyInv
<1>3. SetupInv => ShownBeforeDone /\ DisplacedIsKept
  BY DEF SetupInv, CommandsInv, CommandInv, ShownBeforeDone, DisplacedIsKept
<1>4. SetupInv /\ KeyInv /\ [SetupNext]_setupVars => [KeyOfAnotherKept]_setupVars
  BY KeyStep
<1>5. SetupInv /\ SetupInv' /\ KeyInv /\ [SetupNext]_setupVars =>
        [(ShownBeforeDone /\ DisplacedIsKept)' /\ KeyOfAnotherKept]_setupVars
  <2>1. SetupInv' => (ShownBeforeDone /\ DisplacedIsKept)'
    BY <1>3, PTL
  <2> QED
    BY <1>4, <2>1
<1> QED
  BY <1>1, <1>2, <1>5, PTL DEF SetupSpec, SetupFaithful

-----------------------------------------------------------------------------
(* The write adapters.                                                     *)

Singletons == {"log_display", "log_retention", "ntp_settings", "timezone"}
Objects == {"logs", "ntp", "system"}
NtpServerType == [name : {"a", "b", "c", "d"}, prefer : Values]
ContractStates ==
    {"prepared", "sending", "sent", "failed", "reconciliation", "verified", "rolling_back", "rollback_sent",
     "rollback_failed", "rolled_back"}
Snapshots == [prefer : Values] \cup UNION { [FieldsOf[o] -> Int] : o \in Objects }
ContractType ==
    [state : ContractStates, cap : AllCapabilities, want : Values, snapshot : Snapshots, locator : Nat,
     verified : Snapshots]

SettingsType == \E f \in [Objects -> UNION { [FieldsOf[o] -> Int] : o \in Objects }] :
                    settings = f /\ \A o \in Objects : f[o] \in [FieldsOf[o] -> Int]
AdapterType ==
    /\ SettingsType
    /\ servers \in Seq(NtpServerType)
    /\ contracts \in [Contracts -> {NoContract} \cup ContractType]

\* no other contract was ever begun, and no administrator set the target's flag
Undisturbed(k) == k \notin touched /\ \A j \in Contracts \ {k} : contracts[j] = NoContract

\* every entry of the target server, wherever it stands by now
TargetPrefers(v) == \A i \in DOMAIN servers : servers[i].name = TargetServer => servers[i].prefer = v

\* How far a contract for the server is believed: until it is sent the target
\* is as it was read, a patch that went elsewhere left it so, and once verified
\* it is as wanted.
PreferInv(k, c) ==
    /\ c.cap # "ntp_prefer" => k \notin misdirected /\ c.snapshot \in [FieldsOf[ObjectOf[c.cap]] -> Int]
    /\ c.cap = "ntp_prefer" => c.snapshot \in [prefer : Values] /\ c.snapshot.prefer # c.want
    /\ c.cap = "ntp_prefer" /\ Undisturbed(k) =>
         /\ c.state \in {"prepared", "sending", "verified", "rolling_back", "rolled_back"} => k \notin misdirected
         /\ c.state \in {"prepared", "sending"} => TargetPrefers(c.snapshot.prefer)
         /\ c.state = "sent" /\ k \in misdirected => TargetPrefers(c.snapshot.prefer)
         /\ c.state \in {"verified", "rolling_back"} => TargetPrefers(c.want)
         /\ c.state = "rollback_sent" /\ k \in misdirected => TargetPrefers(c.want)

AdapterInv ==
    /\ AdapterType
    /\ misdirected \subseteq Contracts
    /\ \A k \in Contracts : IF contracts[k] = NoContract THEN k \notin misdirected ELSE PreferInv(k, contracts[k])
    /\ SettledValueHolds

-----------------------------------------------------------------------------
LEMMA OwnFields ==
  /\ \A x, y \in Singletons : OwnField[x] = OwnField[y] => x = y
  /\ \A x \in Singletons : ObjectOf[x] \in Objects /\ OwnField[x] \in FieldsOf[ObjectOf[x]]
  /\ DOMAIN FieldsOf = Objects
  /\ AllCapabilities = Singletons \cup {"ntp_prefer"} /\ "ntp_prefer" \notin Singletons
BY DEF OwnField, Singletons, ObjectOf, FieldsOf, Objects, AllCapabilities

LEMMA RemoveAtKeeps ==
  ASSUME NEW T, NEW s \in Seq(T), NEW i \in DOMAIN s
  PROVE  /\ RemoveAt(s, i) \in Seq(T)
         /\ \A j \in DOMAIN RemoveAt(s, i) : \E m \in DOMAIN s : RemoveAt(s, i)[j] = s[m]
<1>1. i \in 1..Len(s) /\ Len(s) \in Nat /\ \A m \in 1..Len(s) : s[m] \in T
  OBVIOUS
<1>2. PICK l, r : l = SubSeq(s, 1, i - 1) /\ r = SubSeq(s, i + 1, Len(s))
  OBVIOUS
<1>3. /\ l \in Seq(T) /\ Len(l) = i - 1
      /\ \A m \in 1..(i - 1) : l[m] = s[m]
  <2>1. /\ SubSeq(s, 1, i - 1) \in Seq(T)
        /\ Len(SubSeq(s, 1, i - 1)) = IF 1 <= i - 1 THEN i - 1 - 1 + 1 ELSE 0
        /\ \A m \in 1..(i - 1 - 1 + 1) : SubSeq(s, 1, i - 1)[m] = s[1 + m - 1]
    <3>1. 1 \in Int /\ i - 1 \in Int /\ \A m \in 1..(i - 1) : s[m] \in T
      BY <1>1
    <3> QED
      BY ONLY <3>1, SubSeqProperties
  <2> QED
    BY <1>1, <1>2, <2>1
<1>4. /\ r \in Seq(T) /\ Len(r) = Len(s) - i
      /\ \A m \in 1..(Len(s) - i) : r[m] = s[i + m]
  <2>1. /\ SubSeq(s, i + 1, Len(s)) \in Seq(T)
        /\ Len(SubSeq(s, i + 1, Len(s))) = IF i + 1 <= Len(s) THEN Len(s) - (i + 1) + 1 ELSE 0
        /\ \A m \in 1..(Len(s) - (i + 1) + 1) : SubSeq(s, i + 1, Len(s))[m] = s[i + 1 + m - 1]
    <3>1. i + 1 \in Int /\ Len(s) \in Int /\ \A m \in (i + 1)..Len(s) : s[m] \in T
      BY <1>1
    <3> QED
      BY ONLY <3>1, SubSeqProperties
  <2> QED
    BY <1>1, <1>2, <2>1
<1>5. PICK t : t = l \o r
  OBVIOUS
<1>6. /\ t \in Seq(T) /\ Len(t) = Len(s) - 1
      /\ \A m \in 1..(Len(s) - 1) : t[m] = IF m <= i - 1 THEN l[m] ELSE r[m - (i - 1)]
  <2>1. /\ t \in Seq(T) /\ Len(t) = Len(l) + Len(r)
        /\ \A m \in 1..(Len(l) + Len(r)) : t[m] = IF m <= Len(l) THEN l[m] ELSE r[m - Len(l)]
    BY <1>3, <1>4, <1>5, ConcatProperties
  <2>2. Len(l) + Len(r) = Len(s) - 1
    BY <1>1, <1>3, <1>4
  <2> QED
    BY <1>3, <2>1, <2>2
<1>7. ASSUME NEW j \in DOMAIN t PROVE \E m \in DOMAIN s : t[j] = s[m]
  <2>1. j \in 1..(Len(s) - 1)
    BY <1>1, <1>6
  <2>2. CASE j <= i - 1
    BY <1>1, <1>3, <1>6, <2>1, <2>2
  <2>3. CASE j > i - 1
    <3>1. t[j] = r[j - (i - 1)] /\ j - (i - 1) \in 1..(Len(s) - i)
      BY <1>1, <1>6, <2>1, <2>3
    <3>2. t[j] = s[j + 1] /\ j + 1 \in DOMAIN s
      BY <1>1, <1>4, <2>1, <3>1
    <3> QED
      BY <3>2
  <2> QED
    BY <1>1, <2>1, <2>2, <2>3
<1>8. RemoveAt(s, i) = t
  BY <1>2, <1>5 DEF RemoveAt
<1> QED
  BY <1>6, <1>7, <1>8

LEMMA InsertAtKeeps ==
  ASSUME NEW T, NEW s \in Seq(T), NEW e \in T, NEW i \in 1..Len(s) + 1
  PROVE  /\ InsertAt(s, i, e) \in Seq(T)
         /\ \A j \in DOMAIN InsertAt(s, i, e) :
              InsertAt(s, i, e)[j] = e \/ \E m \in DOMAIN s : InsertAt(s, i, e)[j] = s[m]
<1>1. Len(s) \in Nat /\ i \in Nat /\ 1 <= i /\ i <= Len(s) + 1 /\ \A m \in 1..Len(s) : s[m] \in T
  OBVIOUS
<1>2. PICK l, h, r : l = SubSeq(s, 1, i - 1) /\ h = <<e>> /\ r = SubSeq(s, i, Len(s))
  OBVIOUS
<1>3. /\ l \in Seq(T) /\ Len(l) = i - 1
      /\ \A m \in 1..(i - 1) : l[m] = s[m]
  <2>1. /\ SubSeq(s, 1, i - 1) \in Seq(T)
        /\ Len(SubSeq(s, 1, i - 1)) = IF 1 <= i - 1 THEN i - 1 - 1 + 1 ELSE 0
        /\ \A m \in 1..(i - 1 - 1 + 1) : SubSeq(s, 1, i - 1)[m] = s[1 + m - 1]
    <3>1. 1 \in Int /\ i - 1 \in Int /\ \A m \in 1..(i - 1) : s[m] \in T
      BY <1>1
    <3> QED
      BY ONLY <3>1, SubSeqProperties
  <2> QED
    BY <1>1, <1>2, <2>1
<1>4. /\ r \in Seq(T) /\ Len(r) = Len(s) - i + 1
      /\ \A m \in 1..(Len(s) - i + 1) : r[m] = s[i + m - 1]
  <2>1. /\ SubSeq(s, i, Len(s)) \in Seq(T)
        /\ Len(SubSeq(s, i, Len(s))) = IF i <= Len(s) THEN Len(s) - i + 1 ELSE 0
        /\ \A m \in 1..(Len(s) - i + 1) : SubSeq(s, i, Len(s))[m] = s[i + m - 1]
    <3>1. i \in Int /\ Len(s) \in Int /\ \A m \in i..Len(s) : s[m] \in T
      BY <1>1
    <3> QED
      BY ONLY <3>1, SubSeqProperties
  <2> QED
    BY <1>1, <1>2, <2>1
<1>5. h \in Seq(T) /\ Len(h) = 1 /\ h[1] = e
  BY <1>2
<1>6. PICK u : u = l \o h
  OBVIOUS
<1>7. /\ u \in Seq(T) /\ Len(u) = i
      /\ \A m \in 1..i : u[m] = IF m <= i - 1 THEN l[m] ELSE e
  <2>1. /\ u \in Seq(T) /\ Len(u) = Len(l) + Len(h)
        /\ \A m \in 1..(Len(l) + Len(h)) : u[m] = IF m <= Len(l) THEN l[m] ELSE h[m - Len(l)]
    BY <1>3, <1>5, <1>6, ConcatProperties
  <2> QED
    BY <1>1, <1>3, <1>5, <2>1
<1>8. PICK t : t = u \o r
  OBVIOUS
<1>9. /\ t \in Seq(T) /\ Len(t) = Len(s) + 1
      /\ \A m \in 1..(Len(s) + 1) : t[m] = IF m <= i THEN u[m] ELSE r[m - i]
  <2>1. /\ t \in Seq(T) /\ Len(t) = Len(u) + Len(r)
        /\ \A m \in 1..(Len(u) + Len(r)) : t[m] = IF m <= Len(u) THEN u[m] ELSE r[m - Len(u)]
    BY <1>4, <1>7, <1>8, ConcatProperties
  <2>2. Len(u) + Len(r) = Len(s) + 1
    BY <1>1, <1>4, <1>7
  <2> QED
    BY <1>7, <2>1, <2>2
<1>10. ASSUME NEW j \in DOMAIN t PROVE t[j] = e \/ \E m \in DOMAIN s : t[j] = s[m]
  <2>1. j \in 1..(Len(s) + 1)
    BY <1>1, <1>9
  <2>2. CASE j <= i - 1
    BY <1>1, <1>3, <1>7, <1>9, <2>1, <2>2
  <2>3. CASE j = i
    BY <1>1, <1>7, <1>9, <2>1, <2>3
  <2>4. CASE j > i
    <3>1. t[j] = r[j - i] /\ j - i \in 1..(Len(s) - i + 1)
      BY <1>1, <1>9, <2>1, <2>4
    <3>2. t[j] = s[j - 1] /\ j - 1 \in DOMAIN s
      BY <1>1, <1>4, <2>1, <2>4, <3>1
    <3> QED
      BY <3>2
  <2> QED
    BY <1>1, <2>1, <2>2, <2>3, <2>4
<1>11. InsertAt(s, i, e) = t
  BY <1>2, <1>6, <1>8 DEF InsertAt
<1> QED
  BY <1>9, <1>10, <1>11

\* An entry found exactly once is the only one, and the locator is its place.
LEMMA ResolvesOnce ==
  ASSUME AdapterType, Resolves("ntp_prefer")
  PROVE  /\ Locator("ntp_prefer") \in DOMAIN servers
         /\ servers[Locator("ntp_prefer")].name = TargetServer
         /\ Fingerprint("ntp_prefer") = [prefer |-> servers[Locator("ntp_prefer")].prefer]
         /\ Fingerprint("ntp_prefer") \in [prefer : Values]
         /\ TargetPrefers(servers[Locator("ntp_prefer")].prefer)
<1>1. servers \in Seq(NtpServerType) /\ DOMAIN servers = 1..Len(servers) /\ Len(servers) \in Nat
  BY DEF AdapterType
<1>2. IsFiniteSet(PositionOf(TargetServer))
  <2>1. PositionOf(TargetServer) \subseteq 1..Len(servers)
    BY <1>1 DEF PositionOf
  <2>2. IsFiniteSet(1..Len(servers))
    BY <1>1, FS_Interval
  <2> QED
    BY <2>1, <2>2, FS_Subset
<1>3. Cardinality(PositionOf(TargetServer)) = 1
  BY DEF Resolves
<1>4. PICK x : PositionOf(TargetServer) = {x}
  BY <1>2, <1>3, FS_Singleton
<1>5. Locator("ntp_prefer") = x
  BY <1>4 DEF Locator
<1>6. x \in DOMAIN servers /\ servers[x].name = TargetServer
  BY <1>4 DEF PositionOf
<1>7. \A i \in DOMAIN servers : servers[i].name = TargetServer => i = x
  BY <1>4 DEF PositionOf
<1>8. servers[x] \in NtpServerType
  BY <1>1, <1>6
<1>9. servers[x].prefer \in Values
  BY <1>8 DEF NtpServerType
<1> QED
  BY <1>5, <1>6, <1>7, <1>9 DEF Fingerprint, TargetPrefers

\* a contract's own field is another's only for the same adapter
SettingsKeptBut(cap) ==
    \A x \in Singletons \ {cap} : settings'[ObjectOf[x]][OwnField[x]] = settings[ObjectOf[x]][OwnField[x]]

SettledInv(k, c) ==
    ( /\ k \notin touched
      /\ c.state \in {"verified", "rolled_back"}
      /\ c.cap # "ntp_prefer"
      /\ \A j \in Contracts \ {k} : contracts[j] = NoContract \/ contracts[j].cap # c.cap )
    => settings[ObjectOf[c.cap]][OwnField[c.cap]] =
         IF c.state = "verified" THEN c.want ELSE OwnValue(c.cap, c.snapshot)

LEMMA SettledSplit == SettledValueHolds <=> \A k \in Contracts : SettledInv(k, contracts[k])
BY DEF SettledValueHolds, SettledInv

LEMMA ContractKinds ==
  /\ \A c \in ContractType : c.state \in ContractStates /\ c # NoContract
  /\ NoContract.state = "none" /\ "none" \notin ContractStates
<1>1. NoContract.state = "none" /\ "none" \notin ContractStates
  BY DEF NoContract, ContractStates
<1>2. \A c \in ContractType : c.state \in ContractStates
  BY DEF ContractType
<1> QED
  BY <1>1, <1>2

\* One contract moves: it answers for itself, and the others are no longer
\* alone and own other fields.
LEMMA ContractStep ==
  ASSUME AdapterInv, NEW k \in Contracts, NEW old, old = contracts[k], NEW c \in ContractType,
         contracts' = [contracts EXCEPT ![k] = c], old # NoContract => c.cap = old.cap,
         servers' \in Seq(NtpServerType), SettingsType', SettingsKeptBut(c.cap), UNCHANGED touched,
         misdirected' \subseteq misdirected \cup {k},
         PreferInv(k, c)', SettledInv(k, c)'
  PROVE  AdapterInv'
<1>0. contracts \in [Contracts -> {NoContract} \cup ContractType]
  BY DEF AdapterInv, AdapterType
<1>1. contracts' \in [Contracts -> {NoContract} \cup ContractType] /\ contracts'[k] = c
  BY <1>0
<1>2. AdapterType' /\ misdirected' \subseteq Contracts /\ c # NoContract
  BY <1>1, ContractKinds DEF AdapterType, AdapterInv
<1>3. ASSUME NEW j \in Contracts, j # k
      PROVE  /\ IF contracts'[j] = NoContract THEN j \notin misdirected' ELSE PreferInv(j, contracts[j])'
             /\ SettledInv(j, contracts[j])'
  <2>1. PICK d \in {NoContract} \cup ContractType : d = contracts[j] /\ d = contracts'[j]
    BY <1>0, <1>3
  <2>2. ~Undisturbed(j)' /\ (j \in misdirected' => j \in misdirected)
    BY <1>1, <1>2, <1>3 DEF Undisturbed
  <2>3. IF d = NoContract THEN j \notin misdirected' ELSE PreferInv(j, d)'
    BY <2>1, <2>2 DEF AdapterInv, PreferInv
  <2>4. SettledInv(j, d)'
    <3>1. SUFFICES ASSUME j \notin touched, d.state \in {"verified", "rolled_back"}, d.cap # "ntp_prefer",
                          \A i \in Contracts \ {j} : contracts'[i] = NoContract \/ contracts'[i].cap # d.cap
                   PROVE  settings'[ObjectOf[d.cap]][OwnField[d.cap]] =
                            IF d.state = "verified" THEN d.want ELSE OwnValue(d.cap, d.snapshot)
      BY DEF SettledInv, OwnValue
    <3>2. d.cap # c.cap
      BY <1>1, <1>2, <1>3, <3>1
    <3>3. \A i \in Contracts \ {j} : contracts[i] = NoContract \/ contracts[i].cap # d.cap
      <4>1. \A i \in Contracts \ {k} : contracts'[i] = contracts[i]
        BY <1>0
      <4> QED
        BY <3>1, <3>2, <4>1
    <3>4. settings[ObjectOf[d.cap]][OwnField[d.cap]] =
            IF d.state = "verified" THEN d.want ELSE OwnValue(d.cap, d.snapshot)
      <4>1. SettledInv(j, contracts[j])
        BY SettledSplit DEF AdapterInv
      <4> QED
        BY <2>1, <3>1, <3>3, <4>1 DEF SettledInv
    <3>5. d \in ContractType
      BY <2>1, <3>1 DEF NoContract
    <3>6. d.cap \in Singletons \ {c.cap}
      BY <3>1, <3>2, <3>5, OwnFields DEF ContractType
    <3> QED
      BY <3>4, <3>6 DEF SettingsKeptBut
  <2> QED
    BY <2>1, <2>3, <2>4 DEF PreferInv, SettledInv, Undisturbed, TargetPrefers, OwnValue
<1>4. PreferInv(k, contracts[k])' /\ SettledInv(k, contracts[k])'
  BY <1>1 DEF PreferInv, SettledInv, Undisturbed, TargetPrefers, OwnValue
<1>5. \A j \in Contracts :
        /\ IF contracts'[j] = NoContract THEN j \notin misdirected' ELSE PreferInv(j, contracts[j])'
        /\ SettledInv(j, contracts[j])'
  <2> TAKE j \in Contracts
  <2>1. CASE j = k
    BY <1>1, <1>2, <1>4, <2>1
  <2>2. CASE j # k
    BY <1>3, <2>2
  <2> QED
    BY <2>1, <2>2
<1>6. SettledValueHolds'
  BY <1>5 DEF SettledValueHolds, SettledInv
<1> QED
  BY <1>2, <1>5, <1>6 DEF AdapterInv

Moved(c, st) == [c EXCEPT !.state = st]

LEMMA Becomes ==
  ASSUME AdapterType, NEW k \in Contracts, NEW old \in ContractType, old = contracts[k],
         NEW st \in ContractStates, Become(k, st), NEW c, c = Moved(old, st)
  PROVE  /\ c \in ContractType /\ c.state = st /\ c.cap = old.cap /\ c.want = old.want
         /\ c.snapshot = old.snapshot /\ c.locator = old.locator
         /\ contracts' = [contracts EXCEPT ![k] = c]
<1>1. /\ c \in ContractType /\ c.state = st /\ c.cap = old.cap /\ c.want = old.want
      /\ c.snapshot = old.snapshot /\ c.locator = old.locator
  BY DEF Moved, ContractType
<1>2. contracts' = [contracts EXCEPT ![k] = c]
  BY DEF Become, Moved, AdapterType
<1> QED
  BY <1>1, <1>2

LEMMA BegunContract ==
  ASSUME AdapterInv, NEW k \in Contracts, contracts[k].state # "none"
  PROVE  contracts[k] \in ContractType /\ PreferInv(k, contracts[k])
BY DEF AdapterInv, AdapterType, NoContract

\* A step that decides over a contract from a reading, and changes nothing else.
LEMMA StateMoves ==
  ASSUME AdapterInv, NEW k \in Contracts, NEW old \in ContractType, old = contracts[k],
         NEW st \in {"sending", "failed", "reconciliation", "rolling_back", "rollback_failed", "rolled_back"},
         Become(k, st), UNCHANGED <<settings, servers, misdirected, touched>>,
         st = "sending" => old.state = "prepared",
         st = "rolling_back" => old.state = "verified",
         st = "rolled_back" => /\ old.cap = "ntp_prefer" /\ Undisturbed(k) => k \notin misdirected
                               /\ old.cap # "ntp_prefer" =>
                                    settings[ObjectOf[old.cap]][OwnField[old.cap]] = OwnValue(old.cap, old.snapshot)
  PROVE  AdapterInv'
<1>0. AdapterType /\ st \in ContractStates
  BY DEF AdapterInv, ContractStates
<1>1. PICK c : c = Moved(old, st)
  OBVIOUS
<1>2. /\ c \in ContractType /\ c.state = st /\ c.cap = old.cap /\ c.want = old.want
      /\ c.snapshot = old.snapshot /\ c.locator = old.locator
      /\ contracts' = [contracts EXCEPT ![k] = c]
  BY <1>0, <1>1, Becomes
<1>3. PreferInv(k, old)
  BY ContractKinds DEF AdapterInv
<1>4. Undisturbed(k)' = Undisturbed(k) /\ \A v : TargetPrefers(v)' = TargetPrefers(v)
  BY <1>0, <1>2 DEF Undisturbed, TargetPrefers, AdapterType
<1>5. PreferInv(k, c)'
  BY <1>2, <1>3, <1>4 DEF PreferInv
<1>6. SettledInv(k, c)'
  BY <1>2 DEF SettledInv, OwnValue
<1>7. servers' \in Seq(NtpServerType) /\ SettingsType' /\ SettingsKeptBut(c.cap)
  BY <1>0 DEF AdapterType, SettingsType, SettingsKeptBut
<1> QED
  BY <1>2, <1>5, <1>6, <1>7, ContractStep

LEMMA ReadBeforeSendInv ==
  ASSUME AdapterInv, NEW k \in Contracts, ReadBeforeSend(k)
  PROVE  AdapterInv'
<1>1. PICK old \in ContractType : old = contracts[k] /\ old.state = "prepared"
  BY BegunContract DEF ReadBeforeSend
<1>2. PICK st \in {"sending", "failed"} : Become(k, st)
  BY DEF ReadBeforeSend
<1>3. UNCHANGED <<settings, servers, misdirected, touched>>
  BY DEF ReadBeforeSend
<1> QED
  BY <1>1, <1>2, <1>3, StateMoves

LEMMA ReadBeforeRollbackInv ==
  ASSUME AdapterInv, NEW k \in Contracts, ReadBeforeRollback(k)
  PROVE  AdapterInv'
<1>1. PICK old \in ContractType : old = contracts[k] /\ old.state = "verified"
  BY BegunContract DEF ReadBeforeRollback
<1>2. PICK st \in {"rolling_back", "rollback_failed"} : Become(k, st)
  BY DEF ReadBeforeRollback
<1>3. UNCHANGED <<settings, servers, misdirected, touched>>
  BY DEF ReadBeforeRollback
<1> QED
  BY <1>1, <1>2, <1>3, StateMoves

\* the fingerprint of a singleton is its object
LEMMA SingletonFingerprint ==
  ASSUME AdapterType, NEW cap \in AllCapabilities, cap # "ntp_prefer"
  PROVE  /\ cap \in Singletons /\ Fingerprint(cap) = settings[ObjectOf[cap]]
         /\ Fingerprint(cap) \in Snapshots /\ Locator(cap) = 0
         /\ OwnValue(cap, Fingerprint(cap)) = settings[ObjectOf[cap]][OwnField[cap]]
<1>1. cap \in Singletons /\ ObjectOf[cap] \in Objects
  BY OwnFields
<1>2. settings[ObjectOf[cap]] \in [FieldsOf[ObjectOf[cap]] -> Int]
  BY <1>1 DEF AdapterType, SettingsType
<1>3. settings[ObjectOf[cap]] \in Snapshots
  BY <1>1, <1>2 DEF Snapshots
<1> QED
  BY <1>1, <1>3 DEF Fingerprint, OwnValue, Locator

LEMMA VerifyRollbackInv ==
  ASSUME AdapterInv, NEW k \in Contracts, VerifyRollback(k)
  PROVE  AdapterInv'
<1>0. AdapterType
  BY DEF AdapterInv
<1>1. PICK old \in ContractType : old = contracts[k] /\ old.state = "rollback_sent" /\ PreferInv(k, old)
  BY BegunContract DEF VerifyRollback
<1>2. PICK st \in {"reconciliation", "rolled_back", "rollback_failed"} :
        Become(k, st) /\ (st = "rolled_back" => Resolves(old.cap) /\ Fingerprint(old.cap) = old.snapshot)
  BY <1>1 DEF VerifyRollback
<1>3. UNCHANGED <<settings, servers, misdirected, touched>>
  BY DEF VerifyRollback
<1>4. old.cap \in AllCapabilities
  BY <1>1 DEF ContractType
<1>5. ASSUME st = "rolled_back", old.cap = "ntp_prefer", Undisturbed(k), k \in misdirected PROVE FALSE
  <2>1. TargetPrefers(old.want) /\ old.snapshot.prefer # old.want
    BY <1>1, <1>5 DEF PreferInv
  <2>2. PICK x \in DOMAIN servers : servers[x].name = TargetServer /\ Fingerprint("ntp_prefer") = [prefer |-> servers[x].prefer]
    BY <1>0, <1>2, <1>5, ResolvesOnce
  <2>3. servers[x].prefer = old.want
    BY <2>1, <2>2 DEF TargetPrefers
  <2>4. old.snapshot = [prefer |-> old.want]
    BY <1>2, <1>5, <2>2, <2>3
  <2> QED
    BY <2>1, <2>4
<1>6. ASSUME st = "rolled_back", old.cap # "ntp_prefer"
      PROVE  settings[ObjectOf[old.cap]][OwnField[old.cap]] = OwnValue(old.cap, old.snapshot)
  BY <1>0, <1>2, <1>4, <1>6, SingletonFingerprint
<1> QED
  BY <1>1, <1>2, <1>3, <1>5, <1>6, StateMoves

LEMMA PrepareChangeInv ==
  ASSUME AdapterInv, NEW k \in Contracts, PrepareChange(k)
  PROVE  AdapterInv'
<1>0. AdapterType
  BY DEF AdapterInv
<1>1. PICK cap \in AllCapabilities, want \in Values :
        /\ Resolves(cap) /\ OwnValue(cap, Fingerprint(cap)) # want
        /\ contracts' = [contracts EXCEPT ![k] =
              [state |-> "prepared", cap |-> cap, want |-> want, snapshot |-> Fingerprint(cap),
               locator |-> Locator(cap), verified |-> Fingerprint(cap)]]
  BY AdapterAssumption DEF PrepareChange
<1>2. UNCHANGED <<settings, servers, misdirected, touched>> /\ contracts[k] = NoContract /\ k \notin misdirected
  BY DEF PrepareChange, AdapterInv
<1>3. PICK fp, loc : fp = Fingerprint(cap) /\ loc = Locator(cap)
  OBVIOUS
<1>4. CASE cap = "ntp_prefer"
  <2>1. /\ fp \in [prefer : Values] /\ loc \in DOMAIN servers /\ TargetPrefers(servers[loc].prefer)
        /\ fp = [prefer |-> servers[loc].prefer]
    BY <1>0, <1>1, <1>3, <1>4, ResolvesOnce
  <2>2. fp.prefer # want /\ fp.prefer = servers[loc].prefer
    BY <1>1, <1>3, <1>4, <2>1 DEF OwnValue
  <2>3. fp \in Snapshots /\ loc \in Nat
    BY <1>0, <2>1 DEF Snapshots, AdapterType
  <2> DEFINE c == [state |-> "prepared", cap |-> cap, want |-> want, snapshot |-> fp, locator |-> loc, verified |-> fp]
  <2>4. c \in ContractType /\ c.state = "prepared" /\ c.cap = cap /\ c.want = want /\ c.snapshot = fp
    BY <2>3 DEF ContractType, ContractStates
  <2>5. contracts' = [contracts EXCEPT ![k] = c]
    BY <1>1, <1>3
  <2> HIDE DEF c
  <2>6. TargetPrefers(c.snapshot.prefer)'
    BY <1>2, <2>1, <2>2, <2>4 DEF TargetPrefers
  <2>7. PreferInv(k, c)'
    BY <1>2, <1>4, <2>1, <2>2, <2>4, <2>6 DEF PreferInv
  <2>8. SettledInv(k, c)'
    BY <2>4 DEF SettledInv
  <2>9. servers' \in Seq(NtpServerType) /\ SettingsType' /\ SettingsKeptBut(c.cap)
    BY <1>0, <1>2 DEF AdapterType, SettingsType, SettingsKeptBut
  <2> QED
    BY <1>2, <2>4, <2>5, <2>7, <2>8, <2>9, ContractStep
<1>5. CASE cap # "ntp_prefer"
  <2>1. fp \in Snapshots /\ fp = settings[ObjectOf[cap]] /\ loc = 0 /\ cap \in Singletons
    BY <1>0, <1>3, <1>5, SingletonFingerprint
  <2>2. fp \in [FieldsOf[ObjectOf[cap]] -> Int]
    BY <1>0, <2>1, OwnFields DEF AdapterType, SettingsType
  <2> DEFINE c == [state |-> "prepared", cap |-> cap, want |-> want, snapshot |-> fp, locator |-> loc, verified |-> fp]
  <2>4. c \in ContractType /\ c.state = "prepared" /\ c.cap = cap /\ c.want = want /\ c.snapshot = fp
    BY <2>1 DEF ContractType, ContractStates
  <2>5. contracts' = [contracts EXCEPT ![k] = c]
    BY <1>1, <1>3
  <2> HIDE DEF c
  <2>7. PreferInv(k, c)'
    BY <1>2, <1>5, <2>2, <2>4 DEF PreferInv
  <2>8. SettledInv(k, c)'
    BY <2>4 DEF SettledInv
  <2>9. servers' \in Seq(NtpServerType) /\ SettingsType' /\ SettingsKeptBut(c.cap)
    BY <1>0, <1>2 DEF AdapterType, SettingsType, SettingsKeptBut
  <2> QED
    BY <1>2, <2>4, <2>5, <2>7, <2>8, <2>9, ContractStep
<1> QED
  BY <1>4, <1>5

Judged(c, fp) == [c EXCEPT !.state = "verified", !.verified = fp]

\* A patch that went elsewhere left the target unlike what was wanted.
LEMMA VerifyChangeInv ==
  ASSUME AdapterInv, NEW k \in Contracts, VerifyChange(k)
  PROVE  AdapterInv'
<1>0. AdapterType
  BY DEF AdapterInv
<1>1. PICK old \in ContractType : old = contracts[k] /\ old.state = "sent" /\ PreferInv(k, old)
  BY BegunContract DEF VerifyChange
<1>2. UNCHANGED <<settings, servers, misdirected, touched>>
  BY DEF VerifyChange
<1>3. CASE \E st \in {"reconciliation", "failed"} : Become(k, st)
  <2>1. PICK st \in {"reconciliation", "failed"} : Become(k, st)
    BY <1>3
  <2> QED
    BY <1>1, <1>2, <2>1, StateMoves
<1>4. CASE /\ Resolves(old.cap) /\ ReadBackVerified(old)
           /\ contracts' = [contracts EXCEPT ![k].state = "verified", ![k].verified = Fingerprint(old.cap)]
  <2>1. PICK fp : fp = Fingerprint(old.cap)
    OBVIOUS
  <2>2. old.cap \in AllCapabilities /\ OwnValue(old.cap, fp) = old.want
    BY <1>4, <2>1 DEF ReadBackVerified, SemanticallyVerified, ContractType
  <2>3. fp \in Snapshots
    <3>1. CASE old.cap = "ntp_prefer"
      BY <1>0, <1>4, <2>1, <3>1, ResolvesOnce DEF Snapshots
    <3>2. CASE old.cap # "ntp_prefer"
      BY <1>0, <2>1, <2>2, <3>2, SingletonFingerprint
    <3> QED
      BY <3>1, <3>2
  <2>4. PICK c : c = Judged(old, fp)
    OBVIOUS
  <2>5. /\ c \in ContractType /\ c.state = "verified" /\ c.cap = old.cap /\ c.want = old.want
        /\ c.snapshot = old.snapshot
    BY <2>3, <2>4 DEF Judged, ContractType, ContractStates
  <2>6. contracts' = [contracts EXCEPT ![k] = c]
    BY <1>0, <1>1, <1>4, <2>1, <2>4 DEF Judged, AdapterType
  <2>7. Undisturbed(k)' = Undisturbed(k) /\ \A v : TargetPrefers(v)' = TargetPrefers(v)
    BY <1>0, <1>2, <2>6 DEF Undisturbed, TargetPrefers, AdapterType
  <2>8. PreferInv(k, c)'
    <3>1. CASE old.cap = "ntp_prefer"
      <4>1. PICK x \in DOMAIN servers : /\ servers[x].name = TargetServer /\ TargetPrefers(servers[x].prefer)
                                        /\ fp = [prefer |-> servers[x].prefer]
        BY <1>0, <1>4, <2>1, <3>1, ResolvesOnce
      <4>2. servers[x].prefer = old.want
        BY <2>2, <3>1, <4>1 DEF OwnValue
      <4>3. Undisturbed(k) => k \notin misdirected
        BY <1>1, <3>1, <4>1, <4>2 DEF PreferInv, TargetPrefers
      <4>4. TargetPrefers(old.want)
        BY <4>1, <4>2
      <4> QED
        BY <1>1, <1>2, <2>5, <2>7, <3>1, <4>3, <4>4 DEF PreferInv
    <3>2. CASE old.cap # "ntp_prefer"
      BY <1>1, <1>2, <2>5, <3>2 DEF PreferInv
    <3> QED
      BY <3>1, <3>2
  <2>9. SettledInv(k, c)'
    <3>1. old.cap # "ntp_prefer" => settings[ObjectOf[old.cap]][OwnField[old.cap]] = old.want
      BY <1>0, <2>1, <2>2, SingletonFingerprint
    <3> QED
      BY <1>2, <2>5, <3>1 DEF SettledInv
  <2>10. servers' \in Seq(NtpServerType) /\ SettingsType' /\ SettingsKeptBut(c.cap)
    BY <1>0, <1>2 DEF AdapterType, SettingsType, SettingsKeptBut
  <2> QED
    BY <1>1, <1>2, <2>5, <2>6, <2>8, <2>9, <2>10, ContractStep
<1> QED
  BY <1>1, <1>3, <1>4 DEF VerifyChange

Preferring(e, v) == [e EXCEPT !.prefer = v]

\* the patch of a server: one entry changes, and not the target's when misdirected
LEMMA PatchServer ==
  ASSUME NEW s \in Seq(NtpServerType), NEW i \in DOMAIN s, NEW v \in Values, NEW t,
         t = [s EXCEPT ![i].prefer = v]
  PROVE  /\ t \in Seq(NtpServerType) /\ DOMAIN t = DOMAIN s
         /\ \A j \in DOMAIN s : t[j].name = s[j].name /\ (j # i => t[j] = s[j])
<1>1. PICK e : e = Preferring(s[i], v)
  OBVIOUS
<1>2. s[i] \in NtpServerType
  OBVIOUS
<1>3. e \in NtpServerType /\ e.name = s[i].name
  BY <1>1, <1>2 DEF Preferring, NtpServerType
<1>4. t = [s EXCEPT ![i] = e]
  BY <1>1 DEF Preferring
<1>5. t \in Seq(NtpServerType)
  BY <1>3, <1>4, ExceptSeq
<1> QED
  BY <1>3, <1>4, <1>5

\* the patch of a singleton: one field of one object changes
LEMMA PatchSetting ==
  ASSUME SettingsType, NEW o \in Objects, NEW f \in FieldsOf[o], NEW v \in Int,
         settings' = [settings EXCEPT ![o][f] = v]
  PROVE  /\ SettingsType'
         /\ \A o2 \in Objects : \A f2 \in FieldsOf[o2] :
              settings'[o2][f2] = IF o2 = o /\ f2 = f THEN v ELSE settings[o2][f2]
<1>1. PICK old \in [Objects -> UNION { [FieldsOf[q] -> Int] : q \in Objects }] :
        settings = old /\ \A q \in Objects : old[q] \in [FieldsOf[q] -> Int]
  BY DEF SettingsType
<1>2. PICK g : g = [old[o] EXCEPT ![f] = v]
  OBVIOUS
<1>3. g \in [FieldsOf[o] -> Int] /\ \A f2 \in FieldsOf[o] : g[f2] = IF f2 = f THEN v ELSE old[o][f2]
  BY <1>1, <1>2
<1>4. PICK new : new = [old EXCEPT ![o] = g]
  OBVIOUS
<1>5. settings' = new
  BY <1>1, <1>2, <1>4
<1>6. \A q \in Objects : new[q] = IF q = o THEN g ELSE old[q]
  BY <1>1, <1>4
<1>7. \A q \in Objects : new[q] \in [FieldsOf[q] -> Int]
  BY <1>1, <1>3, <1>6
<1>8. new \in [Objects -> UNION { [FieldsOf[q] -> Int] : q \in Objects }]
  BY <1>1, <1>3, <1>4
<1>9. SettingsType'
  BY <1>5, <1>7, <1>8 DEF SettingsType
<1> QED
  BY <1>1, <1>3, <1>5, <1>6, <1>9

LEMMA ApplyKeeps ==
  ASSUME AdapterType, NEW k \in Contracts, NEW old \in ContractType, old = contracts[k], NEW v,
         old.cap = "ntp_prefer" => v \in Values, old.cap # "ntp_prefer" => v \in Int, Apply(k, v)
  PROVE  /\ servers' \in Seq(NtpServerType) /\ SettingsType' /\ SettingsKeptBut(old.cap)
         /\ misdirected' \subseteq misdirected \cup {k}
         /\ old.cap # "ntp_prefer" => misdirected' = misdirected
         /\ \A w : k \notin misdirected /\ k \in misdirected' /\ TargetPrefers(w) => TargetPrefers(w)'
<1>1. CASE old.cap = "ntp_prefer"
  <2>1. /\ old.locator \in DOMAIN servers /\ servers' = [servers EXCEPT ![old.locator].prefer = v]
        /\ misdirected' = IF old.locator \in PositionOf(TargetServer) THEN misdirected ELSE misdirected \cup {k}
        /\ UNCHANGED settings
    BY <1>1 DEF Apply, PatchedServers
  <2>2. PICK s, t : s \in Seq(NtpServerType) /\ s = servers /\ t = servers'
    BY DEF AdapterType
  <2>3. /\ t \in Seq(NtpServerType) /\ DOMAIN t = DOMAIN s
        /\ \A j \in DOMAIN s : t[j].name = s[j].name /\ (j # old.locator => t[j] = s[j])
    BY <1>1, <2>1, <2>2, PatchServer
  <2>4. ASSUME NEW w, k \notin misdirected, k \in misdirected', TargetPrefers(w) PROVE TargetPrefers(w)'
    <3>1. servers[old.locator].name # TargetServer
      BY <2>1, <2>4 DEF PositionOf
    <3> QED
      BY <2>2, <2>3, <2>4, <3>1 DEF TargetPrefers
  <2>5. SettingsType' /\ SettingsKeptBut(old.cap)
    BY <2>1 DEF AdapterType, SettingsType, SettingsKeptBut
  <2> QED
    BY <1>1, <2>1, <2>2, <2>3, <2>4, <2>5
<1>2. CASE old.cap # "ntp_prefer"
  <2>1. /\ settings' = [settings EXCEPT ![ObjectOf[old.cap]][OwnField[old.cap]] = v]
        /\ UNCHANGED <<servers, misdirected>>
    BY <1>2 DEF Apply, Patched
  <2>2. old.cap \in Singletons
    BY <1>2, OwnFields DEF ContractType
  <2>3. PICK o \in Objects : o = ObjectOf[old.cap]
    BY <2>2, OwnFields
  <2>4. PICK f \in FieldsOf[o] : o = ObjectOf[old.cap] /\ f = OwnField[old.cap]
    BY <2>2, <2>3, OwnFields
  <2>5. /\ SettingsType'
        /\ \A o2 \in Objects : \A f2 \in FieldsOf[o2] :
             settings'[o2][f2] = IF o2 = o /\ f2 = f THEN v ELSE settings[o2][f2]
    <3>1. settings' = [settings EXCEPT ![o][f] = v] /\ SettingsType /\ v \in Int
      BY <1>2, <2>1, <2>4 DEF AdapterType
    <3> QED
      BY <3>1, PatchSetting
  <2>6. SettingsKeptBut(old.cap)
    BY <2>2, <2>4, <2>5, OwnFields DEF SettingsKeptBut
  <2> QED
    BY <1>2, <2>1, <2>5, <2>6 DEF AdapterType
<1> QED
  BY <1>1, <1>2

LEMMA OwnValueType ==
  ASSUME AdapterType, NEW k, NEW old \in ContractType, PreferInv(k, old)
  PROVE  /\ old.cap = "ntp_prefer" => OwnValue(old.cap, old.snapshot) \in Values
         /\ old.cap # "ntp_prefer" => OwnValue(old.cap, old.snapshot) \in Int
         /\ old.want \in Values /\ old.want \in Int
<1>1. old.cap = "ntp_prefer" => OwnValue(old.cap, old.snapshot) \in Values
  BY DEF OwnValue, PreferInv
<1>2. CASE old.cap # "ntp_prefer"
  <2>1. old.cap \in Singletons
    BY <1>2, OwnFields DEF ContractType
  <2> QED
    BY <1>2, <2>1, OwnFields DEF OwnValue, PreferInv, ContractType, Values
<1> QED
  BY <1>1, <1>2 DEF ContractType, Values

\* a patch took effect, whatever is known of it
LEMMA PatchMoves ==
  ASSUME AdapterInv, NEW k \in Contracts, NEW old \in ContractType, old = contracts[k],
         NEW v, old.cap = "ntp_prefer" => v \in Values, old.cap # "ntp_prefer" => v \in Int, Apply(k, v),
         UNCHANGED touched,
         NEW st \in {"sent", "rollback_sent", "reconciliation"}, Become(k, st),
         st = "sent" => old.state = "sending", st = "rollback_sent" => old.state = "rolling_back"
  PROVE  AdapterInv'
<1>0. AdapterType /\ st \in ContractStates
  BY DEF AdapterInv, ContractStates
<1>1. PICK c : c = Moved(old, st)
  OBVIOUS
<1>2. /\ c \in ContractType /\ c.state = st /\ c.cap = old.cap /\ c.want = old.want
      /\ c.snapshot = old.snapshot /\ c.locator = old.locator
      /\ contracts' = [contracts EXCEPT ![k] = c]
  BY <1>0, <1>1, Becomes
<1>3. PreferInv(k, old)
  BY ContractKinds DEF AdapterInv
<1>4. Undisturbed(k)' = Undisturbed(k)
  BY <1>0, <1>2 DEF Undisturbed, AdapterType
<1>5. /\ servers' \in Seq(NtpServerType) /\ SettingsType' /\ SettingsKeptBut(c.cap)
      /\ misdirected' \subseteq misdirected \cup {k}
      /\ old.cap # "ntp_prefer" => misdirected' = misdirected
      /\ \A w : k \notin misdirected /\ k \in misdirected' /\ TargetPrefers(w) => TargetPrefers(w)'
  BY <1>0, <1>2, ApplyKeeps
<1>6. PreferInv(k, c)'
  BY <1>2, <1>3, <1>4, <1>5 DEF PreferInv
<1>7. SettledInv(k, c)'
  BY <1>2 DEF SettledInv
<1> QED
  BY <1>2, <1>5, <1>6, <1>7, ContractStep

LEMMA SendChangeInv ==
  ASSUME AdapterInv, NEW k \in Contracts, SendChange(k)
  PROVE  AdapterInv'
<1>1. PICK old \in ContractType : old = contracts[k] /\ old.state = "sending" /\ PreferInv(k, old) /\ UNCHANGED touched
  BY BegunContract DEF SendChange
<1>2. old.want \in Values /\ old.want \in Int
  BY DEF ContractType, Values
<1>3. CASE Apply(k, old.want) /\ \E st \in {"sent", "reconciliation"} : Become(k, st)
  <2>1. PICK st \in {"sent", "reconciliation"} : Become(k, st)
    BY <1>3
  <2> QED
    BY <1>1, <1>2, <1>3, <2>1, PatchMoves
<1>4. CASE UNCHANGED <<settings, servers, misdirected>> /\ \E st \in {"reconciliation", "failed"} : Become(k, st)
  <2>1. PICK st \in {"reconciliation", "failed"} : Become(k, st)
    BY <1>4
  <2> QED
    BY <1>1, <1>4, <2>1, StateMoves
<1> QED
  BY <1>1, <1>3, <1>4 DEF SendChange

LEMMA SendRollbackInv ==
  ASSUME AdapterInv, NEW k \in Contracts, SendRollback(k)
  PROVE  AdapterInv'
<1>1. PICK old \in ContractType : old = contracts[k] /\ old.state = "rolling_back" /\ PreferInv(k, old) /\ UNCHANGED touched
  BY BegunContract DEF SendRollback
<1>2. PICK v : /\ v = OwnValue(old.cap, old.snapshot)
               /\ old.cap = "ntp_prefer" => v \in Values
               /\ old.cap # "ntp_prefer" => v \in Int
  BY <1>1, OwnValueType DEF AdapterInv
<1>3. CASE Apply(k, v) /\ \E st \in {"rollback_sent", "reconciliation"} : Become(k, st)
  <2>1. PICK st \in {"rollback_sent", "reconciliation"} : Become(k, st)
    BY <1>3
  <2> QED
    BY <1>1, <1>2, <1>3, <2>1, PatchMoves
<1>4. CASE UNCHANGED <<settings, servers, misdirected>> /\ \E st \in {"reconciliation", "rollback_failed"} : Become(k, st)
  <2>1. PICK st \in {"reconciliation", "rollback_failed"} : Become(k, st)
    BY <1>4
  <2> QED
    BY <1>1, <1>4, <2>1, StateMoves
<1> QED
  BY <1>1, <1>2, <1>3, <1>4 DEF SendRollback

LEMMA EditSettingInv ==
  ASSUME AdapterInv, EditSetting
  PROVE  AdapterInv'
<1>0. AdapterType
  BY DEF AdapterInv
<1>1. UNCHANGED <<servers, contracts, misdirected>> /\ touched \subseteq touched'
  BY DEF EditSetting
<1>2. PICK cap \in Capabilities \ {"ntp_prefer"} : \E f \in FieldsOf[ObjectOf[cap]], v \in Values :
        /\ settings' = [settings EXCEPT ![ObjectOf[cap]][f] = v]
        /\ touched' = touched \cup UnderWay(OwnersOf(ObjectOf[cap], f))
  BY DEF EditSetting
<1>3. cap \in Singletons
  BY OwnFields, AdapterAssumption
<1>4. PICK o \in Objects : o = ObjectOf[cap]
  BY <1>3, OwnFields
<1>5. PICK f \in FieldsOf[o], v \in Values :
        /\ settings' = [settings EXCEPT ![o][f] = v]
        /\ touched' = touched \cup UnderWay(OwnersOf(o, f))
  BY <1>2, <1>4
<1>6. /\ SettingsType'
      /\ \A o2 \in Objects : \A f2 \in FieldsOf[o2] :
           settings'[o2][f2] = IF o2 = o /\ f2 = f THEN v ELSE settings[o2][f2]
  <2>1. SettingsType /\ v \in Int
    BY <1>0 DEF AdapterType, Values
  <2> QED
    BY <1>5, <2>1, PatchSetting
<1>7. ASSUME NEW k \in Contracts PROVE SettledInv(k, contracts[k])'
  <2>1. PICK c \in {NoContract} \cup ContractType : c = contracts[k] /\ c = contracts'[k]
    BY <1>0, <1>1 DEF AdapterType
  <2>2. SettledInv(k, c)
    BY <2>1, SettledSplit DEF AdapterInv
  <2>3. SUFFICES ASSUME k \notin touched', c.state \in {"verified", "rolled_back"}, c.cap # "ntp_prefer",
                        \A j \in Contracts \ {k} : contracts'[j] = NoContract \/ contracts'[j].cap # c.cap
                 PROVE  settings'[ObjectOf[c.cap]][OwnField[c.cap]] =
                          IF c.state = "verified" THEN c.want ELSE OwnValue(c.cap, c.snapshot)
    BY <2>1 DEF SettledInv, OwnValue
  <2>4. c \in ContractType
    BY <2>3 DEF NoContract
  <2>5. c.cap \in Singletons /\ c # NoContract
    BY <2>3, <2>4, OwnFields, ContractKinds DEF ContractType
  <2>6. settings[ObjectOf[c.cap]][OwnField[c.cap]] =
          IF c.state = "verified" THEN c.want ELSE OwnValue(c.cap, c.snapshot)
    BY <1>1, <2>2, <2>3 DEF SettledInv
  <2>7. ~(ObjectOf[c.cap] = o /\ OwnField[c.cap] = f)
    <3>1. c.cap \in DOMAIN OwnField
      BY <2>5 DEF OwnField, Singletons
    <3> QED
      BY <1>5, <2>1, <2>3, <2>5, <3>1 DEF UnderWay, OwnersOf
  <2>8. settings'[ObjectOf[c.cap]][OwnField[c.cap]] = settings[ObjectOf[c.cap]][OwnField[c.cap]]
    BY <1>6, <2>5, <2>7, OwnFields
  <2> QED
    BY <2>6, <2>8
<1>8. SettledValueHolds'
  BY <1>7 DEF SettledValueHolds, SettledInv
<1>9. AdapterType'
  BY <1>0, <1>1, <1>6 DEF AdapterType
<1>10. ASSUME NEW k \in Contracts, contracts[k] # NoContract PROVE PreferInv(k, contracts[k])'
  <2>1. PICK c : c = contracts[k] /\ PreferInv(k, c)
    BY <1>10 DEF AdapterInv
  <2>2. (Undisturbed(k)' => Undisturbed(k)) /\ \A w : TargetPrefers(w)' = TargetPrefers(w)
    BY <1>1 DEF Undisturbed, TargetPrefers
  <2>3. PreferInv(k, c)'
    BY <1>1, <2>1, <2>2 DEF PreferInv
  <2> QED
    BY <1>1, <2>1, <2>3 DEF PreferInv
<1> QED
  BY <1>1, <1>8, <1>9, <1>10 DEF AdapterInv

\* The list changes. Either the target's entries are among those that were
\* there, or every contract for the server is touched.
LEMMA EditServersInv ==
  ASSUME AdapterInv, EditServers
  PROVE  AdapterInv'
<1>0. AdapterType
  BY DEF AdapterInv
<1>1. UNCHANGED <<settings, contracts, misdirected>> /\ touched \subseteq touched'
  BY DEF EditServers
<1>2. PICK s, t : s \in Seq(NtpServerType) /\ s = servers /\ t = servers'
  BY <1>0 DEF AdapterType
<1>3. /\ t \in Seq(NtpServerType)
      /\ \/ \A j \in DOMAIN t : t[j].name = TargetServer => \E m \in DOMAIN s : t[j] = s[m]
         \/ UnderWay({"ntp_prefer"}) \subseteq touched'
  <2>1. CASE \E i \in DOMAIN s : t = RemoveAt(s, i)
    BY <1>2, <2>1, RemoveAtKeeps
  <2>2. ASSUME NEW i \in DOMAIN s, NEW v \in Values, t = [s EXCEPT ![i].prefer = v],
               touched' = touched \cup IF s[i].name = TargetServer THEN UnderWay({"ntp_prefer"}) ELSE {}
        PROVE  /\ t \in Seq(NtpServerType)
               /\ \/ \A j \in DOMAIN t : t[j].name = TargetServer => \E m \in DOMAIN s : t[j] = s[m]
                  \/ UnderWay({"ntp_prefer"}) \subseteq touched'
    BY <1>2, <2>2, PatchServer
  <2>3. ASSUME NEW i \in 1..Len(s) + 1, NEW e \in NewServers, t = InsertAt(s, i, e),
               touched' = touched \cup IF e.name = TargetServer THEN UnderWay({"ntp_prefer"}) ELSE {}
        PROVE  /\ t \in Seq(NtpServerType)
               /\ \/ \A j \in DOMAIN t : t[j].name = TargetServer => \E m \in DOMAIN s : t[j] = s[m]
                  \/ UnderWay({"ntp_prefer"}) \subseteq touched'
    <3>1. e \in NtpServerType
      BY DEF NewServers, NtpServerType, TargetServer, Values
    <3>2. t \in Seq(NtpServerType) /\ \A j \in DOMAIN t : t[j] = e \/ \E m \in DOMAIN s : t[j] = s[m]
      BY <1>2, <2>3, <3>1, InsertAtKeeps
    <3> QED
      BY <2>3, <3>2
  <2>4. \/ \E i \in DOMAIN s : t = RemoveAt(s, i)
        \/ \E i \in DOMAIN s, v \in Values :
             /\ t = [s EXCEPT ![i].prefer = v]
             /\ touched' = touched \cup IF s[i].name = TargetServer THEN UnderWay({"ntp_prefer"}) ELSE {}
        \/ \E i \in 1..Len(s) + 1, e \in NewServers :
             /\ t = InsertAt(s, i, e)
             /\ touched' = touched \cup IF e.name = TargetServer THEN UnderWay({"ntp_prefer"}) ELSE {}
    BY <1>2, Zenon DEF EditServers
  <2> QED
    BY <2>1, <2>2, <2>3, <2>4, Zenon
<1>4. \/ \A v : TargetPrefers(v) => TargetPrefers(v)'
      \/ UnderWay({"ntp_prefer"}) \subseteq touched'
  BY <1>2, <1>3 DEF TargetPrefers
<1>5. AdapterType'
  BY <1>0, <1>1, <1>2, <1>3 DEF AdapterType, SettingsType
<1>6. ASSUME NEW k \in Contracts, contracts[k] # NoContract PROVE PreferInv(k, contracts[k])'
  <2>1. PICK c : c = contracts[k] /\ PreferInv(k, c)
    BY <1>6 DEF AdapterInv
  <2>2. Undisturbed(k)' => Undisturbed(k)
    BY <1>1 DEF Undisturbed
  <2>3. Undisturbed(k)' /\ c.cap = "ntp_prefer" => \A v : TargetPrefers(v) => TargetPrefers(v)'
    BY <1>4, <1>6, <2>1 DEF Undisturbed, UnderWay
  <2>4. PreferInv(k, c)'
    BY <1>1, <2>1, <2>2, <2>3 DEF PreferInv
  <2> QED
    BY <1>1, <2>1, <2>4 DEF PreferInv
<1>7. SettledValueHolds'
  BY <1>1 DEF AdapterInv, SettledValueHolds, OwnValue
<1> QED
  BY <1>1, <1>5, <1>6, <1>7 DEF AdapterInv

LEMMA AdaptersStart == AdaptersInit => AdapterInv
<1> SUFFICES ASSUME AdaptersInit PROVE AdapterInv
  OBVIOUS
<1>1. SettingsType
  <2>1. PICK f : f = settings /\ f = [o \in Objects |-> [g \in FieldsOf[o] |-> 0]]
    BY OwnFields DEF AdaptersInit
  <2>2. \A o \in Objects : f[o] \in [FieldsOf[o] -> Int]
    BY <2>1
  <2> QED
    BY <2>1, <2>2 DEF SettingsType
<1>2. servers \in Seq(NtpServerType)
  <2>1. PICK a, b, c : /\ a = [name |-> "a", prefer |-> 0] /\ b = [name |-> "b", prefer |-> 0]
                       /\ c = [name |-> "c", prefer |-> 0]
    OBVIOUS
  <2>2. a \in NtpServerType /\ b \in NtpServerType /\ c \in NtpServerType
    BY <2>1 DEF NtpServerType, Values
  <2>3. servers = <<a, b, c>>
    BY <2>1 DEF AdaptersInit
  <2> QED
    BY <2>2, <2>3
<1>3. \A k \in Contracts : contracts[k] = NoContract
  BY DEF AdaptersInit
<1>4. AdapterType
  BY <1>1, <1>2 DEF AdapterType, AdaptersInit
<1>5. SettledValueHolds
  BY <1>3 DEF SettledValueHolds, NoContract
<1> QED
  BY <1>3, <1>4, <1>5 DEF AdapterInv, AdaptersInit

LEMMA AdaptersStep ==
  ASSUME AdapterInv, [AdaptersNext]_adapterVars
  PROVE  AdapterInv'
<1>1. CASE UNCHANGED adapterVars
  BY <1>1 DEF adapterVars, AdapterInv, AdapterType, SettingsType, PreferInv, Undisturbed, TargetPrefers, SettledValueHolds,
              OwnValue
<1>2. CASE AdaptersNext
  BY <1>2, PrepareChangeInv, ReadBeforeSendInv, SendChangeInv, VerifyChangeInv, ReadBeforeRollbackInv,
     SendRollbackInv, VerifyRollbackInv, EditSettingInv, EditServersInv DEF AdaptersNext
<1> QED
  BY <1>1, <1>2

\* Two adapters on one object never undo each other, and a patch that hit
\* another NTP server is not recorded as verified or rolled back, for any
\* number of contracts, when administrators enter, remove and prefer servers
\* and set fields in between - unless one of them set the very field or flag
\* the contract is about: the read-back cannot tell that from the contract's
\* own effect (write_adapter_support.py, ntp_time_server_prefer.py,
\* executor.py:513-533).
THEOREM AdaptersAreSound == AdaptersSpec => []AdaptersSound
<1>1. AdaptersInit => AdapterInv
  BY AdaptersStart
<1>2. AdapterInv /\ [AdaptersNext]_adapterVars => AdapterInv'
  BY AdaptersStep
<1>3. AdapterInv => AdaptersSound
  <2> SUFFICES ASSUME AdapterInv, NEW k \in misdirected \ touched, \A j \in Contracts \ {k} : contracts[j] = NoContract
               PROVE  contracts[k].state \notin {"verified", "rolled_back"}
    BY DEF AdaptersSound, MisdirectedNeverVerified, AdapterInv
  <2>1. k \in Contracts /\ contracts[k] # NoContract /\ PreferInv(k, contracts[k])
    BY DEF AdapterInv
  <2> QED
    BY <2>1 DEF PreferInv, Undisturbed
<1> QED
  BY <1>1, <1>2, <1>3, PTL DEF AdaptersSpec

-----------------------------------------------------------------------------
(* The setup wizard.                                                       *)

Fields == {"mode", "protection", "account", "address", "name", "tls", "ca", "version", "schema"}

\* What the operator or a flag has settled once the wizard is past a step.
Moded == answers.mode # "none" /\ (prefill.mode # "none" => answers.mode = prefill.mode)
Addressed == answers.address # "none" /\ (prefill.origin # "none" => answers.address = prefill.origin)
Named == answers.name # "none" /\ (prefill.identity # "none" => answers.name = prefill.identity)
Connected == prefill.tls # "none" => answers.tls = prefill.tls
Settled(i) ==
    /\ i >= 2 => Moded
    /\ i >= 4 => Addressed /\ Named
    /\ i >= 5 => Connected

\* The wizard is at the i-th step of the mode answered, by the way of that mode.
AtStep(i) ==
    /\ StepOfScreen = StepSequence(answers.mode)[i] /\ history = WayTo(answers.mode)[i]
    /\ Settled(i)
    /\ screen = "name" => Addressed /\ prefill.identity = "none"
    /\ screen = "ca" => prefill.tls = "none"

WizardInv ==
    /\ prefill \in Prefills /\ DOMAIN answers = Fields
    /\ screen \in WizardSteps \cup Prompts \cup {"reviewed", "done", "cancelled", "flags"}
    /\ answers.protection # "absent" /\ answers.ca # "unset"
    /\ StepOfScreen \in WizardSteps => \E i \in 1..5 : AtStep(i)
    /\ screen \in {"reviewed", "done"} => shown = Review(answers)
    /\ screen = "done" => plan = GeneratedPlan(WizardResult(answers)) /\ Settled(5)

LEMMA Sequence ==
  ASSUME NEW mode
  PROVE  /\ StepSequence(mode)[1] = "usage"
         /\ StepSequence(mode)[2] = IF mode = "write_protected" THEN "protection" ELSE "account"
         /\ StepSequence(mode)[3] = "firewall"
         /\ StepSequence(mode)[4] = "connection"
         /\ StepSequence(mode)[5] = "review"
         /\ \A i \in 1..5 : StepSequence(mode)[i] \in WizardSteps
<1>1. CASE mode = "write_protected"
  BY <1>1 DEF StepSequence, WizardSteps
<1>2. CASE mode # "write_protected"
  BY <1>2 DEF StepSequence, WizardSteps
<1> QED
  BY <1>1, <1>2

LEMMA SamePrefill ==
  ASSUME prefill' = prefill, NEW mode
  PROVE  WayTo(mode)' = WayTo(mode)
BY DEF WayTo, OnTheWay

LEMMA ModeKept ==
  ASSUME prefill' = prefill, NEW mode, answers'.mode = mode
  PROVE  WayTo(answers.mode)' = WayTo(mode) /\ StepSequence(answers.mode)' = StepSequence(mode)
<1>1. WayTo(answers.mode)' = WayTo(mode)'
  OBVIOUS
<1> QED
  BY <1>1, SamePrefill

\* A step on the way is put on the stack on the way to the next; another is not.
LEMMA WayGrows ==
  ASSUME NEW mode
  PROVE  /\ WayTo(mode)[1] = <<>>
         /\ \A i \in 1..5 : WayTo(mode)[i] \in Seq(WizardSteps)
         /\ \A i \in 1..4 : WayTo(mode)[i + 1] = IF OnTheWay(StepSequence(mode)[i])
                                                 THEN Append(WayTo(mode)[i], StepSequence(mode)[i])
                                                 ELSE WayTo(mode)[i]
<1>1. PICK k1, k2, k3, k4 :
        /\ k1 = IF OnTheWay(StepSequence(mode)[1]) THEN <<StepSequence(mode)[1]>> ELSE <<>>
        /\ k2 = IF OnTheWay(StepSequence(mode)[2]) THEN <<StepSequence(mode)[2]>> ELSE <<>>
        /\ k3 = IF OnTheWay(StepSequence(mode)[3]) THEN <<StepSequence(mode)[3]>> ELSE <<>>
        /\ k4 = IF OnTheWay(StepSequence(mode)[4]) THEN <<StepSequence(mode)[4]>> ELSE <<>>
  OBVIOUS
<1>2. k1 \in Seq(WizardSteps) /\ k2 \in Seq(WizardSteps) /\ k3 \in Seq(WizardSteps) /\ k4 \in Seq(WizardSteps)
  BY <1>1, Sequence
<1>3. PICK w2, w3, w4 : w2 = k1 \o k2 /\ w3 = w2 \o k3 /\ w4 = w3 \o k4
  OBVIOUS
<1>4. WayTo(mode) = << <<>>, k1, w2, w3, w4 >>
  BY <1>1, <1>3 DEF WayTo
<1>5. w2 \in Seq(WizardSteps) /\ w3 \in Seq(WizardSteps) /\ w4 \in Seq(WizardSteps)
  BY <1>2, <1>3, ConcatProperties
<1>6. ASSUME NEW s \in Seq(WizardSteps), NEW stage \in WizardSteps, NEW k,
             k = IF OnTheWay(stage) THEN <<stage>> ELSE <<>>
      PROVE  s \o k = IF OnTheWay(stage) THEN Append(s, stage) ELSE s
  BY <1>6, AppendIsConcat, ConcatEmptySeq
<1>7. k1 = IF OnTheWay(StepSequence(mode)[1]) THEN Append(<<>>, StepSequence(mode)[1]) ELSE <<>>
  BY <1>1
<1>8. w2 = IF OnTheWay(StepSequence(mode)[2]) THEN Append(k1, StepSequence(mode)[2]) ELSE k1
  BY <1>1, <1>2, <1>3, <1>6, Sequence
<1>9. w3 = IF OnTheWay(StepSequence(mode)[3]) THEN Append(w2, StepSequence(mode)[3]) ELSE w2
  BY <1>1, <1>3, <1>5, <1>6, Sequence
<1>10. w4 = IF OnTheWay(StepSequence(mode)[4]) THEN Append(w3, StepSequence(mode)[4]) ELSE w3
  BY <1>1, <1>3, <1>5, <1>6, Sequence
<1>11. /\ WayTo(mode)[1] = <<>> /\ WayTo(mode)[2] = k1 /\ WayTo(mode)[3] = w2 /\ WayTo(mode)[4] = w3 /\ WayTo(mode)[5] = w4
  BY <1>4
<1>12. \A i \in 1..5 : WayTo(mode)[i] \in Seq(WizardSteps)
  <2>1. <<>> \in Seq(WizardSteps)
    OBVIOUS
  <2>2. \A i \in 1..5 : i = 1 \/ i = 2 \/ i = 3 \/ i = 4 \/ i = 5
    OBVIOUS
  <2> QED
    BY <1>2, <1>5, <1>11, <2>1, <2>2
<1>13. ASSUME NEW i \in 1..4
       PROVE  WayTo(mode)[i + 1] = IF OnTheWay(StepSequence(mode)[i])
                                   THEN Append(WayTo(mode)[i], StepSequence(mode)[i]) ELSE WayTo(mode)[i]
  <2>1. i = 1 \/ i = 2 \/ i = 3 \/ i = 4
    OBVIOUS
  <2>2. CASE i = 1
    <3>1. WayTo(mode)[i + 1] = k1 /\ WayTo(mode)[i] = <<>> /\ StepSequence(mode)[i] = StepSequence(mode)[1]
      BY <1>11, <2>2
    <3> QED
      BY <1>7, <3>1
  <2>3. CASE i = 2
    BY <1>8, <1>11, <2>3
  <2>4. CASE i = 3
    BY <1>9, <1>11, <2>4
  <2>5. CASE i = 4
    BY <1>10, <1>11, <2>5
  <2> QED
    BY <2>1, <2>2, <2>3, <2>4, <2>5
<1> QED
  BY <1>11, <1>12, <1>13

LEMMA LastFrontAppend ==
  ASSUME NEW s \in Seq(WizardSteps), NEW stage \in WizardSteps
  PROVE  /\ Append(s, stage) # <<>>
         /\ Last(Append(s, stage)) = stage
         /\ Front(Append(s, stage)) = s
<1>1. PICK t : t = Append(s, stage)
  OBVIOUS
<1>2. t \in Seq(WizardSteps) /\ Len(t) = Len(s) + 1 /\ Len(s) \in Nat
  BY <1>1
<1>3. t[Len(s) + 1] = stage /\ \A i \in 1..Len(s) : t[i] = s[i]
  BY <1>1
<1>4. Last(t) = stage
  BY <1>2, <1>3 DEF Last
<1>5. Front(t) = SubSeq(t, 1, Len(s))
  BY <1>2 DEF Front
<1>6. /\ SubSeq(t, 1, Len(s)) \in Seq(WizardSteps)
      /\ Len(SubSeq(t, 1, Len(s))) = IF 1 <= Len(s) THEN Len(s) - 1 + 1 ELSE 0
      /\ \A i \in 1..(Len(s) - 1 + 1) : SubSeq(t, 1, Len(s))[i] = t[1 + i - 1]
  <2>1. 1 \in Int /\ Len(s) \in Int /\ \A i \in 1..Len(s) : t[i] \in WizardSteps
    BY <1>2, <1>3
  <2> QED
    BY ONLY <2>1, SubSeqProperties
<1>7. PICK f : f = SubSeq(t, 1, Len(s))
  OBVIOUS
<1>8. f \in Seq(WizardSteps) /\ Len(f) = Len(s) /\ \A i \in 1..Len(s) : f[i] = s[i]
  BY <1>2, <1>3, <1>6, <1>7
<1>9. f = s
  BY <1>8
<1> QED
  BY <1>1, <1>2, <1>4, <1>5, <1>7, <1>9

\* The stack's top is the step last answered, and below it is the way there.
LEMMA WayBack ==
  ASSUME NEW mode, NEW i \in 1..5, WayTo(mode)[i] # <<>>
  PROVE  \E j \in 1..5 : /\ j < i /\ Last(WayTo(mode)[i]) = StepSequence(mode)[j]
                         /\ Front(WayTo(mode)[i]) = WayTo(mode)[j]
<1>1. ASSUME NEW k \in 1..4, WayTo(mode)[k + 1] # WayTo(mode)[k]
      PROVE  Last(WayTo(mode)[k + 1]) = StepSequence(mode)[k] /\ Front(WayTo(mode)[k + 1]) = WayTo(mode)[k]
  <2>1. WayTo(mode)[k] \in Seq(WizardSteps) /\ StepSequence(mode)[k] \in WizardSteps
    BY WayGrows, Sequence
  <2>2. WayTo(mode)[k + 1] = Append(WayTo(mode)[k], StepSequence(mode)[k])
    BY <1>1, WayGrows
  <2> QED
    BY <2>1, <2>2, LastFrontAppend
<1>2. ASSUME WayTo(mode)[2] # <<>>
      PROVE  Last(WayTo(mode)[2]) = StepSequence(mode)[1] /\ Front(WayTo(mode)[2]) = WayTo(mode)[1]
  BY <1>1, <1>2, WayGrows, 1 + 1 = 2
<1>3. ASSUME WayTo(mode)[3] # <<>>
      PROVE  \E j \in 1..2 : Last(WayTo(mode)[3]) = StepSequence(mode)[j] /\ Front(WayTo(mode)[3]) = WayTo(mode)[j]
  BY <1>1, <1>2, <1>3, 2 + 1 = 3
<1>4. ASSUME WayTo(mode)[4] # <<>>
      PROVE  \E j \in 1..3 : Last(WayTo(mode)[4]) = StepSequence(mode)[j] /\ Front(WayTo(mode)[4]) = WayTo(mode)[j]
  BY <1>1, <1>3, <1>4, 3 + 1 = 4
<1>5. ASSUME WayTo(mode)[5] # <<>>
      PROVE  \E j \in 1..4 : Last(WayTo(mode)[5]) = StepSequence(mode)[j] /\ Front(WayTo(mode)[5]) = WayTo(mode)[j]
  BY <1>1, <1>4, <1>5, 4 + 1 = 5
<1>6. i = 1 \/ i = 2 \/ i = 3 \/ i = 4 \/ i = 5
  OBVIOUS
<1>7. CASE i = 1
  BY <1>7, WayGrows
<1>8. CASE i = 2
  BY <1>2, <1>8
<1>9. CASE i = 3
  BY <1>3, <1>9
<1>10. CASE i = 4
  BY <1>4, <1>10
<1>11. CASE i = 5
  BY <1>5, <1>11
<1> QED
  BY <1>6, <1>7, <1>8, <1>9, <1>10, <1>11

LEMMA Position ==
  ASSUME WizardInv
  PROVE  /\ screen = "usage" => AtStep(1)
         /\ screen = "protection" => AtStep(2) /\ answers.mode = "write_protected"
         /\ screen = "account" => AtStep(2) /\ answers.mode # "write_protected"
         /\ screen \in {"firewall", "address", "name"} => AtStep(3)
         /\ screen \in {"connection", "ca"} => AtStep(4)
         /\ screen \in {"review", "reviewed", "advanced", "version", "schema"} => AtStep(5)
<1>1. CASE StepOfScreen \in WizardSteps
  <2>1. PICK i \in 1..5 : AtStep(i)
    BY <1>1 DEF WizardInv
  <2>2. i = 1 \/ i = 2 \/ i = 3 \/ i = 4 \/ i = 5
    OBVIOUS
  <2>3. StepOfScreen = StepSequence(answers.mode)[i]
    BY <2>1 DEF AtStep
  <2>4. /\ i = 1 => StepOfScreen = "usage"
        /\ i = 2 => StepOfScreen = IF answers.mode = "write_protected" THEN "protection" ELSE "account"
        /\ i = 3 => StepOfScreen = "firewall"
        /\ i = 4 => StepOfScreen = "connection"
        /\ i = 5 => StepOfScreen = "review"
    BY <2>3, Sequence
  <2>5. /\ screen = "usage" => i = 1
        /\ screen = "protection" => i = 2 /\ answers.mode = "write_protected"
        /\ screen = "account" => i = 2 /\ answers.mode # "write_protected"
        /\ screen \in {"firewall", "address", "name"} => i = 3
        /\ screen \in {"connection", "ca"} => i = 4
        /\ screen \in {"review", "reviewed", "advanced", "version", "schema"} => i = 5
    BY <2>2, <2>4 DEF StepOfScreen
  <2> QED
    BY <2>1, <2>5
<1>2. CASE StepOfScreen \notin WizardSteps
  BY <1>2 DEF StepOfScreen, WizardSteps
<1> QED
  BY <1>1, <1>2

\* A step answered and put on the stack, or one skipped: the next is shown.
LEMMA Forward ==
  ASSUME WizardInv, NEW i \in 1..4, NEW a, DOMAIN a = Fields, a.protection # "absent", a.ca # "unset",
         prefill' = prefill, answers' = a, history = WayTo(a.mode)[i],
         history' = IF OnTheWay(StepSequence(a.mode)[i]) THEN Append(history, StepSequence(a.mode)[i]) ELSE history,
         screen' = NextStep(StepSequence(a.mode)[i], a.mode), Settled(i + 1)'
  PROVE  WizardInv'
<1>1. screen' = StepSequence(a.mode)[i + 1]
  <2>1. i = 1 \/ i = 2 \/ i = 3 \/ i = 4
    OBVIOUS
  <2>2. CASE i = 1
    BY <2>2, Sequence DEF NextStep
  <2>3. CASE i = 2
    BY <2>3, Sequence DEF NextStep
  <2>4. CASE i = 3
    BY <2>4, Sequence DEF NextStep
  <2>5. CASE i = 4
    BY <2>5, Sequence DEF NextStep
  <2> QED
    BY <2>1, <2>2, <2>3, <2>4, <2>5
<1>2. i + 1 \in 1..5 /\ screen' \in WizardSteps
  <2>1. i + 1 \in 1..5
    OBVIOUS
  <2> QED
    BY <1>1, <2>1, Sequence
<1>3. StepOfScreen' = screen' /\ screen' \notin {"name", "ca", "reviewed", "done"}
  BY <1>2 DEF StepOfScreen, WizardSteps
<1>4. history' = WayTo(a.mode)[i + 1] /\ WayTo(a.mode)' = WayTo(a.mode)
  BY WayGrows, SamePrefill
<1>5. StepSequence(answers.mode)' = StepSequence(a.mode) /\ WayTo(answers.mode)' = WayTo(a.mode)
  BY ModeKept
<1>6. AtStep(i + 1)'
  BY <1>1, <1>3, <1>4, <1>5 DEF AtStep
<1> QED
  BY <1>2, <1>3, <1>6 DEF WizardInv

LEMMA Backward ==
  ASSUME WizardInv, NEW i \in 1..5, AtStep(i), NEW stage, stage = StepSequence(answers.mode)[i],
         GoBack(stage, answers)
  PROVE  WizardInv'
<1>1. answers' = answers /\ prefill' = prefill
  BY DEF GoBack
<1>2. history = WayTo(answers.mode)[i] /\ Settled(i)
  BY DEF AtStep
<1>3. PICK j \in 1..5 : j <= i /\ screen' = StepSequence(answers.mode)[j] /\ history' = WayTo(answers.mode)[j]
  <2>1. CASE history = <<>>
    <3>1. screen' = stage /\ history' = history /\ i <= i
      BY <2>1 DEF GoBack
    <3> QED
      BY <1>2, <3>1
  <2>2. CASE history # <<>>
    BY <1>2, <2>2, WayBack DEF GoBack
  <2> QED
    BY <2>1, <2>2
<1>4. screen' \in WizardSteps
  BY <1>3, Sequence
<1>5. StepOfScreen' = screen' /\ screen' \notin {"name", "ca", "reviewed", "done"}
  BY <1>4 DEF StepOfScreen, WizardSteps
<1>6. WayTo(answers.mode)' = WayTo(answers.mode) /\ StepSequence(answers.mode)' = StepSequence(answers.mode)
  BY <1>1 DEF WayTo, OnTheWay
<1>7. Settled(j)'
  BY <1>1, <1>2, <1>3 DEF Settled, Moded, Addressed, Named, Connected
<1>8. AtStep(j)'
  BY <1>3, <1>5, <1>6, <1>7 DEF AtStep
<1> QED
  BY <1>1, <1>4, <1>5, <1>8 DEF WizardInv

\* A prompt of the same step, the mode left as it is.
LEMMA Prompted ==
  ASSUME WizardInv, NEW i \in 1..5, AtStep(i), NEW prompt \in WizardSteps \cup Prompts, NEW a,
         DOMAIN a = Fields, a.protection # "absent", a.ca # "unset", a.mode = answers.mode, Ask(prompt, a),
         StepOfScreen' = StepOfScreen, Settled(i)',
         prompt = "name" => Addressed' /\ prefill.identity = "none", prompt = "ca" => prefill.tls = "none"
  PROVE  WizardInv'
<1>1. answers' = a /\ screen' = prompt /\ history' = history /\ prefill' = prefill
  BY DEF Ask
<1>2. WayTo(answers.mode)' = WayTo(answers.mode) /\ StepSequence(answers.mode)' = StepSequence(answers.mode)
  BY <1>1, ModeKept
<1>3. AtStep(i)'
  BY <1>1, <1>2 DEF AtStep
<1>4. screen' \notin {"reviewed", "done"}
  BY <1>1 DEF WizardSteps, Prompts
<1> QED
  BY <1>1, <1>3, <1>4 DEF WizardInv

\* Changing one answer leaves the others.
LEMMA Changed ==
  ASSUME NEW a, DOMAIN a = Fields, NEW f \in Fields, NEW v, NEW b, b = [a EXCEPT ![f] = v]
  PROVE  DOMAIN b = Fields /\ b[f] = v /\ \A g \in Fields : g # f => b[g] = a[g]
OBVIOUS

LEMMA FieldNames ==
  "mode" \in Fields /\ "protection" \in Fields /\ "account" \in Fields /\ "address" \in Fields /\ "name" \in Fields
  /\ "tls" \in Fields /\ "ca" \in Fields /\ "version" \in Fields /\ "schema" \in Fields
BY DEF Fields

LEMMA ModeChanged ==
  ASSUME WizardInv, NEW mode, NEW a, a = WithMode(answers, mode)
  PROVE  DOMAIN a = Fields /\ a.mode = mode /\ a.protection # "absent" /\ a.ca # "unset"
<1>1. DOMAIN answers = Fields /\ answers.protection # "absent" /\ answers.ca # "unset"
  BY DEF WizardInv
<1>2. DOMAIN a = Fields
  BY <1>1 DEF WithMode
<1>3. a.mode = mode /\ a.ca = answers.ca /\ a.protection = IF mode = "read_only" THEN "none" ELSE answers.protection
  BY <1>1, FieldNames DEF WithMode
<1> QED
  BY <1>1, <1>2, <1>3

LEMMA WizardStart == WizardInit => WizardInv
<1> SUFFICES ASSUME WizardInit PROVE WizardInv
  OBVIOUS
<1>1. DOMAIN answers = Fields /\ answers.protection = "none" /\ answers.ca = "none"
  BY DEF WizardInit, NoAnswers, Fields
<1>2. StepOfScreen = "usage"
  BY DEF WizardInit, StepOfScreen
<1>3. AtStep(1)
  BY <1>2, Sequence, WayGrows DEF WizardInit, AtStep, Settled
<1> QED
  BY <1>1, <1>3 DEF WizardInit, WizardInv, WizardSteps

LEMMA SkipKeeps == ASSUME WizardInv, SkipPrefilled PROVE WizardInv'
<1>1. prefill' = prefill /\ history' = history /\ DOMAIN answers = Fields /\ answers.protection # "absent" /\ answers.ca # "unset"
      /\ prefill.ca # "unset"
  BY SetupInputs DEF SkipPrefilled, WizardInv
<1>2. CASE screen = "usage" /\ prefill.mode # "none" /\ answers' = WithMode(answers, prefill.mode)
           /\ screen' = NextStep("usage", prefill.mode)
  <2>1. PICK a : a = WithMode(answers, prefill.mode)
    OBVIOUS
  <2>2. DOMAIN a = Fields /\ a.mode = prefill.mode /\ a.protection # "absent" /\ a.ca # "unset"
    BY <2>1, ModeChanged
  <2>3. history = WayTo(a.mode)[1]
    BY <1>2, Position, WayGrows DEF AtStep
  <2>4. StepSequence(a.mode)[1] = "usage" /\ ~OnTheWay("usage")
    BY <1>2, Sequence DEF OnTheWay
  <2>5. Settled(1 + 1)'
    BY <1>1, <1>2, <2>1, <2>2 DEF Settled, Moded
  <2> QED
    BY <1>1, <1>2, <2>1, <2>2, <2>3, <2>4, <2>5, Forward
<1>3. CASE screen = "protection" /\ prefill.anchor # "absent" /\ screen' = "firewall" /\ answers' = answers
  <2>1. AtStep(2) /\ answers.mode = "write_protected"
    BY <1>3, Position
  <2>2. StepSequence(answers.mode)[2] = "protection" /\ ~OnTheWay("protection") /\ NextStep("protection", answers.mode) = "firewall"
    BY <1>3, <2>1, Sequence DEF OnTheWay, NextStep
  <2>3. Settled(2 + 1)'
    BY <1>1, <1>3, <2>1 DEF Settled, AtStep, Moded
  <2> QED
    BY <1>1, <1>3, <2>1, <2>2, <2>3, Forward DEF AtStep
<1>4. CASE screen = "account" /\ prefill.account # "none" /\ answers' = [answers EXCEPT !.account = prefill.account]
           /\ screen' = "firewall"
  <2>1. AtStep(2) /\ answers.mode # "write_protected"
    BY <1>4, Position
  <2>2. PICK a : a = [answers EXCEPT !.account = prefill.account]
    OBVIOUS
  <2>3. DOMAIN a = Fields /\ a.mode = answers.mode /\ a.protection = answers.protection /\ a.ca = answers.ca
    BY <1>1, <2>2, FieldNames
  <2>4. StepSequence(a.mode)[2] = "account" /\ ~OnTheWay("account") /\ NextStep("account", a.mode) = "firewall"
    BY <1>4, <2>1, <2>3, Sequence DEF OnTheWay, NextStep
  <2>5. Settled(2 + 1)'
    BY <1>1, <1>4, <2>1, <2>2, <2>3 DEF Settled, AtStep, Moded
  <2>6. history = WayTo(a.mode)[2]
    BY <2>1, <2>3 DEF AtStep
  <2>7. history' = IF OnTheWay(StepSequence(a.mode)[2]) THEN Append(history, StepSequence(a.mode)[2]) ELSE history
    BY <1>1, <2>4
  <2>8. screen' = NextStep(StepSequence(a.mode)[2], a.mode)
    BY <1>4, <2>4
  <2>9. answers' = a /\ a.protection # "absent" /\ a.ca # "unset" /\ 2 \in 1..4
    BY <1>1, <1>4, <2>2, <2>3
  <2> QED
    BY <1>1, <2>3, <2>5, <2>6, <2>7, <2>8, <2>9, Forward
<1>5. CASE screen = "connection" /\ prefill.tls # "none"
           /\ answers' = [answers EXCEPT !.tls = prefill.tls, !.ca = prefill.ca] /\ screen' = "review"
  <2>1. AtStep(4)
    BY <1>5, Position
  <2>2. PICK a : a = [answers EXCEPT !.tls = prefill.tls, !.ca = prefill.ca]
    OBVIOUS
  <2>3. /\ DOMAIN a = Fields /\ a.mode = answers.mode /\ a.protection = answers.protection /\ a.ca = prefill.ca
        /\ a.tls = prefill.tls /\ a.address = answers.address /\ a.name = answers.name
    BY <1>1, <2>2, FieldNames
  <2>4. StepSequence(a.mode)[4] = "connection" /\ ~OnTheWay("connection") /\ NextStep("connection", a.mode) = "review"
    BY <1>5, Sequence DEF OnTheWay, NextStep
  <2>5. Settled(4 + 1)'
    BY <1>1, <1>5, <2>1, <2>2, <2>3 DEF Settled, AtStep, Moded, Addressed, Named, Connected
  <2>6. history = WayTo(a.mode)[4]
    BY <2>1, <2>3 DEF AtStep
  <2>7. history' = IF OnTheWay(StepSequence(a.mode)[4]) THEN Append(history, StepSequence(a.mode)[4]) ELSE history
    BY <1>1, <2>4
  <2>8. screen' = NextStep(StepSequence(a.mode)[4], a.mode)
    BY <1>5, <2>4
  <2>9. answers' = a /\ a.protection # "absent" /\ a.ca # "unset" /\ 4 \in 1..4
    BY <1>1, <1>5, <2>2, <2>3
  <2> QED
    BY <1>1, <2>3, <2>5, <2>6, <2>7, <2>8, <2>9, Forward
<1> QED
  BY <1>2, <1>3, <1>4, <1>5 DEF SkipPrefilled

\* One answer given, the step put on the stack.
LEMMA StepAnswered ==
  ASSUME WizardInv, NEW i \in 1..4, AtStep(i), NEW stage, OnTheWay(stage), NEW a, DOMAIN a = Fields,
         a.mode = answers.mode, a.protection # "absent", a.ca # "unset", Advance(stage, a),
         stage = StepSequence(answers.mode)[i], Settled(i + 1)'
  PROVE  WizardInv'
<1>1. history = WayTo(a.mode)[i] /\ StepSequence(a.mode)[i] = stage
  BY DEF AtStep
<1>2. answers' = a /\ prefill' = prefill /\ history' = Append(history, stage) /\ screen' = NextStep(stage, a.mode)
  BY DEF Advance
<1>3. history' = IF OnTheWay(StepSequence(a.mode)[i]) THEN Append(history, StepSequence(a.mode)[i]) ELSE history
  BY <1>1, <1>2
<1>4. screen' = NextStep(StepSequence(a.mode)[i], a.mode)
  BY <1>1, <1>2
<1> QED
  BY <1>1, <1>2, <1>3, <1>4, Forward

LEMMA UsageKeeps == ASSUME WizardInv, StepUsage PROVE WizardInv'
<1>1. PICK mode \in {"read_only", "write_protected"} : Advance("usage", WithMode(answers, mode))
  BY DEF StepUsage
<1>2. PICK a : a = WithMode(answers, mode)
  OBVIOUS
<1>3. DOMAIN a = Fields /\ a.mode = mode /\ a.protection # "absent" /\ a.ca # "unset"
  BY <1>2, ModeChanged
<1>4. history = WayTo(a.mode)[1] /\ StepSequence(a.mode)[1] = "usage"
  BY Position, WayGrows, Sequence DEF AtStep, StepUsage
<1>5. answers' = a /\ prefill' = prefill /\ history' = Append(history, "usage") /\ screen' = NextStep("usage", a.mode)
  BY <1>1, <1>2 DEF Advance
<1>6. OnTheWay("usage")
  BY DEF StepUsage, OnTheWay
<1>7. Settled(1 + 1)'
  BY <1>3, <1>5 DEF Settled, Moded, StepUsage
<1>8. history' = IF OnTheWay(StepSequence(a.mode)[1]) THEN Append(history, StepSequence(a.mode)[1]) ELSE history
  BY <1>4, <1>5, <1>6
<1>9. screen' = NextStep(StepSequence(a.mode)[1], a.mode)
  BY <1>4, <1>5
<1> QED
  BY <1>3, <1>4, <1>5, <1>7, <1>8, <1>9, Forward

LEMMA ProtectionKeeps == ASSUME WizardInv, StepProtection PROVE WizardInv'
<1>1. AtStep(2) /\ StepSequence(answers.mode)[2] = "protection" /\ OnTheWay("protection")
  BY Position, Sequence DEF StepProtection, OnTheWay
<1>2. CASE GoBack("protection", answers)
  BY <1>1, <1>2, Backward
<1>3. CASE Advance("protection", [answers EXCEPT !.protection = "hardware_witness"])
  <2>1. PICK a : a = [answers EXCEPT !.protection = "hardware_witness"]
    OBVIOUS
  <2>2. DOMAIN a = Fields /\ a.mode = answers.mode /\ a.protection = "hardware_witness" /\ a.ca = answers.ca
    BY <2>1, FieldNames DEF WizardInv
  <2>3. Advance("protection", a) /\ a.ca # "unset" /\ a.protection # "absent"
    BY <1>3, <2>1, <2>2 DEF WizardInv
  <2>4. Settled(2 + 1)'
    BY <1>1, <2>2, <2>3 DEF Settled, Moded, AtStep, Advance
  <2> QED
    BY <1>1, <2>2, <2>3, <2>4, StepAnswered
<1> QED
  BY <1>2, <1>3 DEF StepProtection

LEMMA AccountKeeps == ASSUME WizardInv, StepAccount PROVE WizardInv'
<1>1. AtStep(2) /\ StepSequence(answers.mode)[2] = "account" /\ OnTheWay("account")
  BY Position, Sequence DEF StepAccount, OnTheWay
<1>2. CASE GoBack("account", answers)
  BY <1>1, <1>2, Backward
<1>3. ASSUME NEW account, Advance("account", [answers EXCEPT !.account = account]) PROVE WizardInv'
  <2>1. PICK a : a = [answers EXCEPT !.account = account]
    OBVIOUS
  <2>2. DOMAIN a = Fields /\ a.mode = answers.mode /\ a.protection = answers.protection /\ a.ca = answers.ca
    BY <2>1, FieldNames DEF WizardInv
  <2>3. Advance("account", a) /\ a.ca # "unset" /\ a.protection # "absent"
    BY <1>3, <2>1, <2>2 DEF WizardInv
  <2>4. Settled(2 + 1)'
    BY <1>1, <2>2, <2>3 DEF Settled, Moded, AtStep, Advance
  <2> QED
    BY <1>1, <2>2, <2>3, <2>4, StepAnswered
<1> QED
  BY <1>2, <1>3 DEF StepAccount

LEMMA FirewallKeeps == ASSUME WizardInv, StepFirewall PROVE WizardInv'
<1>1. AtStep(3) /\ StepSequence(answers.mode)[3] = "firewall" /\ OnTheWay("firewall") /\ StepOfScreen = "firewall"
  BY Position, Sequence DEF StepFirewall, OnTheWay, StepOfScreen
<1>2. DOMAIN answers = Fields /\ answers.protection # "absent" /\ answers.ca # "unset"
  BY DEF WizardInv
<1>3. PICK a : a = IF prefill.origin # "none" THEN [answers EXCEPT !.address = prefill.origin] ELSE answers
  OBVIOUS
<1>4. /\ DOMAIN a = Fields /\ a.mode = answers.mode /\ a.protection = answers.protection /\ a.ca = answers.ca
      /\ prefill.origin # "none" => a.address = prefill.origin
  BY <1>2, <1>3, FieldNames
<1>5. IF a.address = "none" THEN Ask("address", a)
      ELSE IF prefill.identity # "none" THEN Advance("firewall", [a EXCEPT !.name = prefill.identity])
      ELSE Ask("name", a)
  BY <1>3 DEF StepFirewall
<1>6. CASE Ask("address", a) \/ (Ask("name", a) /\ a.address # "none" /\ prefill.identity = "none")
  <2>1. answers' = a /\ prefill' = prefill /\ screen' \in {"address", "name"}
    BY <1>6 DEF Ask
  <2>2. StepOfScreen' = StepOfScreen
    BY <1>1, <2>1 DEF StepOfScreen
  <2>3. Settled(3)'
    BY <1>1, <1>4, <2>1 DEF Settled, AtStep, Moded
  <2>4. CASE Ask("address", a)
    <3>1. "address" \in WizardSteps \cup Prompts
      BY DEF Prompts
    <3> QED
      BY <1>1, <1>2, <1>4, <2>2, <2>3, <2>4, <3>1, Prompted
  <2>5. CASE Ask("name", a) /\ a.address # "none" /\ prefill.identity = "none"
    <3>1. "name" \in WizardSteps \cup Prompts
      BY DEF Prompts
    <3>2. Addressed'
      BY <1>4, <2>1, <2>5 DEF Addressed
    <3> QED
      BY <1>1, <1>2, <1>4, <2>2, <2>3, <2>5, <3>1, <3>2, Prompted
  <2> QED
    BY <1>6, <2>4, <2>5
<1>7. CASE a.address # "none" /\ prefill.identity # "none" /\ Advance("firewall", [a EXCEPT !.name = prefill.identity])
  <2>1. PICK b : b = [a EXCEPT !.name = prefill.identity]
    OBVIOUS
  <2>2. /\ DOMAIN b = Fields /\ b.mode = answers.mode /\ b.protection = answers.protection /\ b.ca = answers.ca
        /\ b.name = prefill.identity /\ b.address = a.address
    BY <1>4, <2>1, FieldNames
  <2>3. Advance("firewall", b) /\ answers' = b /\ prefill' = prefill
    BY <1>7, <2>1 DEF Advance
  <2>4. Settled(3 + 1)'
    BY <1>1, <1>4, <1>7, <2>2, <2>3 DEF Settled, Moded, AtStep, Addressed, Named
  <2> QED
    BY <1>1, <1>2, <2>2, <2>3, <2>4, StepAnswered
<1> QED
  BY <1>5, <1>6, <1>7

LEMMA AddressKeeps == ASSUME WizardInv, PromptAddress PROVE WizardInv'
<1>1. AtStep(3) /\ StepSequence(answers.mode)[3] = "firewall" /\ StepOfScreen = "firewall"
  BY Position, Sequence DEF PromptAddress, StepOfScreen
<1>2. CASE GoBack("firewall", answers)
  BY <1>1, <1>2, Backward
<1>3. ASSUME NEW address, Ask("firewall", [answers EXCEPT !.address = address]) PROVE WizardInv'
  <2>1. PICK a : a = [answers EXCEPT !.address = address]
    OBVIOUS
  <2>2. DOMAIN a = Fields /\ a.mode = answers.mode /\ a.protection = answers.protection /\ a.ca = answers.ca
    BY <2>1, FieldNames DEF WizardInv
  <2>3. Ask("firewall", a) /\ answers' = a /\ prefill' = prefill /\ screen' = "firewall"
    BY <1>3, <2>1 DEF Ask
  <2>4. StepOfScreen' = StepOfScreen /\ "firewall" \in WizardSteps \cup Prompts
    BY <1>1, <2>3 DEF StepOfScreen, WizardSteps
  <2>5. Settled(3)'
    BY <1>1, <2>2, <2>3 DEF Settled, AtStep, Moded
  <2>6. a.protection # "absent" /\ a.ca # "unset"
    BY <2>2 DEF WizardInv
  <2> QED
    BY <1>1, <2>2, <2>3, <2>4, <2>5, <2>6, Prompted
<1> QED
  BY <1>2, <1>3 DEF PromptAddress

LEMMA NameKeeps == ASSUME WizardInv, PromptName PROVE WizardInv'
<1>1. AtStep(3) /\ StepSequence(answers.mode)[3] = "firewall" /\ StepOfScreen = "firewall" /\ OnTheWay("firewall")
      /\ Addressed /\ prefill.identity = "none"
  BY Position, Sequence DEF PromptName, StepOfScreen, OnTheWay, AtStep
<1>2. CASE GoBack("firewall", answers)
  BY <1>1, <1>2, Backward
<1>3. CASE prefill.origin = "none" /\ Ask("firewall", [answers EXCEPT !.address = "none"])
  <2>1. PICK a : a = [answers EXCEPT !.address = "none"]
    OBVIOUS
  <2>2. DOMAIN a = Fields /\ a.mode = answers.mode /\ a.protection = answers.protection /\ a.ca = answers.ca
    BY <2>1, FieldNames DEF WizardInv
  <2>3. Ask("firewall", a) /\ answers' = a /\ prefill' = prefill /\ screen' = "firewall"
    BY <1>3, <2>1 DEF Ask
  <2>4. StepOfScreen' = StepOfScreen /\ "firewall" \in WizardSteps \cup Prompts
    BY <1>1, <2>3 DEF StepOfScreen, WizardSteps
  <2>5. Settled(3)'
    BY <1>1, <2>2, <2>3 DEF Settled, AtStep, Moded
  <2>6. a.protection # "absent" /\ a.ca # "unset"
    BY <2>2 DEF WizardInv
  <2> QED
    BY <1>1, <2>2, <2>3, <2>4, <2>5, <2>6, Prompted
<1>4. ASSUME NEW name \in Names, Advance("firewall", [answers EXCEPT !.name = name]) PROVE WizardInv'
  <2>1. PICK a : a = [answers EXCEPT !.name = name]
    OBVIOUS
  <2>2. /\ DOMAIN a = Fields /\ a.mode = answers.mode /\ a.protection = answers.protection /\ a.ca = answers.ca
        /\ a.name = name /\ a.address = answers.address
    BY <2>1, FieldNames DEF WizardInv
  <2>3. Advance("firewall", a) /\ a.ca # "unset" /\ a.protection # "absent" /\ answers' = a /\ prefill' = prefill
    BY <1>4, <2>1, <2>2 DEF WizardInv, Advance
  <2>4. name # "none"
    BY SetupInputs
  <2>5. Settled(3 + 1)'
    BY <1>1, <1>4, <2>2, <2>3, <2>4 DEF Settled, Moded, AtStep, Addressed, Named
  <2> QED
    BY <1>1, <2>2, <2>3, <2>5, StepAnswered
<1> QED
  BY <1>2, <1>3, <1>4 DEF PromptName

LEMMA ConnectionKeeps == ASSUME WizardInv, StepConnection PROVE WizardInv'
<1>1. /\ AtStep(4) /\ StepSequence(answers.mode)[4] = "connection" /\ StepOfScreen = "connection" /\ OnTheWay("connection")
      /\ prefill.tls = "none"
  BY Position, Sequence DEF StepConnection, StepOfScreen, OnTheWay, AtStep
<1>2. CASE GoBack("connection", answers)
  BY <1>1, <1>2, Backward
<1>3. CASE Ask("ca", [answers EXCEPT !.tls = "verify_private_ca"])
  <2>1. PICK a : a = [answers EXCEPT !.tls = "verify_private_ca"]
    OBVIOUS
  <2>2. /\ DOMAIN a = Fields /\ a.mode = answers.mode /\ a.protection = answers.protection /\ a.ca = answers.ca
        /\ a.name = answers.name /\ a.address = answers.address
    BY <2>1, FieldNames DEF WizardInv
  <2>3. Ask("ca", a) /\ answers' = a /\ prefill' = prefill /\ screen' = "ca"
    BY <1>3, <2>1 DEF Ask
  <2>4. StepOfScreen' = StepOfScreen /\ "ca" \in WizardSteps \cup Prompts
    BY <1>1, <2>3 DEF StepOfScreen, Prompts
  <2>5. Settled(4)'
    BY <1>1, <2>2, <2>3 DEF Settled, AtStep, Moded, Addressed, Named
  <2>6. a.protection # "absent" /\ a.ca # "unset"
    BY <2>2 DEF WizardInv
  <2> QED
    BY <1>1, <2>2, <2>3, <2>4, <2>5, <2>6, Prompted
<1>4. ASSUME NEW tls, Advance("connection", [answers EXCEPT !.tls = tls]) PROVE WizardInv'
  <2>1. PICK a : a = [answers EXCEPT !.tls = tls]
    OBVIOUS
  <2>2. /\ DOMAIN a = Fields /\ a.mode = answers.mode /\ a.protection = answers.protection /\ a.ca = answers.ca
        /\ a.name = answers.name /\ a.address = answers.address
    BY <2>1, FieldNames DEF WizardInv
  <2>3. Advance("connection", a) /\ a.ca # "unset" /\ a.protection # "absent" /\ answers' = a /\ prefill' = prefill
    BY <1>4, <2>1, <2>2 DEF WizardInv, Advance
  <2>4. Settled(4 + 1)'
    BY <1>1, <2>2, <2>3 DEF Settled, Moded, AtStep, Addressed, Named, Connected
  <2> QED
    BY <1>1, <2>2, <2>3, <2>4, StepAnswered
<1> QED
  BY <1>2, <1>3, <1>4 DEF StepConnection

LEMMA CaKeeps == ASSUME WizardInv, PromptCa PROVE WizardInv'
<1>1. /\ AtStep(4) /\ StepSequence(answers.mode)[4] = "connection" /\ OnTheWay("connection")
      /\ prefill.tls = "none"
  BY Position, Sequence DEF PromptCa, OnTheWay, AtStep
<1>2. PICK ca \in CaFiles \cup {"none"} : Advance("connection", [answers EXCEPT !.ca = ca])
  BY DEF PromptCa
<1>3. PICK a : a = [answers EXCEPT !.ca = ca]
  OBVIOUS
<1>4. /\ DOMAIN a = Fields /\ a.mode = answers.mode /\ a.protection = answers.protection /\ a.ca = ca
      /\ a.name = answers.name /\ a.address = answers.address
  BY <1>3, FieldNames DEF WizardInv
<1>5. a.ca # "unset" /\ a.protection # "absent"
  BY <1>4, SetupInputs DEF WizardInv
<1>6. Advance("connection", a) /\ answers' = a /\ prefill' = prefill
  BY <1>2, <1>3 DEF Advance
<1>7. Settled(4 + 1)'
  BY <1>1, <1>4, <1>6 DEF Settled, Moded, AtStep, Addressed, Named, Connected
<1> QED
  BY <1>1, <1>4, <1>5, <1>6, <1>7, StepAnswered

\* A prompt of the review changes at most the advanced answers.
LEMMA AdvancedKeeps ==
  ASSUME WizardInv, StepAdvanced \/ PromptVersion \/ PromptSchema
  PROVE  WizardInv'
<1>1. AtStep(5) /\ StepOfScreen = "review" /\ DOMAIN answers = Fields /\ answers.ca # "unset" /\ answers.protection # "absent"
  BY Position DEF StepAdvanced, PromptVersion, PromptSchema, StepOfScreen, WizardInv
<1>2. ASSUME NEW prompt \in {"review", "version", "schema"}, NEW a, Ask(prompt, a), DOMAIN a = Fields,
             \A f \in Fields \ {"version", "schema"} : a[f] = answers[f]
      PROVE  WizardInv'
  <2>1. answers' = a /\ prefill' = prefill /\ screen' = prompt
    BY <1>2 DEF Ask
  <2>2. StepOfScreen' = StepOfScreen /\ prompt \in WizardSteps \cup Prompts
    BY <1>1, <2>1 DEF StepOfScreen, WizardSteps, Prompts
  <2>3. /\ a.mode = answers.mode /\ a.protection = answers.protection /\ a.ca = answers.ca
        /\ a.name = answers.name /\ a.address = answers.address /\ a.tls = answers.tls
    BY <1>2 DEF Fields
  <2>4. Settled(5)'
    BY <1>1, <2>1, <2>3 DEF Settled, AtStep, Moded, Addressed, Named, Connected
  <2>5. prompt # "name" /\ prompt # "ca" /\ 5 \in 1..5
    OBVIOUS
  <2> QED
    BY <1>1, <1>2, <2>2, <2>3, <2>4, <2>5, Prompted
<1>3. CASE StepAdvanced
  BY <1>1, <1>2, <1>3 DEF StepAdvanced
<1>4. CASE PromptVersion
  <2>1. PICK v : Ask("schema", [answers EXCEPT !.version = v])
    BY <1>4 DEF PromptVersion
  <2>2. PICK a : a = [answers EXCEPT !.version = v]
    OBVIOUS
  <2>3. DOMAIN a = Fields /\ \A f \in Fields \ {"version", "schema"} : a[f] = answers[f]
    BY <1>1, <2>2
  <2> QED
    BY <1>2, <2>1, <2>2, <2>3
<1>5. CASE PromptSchema
  <2>1. PICK v : Ask("review", [answers EXCEPT !.schema = v])
    BY <1>5 DEF PromptSchema
  <2>2. PICK a : a = [answers EXCEPT !.schema = v]
    OBVIOUS
  <2>3. DOMAIN a = Fields /\ \A f \in Fields \ {"version", "schema"} : a[f] = answers[f]
    BY <1>1, <2>2
  <2> QED
    BY <1>2, <2>1, <2>2, <2>3
<1> QED
  BY <1>3, <1>4, <1>5

LEMMA ReviewKeeps ==
  ASSUME WizardInv, DisplayReview \/ AnswerReview
  PROVE  WizardInv'
<1>1. AtStep(5) /\ StepSequence(answers.mode)[5] = "review" /\ StepOfScreen = "review" /\ DOMAIN answers = Fields
      /\ answers.ca # "unset" /\ answers.protection # "absent"
  BY Position, Sequence DEF DisplayReview, AnswerReview, StepOfScreen, WizardInv
<1>2. CASE DisplayReview
  <2>1. answers' = answers /\ prefill' = prefill /\ history' = history /\ screen' = "reviewed" /\ shown' = Review(answers)
    BY <1>2 DEF DisplayReview
  <2>2. StepOfScreen' = "review"
    BY <2>1 DEF StepOfScreen
  <2>3. shown' = Review(answers)'
    BY <2>1 DEF Review, EffectiveReadOnlyAccountMode, EffectiveAnchorAssurance
  <2>4. WayTo(answers.mode)' = WayTo(answers.mode) /\ StepSequence(answers.mode)' = StepSequence(answers.mode)
    BY <2>1, ModeKept
  <2>5. AtStep(5)'
    BY <1>1, <2>1, <2>2, <2>4 DEF AtStep, Settled, Moded, Addressed, Named, Connected
  <2> QED
    BY <2>1, <2>3, <2>5 DEF WizardInv
<1>3. CASE GoBack("review", answers)
  BY <1>1, <1>3, Backward
<1>4. CASE Ask("advanced", answers)
  <2>1. answers' = answers /\ prefill' = prefill /\ screen' = "advanced"
    BY <1>4 DEF Ask
  <2>2. StepOfScreen' = StepOfScreen /\ "advanced" \in WizardSteps \cup Prompts
    BY <1>1, <2>1 DEF StepOfScreen, Prompts
  <2>3. Settled(5)'
    BY <1>1, <2>1 DEF AtStep, Settled, Moded, Addressed, Named, Connected
  <2> QED
    BY <1>1, <1>4, <2>2, <2>3, Prompted
<1>5. CASE screen' = "cancelled" /\ UNCHANGED <<prefill, answers, history, shown, plan>>
  BY <1>5 DEF WizardInv, StepOfScreen, WizardSteps
<1>6. CASE /\ screen = "reviewed" /\ plan' = GeneratedPlan(WizardResult(answers)) /\ screen' = "done"
           /\ UNCHANGED <<prefill, answers, shown>>
  <2>1. shown' = Review(answers)'
    BY <1>6 DEF WizardInv, Review, EffectiveReadOnlyAccountMode, EffectiveAnchorAssurance
  <2>2. plan' = GeneratedPlan(WizardResult(answers))'
    BY <1>6 DEF GeneratedPlan, WizardResult, EffectiveAnchorAssurance, ResolvedAccountMode,
        EffectiveReadOnlyAccountMode, AdvancedLocked
  <2>3. Settled(5)'
    BY <1>1, <1>6 DEF AtStep, Settled, Moded, Addressed, Named, Connected
  <2>4. StepOfScreen' \notin WizardSteps
    BY <1>6 DEF StepOfScreen, WizardSteps
  <2> QED
    BY <1>6, <2>1, <2>2, <2>3, <2>4 DEF WizardInv
<1> QED
  BY <1>2, <1>3, <1>4, <1>5, <1>6 DEF AnswerReview

LEMMA LeaveKeeps ==
  ASSUME WizardInv, QuitWizard \/ NonInteractive
  PROVE  WizardInv'
<1>1. screen' \in {"cancelled", "flags"} /\ UNCHANGED <<prefill, answers>>
  BY DEF QuitWizard, NonInteractive
<1>2. StepOfScreen' \notin WizardSteps
  BY <1>1 DEF StepOfScreen, WizardSteps
<1> QED
  BY <1>1, <1>2 DEF WizardInv

LEMMA WizardNextKeeps == WizardInv /\ [WizardNext]_wizardVars => WizardInv'
<1> SUFFICES ASSUME WizardInv, [WizardNext]_wizardVars PROVE WizardInv'
  OBVIOUS
<1>1. CASE UNCHANGED wizardVars
  <2>1. prefill' = prefill /\ answers' = answers /\ screen' = screen /\ history' = history /\ shown' = shown /\ plan' = plan
    BY <1>1 DEF wizardVars
  <2>2. Review(answers)' = Review(answers)
    BY <2>1 DEF Review, EffectiveReadOnlyAccountMode, EffectiveAnchorAssurance
  <2>3. GeneratedPlan(WizardResult(answers))' = GeneratedPlan(WizardResult(answers))
    BY <2>1 DEF GeneratedPlan, WizardResult, EffectiveAnchorAssurance, ResolvedAccountMode,
        EffectiveReadOnlyAccountMode, AdvancedLocked
  <2>4. StepOfScreen' = StepOfScreen
    BY <2>1 DEF StepOfScreen
  <2>5. WayTo(answers.mode)' = WayTo(answers.mode) /\ StepSequence(answers.mode)' = StepSequence(answers.mode)
    BY <2>1, ModeKept
  <2>6. \A i \in 1..5 : Settled(i)' = Settled(i)
    BY <2>1 DEF Settled, Moded, Addressed, Named, Connected
  <2>7. \A i \in 1..5 : AtStep(i) => AtStep(i)'
    BY <2>1, <2>4, <2>5, <2>6 DEF AtStep, Addressed
  <2>8. Settled(5)' = Settled(5)
    BY <2>6
  <2> QED
    BY <2>1, <2>2, <2>3, <2>4, <2>7, <2>8 DEF WizardInv
<1> QED
  BY <1>1, SkipKeeps, UsageKeeps, ProtectionKeeps, AccountKeeps, FirewallKeeps, AddressKeeps, NameKeeps,
     ConnectionKeeps, CaKeeps, AdvancedKeeps, ReviewKeeps, LeaveKeeps DEF WizardNext

LEMMA WizardInvFaithful == WizardInv => WizardFaithful
<1> SUFFICES ASSUME WizardInv PROVE WizardFaithful
  OBVIOUS
<1>1. StackFitsMode
  BY DEF WizardInv, AtStep, StackFitsMode
<1>2. ASSUME screen = "done" PROVE PlanAsReviewed /\ WizardPlanAccepted
  <2>1. shown = Review(answers) /\ plan = GeneratedPlan(WizardResult(answers)) /\ Moded /\ Addressed /\ Named /\ Connected
    BY <1>2 DEF WizardInv, Settled
  <2>2. PICK r : r = WizardResult(answers)
    OBVIOUS
  <2>3. /\ r.posture = answers.mode /\ r.origin = answers.address /\ r.identity = answers.name
        /\ r.anchor = EffectiveAnchorAssurance(answers) /\ r.account = ResolvedAccountMode(answers.mode, answers)
        /\ r.tls = First(prefill.tls, answers.tls)
        /\ r.ca = IF prefill.tls # "none" THEN prefill.ca ELSE answers.ca
    BY <2>1, <2>2 DEF WizardResult, First, Moded, Addressed, Named
  <2>4. r.posture # "none" /\ r.anchor # "absent" /\ ~PlanRefused(r)
    BY <2>1, <2>3 DEF Moded, EffectiveAnchorAssurance, DeriveAnchorAssurance, First, PlanRefused,
        ResolvedAccountMode, WizardInv
  <2>5. plan = [outcome |-> "planned", inputs |-> r, env |-> ClientEnvVars(r)]
    BY <2>1, <2>2, <2>4 DEF GeneratedPlan
  <2>6. plan.outcome = "planned" /\ plan.inputs = r /\ plan.env = ClientEnvVars(r)
    BY <2>5
  <2>7. PICK insecure \in BOOLEAN : insecure <=> answers.tls = "insecure"
    OBVIOUS
  <2>8. shown = [mode |-> answers.mode,
                  account |-> IF answers.mode = "read_only" THEN EffectiveReadOnlyAccountMode(answers) ELSE "unshown",
                  anchor |-> IF answers.mode = "read_only" THEN "unshown" ELSE EffectiveAnchorAssurance(answers),
                  name |-> answers.name, address |-> answers.address, insecure |-> insecure]
    BY <2>1, <2>7 DEF Review
  <2>9. (r.tls = "insecure") = insecure
    BY <2>1, <2>3, <2>7 DEF Connected, First
  <2>10. PlanAsReviewed
    BY <2>1, <2>3, <2>6, <2>8, <2>9 DEF PlanAsReviewed, ResolvedAccountMode, Named, Addressed
  <2> QED
    BY <2>6, <2>10 DEF WizardPlanAccepted
<1>3. CASE screen # "done"
  BY <1>1, <1>3 DEF WizardFaithful, PlanAsReviewed, WizardPlanAccepted
<1> QED
  BY <1>1, <1>2, <1>3 DEF WizardFaithful

(* Through any number of detours, with any flags, the wizard's back stack   *)
(* is the way to the step on the screen, and the plan it generates is the   *)
(* one reviewed and accepted by the planner (security_cli.py _run_wizard).  *)
THEOREM WizardIsFaithful == WizardSpec => []WizardFaithful
<1>1. WizardInit => WizardInv
  BY WizardStart
<1>2. WizardInv /\ [WizardNext]_wizardVars => WizardInv'
  BY WizardNextKeeps
<1>3. WizardInv => WizardFaithful
  BY WizardInvFaithful
<1> QED
  BY <1>1, <1>2, <1>3, PTL DEF WizardSpec

-----------------------------------------------------------------------------
(* The read server.                                                        *)

\* A process that does not serve has no call and no answer; a call under way
\* is a read; the configuration names a known profile and no write tool.
ServerInv ==
    /\ step # "serving" => answer = NoAnswer /\ call = NoCall
    /\ call # NoCall => call.tool \in KNOWN_READ_TOOL_NAMES \ {"pfsense_mcp_info"} /\ call.include \in BOOLEAN
    /\ step \in {"key", "client", "register", "serving"} =>
         /\ conf.profile \in {"auditor", "engineer", "write_protected"}
         /\ conf.allowed.names \cap KNOWN_WRITE_TOOL_NAMES = {}
    /\ ServerSound

-----------------------------------------------------------------------------
(* The tables of the registry *)

\* Every row is of a capability the profiles grant and of known read tools.
LEMMA RegistryRows ==
  \A r \in Registers : r[1] \in READ_CAPABILITIES /\ r[2] \subseteq KNOWN_READ_TOOL_NAMES
<1>1. \A r \in Registers1 : r[1] \in READ_CAPABILITIES /\ r[2] \subseteq KNOWN_READ_TOOL_NAMES
  BY DEF Registers1, READ_CAPABILITIES, KNOWN_READ_TOOL_NAMES
<1>2. \A r \in Registers2 : r[1] \in READ_CAPABILITIES /\ r[2] \subseteq KNOWN_READ_TOOL_NAMES
  BY DEF Registers2, READ_CAPABILITIES, KNOWN_READ_TOOL_NAMES
<1>3. \A r \in Registers3 : r[1] \in READ_CAPABILITIES /\ r[2] \subseteq KNOWN_READ_TOOL_NAMES
  BY DEF Registers3, READ_CAPABILITIES, KNOWN_READ_TOOL_NAMES
<1>4. \A r \in Registers4 : r[1] \in READ_CAPABILITIES /\ r[2] \subseteq KNOWN_READ_TOOL_NAMES
  BY DEF Registers4, READ_CAPABILITIES, KNOWN_READ_TOOL_NAMES
<1>5. \A r \in Registers5 : r[1] \in READ_CAPABILITIES /\ r[2] \subseteq KNOWN_READ_TOOL_NAMES
  BY DEF Registers5, READ_CAPABILITIES, KNOWN_READ_TOOL_NAMES
<1> QED
  BY <1>1, <1>2, <1>3, <1>4, <1>5 DEF Registers

\* No known read tool is left without a row.
LEMMA RegistryComplete == \A t \in KNOWN_READ_TOOL_NAMES : \E r \in Registers : t \in r[2]
BY DEF Registers, Registers1, Registers2, Registers3, Registers4, Registers5, KNOWN_READ_TOOL_NAMES

LEMMA ToolNames ==
  /\ KNOWN_READ_TOOL_NAMES \cap KNOWN_WRITE_TOOL_NAMES = {}
  /\ KNOWN_GUIDANCE_TOOL_NAMES \cap KNOWN_WRITE_TOOL_NAMES = {}
  /\ "pfsense_mcp_info" \notin KNOWN_GUIDANCE_TOOL_NAMES /\ "pfsense_mcp_info" \notin KNOWN_WRITE_TOOL_NAMES
  /\ "ALIAS_WRITE" \notin READ_CAPABILITIES /\ "SYSTEM_READ" \in READ_CAPABILITIES
<1>1. KNOWN_READ_TOOL_NAMES \cap KNOWN_WRITE_TOOL_NAMES = {}
  BY DEF KNOWN_READ_TOOL_NAMES, KNOWN_WRITE_TOOL_NAMES
<1>2. "ALIAS_WRITE" \notin READ_CAPABILITIES /\ "SYSTEM_READ" \in READ_CAPABILITIES
  BY DEF READ_CAPABILITIES
<1> QED
  BY <1>1, <1>2 DEF KNOWN_GUIDANCE_TOOL_NAMES, KNOWN_WRITE_TOOL_NAMES

\* A profile that reads is granted every known read tool, whichever tables
\* its capabilities come from.
LEMMA GrantedReads ==
  ASSUME NEW capabilities, READ_CAPABILITIES \subseteq capabilities
  PROVE  UNION {r[2] : r \in {x \in Registers : x[1] \in capabilities}} = KNOWN_READ_TOOL_NAMES
BY RegistryRows, RegistryComplete

LEMMA RegisterAllGrants ==
  ASSUME NEW profile \in {"auditor", "engineer", "write_protected"}, NEW allowed,
         allowed.names \cap KNOWN_WRITE_TOOL_NAMES = {}, NEW tools, tools = RegisterAll(CapabilitiesOf(profile), allowed),
         NEW reading,
         reading = IF profile = "engineer" THEN {} ELSE KNOWN_READ_TOOL_NAMES \cup KNOWN_GUIDANCE_TOOL_NAMES
  PROVE  /\ tools \ KNOWN_WRITE_TOOL_NAMES = IF allowed.given THEN reading \cap allowed.names ELSE reading
         /\ tools \cap KNOWN_WRITE_TOOL_NAMES # {} => profile = "write_protected" /\ ~allowed.given
<1>1. PICK capabilities : capabilities = CapabilitiesOf(profile)
  OBVIOUS
<1>2. PICK granted : granted = (UNION {r[2] : r \in {x \in Registers : x[1] \in capabilities}})
                               \cup (IF capabilities # {} THEN KNOWN_GUIDANCE_TOOL_NAMES ELSE {})
                               \cup AliasWriteTools(capabilities)
  OBVIOUS
<1>3. tools = {t \in granted : allowed.given => t \in allowed.names}
  BY <1>1, <1>2 DEF RegisterAll
<1>4. /\ granted \ KNOWN_WRITE_TOOL_NAMES = reading
      /\ granted \cap KNOWN_WRITE_TOOL_NAMES # {} => profile = "write_protected"
  <2>1. CASE profile = "engineer"
    <3>1. capabilities = {}
      BY <1>1, <2>1 DEF CapabilitiesOf
    <3>2. granted = {}
      BY <1>2, <3>1 DEF AliasWriteTools
    <3> QED
      BY <2>1, <3>2
  <2>2. CASE profile # "engineer"
    <3>1. /\ READ_CAPABILITIES \subseteq capabilities
          /\ capabilities = IF profile = "auditor" THEN READ_CAPABILITIES ELSE READ_CAPABILITIES \cup {"ALIAS_WRITE"}
      BY <1>1, <2>2 DEF CapabilitiesOf
    <3>2. capabilities # {}
      BY <3>1, ToolNames
    <3>3. granted = KNOWN_READ_TOOL_NAMES \cup KNOWN_GUIDANCE_TOOL_NAMES \cup AliasWriteTools(capabilities)
      BY <1>2, <3>1, <3>2, GrantedReads
    <3>4. /\ AliasWriteTools(capabilities) \subseteq KNOWN_WRITE_TOOL_NAMES
          /\ profile = "auditor" => AliasWriteTools(capabilities) = {}
      BY <3>1, ToolNames DEF AliasWriteTools
    <3> QED
      BY <2>2, <3>3, <3>4, ToolNames
  <2> QED
    BY <2>1, <2>2
<1>5. CASE allowed.given
  BY <1>3, <1>4, <1>5
<1>6. CASE ~allowed.given
  BY <1>3, <1>4, <1>6
<1> QED
  BY <1>5, <1>6

-----------------------------------------------------------------------------
(* The start of the process *)

LEMMA NoAnswerSound ==
  ASSUME answer = NoAnswer
  PROVE  IdentifyingOnRecord /\ AllOrNothing
BY DEF NoAnswer, None, IdentifyingOnRecord, AllOrNothing

LEMMA ServerStart == ServerInit => ServerInv
<1> SUFFICES ASSUME ServerInit PROVE ServerInv
  OBVIOUS
<1>1. step = "down" /\ answer = NoAnswer /\ call = NoCall
  BY DEF ServerInit
<1>2. ServedWithinGrant
  BY <1>1 DEF ServedWithinGrant
<1> QED
  BY <1>1, <1>2, NoAnswerSound DEF ServerInv, ServerSound

LEMMA ExitKeeps == ASSUME ServerInv, Exit PROVE ServerInv'
<1>1. step' = "down" /\ answer' = NoAnswer /\ call' = NoCall
  BY DEF Exit
<1>2. IdentifyingOnRecord' /\ AllOrNothing'
  BY <1>1 DEF NoAnswer, None, IdentifyingOnRecord, AllOrNothing
<1>3. ServedWithinGrant'
  BY <1>1 DEF ServedWithinGrant
<1> QED
  BY <1>1, <1>2, <1>3 DEF ServerInv, ServerSound

\* One step of the start: nothing is answered meanwhile.
LEMMA ProceedKeeps ==
  ASSUME ServerInv, NEW from, NEW to, Proceed(from, to), from # "serving",
         to \in {"key", "client", "register", "serving"} =>
           /\ conf'.profile \in {"auditor", "engineer", "write_protected"}
           /\ conf'.allowed.names \cap KNOWN_WRITE_TOOL_NAMES = {},
         ServedWithinGrant'
  PROVE  ServerInv'
<1>1. answer' = NoAnswer /\ call' = NoCall /\ step' = to
  BY DEF Proceed, ServerInv
<1>2. IdentifyingOnRecord' /\ AllOrNothing'
  BY <1>1 DEF NoAnswer, None, IdentifyingOnRecord, AllOrNothing
<1> QED
  BY <1>1, <1>2 DEF ServerInv, ServerSound

LEMMA StartKeeps ==
  ASSUME ServerInv, Start \/ LoadConfig \/ LoadApiKey \/ BuildClient \/ Register \/ Stop
  PROVE  ServerInv'
<1>1. CASE Start
  <2>1. Proceed("down", "config") /\ step' = "config"
    BY <1>1 DEF Start, Proceed
  <2> QED
    BY <2>1, ProceedKeeps DEF ServedWithinGrant
<1>2. CASE LoadConfig
  <2>1. CASE Exit
    BY <2>1, ExitKeeps
  <2>2. CASE ~Exit
    <3>1. /\ Proceed("config", "key") /\ step' = "key" /\ LoadsConfig(env)
          /\ conf' = [profile |-> env.profile, allowed |-> AllowedTools(env.allowed)]
      BY <1>2, <2>2 DEF LoadConfig, Proceed
    <3>2. conf'.profile = env.profile /\ conf'.allowed.names = env.allowed.names
      BY <3>1 DEF AllowedTools
    <3>3. env.profile \in {"auditor", "engineer", "write_protected"} /\ env.allowed.names \cap KNOWN_WRITE_TOOL_NAMES = {}
      BY <3>1 DEF LoadsConfig, AllowedToolsParse
    <3> QED
      BY <3>1, <3>2, <3>3, ProceedKeeps DEF ServedWithinGrant
  <2> QED
    BY <2>1, <2>2
<1>3. CASE LoadApiKey
  <2>1. CASE Exit
    BY <2>1, ExitKeeps
  <2>2. CASE ~Exit
    <3>1. Proceed("key", "client") /\ step = "key" /\ step' = "client" /\ conf' = conf
      BY <1>3, <2>2 DEF LoadApiKey, Proceed
    <3> QED
      BY <3>1, ProceedKeeps DEF ServedWithinGrant, ServerInv
  <2> QED
    BY <2>1, <2>2
<1>4. CASE BuildClient
  <2>1. Proceed("client", "register") /\ step = "client" /\ step' = "register" /\ conf' = conf
    BY <1>4 DEF BuildClient, Proceed
  <2> QED
    BY <2>1, ProceedKeeps DEF ServedWithinGrant, ServerInv
<1>5. CASE Register
  <2>1. CASE Exit
    BY <2>1, ExitKeeps
  <2>2. CASE ~Exit
    <3>1. /\ Proceed("register", "serving") /\ step = "register" /\ step' = "serving" /\ conf' = conf
          /\ served' = RegisterAll(CapabilitiesOf(conf.profile), conf.allowed)
      BY <1>5, <2>2 DEF Register, Proceed
    <3>2. /\ conf.profile \in {"auditor", "engineer", "write_protected"}
          /\ conf.allowed.names \cap KNOWN_WRITE_TOOL_NAMES = {}
      BY <3>1 DEF ServerInv
    <3>3. PICK reading : reading = IF conf.profile = "engineer" THEN {} ELSE KNOWN_READ_TOOL_NAMES \cup KNOWN_GUIDANCE_TOOL_NAMES
      OBVIOUS
    <3>4. /\ served' \ KNOWN_WRITE_TOOL_NAMES = IF conf.allowed.given THEN reading \cap conf.allowed.names ELSE reading
          /\ served' \cap KNOWN_WRITE_TOOL_NAMES # {} => conf.profile = "write_protected" /\ ~conf.allowed.given
      <4>1. PICK profile, allowed, tools : /\ profile = conf.profile /\ allowed = conf.allowed
                                           /\ tools = RegisterAll(CapabilitiesOf(profile), allowed)
        OBVIOUS
      <4>2. /\ tools \ KNOWN_WRITE_TOOL_NAMES = IF allowed.given THEN reading \cap allowed.names ELSE reading
            /\ tools \cap KNOWN_WRITE_TOOL_NAMES # {} => profile = "write_protected" /\ ~allowed.given
        <5>1. profile \in {"auditor", "engineer", "write_protected"} /\ allowed.names \cap KNOWN_WRITE_TOOL_NAMES = {}
          BY <3>2, <4>1
        <5>2. reading = IF profile = "engineer" THEN {} ELSE KNOWN_READ_TOOL_NAMES \cup KNOWN_GUIDANCE_TOOL_NAMES
          BY <3>3, <4>1
        <5> QED
          BY <4>1, <5>1, <5>2, RegisterAllGrants
      <4> QED
        BY <3>1, <4>1, <4>2
    <3>5. ServedWithinGrant'
      BY <3>1, <3>3, <3>4 DEF ServedWithinGrant
    <3> QED
      BY <3>1, <3>2, <3>5, ProceedKeeps
  <2> QED
    BY <2>1, <2>2
<1>6. CASE Stop
  BY <1>6, ExitKeeps DEF Stop
<1> QED
  BY <1>1, <1>2, <1>3, <1>4, <1>5, <1>6

-----------------------------------------------------------------------------
(* A call *)

\* A step of a serving process that leaves what it serves alone.
LEMMA ServingKeeps ==
  ASSUME ServerInv, step = "serving", UNCHANGED <<step, conf, served>>,
         call' # NoCall => call'.tool \in KNOWN_READ_TOOL_NAMES \ {"pfsense_mcp_info"} /\ call'.include \in BOOLEAN,
         IdentifyingOnRecord', AllOrNothing'
  PROVE  ServerInv'
<1>1. ServedWithinGrant'
  BY DEF ServerInv, ServerSound, ServedWithinGrant
<1> QED
  BY <1>1 DEF ServerInv, ServerSound

\* An answer without entries.
LEMMA AnsweredKeeps ==
  ASSUME ServerInv, step = "serving", NEW tool, NEW include, NEW outcome, Answered(tool, include, outcome)
  PROVE  ServerInv'
<1>1. answer' = [NoAnswer EXCEPT !.tool = tool, !.outcome = outcome] /\ UNCHANGED <<step, conf, served, call>>
  BY DEF Answered
<1>2. answer'.shown = {} /\ answer'.entries = {} /\ answer'.sent = {} /\ answer'.tool = tool
  BY <1>1 DEF NoAnswer
<1>3. IdentifyingOnRecord' /\ AllOrNothing'
  BY <1>2 DEF IdentifyingOnRecord, AllOrNothing
<1> QED
  BY <1>1, <1>3, ServingKeeps DEF ServerInv

\* What is shown without being asked for is nothing, sub-entries included.
LEMMA NothingUnasked == ASSUME NEW model PROVE Shown(model, FALSE) = {}
BY DEF Shown, OwnShown, PartsShown

LEMMA FinishKeeps ==
  ASSUME ServerInv, call # NoCall, NEW outcome, NEW shows, NEW body, NEW returned, NEW status,
         Finish(outcome, shows, body, returned, status),
         shows # {} => call.include, returned \in {{}, body.entries},
         returned # {} => status = 200 /\ outcome = "success",
         outcome = "success" => returned = body.entries
  PROVE  ServerInv'
<1>1. /\ step = "serving" /\ call.tool \in KNOWN_READ_TOOL_NAMES \ {"pfsense_mcp_info"} /\ call.include \in BOOLEAN
  BY DEF ServerInv
<1>2. /\ answer' = [tool |-> call.tool, outcome |-> outcome, shown |-> shows, entries |-> returned,
                    sent |-> body.entries, status |-> status, count |-> 0]
      /\ trail' = AuditedCall(call.tool, call.include, outcome = "success") /\ call' = NoCall
      /\ UNCHANGED <<step, conf, served>>
  BY DEF Finish
<1>3. /\ answer'.tool = call.tool /\ answer'.outcome = outcome /\ answer'.shown = shows /\ answer'.entries = returned
      /\ answer'.sent = body.entries /\ answer'.status = status
  BY <1>2
<1>4. IdentifyingOnRecord'
  <2>1. PICK event : trail' = <<Audit("tool_invoked", call.tool, call.include), Audit(event, call.tool, call.include)>>
    BY <1>2 DEF AuditedCall
  <2>2. Len(trail') = 2 /\ \A i \in 1..2 : trail'[i].requested = call.include /\ trail'[i].tool = call.tool
    BY <2>1 DEF Audit
  <2> QED
    BY <1>1, <1>3, <2>2 DEF IdentifyingOnRecord
<1>5. AllOrNothing'
  BY <1>1, <1>3 DEF AllOrNothing
<1> QED
  BY <1>1, <1>2, <1>4, <1>5, ServingKeeps

LEMMA RespondKeeps ==
  ASSUME ServerInv, NEW status \in Statuses, NEW body, Respond(status, body)
  PROVE  ServerInv'
<1>1. PICK read, error, parsed : /\ read = ReadOf(call.tool) /\ error = ResponseError(status, body.form)
                                 /\ parsed = ParseResponse(read, body, call.include)
  OBVIOUS
<1>2. /\ call # NoCall
      /\ IF error # None THEN Finish(error, {}, body, {}, status)
         ELSE IF ~parsed.ok THEN Finish("shape", {}, body, {}, status)
         ELSE Finish("success", IF parsed.entries = {} THEN {} ELSE Shown(read.model, call.include),
                     body, parsed.entries, status)
  BY <1>1 DEF Respond
<1>3. call.include \in BOOLEAN
  BY <1>2 DEF ServerInv
<1>4. CASE error # None
  <2>1. error # "success"
    BY <1>1 DEF ResponseError, None
  <2> QED
    BY <1>2, <1>4, <2>1, FinishKeeps
<1>5. CASE error = None /\ ~parsed.ok
  BY <1>2, <1>5, FinishKeeps
<1>6. CASE error = None /\ parsed.ok
  <2>1. status \in {200, 401, 403, 500}
    BY DEF Statuses
  <2>2. status = 200
    BY <1>1, <1>6, <2>1 DEF ResponseError, None
  <2>3. parsed.entries = body.entries
    BY <1>1 DEF ParseResponse
  <2>4. PICK shows : shows = IF parsed.entries = {} THEN {} ELSE Shown(read.model, call.include)
    OBVIOUS
  <2>5. shows # {} => call.include
    BY <1>3, <2>4, NothingUnasked
  <2>6. Finish("success", shows, body, parsed.entries, status)
    BY <1>2, <1>6, <2>4
  <2> QED
    BY <1>2, <2>2, <2>3, <2>5, <2>6, FinishKeeps
<1> QED
  BY <1>4, <1>5, <1>6

LEMMA CallKeeps ==
  ASSUME ServerInv,
         \/ CallInfo \/ Deliver
         \/ \E t \in KNOWN_GUIDANCE_TOOL_NAMES : CallGuidance(t)
         \/ \E t \in KNOWN_WRITE_TOOL_NAMES : CallWrite(t)
         \/ \E t \in KNOWN_READ_TOOL_NAMES \ {"pfsense_mcp_info"}, include \in BOOLEAN, limit \in Limits :
                CallRead(t, include, limit)
  PROVE  ServerInv'
<1>1. CASE CallInfo
  <2>1. /\ step = "serving" /\ UNCHANGED <<step, conf, served, call>>
        /\ answer' = [NoAnswer EXCEPT !.tool = "pfsense_mcp_info", !.outcome = "success",
                                      !.count = RegisteredToolCount(served)]
    BY <1>1 DEF CallInfo, Listening
  <2>2. answer'.shown = {} /\ answer'.entries = {} /\ answer'.sent = {}
    BY <2>1 DEF NoAnswer
  <2>3. IdentifyingOnRecord' /\ AllOrNothing'
    BY <2>2 DEF IdentifyingOnRecord, AllOrNothing
  <2> QED
    BY <2>1, <2>3, ServingKeeps DEF ServerInv
<1>2. CASE Deliver
  <2>1. step = "serving" /\ answer' = NoAnswer /\ UNCHANGED <<step, conf, served, call>>
    BY <1>2 DEF Deliver, ServerInv
  <2>2. IdentifyingOnRecord' /\ AllOrNothing'
    BY <2>1 DEF NoAnswer, None, IdentifyingOnRecord, AllOrNothing
  <2> QED
    BY <2>1, <2>2, ServingKeeps DEF ServerInv
<1>3. ASSUME NEW t \in KNOWN_GUIDANCE_TOOL_NAMES, CallGuidance(t) PROVE ServerInv'
  BY <1>3, AnsweredKeeps, ToolNames DEF CallGuidance, Listening
<1>4. ASSUME NEW t \in KNOWN_WRITE_TOOL_NAMES, CallWrite(t) PROVE ServerInv'
  BY <1>4, AnsweredKeeps, ToolNames DEF CallWrite, Listening
<1>5. ASSUME NEW t \in KNOWN_READ_TOOL_NAMES \ {"pfsense_mcp_info"}, NEW include \in BOOLEAN, NEW limit \in Limits,
             CallRead(t, include, limit)
      PROVE  ServerInv'
  <2>1. step = "serving" /\ answer = NoAnswer
    BY <1>5 DEF CallRead, Listening
  <2>2. CASE Answered(t, include, "request_validation")
    BY <2>1, <2>2, AnsweredKeeps
  <2>3. CASE ~Answered(t, include, "request_validation")
    <3>1. call' = [tool |-> t, include |-> include, limit |-> limit] /\ UNCHANGED <<step, conf, served, answer>>
      BY <1>5, <2>3 DEF CallRead
    <3>2. call'.tool = t /\ call'.include = include
      BY <3>1
    <3>3. IdentifyingOnRecord' /\ AllOrNothing'
      BY <2>1, <3>1 DEF NoAnswer, None, IdentifyingOnRecord, AllOrNothing
    <3> QED
      BY <2>1, <3>1, <3>2, <3>3, ServingKeeps
  <2> QED
    BY <2>2, <2>3
<1> QED
  BY <1>1, <1>2, <1>3, <1>4, <1>5

LEMMA FailKeeps == ASSUME ServerInv, NEW d, FailDelivery(d) PROVE ServerInv'
<1>1. call # NoCall /\ Finish("connection", {}, [entries |-> {}], {}, 0)
  BY DEF FailDelivery
<1> QED
  BY <1>1, FinishKeeps

LEMMA AroundKeeps ==
  ASSUME ServerInv, EditEnvironment \/ RotateKey \/ UpdateKeyFile \/ RuntimeChanges \/ UNCHANGED serverVars
  PROVE  ServerInv'
<1>1. UNCHANGED <<step, conf, served, call, trail, answer>>
  BY DEF EditEnvironment, RotateKey, UpdateKeyFile, RuntimeChanges, serverVars
<1> QED
  BY <1>1 DEF ServerInv, ServerSound, ServedWithinGrant, IdentifyingOnRecord, AllOrNothing

(* Whatever the environment, the allow list and the answers of the          *)
(* appliance, a serving process offers the tools of its profile and no      *)
(* others, shows identifying metadata only on record, and answers with all  *)
(* the appliance sent or with an error (tools/registry.py, tools/audit.py,  *)
(* pfsense_client.py, models/).                                             *)
THEOREM ServerIsSound == ServerSpec => []ServerSound
<1>1. ServerInit => ServerInv
  BY ServerStart
<1>2. ServerInv /\ [ServerNext]_serverVars => ServerInv'
  BY StartKeeps, CallKeeps, FailKeeps, RespondKeeps, AroundKeeps DEF ServerNext
<1>3. ServerInv => ServerSound
  BY DEF ServerInv
<1> QED
  BY <1>1, <1>2, <1>3, PTL DEF ServerSpec

-----------------------------------------------------------------------------
(* The guidance tool.                                                      *)

EntryType == [url : Topics \cup {OPENAPI_URL}, doc : Documents \cup {Page}, since : Nat, ttl : Nat]

\* Upstream served the document at some time not more than span before since.
ServedWithin(doc, span, since) == doc = published \/ withdrawn[doc] + span >= since

\* What a cached copy is a copy of, and that it was served when it was put.
EntryOK(e) ==
    /\ e.since <= docTime /\ e.ttl <= LongestTtl
    /\ IF e.url = OPENAPI_URL THEN e.doc \in Documents /\ ServedWithin(e.doc, 0, e.since) ELSE e.doc = Page

\* What an evidence entry about a document claims in an answer to a call that
\* began at since.
EvidenceOK(e, subject, since) ==
    e.source = "PFREST_UPSTREAM" /\ e.hash \in Documents =>
        /\ e.freshness = "FRESH" => ServedWithin(e.hash, LongestTtl, since)
        /\ e.freshness = "STALE_BUT_USABLE" => ServedWithin(e.hash, LongestTtl + STALE_GRACE_SECONDS, since)
        /\ e.hash \notin Corrupt => (e.found <=> subject \in Holds[e.hash])

\* The document a failed fetch may fall back on was usable when the call began.
StaleOK(query) ==
    \/ query.stale = NoDoc
    \/ query.mode = "topic" /\ query.stale = Page
    \/ /\ query.mode # "topic" /\ query.stale \in Documents
       /\ ServedWithin(query.stale, LongestTtl + STALE_GRACE_SECONDS, query.since)

Labels == {"FRESH", "STALE_BUT_USABLE", "CORRUPT", "UPSTREAM_UNAVAILABLE"}
EvidenceType == [source : {"PFREST_UPSTREAM"}, freshness : Labels, hash : Documents \cup {Page, NoDoc}, found : BOOLEAN]
CallType == [at : {"none", "fetching", "appliance"}, mode : {"topic", "endpoint", "model"}, subject : Topics \cup Subjects, url : Topics \cup {OPENAPI_URL},
             since : Nat, stale : Documents \cup {Page, NoDoc}, evidence : SUBSET EvidenceType]

CallOfDocs(query) ==
    /\ query \in CallType /\ query.since <= docTime
    /\ IF query.mode = "topic" THEN query.url \in Topics ELSE query.url = OPENAPI_URL

AskedOK ==
    asked # NotAsked =>
        /\ CallOfDocs(asked)
        /\ asked.at = "fetching" => StaleOK(asked)
        /\ asked.at = "appliance" =>
             \E e : asked.evidence = {e} /\ EvidenceOK(e, asked.subject, asked.since)

\* The appliance served the indexed schema when it was read, or later.
SchemaOK ==
    /\ schemaIndex \in Documents \cup {NoDoc} /\ schemaSince \in Nat /\ schemaSince <= docTime
    /\ schemaIndex # NoDoc => schemaIndex = upgraded \/ superseded[schemaIndex] >= schemaSince

DocsType ==
    /\ docTime \in Nat /\ entries \in Seq(EntryType)
    /\ published \in Documents /\ upgraded \in Documents
    /\ withdrawn \in [Documents -> Nat] /\ superseded \in [Documents -> Nat]

DocsInv ==
    /\ DocsType
    /\ \A i \in DOMAIN entries : EntryOK(entries[i])
    /\ docIndex # NoDoc => docIndex = docIndexHash
    /\ AskedOK
    /\ SchemaOK
    /\ \A e \in guidance.evidence : EvidenceOK(e, guidance.subject, guidance.since)
    /\ OldSchemaOnlyAfterFailure

LEMMA Lifetimes ==
  /\ LongestTtl \in Nat
  /\ \A h \in HeaderTtls : TtlOf(h) \in Nat /\ TtlOf(h) <= LongestTtl
<1>1. DEFAULT_TTL_SECONDS \in Nat /\ HeaderTtls \subseteq Nat
  BY DocsAssumption
<1>2. PICK m \in HeaderTtls : \A h \in HeaderTtls : h <= m
  BY DocsAssumption
<1>3. \A h \in HeaderTtls : TtlOf(h) \in Nat
  BY <1>1 DEF TtlOf
<1>4. \E t \in {TtlOf(h) : h \in HeaderTtls} : \A h \in HeaderTtls : TtlOf(h) <= t
  <2>1. CASE \E z \in HeaderTtls : ~(z > 0) /\ TtlOf(m) <= DEFAULT_TTL_SECONDS
    BY <1>1, <1>2, <2>1 DEF TtlOf
  <2>2. CASE ~ \E z \in HeaderTtls : ~(z > 0) /\ TtlOf(m) <= DEFAULT_TTL_SECONDS
    BY <1>1, <1>2, <2>2 DEF TtlOf
  <2> QED
    BY <2>1, <2>2
<1>5. /\ LongestTtl \in {TtlOf(h) : h \in HeaderTtls}
      /\ \A h \in HeaderTtls : TtlOf(h) <= LongestTtl
  BY <1>4 DEF LongestTtl
<1> QED
  BY <1>3, <1>5

LEMMA Constants ==
  /\ STALE_GRACE_SECONDS \in Nat /\ CACHE_TTL_SECONDS \in Nat /\ LongestTtl \in Nat
  /\ NoDoc \notin Documents /\ Page \notin Documents /\ OPENAPI_URL \notin Topics /\ NoDoc # Page
  /\ NotAsked.at = "none" /\ NoGuidance.evidence = {} /\ NoGuidance.outcome = "none"
BY DocsAssumption, Lifetimes DEF NoDoc, Page, OPENAPI_URL, NotAsked, NoGuidance

\* The answered evidence is what the properties ask for.
LEMMA DocsInvSound == DocsInv => GuidanceSound
<1> SUFFICES ASSUME DocsInv PROVE GuidanceSound
  OBVIOUS
<1>1. LabelMatchesAge
  <2> SUFFICES ASSUME NEW e \in guidance.evidence, e.source = "PFREST_UPSTREAM" /\ e.hash \in Documents
               PROVE  /\ e.freshness = "FRESH" => e.hash = published \/ withdrawn[e.hash] + LongestTtl >= guidance.since
                      /\ e.freshness = "STALE_BUT_USABLE" =>
                           e.hash = published \/ withdrawn[e.hash] + LongestTtl + STALE_GRACE_SECONDS >= guidance.since
    BY DEF LabelMatchesAge
  <2>1. EvidenceOK(e, guidance.subject, guidance.since)
    BY DEF DocsInv
  <2>2. withdrawn[e.hash] \in Nat
    BY DEF DocsInv, DocsType
  <2>3. withdrawn[e.hash] + LongestTtl + STALE_GRACE_SECONDS = withdrawn[e.hash] + (LongestTtl + STALE_GRACE_SECONDS)
    BY <2>2, Constants
  <2> QED
    BY <2>1, <2>3 DEF EvidenceOK, ServedWithin
<1>2. HashPinsContent
  BY DEF DocsInv, HashPinsContent, EvidenceOK
<1> QED
  BY <1>1, <1>2 DEF DocsInv, GuidanceSound

LEMMA DocsStart == DocsInit => DocsInv
<1> SUFFICES ASSUME DocsInit PROVE DocsInv
  OBVIOUS
<1>1. DocsType
  BY DEF DocsInit, DocsType
<1>2. /\ AskedOK /\ SchemaOK /\ OldSchemaOnlyAfterFailure
      /\ \A e \in guidance.evidence : EvidenceOK(e, guidance.subject, guidance.since)
  BY Constants DEF DocsInit, AskedOK, SchemaOK, OldSchemaOnlyAfterFailure
<1> QED
  BY <1>1, <1>2 DEF DocsInit, DocsInv

-----------------------------------------------------------------------------
(* The cache *)

LEMMA GetKeeps ==
  ASSUME DocsType, NEW url
  PROVE  /\ AfterGet(url) \in Seq(EntryType)
         /\ \A j \in DOMAIN AfterGet(url) : \E i \in DOMAIN entries : AfterGet(url)[j] = entries[i]
<1>1. CASE Expired(url) = {}
  BY <1>1 DEF AfterGet, DocsType
<1>2. CASE Expired(url) # {}
  <2>1. PICK i : i = CHOOSE x \in Expired(url) : TRUE
    OBVIOUS
  <2>2. i \in DOMAIN entries
    BY <1>2, <2>1 DEF Expired, Cached
  <2> QED
    <3>1. AfterGet(url) = RemoveAt(entries, i)
      BY <1>2, <2>1 DEF AfterGet
    <3> QED
      BY <2>2, <3>1, RemoveAtKeeps DEF DocsType
<1> QED
  BY <1>1, <1>2

LEMMA PutKeeps ==
  ASSUME DocsType, NEW url \in Topics \cup {OPENAPI_URL}, NEW doc \in Documents \cup {Page}, NEW h \in HeaderTtls,
         NEW entry, entry = [url |-> url, doc |-> doc, since |-> docTime, ttl |-> TtlOf(h)]
  PROVE  /\ Put(url, doc, h) \in Seq(EntryType)
         /\ \A j \in DOMAIN Put(url, doc, h) :
              Put(url, doc, h)[j] = entry \/ \E i \in DOMAIN entries : Put(url, doc, h)[j] = entries[i]
<1>1. entry \in EntryType /\ entries \in Seq(EntryType)
  BY Lifetimes DEF DocsType, EntryType
<1>2. CASE Cached(url) # {}
  <2>1. PICK f : f = [i \in DOMAIN entries |-> IF entries[i].url = url THEN entry ELSE entries[i]]
    OBVIOUS
  <2>2. Put(url, doc, h) = f
    BY <1>2, <2>1 DEF Put
  <2>3. f \in [1..Len(entries) -> EntryType]
    BY <1>1, <2>1
  <2>4. Len(entries) \in Nat /\ f \in Seq(EntryType)
    BY <1>1, <2>3
  <2> QED
    BY <2>1, <2>2, <2>4
<1>3. CASE Cached(url) = {}
  <2>1. PICK room \in Seq(EntryType) :
          /\ room = IF Len(entries) >= MAX_CACHE_ENTRIES THEN Tail(entries) ELSE entries
          /\ \A j \in DOMAIN room : \E i \in DOMAIN entries : room[j] = entries[i]
    <3>1. CASE Len(entries) >= MAX_CACHE_ENTRIES
      <4>1. entries # <<>>
        BY <1>1, <3>1, DocsAssumption
      <4>2. Tail(entries) \in Seq(EntryType) /\ Len(Tail(entries)) = Len(entries) - 1
        BY <1>1, <4>1
      <4>3. \A j \in DOMAIN Tail(entries) : j + 1 \in DOMAIN entries /\ Tail(entries)[j] = entries[j + 1]
        BY <1>1, <4>1, <4>2
      <4> QED
        BY <3>1, <4>2, <4>3
    <3>2. CASE ~(Len(entries) >= MAX_CACHE_ENTRIES)
      BY <1>1, <3>2
    <3> QED
      BY <3>1, <3>2
  <2>2. Put(url, doc, h) = Append(room, entry)
    BY <1>3, <2>1 DEF Put
  <2>3. Append(room, entry) \in Seq(EntryType)
    BY <1>1, <2>1
  <2>4. \A j \in DOMAIN Append(room, entry) : Append(room, entry)[j] = entry \/ (j \in DOMAIN room /\ Append(room, entry)[j] = room[j])
    BY <1>1, <2>1
  <2> QED
    BY <2>1, <2>2, <2>3, <2>4
<1> QED
  BY <1>2, <1>3

-----------------------------------------------------------------------------
(* A call *)

\* What is said about the world around a call in a step that leaves it alone.
LEMMA SameWorld ==
  ASSUME UNCHANGED <<docTime, docWorld>>, NEW e, NEW subject, NEW since, NEW query
  PROVE  /\ (EvidenceOK(e, subject, since))' = EvidenceOK(e, subject, since)
         /\ (EntryOK(e))' = EntryOK(e)
         /\ (StaleOK(query))' = StaleOK(query)
         /\ (CallOfDocs(query))' = CallOfDocs(query)
BY DEF docWorld, EvidenceOK, EntryOK, StaleOK, CallOfDocs, ServedWithin

\* The document a call is answered from: of the kind asked for, and with
\* the label its age deserves.
Answerable(query, doc, freshness) ==
    IF query.mode = "topic" THEN doc = Page
    ELSE /\ doc \in Documents
         /\ freshness = "FRESH" => ServedWithin(doc, LongestTtl, query.since)
         /\ freshness = "STALE_BUT_USABLE" => ServedWithin(doc, LongestTtl + STALE_GRACE_SECONDS, query.since)

\* Evidence drawn from an index is about the document whose hash it names.
LEMMA EvidenceDrawn ==
  ASSUME DocsInv, NEW subject, NEW doc \in Documents, NEW freshness \in {"FRESH", "STALE_BUT_USABLE"}, NEW since,
         freshness = "FRESH" => ServedWithin(doc, LongestTtl, since),
         freshness = "STALE_BUT_USABLE" => ServedWithin(doc, LongestTtl + STALE_GRACE_SECONDS, since)
  PROVE  /\ EvidenceOK(UpstreamEvidence(subject, doc, freshness), subject, since)
         /\ UpstreamEvidence(subject, doc, freshness) \in EvidenceType
         /\ IndexFor(doc) # NoDoc => IndexFor(doc) = doc
<1>1. IndexFor(doc) # NoDoc => IndexFor(doc) = doc
  BY DEF IndexFor, DocsInv
<1>2. CASE IndexFor(doc) = NoDoc
  <2>1. doc \in Corrupt
    BY <1>2, Constants DEF IndexFor
  <2>2. UpstreamEvidence(subject, doc, freshness)
          = [source |-> "PFREST_UPSTREAM", freshness |-> "CORRUPT", hash |-> doc, found |-> FALSE]
    BY <1>2 DEF UpstreamEvidence, Evidence
  <2>3. UpstreamEvidence(subject, doc, freshness) \in EvidenceType
    BY <2>2 DEF EvidenceType, Labels
  <2>4. EvidenceOK(UpstreamEvidence(subject, doc, freshness), subject, since)
    BY <2>1, <2>2 DEF EvidenceOK
  <2> QED
    BY <1>1, <2>3, <2>4
<1>3. CASE IndexFor(doc) # NoDoc
  <2>1. PICK found \in BOOLEAN : found <=> subject \in Holds[doc]
    OBVIOUS
  <2>2. UpstreamEvidence(subject, doc, freshness)
          = [source |-> "PFREST_UPSTREAM", freshness |-> freshness, hash |-> doc, found |-> found]
    BY <1>1, <1>3, <2>1 DEF UpstreamEvidence, Evidence
  <2>3. UpstreamEvidence(subject, doc, freshness) \in EvidenceType
    BY <2>2 DEF EvidenceType, Labels
  <2>4. EvidenceOK(UpstreamEvidence(subject, doc, freshness), subject, since)
    BY <2>1, <2>2 DEF EvidenceOK
  <2> QED
    BY <1>1, <2>3, <2>4
<1> QED
  BY <1>2, <1>3

\* What a call has learned upstream goes into its answer or into the call.
LEMMA LearnedUpstream ==
  ASSUME DocsInv, UNCHANGED <<docTime, schemaIndex, schemaSince, docWorld>>,
         NEW query, CallOfDocs(query), NEW e \in EvidenceType, EvidenceOK(e, query.subject, query.since),
         NEW index, NEW hash, AfterUpstream(query, e, index, hash)
  PROVE  /\ AskedOK' /\ OldSchemaOnlyAfterFailure'
         /\ \A x \in guidance'.evidence : (EvidenceOK(x, guidance.subject, guidance.since))'
<1>1. /\ EvidenceOK(e, query.subject, query.since)'
      /\ CallOfDocs(query)'
  BY SameWorld
<1>2. /\ schemaIndex' = schemaIndex /\ upgraded' = upgraded /\ superseded' = superseded /\ docTime' = docTime
  BY DEF docWorld
<1>3. CASE query.mode = "topic" \/ TooManyFacts(query.mode, e, query.subject)
  <2>1. /\ guidance' = [outcome |-> IF query.mode = "topic" THEN "result" ELSE "ValidationError",
                        subject |-> query.subject, since |-> query.since,
                        evidence |-> IF query.mode = "topic" THEN {e} ELSE {}, conflicts |-> {}]
        /\ asked' = NotAsked
    BY <1>3 DEF AfterUpstream
  <2>2. AskedOK'
    BY <2>1, Constants DEF AskedOK, NotAsked
  <2>3. guidance'.outcome \notin {"cached_schema", "read_schema"} /\ guidance'.evidence \subseteq {e}
        /\ guidance'.subject = query.subject /\ guidance'.since = query.since
    BY <2>1
  <2>4. OldSchemaOnlyAfterFailure'
    BY <2>3 DEF OldSchemaOnlyAfterFailure
  <2>5. \A x \in guidance'.evidence : (EvidenceOK(x, guidance.subject, guidance.since))'
    BY <1>1, <2>3
  <2> QED
    BY <2>2, <2>4, <2>5
<1>4. CASE ~(query.mode = "topic" \/ TooManyFacts(query.mode, e, query.subject))
  <2>1. asked' = [query EXCEPT !.at = "appliance", !.evidence = {e}] /\ guidance' = guidance
    BY <1>4 DEF AfterUpstream
  <2>2. /\ asked' \in CallType /\ asked'.at = "appliance" /\ asked'.evidence = {e}
        /\ asked'.subject = query.subject /\ asked'.since = query.since
        /\ asked'.mode = query.mode /\ asked'.url = query.url
    <3>1. query \in CallType /\ {e} \in SUBSET EvidenceType
      BY DEF CallOfDocs
    <3> QED
      BY <2>1, <3>1 DEF CallType
  <2>3. CallOfDocs(asked)'
    BY <1>1, <2>2 DEF CallOfDocs
  <2>4. AskedOK'
    BY <1>1, <2>2, <2>3 DEF AskedOK
  <2>5. OldSchemaOnlyAfterFailure'
    BY <1>2, <2>1 DEF OldSchemaOnlyAfterFailure, DocsInv
  <2>6. \A x \in guidance'.evidence : (EvidenceOK(x, guidance.subject, guidance.since))'
    BY <2>1, SameWorld DEF DocsInv
  <2> QED
    BY <2>4, <2>5, <2>6
<1> QED
  BY <1>3, <1>4

LEMMA AnsweredUpstream ==
  ASSUME DocsInv, UNCHANGED <<docTime, schemaIndex, schemaSince, docWorld>>,
         NEW query, CallOfDocs(query), NEW doc, NEW freshness \in {"FRESH", "STALE_BUT_USABLE"}, Answerable(query, doc, freshness),
         UpstreamAnswer(query, doc, freshness)
  PROVE  /\ AskedOK' /\ OldSchemaOnlyAfterFailure'
         /\ \A x \in guidance'.evidence : (EvidenceOK(x, guidance.subject, guidance.since))'
         /\ docIndex' # NoDoc => docIndex' = docIndexHash'
<1>1. CASE query.mode = "topic"
  <2>1. PICK e : e = Evidence("PFREST_UPSTREAM", freshness, Page, TRUE)
    OBVIOUS
  <2>2. e \in EvidenceType /\ EvidenceOK(e, query.subject, query.since)
    <3>1. e \in EvidenceType /\ e.hash = Page
      BY <2>1 DEF Evidence, EvidenceType, Labels
    <3> QED
      BY <3>1, Constants DEF EvidenceOK
  <2>3. AfterUpstream(query, e, docIndex, docIndexHash)
    BY <1>1, <2>1 DEF UpstreamAnswer, Answerable
  <2>4. docIndex' = docIndex /\ docIndexHash' = docIndexHash
    BY <2>3 DEF AfterUpstream
  <2> QED
    BY <2>2, <2>3, <2>4, LearnedUpstream DEF DocsInv
<1>2. CASE query.mode # "topic"
  <2>1. PICK e : e = UpstreamEvidence(query.subject, doc, freshness)
    OBVIOUS
  <2>2. /\ e \in EvidenceType /\ EvidenceOK(e, query.subject, query.since)
        /\ IndexFor(doc) # NoDoc => IndexFor(doc) = doc
    BY <1>2, <2>1, EvidenceDrawn DEF Answerable
  <2>3. AfterUpstream(query, e, IndexFor(doc), doc)
    BY <1>2, <2>1 DEF UpstreamAnswer
  <2>4. docIndex' = IndexFor(doc) /\ docIndexHash' = doc
    BY <2>3 DEF AfterUpstream
  <2> QED
    BY <2>2, <2>3, <2>4, LearnedUpstream
<1> QED
  BY <1>1, <1>2

-----------------------------------------------------------------------------
(* The steps *)

LEMMA LookupKeeps ==
  ASSUME DocsInv, NEW mode \in {"topic", "endpoint", "model"}, NEW subject \in Topics \cup Subjects, NEW url,
         IF mode = "topic" THEN url \in Topics ELSE url = OPENAPI_URL,
         AskGuidance(mode, subject, url)
  PROVE  DocsInv'
<1>1. PICK query : query = [NotAsked EXCEPT !.mode = mode, !.subject = subject, !.url = url, !.since = docTime]
  OBVIOUS
<1>2. query = [at |-> "none", mode |-> mode, subject |-> subject, url |-> url, since |-> docTime, stale |-> NoDoc, evidence |-> {}]
  BY <1>1 DEF NotAsked
<1>3. CallOfDocs(query)
  BY <1>2 DEF CallOfDocs, CallType, DocsInv, DocsType
<1>4. PICK fresh, stale :
        /\ fresh = {i \in Cached(url) : Freshness(entries[i]) = "FRESH"}
        /\ stale = {i \in Cached(url) : Freshness(entries[i]) = "STALE_BUT_USABLE"}
  OBVIOUS
<1>5. /\ entries' = AfterGet(url)
      /\ UNCHANGED <<docTime, schemaIndex, schemaSince, docWorld>>
      /\ \/ \E i \in fresh : UpstreamAnswer(query, entries[i].doc, "FRESH")
         \/ /\ fresh = {}
            /\ asked' = [query EXCEPT !.at = "fetching",
                           !.stale = IF stale = {} THEN NoDoc ELSE entries[CHOOSE i \in stale : TRUE].doc]
            /\ UNCHANGED <<guidance, docIndex, docIndexHash>>
  BY <1>1, <1>4 DEF AskGuidance
<1>6. DocsType' /\ (\A i \in DOMAIN entries : EntryOK(entries[i]))' /\ SchemaOK'
  <2>1. entries' \in Seq(EntryType) /\ \A j \in DOMAIN entries' : \E i \in DOMAIN entries : entries'[j] = entries[i]
    BY <1>5, GetKeeps DEF DocsInv
  <2>2. DocsType'
    BY <1>5, <2>1 DEF DocsInv, DocsType, docWorld
  <2>3. ASSUME NEW j \in DOMAIN entries' PROVE EntryOK(entries[j])'
    <3>1. PICK i \in DOMAIN entries : entries'[j] = entries[i]
      BY <2>1
    <3>2. EntryOK(entries[i])
      BY DEF DocsInv
    <3> QED
      BY <1>5, <3>1, <3>2 DEF EntryOK, ServedWithin, docWorld
  <2>4. SchemaOK'
    BY <1>5 DEF DocsInv, SchemaOK, docWorld
  <2> QED
    BY <2>2, <2>3, <2>4
\* An entry of the url that get() did not drop.
<1>7. ASSUME NEW i \in Cached(url), NEW label \in {"FRESH", "STALE_BUT_USABLE"}, Freshness(entries[i]) = label
      PROVE  Answerable(query, entries[i].doc, label) /\ entries[i].doc \in Documents \cup {Page}
  <2>1. /\ entries[i] \in EntryType /\ entries[i].url = url /\ EntryOK(entries[i])
    BY DEF Cached, DocsInv, DocsType
  <2>2. query.mode = mode /\ query.since = docTime
    BY <1>2
  <2>3. CASE mode = "topic"
    BY <2>1, <2>2, <2>3, Constants DEF EntryOK, Answerable
  <2>4. CASE mode # "topic"
    <3>1. PICK doc, since, ttl : doc = entries[i].doc /\ since = entries[i].since /\ ttl = entries[i].ttl
      OBVIOUS
    <3>2. since \in Nat /\ ttl \in Nat /\ ttl <= LongestTtl /\ since <= docTime
      BY <2>1, <3>1 DEF EntryOK, EntryType
    <3>3. doc \in Documents /\ (doc = published \/ withdrawn[doc] + 0 >= since)
      BY <2>1, <2>4, <3>1 DEF EntryOK, ServedWithin
    <3>4. withdrawn[doc] \in Nat /\ docTime \in Nat
      BY <3>3 DEF DocsInv, DocsType
    <3>5. docTime - since <= ttl + (IF label = "FRESH" THEN 0 ELSE STALE_GRACE_SECONDS)
      BY <3>1, <3>2, <3>4, <1>7, Constants DEF Freshness, EntryAge
    <3>6. doc = published \/ withdrawn[doc] + (LongestTtl + (IF label = "FRESH" THEN 0 ELSE STALE_GRACE_SECONDS)) >= docTime
      BY <3>2, <3>3, <3>4, <3>5, Constants
    <3> QED
      BY <2>2, <2>4, <3>1, <3>3, <3>6, Constants DEF Answerable, ServedWithin
  <2> QED
    BY <2>1, <2>3, <2>4 DEF EntryType
<1>8. CASE \E i \in fresh : UpstreamAnswer(query, entries[i].doc, "FRESH")
  <2>1. PICK i \in fresh : UpstreamAnswer(query, entries[i].doc, "FRESH")
    BY <1>8
  <2>2. Answerable(query, entries[i].doc, "FRESH")
    BY <1>4, <1>7
  <2> QED
    BY <1>3, <1>5, <1>6, <2>1, <2>2, AnsweredUpstream DEF DocsInv
<1>9. CASE /\ fresh = {}
           /\ asked' = [query EXCEPT !.at = "fetching",
                          !.stale = IF stale = {} THEN NoDoc ELSE entries[CHOOSE i \in stale : TRUE].doc]
           /\ UNCHANGED <<guidance, docIndex, docIndexHash>>
  <2>1. PICK old : old = IF stale = {} THEN NoDoc ELSE entries[CHOOSE i \in stale : TRUE].doc
    OBVIOUS
  <2>2. old = NoDoc \/ (Answerable(query, old, "STALE_BUT_USABLE") /\ old \in Documents \cup {Page})
    BY <1>4, <1>7, <2>1
  <2>3. asked' = [query EXCEPT !.at = "fetching", !.stale = old]
    BY <1>9, <2>1
  <2>4. asked' = [at |-> "fetching", mode |-> mode, subject |-> subject, url |-> url, since |-> docTime, stale |-> old, evidence |-> {}]
    BY <1>2, <2>3
  <2>5. asked' \in CallType
    BY <2>2, <2>4 DEF CallType, DocsInv, DocsType
  <2>6. CallOfDocs(asked)' /\ asked'.at = "fetching"
    BY <1>5, <2>4, <2>5 DEF CallOfDocs, DocsInv, DocsType
  <2>7. StaleOK(asked)'
    <3>1. query.mode = mode /\ query.since = docTime /\ asked'.mode = mode /\ asked'.since = docTime /\ asked'.stale = old
      BY <1>2, <2>4
    <3>2. published' = published /\ withdrawn' = withdrawn
      BY <1>5 DEF docWorld
    <3> QED
      BY <2>2, <3>1, <3>2 DEF Answerable, StaleOK, ServedWithin
  <2>8. AskedOK'
    BY <2>6, <2>7 DEF AskedOK
  <2>9. OldSchemaOnlyAfterFailure' /\ \A x \in guidance'.evidence : (EvidenceOK(x, guidance.subject, guidance.since))'
    BY <1>5, <1>9, SameWorld DEF DocsInv, OldSchemaOnlyAfterFailure, docWorld
  <2> QED
    BY <1>6, <1>9, <2>8, <2>9 DEF DocsInv
<1> QED
  BY <1>5, <1>8, <1>9

LEMMA ReturnKeeps ==
  ASSUME DocsInv, NEW response, NEW header \in HeaderTtls, FetchReturns(response, header)
  PROVE  DocsInv'
<1>1. PICK doc : doc = IF asked.mode = "topic" THEN Page ELSE published
  OBVIOUS
<1>2. /\ entries' = Put(asked.url, doc, header) /\ UpstreamAnswer(asked, doc, "FRESH")
      /\ UNCHANGED <<docTime, schemaIndex, schemaSince, docWorld>>
      /\ asked.at = "fetching"
  BY <1>1 DEF FetchReturns
<1>3. asked # NotAsked /\ CallOfDocs(asked) /\ asked.url \in Topics \cup {OPENAPI_URL} /\ docTime \in Nat
  BY <1>2, Constants DEF DocsInv, DocsType, AskedOK, CallOfDocs
<1>4. doc \in Documents \cup {Page} /\ Answerable(asked, doc, "FRESH")
  BY <1>1 DEF Answerable, ServedWithin, DocsInv, DocsType
<1>5. PICK entry : entry = [url |-> asked.url, doc |-> doc, since |-> docTime, ttl |-> TtlOf(header)]
  OBVIOUS
<1>6. /\ entries' \in Seq(EntryType)
      /\ \A j \in DOMAIN entries' : entries'[j] = entry \/ \E i \in DOMAIN entries : entries'[j] = entries[i]
  BY <1>2, <1>3, <1>4, <1>5, PutKeeps DEF DocsInv
<1>7. EntryOK(entry)
  <2>1. entry.url = asked.url /\ entry.doc = doc /\ entry.since = docTime /\ entry.ttl = TtlOf(header)
    BY <1>5
  <2>2. IF asked.url = OPENAPI_URL THEN doc = published ELSE doc = Page
    BY <1>1, <1>3, Constants DEF CallOfDocs
  <2> QED
    BY <1>3, <2>1, <2>2, Lifetimes DEF EntryOK, ServedWithin, DocsInv, DocsType
<1>8. DocsType' /\ (\A i \in DOMAIN entries : EntryOK(entries[i]))' /\ SchemaOK'
  <2>1. DocsType'
    BY <1>2, <1>6 DEF DocsInv, DocsType, docWorld
  <2>2. ASSUME NEW j \in DOMAIN entries' PROVE EntryOK(entries[j])'
    <3>1. PICK e : e = entries'[j] /\ EntryOK(e)
      BY <1>6, <1>7 DEF DocsInv
    <3> QED
      BY <1>2, <3>1 DEF EntryOK, ServedWithin, docWorld
  <2>3. SchemaOK'
    BY <1>2 DEF DocsInv, SchemaOK, docWorld
  <2> QED
    BY <2>1, <2>2, <2>3
<1> QED
  BY <1>2, <1>3, <1>4, <1>8, AnsweredUpstream DEF DocsInv

LEMMA FailureKeeps ==
  ASSUME DocsInv, NEW response, FetchFails(response)
  PROVE  DocsInv'
<1>1. /\ UNCHANGED <<docTime, schemaIndex, schemaSince, docWorld>> /\ entries' = entries /\ asked.at = "fetching"
  BY DEF FetchFails
<1>2. asked # NotAsked /\ CallOfDocs(asked) /\ StaleOK(asked)
  BY <1>1, Constants DEF DocsInv, AskedOK
<1>3. DocsType' /\ (\A i \in DOMAIN entries : EntryOK(entries[i]))' /\ SchemaOK'
  BY <1>1 DEF DocsInv, DocsType, SchemaOK, EntryOK, ServedWithin, docWorld
<1>4. CASE asked.stale # NoDoc
  <2>1. UpstreamAnswer(asked, asked.stale, "STALE_BUT_USABLE") /\ Answerable(asked, asked.stale, "STALE_BUT_USABLE")
    BY <1>2, <1>4 DEF FetchFails, StaleOK, Answerable
  <2> QED
    BY <1>1, <1>2, <1>3, <2>1, AnsweredUpstream DEF DocsInv
<1>5. CASE asked.stale = NoDoc
  <2>1. PICK e : e = Unavailable("PFREST_UPSTREAM")
    OBVIOUS
  <2>2. AfterUpstream(asked, e, docIndex, docIndexHash)
    BY <1>5, <2>1 DEF FetchFails
  <2>3. e = [source |-> "PFREST_UPSTREAM", freshness |-> "UPSTREAM_UNAVAILABLE", hash |-> NoDoc, found |-> FALSE]
    BY <2>1 DEF Unavailable, Evidence
  <2>4. e \in EvidenceType
    BY <2>3 DEF EvidenceType, Labels
  <2>5. EvidenceOK(e, asked.subject, asked.since)
    BY <2>3, Constants DEF EvidenceOK
  <2>6. docIndex' = docIndex /\ docIndexHash' = docIndexHash
    BY <2>2 DEF AfterUpstream
  <2> QED
    BY <1>1, <1>2, <1>3, <2>2, <2>4, <2>5, <2>6, LearnedUpstream DEF DocsInv
<1> QED
  BY <1>4, <1>5

\* The call is answered with its evidence and the appliance's.
LEMMA Concluded ==
  ASSUME DocsInv, asked.at = "appliance", NEW index, NEW via, Conclude(index, via),
         UNCHANGED <<docTime, entries, docIndex, docIndexHash, docWorld>>, SchemaOK',
         via \in {"cached_schema", "read_schema"} =>
            schemaIndex' = upgraded \/ superseded[schemaIndex'] + CACHE_TTL_SECONDS >= docTime
  PROVE  DocsInv'
<1>1. asked # NotAsked
  BY Constants DEF DocsInv
<1>2. PICK e : asked.evidence = {e} /\ EvidenceOK(e, asked.subject, asked.since)
  BY <1>1 DEF DocsInv, AskedOK
<1>3. PICK app : app = IF index = NoDoc THEN Unavailable("LIVE_APPLIANCE_SCHEMA")
                       ELSE Evidence("LIVE_APPLIANCE_SCHEMA", "FRESH", NoDoc, asked.subject \in Holds[index])
  OBVIOUS
<1>4. app.source = "LIVE_APPLIANCE_SCHEMA"
  BY <1>3 DEF Unavailable, Evidence
<1>5. /\ asked' = NotAsked
      /\ guidance' = [outcome |-> via, subject |-> asked.subject, since |-> asked.since,
                      evidence |-> {e, app}, conflicts |-> ExistenceNotes(e, app)]
  <2>1. (CHOOSE x \in asked.evidence : TRUE) = e
    BY <1>2
  <2> QED
    BY <1>3, <2>1 DEF Conclude
<1>6. guidance'.outcome = via /\ guidance'.subject = asked.subject /\ guidance'.since = asked.since /\ guidance'.evidence = {e, app}
  BY <1>5
<1>7. EvidenceOK(app, asked.subject, asked.since)
  BY <1>4 DEF EvidenceOK
<1>8. \A x \in guidance'.evidence : (EvidenceOK(x, guidance.subject, guidance.since))'
  BY <1>2, <1>6, <1>7 DEF EvidenceOK, ServedWithin, docWorld
<1>9. OldSchemaOnlyAfterFailure'
  BY <1>6 DEF OldSchemaOnlyAfterFailure, docWorld
<1>10. AskedOK'
  BY <1>5 DEF AskedOK
<1>11. DocsType' /\ (\A i \in DOMAIN entries : EntryOK(entries[i]))'
  BY DEF DocsInv, DocsType, EntryOK, ServedWithin, docWorld
<1> QED
  BY <1>8, <1>9, <1>10, <1>11 DEF DocsInv

LEMMA SchemaKeeps ==
  ASSUME DocsInv, SchemaCached \/ SchemaRead \/ SchemaFails
  PROVE  DocsInv'
<1>1. CASE SchemaCached
  <2>1. /\ asked.at = "appliance" /\ Conclude(schemaIndex, "cached_schema") /\ SchemaFresh
        /\ UNCHANGED <<docTime, entries, docIndex, docIndexHash, schemaIndex, schemaSince, docWorld>>
    BY <1>1 DEF SchemaCached
  <2>2. SchemaOK'
    BY <2>1 DEF DocsInv, SchemaOK, docWorld
  <2>3. schemaIndex = upgraded \/ superseded[schemaIndex] + CACHE_TTL_SECONDS >= docTime
    <3>1. schemaIndex \in Documents /\ schemaSince \in Nat /\ docTime \in Nat /\ docTime - schemaSince <= CACHE_TTL_SECONDS
          /\ (schemaIndex = upgraded \/ superseded[schemaIndex] >= schemaSince)
      BY <2>1 DEF SchemaFresh, DocsInv, DocsType, SchemaOK
    <3>2. superseded[schemaIndex] \in Nat
      BY <3>1 DEF DocsInv, DocsType
    <3> QED
      BY <3>1, <3>2, Constants
  <2> QED
    BY <2>1, <2>2, <2>3, Concluded
<1>2. CASE SchemaRead
  <2>1. /\ asked.at = "appliance" /\ Conclude(upgraded, "read_schema") /\ schemaIndex' = upgraded /\ schemaSince' = docTime
        /\ UNCHANGED <<docTime, entries, docIndex, docIndexHash, docWorld>>
    BY <1>2 DEF SchemaRead
  <2>2. SchemaOK'
    BY <2>1 DEF DocsInv, DocsType, SchemaOK, docWorld
  <2> QED
    BY <2>1, <2>2, Concluded
<1>3. CASE SchemaFails
  <2>1. /\ asked.at = "appliance" /\ Conclude(schemaIndex, "failed_schema")
        /\ UNCHANGED <<docTime, entries, docIndex, docIndexHash, schemaIndex, schemaSince, docWorld>>
    BY <1>3 DEF SchemaFails
  <2>2. SchemaOK'
    BY <2>1 DEF DocsInv, SchemaOK, docWorld
  <2> QED
    BY <2>1, <2>2, Concluded
<1> QED
  BY <1>1, <1>2, <1>3

\* A step that only ends or starts a call without evidence of a document.
LEMMA PlainAnswerKeeps ==
  ASSUME DocsInv, RefuseQuery \/ AskLocalTool \/ FetchRaises \/ DeliverGuidance
  PROVE  DocsInv'
<1>1. /\ UNCHANGED <<docTime, entries, docIndex, docIndexHash, schemaIndex, schemaSince, docWorld>>
      /\ asked' = asked \/ asked' = NotAsked
  BY DEF RefuseQuery, AskLocalTool, FetchRaises, DeliverGuidance
<1>2. /\ guidance'.outcome \notin {"cached_schema", "read_schema"}
      /\ \A x \in guidance'.evidence : x.source = "PROJECT_AUTHORED"
  <2>1. CASE RefuseQuery \/ FetchRaises \/ DeliverGuidance
    BY <2>1 DEF RefuseQuery, FetchRaises, DeliverGuidance, NoGuidance
  <2>2. CASE AskLocalTool
    <3>1. PICK e : e = Evidence("PROJECT_AUTHORED", "NOT_APPLICABLE", NoDoc, TRUE)
      OBVIOUS
    <3>2. e.source = "PROJECT_AUTHORED"
      BY <3>1 DEF Evidence
    <3>3. guidance' = [NoGuidance EXCEPT !.outcome = "result", !.evidence = {e}]
      BY <2>2, <3>1 DEF AskLocalTool
    <3>4. guidance'.outcome = "result" /\ guidance'.evidence = {e}
      BY <3>3 DEF NoGuidance
    <3> QED
      BY <3>2, <3>4
  <2> QED
    BY <2>1, <2>2
<1>3. OldSchemaOnlyAfterFailure' /\ \A x \in guidance'.evidence : (EvidenceOK(x, guidance.subject, guidance.since))'
  BY <1>2 DEF OldSchemaOnlyAfterFailure, EvidenceOK
<1>4. AskedOK'
  <2>1. CASE asked' = NotAsked
    BY <2>1 DEF AskedOK
  <2>2. CASE asked' = asked
    BY <1>1, <2>2 DEF DocsInv, AskedOK, StaleOK, CallOfDocs, EvidenceOK, ServedWithin, docWorld
  <2> QED
    BY <1>1, <2>1, <2>2
<1>5. DocsType' /\ (\A i \in DOMAIN entries : EntryOK(entries[i]))' /\ SchemaOK'
  BY <1>1 DEF DocsInv, DocsType, SchemaOK, EntryOK, ServedWithin, docWorld
<1> QED
  BY <1>1, <1>3, <1>4, <1>5 DEF DocsInv

-----------------------------------------------------------------------------
(* The world moves *)

\* What was served at or after a moment still was when time has passed, or
\* when another document has taken its place.
LEMMA WorldKeeps ==
  ASSUME DocsInv, guidance = NoGuidance,
         UNCHANGED <<entries, docIndex, docIndexHash, asked, guidance>>, DocsType', SchemaOK', docTime <= docTime',
         \A d \in Documents, span \in Nat, since \in Nat :
            since <= docTime /\ ServedWithin(d, span, since) => ServedWithin(d, span, since)'
  PROVE  DocsInv'
<1>1. ASSUME NEW i \in DOMAIN entries' PROVE EntryOK(entries[i])'
  <2>1. EntryOK(entries[i]) /\ entries[i] \in EntryType
    BY DEF DocsInv, DocsType
  <2>2. entries[i].since \in Nat /\ docTime \in Nat /\ docTime' \in Nat
    BY <2>1 DEF EntryType, DocsInv, DocsType
  <2>3. entries[i].since <= docTime'
    BY <2>1, <2>2 DEF EntryOK
  <2>4. entries[i].doc \in Documents /\ ServedWithin(entries[i].doc, 0, entries[i].since) => ServedWithin(entries[i].doc, 0, entries[i].since)'
    BY <2>1, <2>2 DEF EntryOK
  <2> QED
    BY <2>1, <2>3, <2>4 DEF EntryOK
<1>2. AskedOK'
  <2> SUFFICES ASSUME asked # NotAsked
               PROVE  /\ CallOfDocs(asked)'
                      /\ asked.at = "fetching" => StaleOK(asked)'
                      /\ asked.at = "appliance" => \E e : asked.evidence = {e} /\ EvidenceOK(e, asked.subject, asked.since)'
    BY DEF AskedOK
  <2>1. CallOfDocs(asked) /\ asked.since \in Nat /\ docTime \in Nat /\ docTime' \in Nat /\ asked.since <= docTime
    BY DEF DocsInv, DocsType, AskedOK, CallOfDocs, CallType
  <2>2. CallOfDocs(asked)'
    BY <2>1 DEF CallOfDocs
  <2>3. LongestTtl \in Nat /\ STALE_GRACE_SECONDS \in Nat /\ LongestTtl + STALE_GRACE_SECONDS \in Nat
    BY Constants
  <2>4. asked.at = "fetching" => StaleOK(asked)'
    BY <2>1, <2>3 DEF StaleOK, DocsInv, AskedOK
  <2>5. ASSUME NEW e, EvidenceOK(e, asked.subject, asked.since) PROVE EvidenceOK(e, asked.subject, asked.since)'
    BY <2>1, <2>3, <2>5 DEF EvidenceOK
  <2>6. asked.at = "appliance" => \E e : asked.evidence = {e} /\ EvidenceOK(e, asked.subject, asked.since)'
    BY <2>5 DEF DocsInv, AskedOK
  <2> QED
    BY <2>2, <2>4, <2>6
<1>3. OldSchemaOnlyAfterFailure' /\ \A x \in guidance'.evidence : (EvidenceOK(x, guidance.subject, guidance.since))'
  BY Constants DEF OldSchemaOnlyAfterFailure
<1> QED
  BY <1>1, <1>2, <1>3 DEF DocsInv

LEMMA MoveKeeps ==
  ASSUME DocsInv, TimePasses \/ \E d \in Documents : Publish(d) \/ UpgradeAppliance(d)
  PROVE  DocsInv'
<1>1. CASE TimePasses
  <2>1. /\ guidance = NoGuidance /\ docTime' = docTime + 1 /\ docTime \in Nat
        /\ UNCHANGED <<entries, docIndex, docIndexHash, schemaIndex, schemaSince, asked, guidance, docWorld>>
    BY <1>1 DEF TimePasses, DocsInv, DocsType
  <2>2. DocsType' /\ SchemaOK'
    BY <2>1 DEF DocsInv, DocsType, SchemaOK, docWorld
  <2>3. \A d \in Documents, span \in Nat, since \in Nat :
          since <= docTime /\ ServedWithin(d, span, since) => ServedWithin(d, span, since)'
    BY <2>1 DEF ServedWithin, docWorld
  <2>4. docTime <= docTime'
    BY <2>1
  <2> QED
    BY <2>1, <2>2, <2>3, <2>4, WorldKeeps
<1>2. ASSUME NEW d \in Documents, Publish(d) PROVE DocsInv'
  <2>1. /\ guidance = NoGuidance /\ published' = d /\ withdrawn' = [withdrawn EXCEPT ![published] = docTime]
        /\ UNCHANGED <<docTime, entries, docIndex, docIndexHash, schemaIndex, schemaSince, asked, guidance, upgraded, superseded>>
        /\ docTime \in Nat /\ published \in Documents /\ withdrawn \in [Documents -> Nat]
    BY <1>2 DEF Publish, DocsInv, DocsType
  <2>2. DocsType' /\ SchemaOK'
    BY <2>1 DEF DocsInv, DocsType, SchemaOK
  <2>3. ASSUME NEW x \in Documents, NEW span \in Nat, NEW since \in Nat, since <= docTime, ServedWithin(x, span, since)
        PROVE  ServedWithin(x, span, since)'
    <3>1. CASE x = published
      <4>1. withdrawn'[x] = docTime
        BY <2>1, <3>1
      <4> QED
        BY <2>1, <2>3, <4>1 DEF ServedWithin
    <3>2. CASE x # published
      <4>1. withdrawn'[x] = withdrawn[x]
        BY <2>1, <3>2
      <4> QED
        BY <2>3, <3>2, <4>1 DEF ServedWithin
    <3> QED
      BY <3>1, <3>2
  <2>4. docTime <= docTime'
    BY <2>1
  <2> QED
    BY <2>1, <2>2, <2>3, <2>4, WorldKeeps
<1>3. ASSUME NEW d \in Documents, UpgradeAppliance(d) PROVE DocsInv'
  <2>1. /\ guidance = NoGuidance /\ upgraded' = d /\ superseded' = [superseded EXCEPT ![upgraded] = docTime]
        /\ UNCHANGED <<docTime, entries, docIndex, docIndexHash, schemaIndex, schemaSince, asked, guidance, published, withdrawn>>
        /\ docTime \in Nat /\ upgraded \in Documents /\ superseded \in [Documents -> Nat]
    BY <1>3 DEF UpgradeAppliance, DocsInv, DocsType
  <2>2. DocsType'
    BY <2>1 DEF DocsInv, DocsType
  <2>3. SchemaOK'
    <3>1. /\ schemaIndex \in Documents \cup {NoDoc} /\ schemaSince \in Nat /\ schemaSince <= docTime
          /\ schemaIndex # NoDoc => schemaIndex = upgraded \/ superseded[schemaIndex] >= schemaSince
      BY DEF DocsInv, SchemaOK
    <3>2. schemaIndex # NoDoc => superseded'[schemaIndex] >= schemaSince
      BY <2>1, <3>1
    <3> QED
      BY <2>1, <3>1, <3>2 DEF SchemaOK
  <2>4. \A x \in Documents, span \in Nat, since \in Nat :
          since <= docTime /\ ServedWithin(x, span, since) => ServedWithin(x, span, since)'
    BY <2>1 DEF ServedWithin
  <2>5. docTime <= docTime'
    BY <2>1
  <2> QED
    BY <2>1, <2>2, <2>3, <2>4, <2>5, WorldKeeps
<1> QED
  BY <1>1, <1>2, <1>3

LEMMA DocsNextKeeps == DocsInv /\ [DocsNext]_docVars => DocsInv'
<1> SUFFICES ASSUME DocsInv, [DocsNext]_docVars PROVE DocsInv'
  OBVIOUS
<1>1. CASE UNCHANGED docVars
  BY <1>1 DEF docVars, DocsInv, DocsType, SchemaOK, AskedOK, StaleOK, CallOfDocs, EntryOK, EvidenceOK,
      OldSchemaOnlyAfterFailure, ServedWithin
<1>2. CASE RefuseQuery \/ AskLocalTool \/ FetchRaises \/ DeliverGuidance
  BY <1>2, PlainAnswerKeeps
<1>3. ASSUME NEW mode \in {"endpoint", "model"}, NEW s \in Subjects, AskGuidance(mode, s, OPENAPI_URL) PROVE DocsInv'
  BY <1>3, LookupKeeps
<1>4. ASSUME NEW t \in Topics, AskGuidance("topic", t, t) PROVE DocsInv'
  BY <1>4, LookupKeeps
<1>5. ASSUME NEW r \in Responses, NEW header \in HeaderTtls, FetchReturns(r, header) PROVE DocsInv'
  BY <1>5, ReturnKeeps
<1>6. ASSUME NEW r \in Responses, FetchFails(r) PROVE DocsInv'
  BY <1>6, FailureKeeps
<1>7. CASE SchemaCached \/ SchemaRead \/ SchemaFails
  BY <1>7, SchemaKeeps
<1>8. CASE TimePasses \/ \E d \in Documents : Publish(d) \/ UpgradeAppliance(d)
  BY <1>8, MoveKeeps
<1> QED
  BY <1>1, <1>2, <1>3, <1>4, <1>5, <1>6, <1>7, <1>8 DEF DocsNext

(* Whatever is cached, parsed or stale, whatever fails and whenever         *)
(* upstream publishes or the appliance is upgraded: the labels of upstream  *)
(* documents do not overstate their age, hashes name the document the facts *)
(* come from, and an appliance schema is within its lifetime unless this    *)
(* call's read of it failed. That such an old schema is still labelled      *)
(* FRESH, and that upstream is said to lack a subject when it was not       *)
(* reached, is left to GuidanceSound's own comment                          *)
(* (pfrest_docs/cache.py, provider.py, appliance_schema.py).                *)
THEOREM GuidanceIsSound == DocsSpec => []GuidanceSound
<1>1. DocsInit => DocsInv
  BY DocsStart
<1>2. DocsInv /\ [DocsNext]_docVars => DocsInv'
  BY DocsNextKeeps
<1>3. DocsInv => GuidanceSound
  BY DocsInvSound
<1> QED
  BY <1>1, <1>2, <1>3, PTL DEF DocsSpec
=============================================================================
