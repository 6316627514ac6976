------------------------ MODULE RecoveryStoreProofs ------------------------
(***************************************************************************)
(* Proofs about RecoveryStore, for every set of contracts, keys, targets   *)
(* and processes and every configuration of the rate policy, the anchor    *)
(* and key rotation.                                                       *)
(***************************************************************************)
EXTENDS RecoveryStore, FiniteSetTheorems, TLAPS

----------------------------------------------------------------------------
(* Rows: what the in-memory updates of the methods produce. *)

\* The row of a contract that does not exist is typed and consistent.
LEMMA BlankRowType == BlankRow \in Row /\ BlankRow.state = "absent"
                      /\ BlankRow.version = 0 /\ SealConsistent(BlankRow)
  BY StoreAssumption DEF BlankRow, Row, SealConsistent

\* The idle call and the idle load are typed (nothing is kept across methods).
LEMMA IdleType == IdleCall \in Call /\ SealConsistent(IdleCall.upd) /\ IdleLoad \in Load
  BY BlankRowType DEF IdleCall, Call, Phase, IdleLoad, Load, LoadPhase

\* RequireTransition stays within the declared states.
LEMMA TransitionStates ==
  ASSUME NEW s, NEW t, NEW manual \in BOOLEAN, RequireTransition(s, t, manual)
  PROVE  s \in RecoveryState /\ t \in RecoveryState
  BY DEF RequireTransition, AutomaticTransitions, ManualTransitions, RecoveryState

\* Next1 (transition's replace()) moves state and version and nothing else.
LEMMA Next1Type ==
  ASSUME NEW r \in Row, NEW s \in RecoveryState
  PROVE  /\ Next1(r, s) \in Row
         /\ Next1(r, s).key = r.key /\ Next1(r, s).state = s
         /\ Next1(r, s).version = r.version + 1
         /\ Next1(r, s).confirmed = r.confirmed
         /\ Next1(r, s).expires = r.expires /\ Next1(r, s).sealed = r.sealed
<1>0. r.version + 1 \in Nat
  BY DEF Row
<1>1. Next1(r, s) \in Row
  BY <1>0, Zenon DEF Next1, Row
<1>2. Next1(r, s).key = r.key
  BY DEF Next1, Row
<1>3. Next1(r, s).state = s
  BY DEF Next1, Row
<1>4. Next1(r, s).version = r.version + 1
  BY DEF Next1, Row
<1>5. Next1(r, s).confirmed = r.confirmed
  BY DEF Next1, Row
<1>6. Next1(r, s).expires = r.expires
  BY DEF Next1, Row
<1>7. Next1(r, s).sealed = r.sealed
  BY DEF Next1, Row
<1>8. QED
  BY <1>1, <1>2, <1>3, <1>4, <1>5, <1>6, <1>7

\* A legal transition other than into VERIFIED keeps the fingerprint rule.
LEMMA TransitionSeal ==
  ASSUME NEW r \in Row, SealConsistent(r), NEW t,
         RequireTransition(r.state, t, FALSE), t # "verified"
  PROVE  t \in RecoveryState /\ SealConsistent(Next1(r, t))
<1>1. r.state \in RecoveryState /\ t \in RecoveryState
  BY TransitionStates
<1>2. Next1(r, t).state = t /\ Next1(r, t).sealed = r.sealed
  BY <1>1, Next1Type
<1>3. QED
  BY <1>1, <1>2 DEF SealConsistent, RequireTransition, AutomaticTransitions, ManualTransitions

\* The rows built by confirm, mark_execution_verified, resolve_reconciliation
\* and rotate_artifacts are typed and keep the fingerprint rule.
LEMMA ConfirmedType ==
  ASSUME NEW r \in Row, SealConsistent(r), r.state = "prepared"
  PROVE  /\ Confirmed(r) \in Row /\ SealConsistent(Confirmed(r))
         /\ Confirmed(r).key = r.key /\ Confirmed(r).state = r.state
         /\ Confirmed(r).version = r.version + 1 /\ Confirmed(r).confirmed
<1>0. r.version + 1 \in Nat
  BY DEF Row
<1>1. Confirmed(r) \in Row
  BY <1>0, Zenon DEF Confirmed, Row
<1>2. Confirmed(r).key = r.key /\ Confirmed(r).state = r.state /\ Confirmed(r).version = r.version + 1
  BY DEF Confirmed, Row
<1>3. Confirmed(r).confirmed = TRUE
  BY DEF Confirmed, Row
<1>4. Confirmed(r).sealed = r.sealed
  BY DEF Confirmed, Row
<1>5. QED
  BY <1>1, <1>2, <1>3, <1>4 DEF SealConsistent

LEMMA RotatedType ==
  ASSUME NEW r \in Row, SealConsistent(r)
  PROVE  /\ Rotated(r) \in Row /\ SealConsistent(Rotated(r))
         /\ Rotated(r).key = r.key /\ Rotated(r).state = r.state
         /\ Rotated(r).version = r.version + 1 /\ Rotated(r).confirmed = r.confirmed
<1>0. r.version + 1 \in Nat
  BY DEF Row
<1>1. Rotated(r) \in Row
  BY <1>0, Zenon DEF Rotated, Row
<1>2. Rotated(r).key = r.key /\ Rotated(r).state = r.state /\ Rotated(r).version = r.version + 1
  BY DEF Rotated, Row
<1>3. Rotated(r).confirmed = r.confirmed
  BY DEF Rotated, Row
<1>4. Rotated(r).sealed = r.sealed
  BY DEF Rotated, Row
<1>5. QED
  BY <1>1, <1>2, <1>3, <1>4 DEF SealConsistent

VerifiedRow(r) == [Next1(r, "verified") EXCEPT !.sealed = TRUE]

LEMMA VerifiedType ==
  ASSUME NEW r \in Row
  PROVE  /\ VerifiedRow(r) \in Row /\ SealConsistent(VerifiedRow(r))
         /\ VerifiedRow(r).key = r.key /\ VerifiedRow(r).state = "verified"
         /\ VerifiedRow(r).version = r.version + 1 /\ VerifiedRow(r).confirmed = r.confirmed
<1> DEFINE n == Next1(r, "verified")
<1>1. /\ n \in Row /\ n.key = r.key /\ n.state = "verified"
      /\ n.version = r.version + 1 /\ n.confirmed = r.confirmed
  BY Next1Type DEF RecoveryState
<1> HIDE DEF n
<1>2. [n EXCEPT !.sealed = TRUE] \in Row /\ [n EXCEPT !.sealed = TRUE].key = n.key
  BY <1>1 DEF Row
<1>3. [n EXCEPT !.sealed = TRUE].state = n.state /\ [n EXCEPT !.sealed = TRUE].version = n.version
  BY <1>1 DEF Row
<1>4. [n EXCEPT !.sealed = TRUE].confirmed = n.confirmed
  BY <1>1 DEF Row
<1>5. [n EXCEPT !.sealed = TRUE].sealed = TRUE
  BY <1>1 DEF Row
<1>6. VerifiedRow(r) = [n EXCEPT !.sealed = TRUE]
  BY DEF VerifiedRow, n
<1>7. QED
  BY <1>1, <1>2, <1>3, <1>4, <1>5, <1>6 DEF SealConsistent

\* What an accepted operator conclusion may be, and where it leads.
LEMMA OutcomeTargets ==
  ASSUME NEW o \in ReconciliationOutcome
  PROVE  /\ OutcomeTargetState[o] \in {"verified", "failed", "rolled_back", "rollback_failed"}
         /\ OutcomeTargetState[o] = "verified" <=> o = "confirmed_applied"
         /\ o \in ForwardOutcomes => OutcomeTargetState[o] \in {"verified", "failed"}
         /\ o \in RollbackOutcomes => OutcomeTargetState[o] \in {"rolled_back", "rollback_failed"}
  BY DEF OutcomeTargetState, ReconciliationOutcome, ForwardOutcomes, RollbackOutcomes

LEMMA ResolvedType ==
  ASSUME NEW r \in Row, SealConsistent(r), NEW o \in ReconciliationOutcome
  PROVE  /\ Resolved(r, o) \in Row /\ SealConsistent(Resolved(r, o))
         /\ Resolved(r, o).key = r.key /\ Resolved(r, o).state = OutcomeTargetState[o]
         /\ Resolved(r, o).version = r.version + 1 /\ Resolved(r, o).confirmed = r.confirmed
<1> DEFINE t == OutcomeTargetState[o]
           n == Next1(r, t)
           b == n.sealed \/ o = "confirmed_applied"
<1>0. t \in RecoveryState /\ t \notin {"preparing", "prepared", "executing", "rolling_back"}
      /\ (t = "verified" <=> o = "confirmed_applied")
  BY OutcomeTargets DEF RecoveryState
<1>1. /\ n \in Row /\ n.key = r.key /\ n.state = t
      /\ n.version = r.version + 1 /\ n.confirmed = r.confirmed
  BY <1>0, Next1Type
<1>2. Resolved(r, o) = [n EXCEPT !.sealed = b]
  BY DEF Resolved
<1>3. b \in BOOLEAN
  OBVIOUS
<1>4. b = FALSE => t # "verified"
  BY <1>0
<1> HIDE DEF n, b, t
<1>5. [n EXCEPT !.sealed = b] \in Row /\ [n EXCEPT !.sealed = b].key = n.key
  BY <1>1, <1>3 DEF Row
<1>6. [n EXCEPT !.sealed = b].state = n.state /\ [n EXCEPT !.sealed = b].version = n.version
  BY <1>1 DEF Row
<1>7. [n EXCEPT !.sealed = b].confirmed = n.confirmed
  BY <1>1 DEF Row
<1>8. [n EXCEPT !.sealed = b].sealed = b
  BY <1>1 DEF Row
<1>9. SealConsistent([n EXCEPT !.sealed = b])
  BY <1>0, <1>1, <1>3, <1>4, <1>6, <1>8 DEF SealConsistent
<1>10. QED
  BY <1>1, <1>2, <1>5, <1>6, <1>7, <1>9 DEF t

----------------------------------------------------------------------------
(* Type correctness *)

\* A step that only rewrites the calls keeps the types of everything else.
LEMMA TypeOfCallUpdate ==
  ASSUME TypeOK, NEW p \in Proc, NEW new \in Call, SealConsistent(new.upd),
         call' = [call EXCEPT ![p] = new]
  PROVE  call' \in [Proc -> Call] /\ \A q \in Proc : SealConsistent(call'[q].upd)
  BY DEF TypeOK

\* Leaving a method, by return, refusal or crash, keeps the type of the calls.
LEMMA TypeOfLeave ==
  ASSUME TypeOK, NEW p \in Proc, Leave(p)
  PROVE  call' \in [Proc -> Call] /\ \A q \in Proc : SealConsistent(call'[q].upd)
  BY IdleType, TypeOfCallUpdate DEF Leave

\* A method whose update is a consistent row starts in a typed state.
LEMMA TypeOfStart ==
  ASSUME TypeOK, NEW p \in Proc, NEW c \in ContractId, NEW phase \in {"gate", "replace"},
         NEW upd \in Row, SealConsistent(upd), Start(p, c, phase, upd)
  PROVE  TypeOK'
<1> DEFINE new == [phase |-> phase, cid |-> c, cur |-> row[c], upd |-> upd, at |-> 0, mark |-> 0]
<1>1. row[c] \in Row
  BY DEF TypeOK
<1>2. new \in Call /\ new.upd = upd
  BY <1>1 DEF Call, Phase
<1>3. call' = [call EXCEPT ![p] = new]
  BY DEF Start
<1>4. call' \in [Proc -> Call] /\ \A q \in Proc : SealConsistent(call'[q].upd)
  BY <1>2, <1>3, TypeOfCallUpdate
<1>5. QED
  BY <1>4 DEF TypeOK, Start, tables, SealConsistent

\* Each method on an existing contract starts with a good update of its row.
LEMMA MethodStarts ==
  ASSUME TypeOK, NEW p \in Proc, NEW c \in ContractId,
         \/ \E target \in RecoveryState : BeginTransition(p, c, target)
         \/ BeginExpirePrepared(p, c)
         \/ BeginConfirm(p, c)
         \/ BeginMarkExecutionVerified(p, c)
         \/ BeginMarkRollbackVerified(p, c)
         \/ \E outcome \in ReconciliationOutcome : BeginResolveReconciliation(p, c, outcome)
         \/ BeginRotateArtifacts(p, c)
  PROVE  \E phase \in {"gate", "replace"}, upd \in Row :
           /\ SealConsistent(upd)
           /\ GoodUpdate(row[c], upd)
           /\ Start(p, c, phase, upd)
<1>0. row[c] \in Row /\ SealConsistent(row[c])
  BY DEF TypeOK
<1>1. ASSUME NEW target \in RecoveryState, BeginTransition(p, c, target)
      PROVE  \E phase \in {"gate", "replace"}, upd \in Row :
               SealConsistent(upd) /\ GoodUpdate(row[c], upd) /\ Start(p, c, phase, upd)
  <2> DEFINE phase == IF target = "executing" /\ (AnchorEnabled \/ RateEnabled)
                        THEN "gate" ELSE "replace"
             upd == Next1(row[c], target)
  <2>1. RequireTransition(row[c].state, target, FALSE) /\ target \notin {"verified", "rolled_back"}
        /\ (target = "executing" => row[c].confirmed)
    BY <1>1 DEF BeginTransition, TransitionAllowed
  <2>2. SealConsistent(upd)
    BY <1>0, <2>1, TransitionSeal
  <2>3. upd \in Row /\ upd.key = row[c].key /\ upd.state = target
        /\ upd.version = row[c].version + 1 /\ upd.confirmed = row[c].confirmed
    BY <1>0, Next1Type
  <2>4. row[c].state # "absent" /\ target # "absent"
    BY <2>1 DEF RequireTransition, AutomaticTransitions, ManualTransitions
  <2>5. RequireTransition(row[c].state, target, TRUE)
    BY <2>1 DEF RequireTransition
  <2>6. Start(p, c, phase, upd) /\ phase \in {"gate", "replace"}
    BY <1>1 DEF BeginTransition
  <2> HIDE DEF upd, phase
  <2>7. GoodUpdate(row[c], upd)
    BY <2>1, <2>3, <2>4, <2>5 DEF GoodUpdate
  <2>8. QED
    BY <2>2, <2>3, <2>6, <2>7
<1>2. ASSUME BeginExpirePrepared(p, c)
      PROVE  \E phase \in {"gate", "replace"}, upd \in Row :
               SealConsistent(upd) /\ GoodUpdate(row[c], upd) /\ Start(p, c, phase, upd)
  <2> DEFINE upd == Next1(row[c], "expired")
  <2>1. row[c].state = "prepared" /\ RequireTransition(row[c].state, "expired", FALSE)
    BY <1>2 DEF BeginExpirePrepared, TransitionAllowed
  <2>2. SealConsistent(upd)
    BY <1>0, <2>1, TransitionSeal
  <2>3. upd \in Row /\ upd.key = row[c].key /\ upd.state = "expired"
        /\ upd.version = row[c].version + 1 /\ upd.confirmed = row[c].confirmed
    BY <1>0, Next1Type DEF RecoveryState
  <2>5. RequireTransition(row[c].state, "expired", TRUE)
    BY <2>1 DEF RequireTransition
  <2>6. Start(p, c, "replace", upd)
    BY <1>2 DEF BeginExpirePrepared
  <2> HIDE DEF upd
  <2>7. GoodUpdate(row[c], upd)
    BY <2>1, <2>3, <2>5 DEF GoodUpdate
  <2>8. QED
    BY <2>2, <2>3, <2>6, <2>7
<1>3. ASSUME BeginConfirm(p, c)
      PROVE  \E phase \in {"gate", "replace"}, upd \in Row :
               SealConsistent(upd) /\ GoodUpdate(row[c], upd) /\ Start(p, c, phase, upd)
  <2>1. row[c].state = "prepared" /\ Start(p, c, "replace", Confirmed(row[c]))
    BY <1>3 DEF BeginConfirm
  <2>2. /\ Confirmed(row[c]) \in Row /\ SealConsistent(Confirmed(row[c]))
        /\ Confirmed(row[c]).key = row[c].key /\ Confirmed(row[c]).state = row[c].state
        /\ Confirmed(row[c]).version = row[c].version + 1 /\ Confirmed(row[c]).confirmed
    BY <1>0, <2>1, ConfirmedType
  <2>3. GoodUpdate(row[c], Confirmed(row[c]))
    BY <2>1, <2>2 DEF GoodUpdate
  <2>4. QED
    BY <2>1, <2>2, <2>3
<1>4. ASSUME BeginMarkExecutionVerified(p, c)
      PROVE  \E phase \in {"gate", "replace"}, upd \in Row :
               SealConsistent(upd) /\ GoodUpdate(row[c], upd) /\ Start(p, c, phase, upd)
  <2>1. row[c].state = "executing" /\ Start(p, c, "replace", VerifiedRow(row[c]))
    BY <1>4 DEF BeginMarkExecutionVerified, VerifiedRow
  <2>2. /\ VerifiedRow(row[c]) \in Row /\ SealConsistent(VerifiedRow(row[c]))
        /\ VerifiedRow(row[c]).key = row[c].key /\ VerifiedRow(row[c]).state = "verified"
        /\ VerifiedRow(row[c]).version = row[c].version + 1
        /\ VerifiedRow(row[c]).confirmed = row[c].confirmed
    BY <1>0, VerifiedType
  <2>3. RequireTransition("executing", "verified", TRUE)
    BY DEF RequireTransition, AutomaticTransitions
  <2>4. GoodUpdate(row[c], VerifiedRow(row[c]))
    BY <2>1, <2>2, <2>3 DEF GoodUpdate
  <2>5. QED
    BY <2>1, <2>2, <2>4
<1>5. ASSUME BeginMarkRollbackVerified(p, c)
      PROVE  \E phase \in {"gate", "replace"}, upd \in Row :
               SealConsistent(upd) /\ GoodUpdate(row[c], upd) /\ Start(p, c, phase, upd)
  <2> DEFINE upd == Next1(row[c], "rolled_back")
  <2>1. row[c].state = "rolling_back" /\ RequireTransition(row[c].state, "rolled_back", FALSE)
    BY <1>5 DEF BeginMarkRollbackVerified, RequireTransition, AutomaticTransitions
  <2>2. SealConsistent(upd)
    BY <1>0, <2>1, TransitionSeal
  <2>3. upd \in Row /\ upd.key = row[c].key /\ upd.state = "rolled_back"
        /\ upd.version = row[c].version + 1 /\ upd.confirmed = row[c].confirmed
    BY <1>0, Next1Type DEF RecoveryState
  <2>5. RequireTransition(row[c].state, "rolled_back", TRUE)
    BY <2>1 DEF RequireTransition
  <2>6. Start(p, c, "replace", upd)
    BY <1>5 DEF BeginMarkRollbackVerified
  <2> HIDE DEF upd
  <2>7. GoodUpdate(row[c], upd)
    BY <2>1, <2>3, <2>5 DEF GoodUpdate
  <2>8. QED
    BY <2>2, <2>3, <2>6, <2>7
<1>6. ASSUME NEW outcome \in ReconciliationOutcome, BeginResolveReconciliation(p, c, outcome)
      PROVE  \E phase \in {"gate", "replace"}, upd \in Row :
               SealConsistent(upd) /\ GoodUpdate(row[c], upd) /\ Start(p, c, phase, upd)
  <2> DEFINE upd == Resolved(row[c], outcome)
  <2>1. /\ row[c].state = "reconciliation" /\ Start(p, c, "replace", upd)
        /\ RequireTransition(row[c].state, OutcomeTargetState[outcome], TRUE)
    BY <1>6 DEF BeginResolveReconciliation
  <2>2. /\ upd \in Row /\ SealConsistent(upd)
        /\ upd.key = row[c].key /\ upd.state = OutcomeTargetState[outcome]
        /\ upd.version = row[c].version + 1 /\ upd.confirmed = row[c].confirmed
    BY <1>0, ResolvedType
  <2>3. OutcomeTargetState[outcome] \notin {"absent", "executing"}
    BY OutcomeTargets
  <2> HIDE DEF upd
  <2>4. GoodUpdate(row[c], upd)
    BY <2>1, <2>2, <2>3 DEF GoodUpdate
  <2>5. QED
    BY <2>1, <2>2, <2>4
<1>7. ASSUME BeginRotateArtifacts(p, c)
      PROVE  \E phase \in {"gate", "replace"}, upd \in Row :
               SealConsistent(upd) /\ GoodUpdate(row[c], upd) /\ Start(p, c, phase, upd)
  <2>1. row[c].state # "absent" /\ Start(p, c, "replace", Rotated(row[c]))
    BY <1>7 DEF BeginRotateArtifacts, Stored
  <2>2. /\ Rotated(row[c]) \in Row /\ SealConsistent(Rotated(row[c]))
        /\ Rotated(row[c]).key = row[c].key /\ Rotated(row[c]).state = row[c].state
        /\ Rotated(row[c]).version = row[c].version + 1
        /\ Rotated(row[c]).confirmed = row[c].confirmed
    BY <1>0, RotatedType
  <2>3. GoodUpdate(row[c], Rotated(row[c]))
    BY <2>1, <2>2 DEF GoodUpdate
  <2>4. QED
    BY <2>1, <2>2, <2>3
<1>8. QED
  BY <1>1, <1>2, <1>3, <1>4, <1>5, <1>6, <1>7

\* The initial, empty store is typed.
LEMMA TypeInit == Init => TypeOK
  BY BlankRowType, IdleType, StoreAssumption DEF Init, TypeOK, Row

\* Every step keeps the types (every action of the store).
LEMMA TypeStep == StoreInv /\ [Next]_vars => TypeOK'
<1> SUFFICES ASSUME StoreInv, [Next]_vars PROVE TypeOK'
  OBVIOUS
<1> USE StoreAssumption
<1>0. TypeOK
  BY DEF StoreInv
<1>1. ASSUME NEW p \in Proc, Method(p) PROVE TypeOK'
  <2>1. PICK c \in ContractId :
          \/ \E k \in IdemKey, e \in 1..(MaxTime + MaxLifetime) :
               e <= clock + MaxLifetime /\ BeginCreate(p, c, k, e)
          \/ \E target \in RecoveryState : BeginTransition(p, c, target)
          \/ BeginExpirePrepared(p, c)
          \/ BeginConfirm(p, c)
          \/ BeginMarkExecutionVerified(p, c)
          \/ BeginMarkRollbackVerified(p, c)
          \/ \E outcome \in ReconciliationOutcome : BeginResolveReconciliation(p, c, outcome)
          \/ BeginRotateArtifacts(p, c)
    BY <1>1 DEF Method
  <2>2. ASSUME NEW k \in IdemKey, NEW e \in 1..(MaxTime + MaxLifetime), BeginCreate(p, c, k, e)
        PROVE  TypeOK'
    <3> DEFINE new == [IdleCall EXCEPT !.phase = "create", !.cid = c,
                         !.upd = NewRow(k, e), !.at = clock]
    <3>1. NewRow(k, e) \in Row /\ SealConsistent(NewRow(k, e))
      BY DEF NewRow, Row, RecoveryState, SealConsistent
    <3>2. clock \in Nat /\ IdleCall \in Call
      BY <1>0, IdleType DEF TypeOK
    <3>3. new \in Call /\ new.upd = NewRow(k, e)
      BY <3>1, <3>2 DEF Call, Phase
    <3>4. call' = [call EXCEPT ![p] = new]
      BY <2>2 DEF BeginCreate
    <3> HIDE DEF new
    <3>5. call' \in [Proc -> Call] /\ \A q \in Proc : SealConsistent(call'[q].upd)
      BY <1>0, <3>1, <3>3, <3>4, TypeOfCallUpdate
    <3>6. QED
      BY <1>0, <2>2, <3>5 DEF TypeOK, BeginCreate, tables, SealConsistent
  <2>3. ASSUME \/ \E target \in RecoveryState : BeginTransition(p, c, target)
               \/ BeginExpirePrepared(p, c)
               \/ BeginConfirm(p, c)
               \/ BeginMarkExecutionVerified(p, c)
               \/ BeginMarkRollbackVerified(p, c)
               \/ \E outcome \in ReconciliationOutcome : BeginResolveReconciliation(p, c, outcome)
               \/ BeginRotateArtifacts(p, c)
        PROVE  TypeOK'
    BY <1>0, <2>3, MethodStarts, TypeOfStart
  <2>4. QED
    BY <2>1, <2>2, <2>3
<1>2. ASSUME NEW p \in Proc, Gate(p) PROVE TypeOK'
  <2>0. call[p] \in Call /\ call[p].mark \in Nat /\ SealConsistent(call[p].upd)
    BY <1>0 DEF TypeOK, Call
  <2>1. CASE OpenGate(p)
    <3> DEFINE ph == IF NeedsWitness(p) THEN "advance" ELSE "rate"
               new == [call[p] EXCEPT !.phase = ph, !.mark = mark]
    <3>1. new \in Call /\ new.upd = call[p].upd
      BY <1>0, <2>0 DEF Call, Phase, TypeOK
    <3>2. call' = [call EXCEPT ![p] = new]
      BY <1>0, <2>1 DEF OpenGate, TypeOK
    <3>3. call' \in [Proc -> Call] /\ \A q \in Proc : SealConsistent(call'[q].upd)
      BY <1>0, <2>0, <3>1, <3>2, TypeOfCallUpdate
    <3>4. QED
      BY <1>0, <2>1, <3>3 DEF TypeOK, OpenGate, tables, SealConsistent
  <2>2. CASE DetectRollback(p)
    BY <1>0, <2>2, TypeOfLeave DEF DetectRollback, TypeOK, tables, SealConsistent
  <2>3. CASE AdvanceAnchor(p)
    <3> DEFINE new == [call[p] EXCEPT !.phase = "rate", !.mark = anchor + 1]
    <3>0. anchor + 1 \in Nat
      BY <1>0 DEF TypeOK
    <3>1. new \in Call /\ new.upd = call[p].upd
      BY <2>0, <3>0 DEF Call, Phase
    <3>2. call' = [call EXCEPT ![p] = new]
      BY <1>0, <2>3 DEF AdvanceAnchor, TypeOK
    <3>3. call' \in [Proc -> Call] /\ \A q \in Proc : SealConsistent(call'[q].upd)
      BY <1>0, <2>0, <3>1, <3>2, TypeOfCallUpdate
    <3>4. QED
      BY <1>0, <2>3, <3>3 DEF TypeOK, AdvanceAnchor, tables, SealConsistent
  <2>4. CASE AnchorUnavailable(p)
    BY <1>0, <2>4, TypeOfLeave DEF AnchorUnavailable, TypeOK, tables, SealConsistent
  <2>5. CASE CommitGate(p)
    <3> DEFINE new == [call[p] EXCEPT !.phase = "replace", !.mark = 0]
    <3>1. new \in Call /\ new.upd = call[p].upd
      BY <2>0 DEF Call, Phase
    <3>2. call' = [call EXCEPT ![p] = new]
      BY <1>0, <2>5 DEF CommitGate, TypeOK
    <3>3. call' \in [Proc -> Call] /\ \A q \in Proc : SealConsistent(call'[q].upd)
      BY <1>0, <2>0, <3>1, <3>2, TypeOfCallUpdate
    <3>4. QED
      BY <1>0, <2>0, <2>5, <3>3 DEF TypeOK, CommitGate, tables, SealConsistent
  <2>6. CASE RefuseGate(p)
    BY <1>0, <2>6, TypeOfLeave DEF RefuseGate, TypeOK, tables, SealConsistent
  <2>7. QED
    BY <1>2, <2>1, <2>2, <2>3, <2>4, <2>5, <2>6 DEF Gate
<1>3. ASSUME NEW p \in Proc, Commit(p) PROVE TypeOK'
  <2>0. /\ call[p] \in Call /\ call[p].upd \in Row /\ call[p].cur \in Row
        /\ SealConsistent(call[p].upd)
    BY <1>0 DEF TypeOK, Call
  <2>1. CASE CommitCreate(p)
    <3>1. call[p].cid \in ContractId /\ call[p].upd.state = "preparing"
      BY <2>1 DEF CommitCreate, StoreInv, CreateFresh
    <3>2. row' \in [ContractId -> Row] /\ \A c \in ContractId : SealConsistent(row'[c])
      BY <1>0, <2>0, <2>1, <3>1 DEF CommitCreate, TypeOK
    <3>3. [prev |-> "absent", cur |-> call[p].upd.state] \in AuditEvent
      BY <3>1 DEF AuditEvent, RecoveryState
    <3>4. audit' \in [ContractId -> Seq(AuditEvent)]
      BY <1>0, <2>1, <3>1, <3>3 DEF CommitCreate, TypeOK
    <3>5. QED
      BY <1>0, <2>1, <3>2, <3>4, TypeOfLeave DEF CommitCreate, TypeOK, SealConsistent
  <2>2. CASE RefuseCreate(p)
    BY <1>0, <2>2, TypeOfLeave DEF RefuseCreate, TypeOK, tables, SealConsistent
  <2>3. CASE Replace(p)
    <3>1. /\ call[p].cid \in ContractId
          /\ call[p].cur.state # "absent" /\ call[p].upd.state # "absent"
      BY <2>3 DEF Replace, StoreInv, CallFresh, MidPhase, GoodUpdate
    <3>2. row' \in [ContractId -> Row] /\ \A c \in ContractId : SealConsistent(row'[c])
      BY <1>0, <2>0, <2>3, <3>1 DEF Replace, TypeOK
    <3>3. [prev |-> call[p].cur.state, cur |-> call[p].upd.state] \in AuditEvent
      BY <2>0, <3>1 DEF AuditEvent, Row
    <3>4. audit' \in [ContractId -> Seq(AuditEvent)]
      BY <1>0, <2>3, <3>1, <3>3 DEF Replace, TypeOK
    <3>5. TargetOfRow(call[p].upd) \in Target
      BY <2>0 DEF TargetOfRow, Row
    <3>6. reservation' \in [Target -> ContractId \cup {NoContract}]
      BY <1>0, <2>3, <3>1, <3>5 DEF Replace, UpdateReservations, TypeOK
    <3>7. cooldown' \in [Target -> Nat]
      BY <1>0, <2>3, <3>5 DEF Replace, RecordTerminal, TypeOK
    <3>8. call' \in [Proc -> Call] /\ \A q \in Proc : SealConsistent(call'[q].upd)
      BY <1>0, <2>3, TypeOfLeave DEF Replace
    <3>9. QED
      BY <1>0, <2>3, <3>2, <3>4, <3>6, <3>7, <3>8 DEF Replace, TypeOK, SealConsistent
  <2>4. CASE RefuseReplace(p)
    BY <1>0, <2>4, TypeOfLeave DEF RefuseReplace, TypeOK, tables, SealConsistent
  <2>5. QED
    BY <1>3, <2>1, <2>2, <2>3, <2>4 DEF Commit
<1>4. ASSUME NEW p \in Proc, Crash(p) PROVE TypeOK'
  BY <1>0, <1>4, TypeOfLeave DEF Crash, TypeOK, tables, SealConsistent
<1>5. ASSUME NEW r \in Reader, ReaderStep(r) PROVE TypeOK'
  <2>0. load[r] \in Load
    BY <1>0 DEF TypeOK
  <2>1. load' \in [Reader -> Load]
    <3>1. ASSUME NEW c \in ContractId, LoadRow(r, c) PROVE load' \in [Reader -> Load]
      BY <1>0, <3>1 DEF LoadRow, TypeOK, Load, LoadPhase
    <3>2. CASE LoadReservation(r)
      BY <1>0, <2>0, <3>2 DEF LoadReservation, TypeOK, Load, LoadPhase
    <3>3. CASE LoadAudit(r)
      BY <1>0, <2>0, <3>3 DEF LoadAudit, TypeOK, Load, LoadPhase
    <3>4. CASE LoadDone(r)
      BY <1>0, <3>4, IdleType DEF LoadDone, TypeOK
    <3>5. QED
      BY <1>5, <3>1, <3>2, <3>3, <3>4 DEF ReaderStep
  <2>2. UNCHANGED <<tables, mark, anchor, clock, call, writer>>
    BY <1>5 DEF ReaderStep, LoadRow, LoadReservation, LoadAudit, LoadDone
  <2>3. QED
    BY <1>0, <2>1, <2>2 DEF TypeOK, tables, SealConsistent
<1>6. CASE Tick
  BY <1>0, <1>6 DEF Tick, TypeOK, tables, SealConsistent
<1>7. CASE UNCHANGED vars
  BY <1>0, <1>7 DEF vars, TypeOK, SealConsistent
<1>8. QED
  BY <1>1, <1>2, <1>3, <1>4, <1>5, <1>6, <1>7 DEF Next

----------------------------------------------------------------------------
(* Preservation of the invariant, by the shape of the step *)

\* What a step that commits nothing may do to a call and to a load.
CallKept(p) ==
  \/ call'[p] = call[p]
  \/ call'[p].phase = "idle" /\ call'[p].cid = NoContract
  \/ /\ call[p].phase \in MidPhase /\ call'[p].phase \in MidPhase
     /\ call'[p].cid = call[p].cid /\ call'[p].cur = call[p].cur /\ call'[p].upd = call[p].upd

LoadKept(r) ==
  \/ load'[r].phase = "idle"
  \/ load[r].phase # "idle" /\ load'[r].cid = load[r].cid /\ load'[r].cur = load[r].cur
  \/ /\ load'[r].cid \in ContractId /\ Stored(load'[r].cid)
     /\ load'[r].cur = row[load'[r].cid]

\* The invariants on the tables alone survive a step that changes no table.
LEMMA TablesKept ==
  ASSUME StoreInv, UNCHANGED <<row, reservation, audit>>
  PROVE  /\ (\A c \in ContractId : ReservationVerified(c, row[c]))'
         /\ AuditMatchesState' /\ OneBlockingContractPerKey' /\ ExecutedOnlyConfirmed'
  BY DEF StoreInv, ReservationVerified, TargetOfRow, AuditMatchesState, AuditVerified,
         Stored, OneBlockingContractPerKey, ExecutedOnlyConfirmed

\* Loads stay fresh while the contracts table does not change.
LEMMA LoadsKept ==
  ASSUME StoreInv, row' = row, \A r \in Reader : LoadKept(r)
  PROVE  \A r \in Reader : LoadFresh(r)'
<1> SUFFICES ASSUME NEW r \in Reader PROVE LoadFresh(r)'
  OBVIOUS
<1>1. LoadFresh(r) /\ LoadKept(r)
  BY DEF StoreInv
<1>2. row \in [ContractId -> Row]
  BY DEF StoreInv, TypeOK
<1>3. \A c \in ContractId : row[c].version \in Nat
  BY <1>2 DEF Row
<1>4. QED
  BY <1>1, <1>3 DEF LoadFresh, LoadKept, Fresh, Stored

\* A step that only ends calls, moves them through the gate, or loads.
LEMMA QuietStep ==
  ASSUME StoreInv, TypeOK', UNCHANGED <<row, reservation, audit>>,
         \A p \in Proc : CallKept(p), \A r \in Reader : LoadKept(r)
  PROVE  StoreInv'
<1>1. ASSUME NEW p \in Proc PROVE CallFresh(p)'
  <2>1. CallFresh(p) /\ CallKept(p)
    BY DEF StoreInv
  <2>2. QED
    BY <2>1 DEF CallFresh, CallKept, MidPhase, Stored, Fresh
<1>2. ASSUME NEW p \in Proc PROVE CreateFresh(p)'
  <2>1. CreateFresh(p) /\ CallKept(p) /\ \A q \in Proc : CallKept(q)
    BY DEF StoreInv
  <2>2. \A q \in Proc : call'[q].cid \in {call[q].cid, NoContract}
    BY <2>1 DEF CallKept
  <2>3. SUFFICES ASSUME call'[p].phase = "create" PROVE CreateFresh(p)'
    BY DEF CreateFresh
  <2>4. call'[p] = call[p]
    BY <2>1, <2>3 DEF CallKept, MidPhase
  <2>5. QED
    BY <2>1, <2>2, <2>4, StoreAssumption DEF CreateFresh, Stored
<1>3. QED
  BY <1>1, <1>2, TablesKept, LoadsKept DEF StoreInv

\* A method on an existing contract starts.
LEMMA StartStep ==
  ASSUME StoreInv, TypeOK', NEW p \in Proc, NEW c \in ContractId,
         NEW phase \in {"gate", "replace"}, NEW upd \in Row,
         GoodUpdate(row[c], upd), Start(p, c, phase, upd)
  PROVE  StoreInv'
<1> DEFINE new == [phase |-> phase, cid |-> c, cur |-> row[c], upd |-> upd, at |-> 0, mark |-> 0]
<1>0. /\ UNCHANGED <<row, reservation, audit, load>>
      /\ call' = [call EXCEPT ![p] = new]
      /\ call \in [Proc -> Call] /\ row[c] \in Row /\ Stored(c)
  BY DEF Start, tables, StoreInv, TypeOK, GoodUpdate, Stored
<1>1. call'[p] = new /\ \A q \in Proc : q # p => call'[q] = call[q]
  BY <1>0
<1>2. /\ call'[p].phase = phase /\ call'[p].cid = c
      /\ call'[p].cur = row[c] /\ call'[p].upd = upd
  BY <1>1
<1> HIDE DEF new
<1>3. CallFresh(p)'
  <2>1. Fresh(c, row[c])'
    BY <1>0 DEF Fresh, Row
  <2>2. QED
    BY <1>0, <1>2, <2>1 DEF CallFresh, Stored, GoodUpdate
<1>4. ASSUME NEW q \in Proc, q # p PROVE CallFresh(q)'
  BY <1>0, <1>1, <1>4 DEF StoreInv, CallFresh, Stored, Fresh
<1>5. ASSUME NEW q \in Proc PROVE CreateFresh(q)'
  BY <1>0, <1>1, <1>2 DEF StoreInv, CreateFresh, Stored
<1>6. \A r \in Reader : LoadKept(r)
  BY <1>0 DEF LoadKept
<1>7. QED
  BY <1>0, <1>3, <1>4, <1>5, <1>6, TablesKept, LoadsKept DEF StoreInv

\* create() checks its contract and reads the clock.
LEMMA BeginCreateStep ==
  ASSUME StoreInv, TypeOK', NEW p \in Proc, NEW c \in ContractId, NEW k \in IdemKey,
         NEW e \in Nat, BeginCreate(p, c, k, e)
  PROVE  StoreInv'
<1> DEFINE new == [IdleCall EXCEPT !.phase = "create", !.cid = c,
                         !.upd = NewRow(k, e), !.at = clock]
<1>0. /\ UNCHANGED <<row, reservation, audit, load>>
      /\ call' = [call EXCEPT ![p] = new]
      /\ call \in [Proc -> Call] /\ ~Stored(c) /\ \A q \in Proc : call[q].cid # c
  BY DEF BeginCreate, tables, StoreInv, TypeOK
<1>1. call'[p] = new /\ \A q \in Proc : q # p => call'[q] = call[q]
  BY <1>0
<1>2. call'[p].phase = "create" /\ call'[p].cid = c /\ call'[p].upd = NewRow(k, e)
  BY <1>1 DEF IdleCall
<1>3. NewRow(k, e).state = "preparing" /\ NewRow(k, e).version = 0
  BY DEF NewRow
<1> HIDE DEF new
<1>4. ASSUME NEW q \in Proc PROVE CallFresh(q)'
  BY <1>0, <1>1, <1>2 DEF StoreInv, CallFresh, MidPhase, Stored, Fresh
<1>5. ASSUME NEW q \in Proc PROVE CreateFresh(q)'
  <2>1. CASE q = p
    BY <1>0, <1>1, <1>2, <1>3, <2>1 DEF CreateFresh, Stored
  <2>2. CASE q # p
    BY <1>0, <1>1, <1>2, <2>2 DEF StoreInv, CreateFresh, Stored
  <2>3. QED
    BY <2>1, <2>2
<1>6. \A r \in Reader : LoadKept(r)
  BY <1>0 DEF LoadKept
<1>7. QED
  BY <1>0, <1>4, <1>5, <1>6, TablesKept, LoadsKept DEF StoreInv

\* When a call's compare-and-set passes, the row is the very row it loaded.
LEMMA CasMeansFresh ==
  ASSUME StoreInv, NEW p \in Proc, call[p].phase \in MidPhase, CompareAndSet(p)
  PROVE  /\ call[p].cid \in ContractId
         /\ row[call[p].cid] = call[p].cur
         /\ GoodUpdate(call[p].cur, call[p].upd)
  BY DEF StoreInv, CallFresh, Fresh, CompareAndSet

\* create() commits: the row, its first audit event, and nothing else.
LEMMA CommitCreateStep ==
  ASSUME StoreInv, TypeOK', NEW p \in Proc, CommitCreate(p)
  PROVE  StoreInv'
<1> DEFINE c == call[p].cid
           new == call[p].upd
<1>1. /\ c \in ContractId /\ ~Stored(c)
      /\ new.state = "preparing" /\ new.version = 0
      /\ \A q \in Proc : q # p => call[q].cid # c
  BY DEF StoreInv, CommitCreate, CreateFresh
<1>2. /\ row \in [ContractId -> Row] /\ audit \in [ContractId -> Seq(AuditEvent)]
      /\ call \in [Proc -> Call] /\ new \in Row /\ load \in [Reader -> Load]
  BY DEF StoreInv, TypeOK, Call
<1>3. /\ row' = [row EXCEPT ![c] = new]
      /\ audit' = [audit EXCEPT ![c] = <<[prev |-> "absent", cur |-> new.state]>>]
      /\ call' = [call EXCEPT ![p] = IdleCall]
      /\ UNCHANGED <<reservation, load>>
      /\ ~KeyBlocked(new.key)
  BY DEF CommitCreate, Leave
<1> HIDE DEF c, new
<1>4. row'[c] = new /\ audit'[c] = <<[prev |-> "absent", cur |-> "preparing"]>>
      /\ \A d \in ContractId : d # c => row'[d] = row[d] /\ audit'[d] = audit[d]
  BY <1>1, <1>2, <1>3
<1>5. ASSUME NEW d \in ContractId PROVE ReservationVerified(d, row[d])'
  <2>1. ReservationVerified(d, row[d])
    BY DEF StoreInv
  <2>2. CASE d = c
    BY <1>1, <1>3, <1>4, <2>1, <2>2 DEF ReservationVerified, Stored, ReservationStates
  <2>3. CASE d # c
    BY <1>3, <1>4, <2>1, <2>3 DEF ReservationVerified, TargetOfRow
  <2>4. QED
    BY <2>2, <2>3
<1>6. AuditMatchesState'
  <2> SUFFICES ASSUME NEW d \in ContractId
               PROVE  (IF Stored(d) THEN AuditVerified(d, row[d]) ELSE audit[d] = <<>>)'
    BY DEF AuditMatchesState
  <2>1. CASE d = c
    <3> DEFINE ev == [prev |-> "absent", cur |-> "preparing"]
               h == <<ev>>
    <3>1. ev.prev = "absent" /\ ev.cur = "preparing"
      OBVIOUS
    <3>2. audit'[d] = h /\ row'[d] = new
      BY <1>4, <2>1
    <3> HIDE DEF ev
    <3>3. Len(h) = 1 /\ h[1] = ev
      OBVIOUS
    <3>4. \A i \in 2..Len(h) : FALSE
      BY <3>3
    <3> HIDE DEF h
    <3>5. AuditVerified(d, row[d])'
      BY <1>1, <3>1, <3>2, <3>3, <3>4 DEF AuditVerified
    <3>6. QED
      BY <1>1, <3>2, <3>5 DEF Stored
  <2>2. CASE d # c
    BY <1>4, <2>2 DEF StoreInv, AuditMatchesState, Stored, AuditVerified
  <2>3. QED
    BY <2>1, <2>2
<1>7. OneBlockingContractPerKey'
  BY <1>1, <1>3, <1>4 DEF StoreInv, OneBlockingContractPerKey, KeyBlocked
<1>8. ExecutedOnlyConfirmed'
  <2> SUFFICES ASSUME NEW d \in ContractId, NEW i \in 1..Len(audit'[d]),
                      audit'[d][i].cur = "executing"
               PROVE  row'[d].confirmed
    BY DEF ExecutedOnlyConfirmed
  <2>0. /\ Len(<<[prev |-> "absent", cur |-> "preparing"]>>) = 1
        /\ <<[prev |-> "absent", cur |-> "preparing"]>>[1].cur = "preparing"
    OBVIOUS
  <2>1. d # c
    BY <1>4, <2>0
  <2>2. QED
    BY <1>4, <2>1 DEF StoreInv, ExecutedOnlyConfirmed
<1>9. call'[p].phase = "idle" /\ call'[p].cid = NoContract
      /\ \A q \in Proc : q # p => call'[q] = call[q]
  BY <1>2, <1>3 DEF IdleCall
<1>10. ASSUME NEW q \in Proc PROVE CallFresh(q)'
  <2>1. CASE q = p
    BY <1>9, <2>1 DEF CallFresh, MidPhase
  <2>2. CASE q # p
    BY <1>1, <1>4, <1>9, <2>2 DEF StoreInv, CallFresh, Stored, Fresh
  <2>3. QED
    BY <2>1, <2>2
<1>11. ASSUME NEW q \in Proc PROVE CreateFresh(q)'
  BY <1>1, <1>4, <1>9, StoreAssumption DEF StoreInv, CreateFresh, Stored
<1>12. ASSUME NEW r \in Reader PROVE LoadFresh(r)'
  BY <1>1, <1>3, <1>4 DEF StoreInv, LoadFresh, Stored, Fresh
<1>13. QED
  BY <1>5, <1>6, <1>7, <1>8, <1>10, <1>11, <1>12 DEF StoreInv

\* Appending one event extends a history and leaves its past alone.
LEMMA AppendEvent ==
  ASSUME NEW h \in Seq(AuditEvent), NEW ev \in AuditEvent
  PROVE  /\ Append(h, ev) \in Seq(AuditEvent)
         /\ Len(h) \in Nat /\ Len(Append(h, ev)) = Len(h) + 1
         /\ Append(h, ev)[Len(h) + 1] = ev
         /\ \A i \in 1..Len(h) : Append(h, ev)[i] = h[i]
  OBVIOUS

\* No update takes a key from a non-blocking state into a blocking one.
LEMMA BlockingIsLeftForGood ==
  ASSUME NEW cur, NEW upd, GoodUpdate(cur, upd), upd.state \in BlockingStates
  PROVE  cur.state \in BlockingStates
  BY DEF GoodUpdate, RequireTransition, AutomaticTransitions, ManualTransitions, BlockingStates

\* _replace commits: row, reservation, audit event and cooldown at once.
LEMMA ReplaceStep ==
  ASSUME StoreInv, TypeOK', NEW p \in Proc, Replace(p)
  PROVE  StoreInv'
<1> DEFINE cur == call[p].cur
           upd == call[p].upd
           ev == [prev |-> cur.state, cur |-> upd.state]
<1>0. PICK c \in ContractId : c = call[p].cid
  BY CasMeansFresh DEF Replace, MidPhase
<1>1. c \in ContractId /\ row[c] = cur /\ GoodUpdate(cur, upd)
  BY <1>0, CasMeansFresh DEF Replace, MidPhase
<1>2. /\ row \in [ContractId -> Row] /\ audit \in [ContractId -> Seq(AuditEvent)]
      /\ reservation \in [Target -> ContractId \cup {NoContract}]
      /\ call \in [Proc -> Call] /\ cur \in Row /\ upd \in Row
      /\ load \in [Reader -> Load]
  BY DEF StoreInv, TypeOK, Call
<1>3. /\ row' = [row EXCEPT ![c] = upd]
      /\ audit' = [audit EXCEPT ![c] = Append(@, ev)]
      /\ call' = [call EXCEPT ![p] = IdleCall]
      /\ load' = load
  BY <1>0 DEF Replace, Leave
<1>4. /\ cur.state # "absent" /\ upd.state # "absent" /\ upd.key = cur.key
      /\ upd.version = cur.version + 1 /\ (cur.confirmed => upd.confirmed)
      /\ (upd.state = "executing" /\ cur.state # "executing" => upd.confirmed)
      /\ cur.version \in Nat
  BY <1>1, <1>2 DEF GoodUpdate, Row
<1>5. TargetOfRow(upd) = TargetOfRow(cur) /\ TargetOfRow(cur) \in Target
  BY <1>2, <1>4, StoreAssumption DEF TargetOfRow, Row
<1>6. ASSUME NEW d \in ContractId PROVE ReservationVerified(d, row[d])'
  <2>0. row'[c] = upd /\ \A x \in ContractId : x # c => row'[x] = row[x]
    BY <1>1, <1>2, <1>3
  <2>1. ReservationVerified(d, row[d]) /\ ReservationVerified(c, row[c])
    BY <1>1 DEF StoreInv
  <2>2. CASE TakesReservation(p)
    <3>0. /\ upd.state \in ReservationStates /\ cur.state \notin ReservationStates
          /\ ~DropsReservation(p) /\ TargetFree(p) /\ UpdateReservations(p)
      BY <2>2 DEF Replace, TakesReservation, DropsReservation
    <3>1. /\ upd.state \in ReservationStates /\ cur.state \notin ReservationStates
          /\ reservation[TargetOfRow(cur)] = NoContract
          /\ reservation' = [reservation EXCEPT ![TargetOfRow(cur)] = c]
      BY <1>0, <1>5, <2>2, <3>0 DEF TargetFree, UpdateReservations
    <3>2. \A t \in Target : reservation[t] # c
      BY <1>1, <2>1, <3>1 DEF ReservationVerified
    <3>3. CASE d = c
      BY <1>1, <1>2, <1>5, <2>0, <3>1, <3>2, <3>3 DEF ReservationVerified
    <3>4. CASE d # c
      BY <1>1, <1>2, <1>5, <2>0, <2>1, <3>1, <3>4, StoreAssumption DEF ReservationVerified, TargetOfRow
    <3>5. QED
      BY <3>3, <3>4
  <2>3. CASE DropsReservation(p)
    <3>1. /\ upd.state \notin ReservationStates /\ cur.state \in ReservationStates
          /\ reservation' = [t \in Target |-> IF reservation[t] = c THEN NoContract ELSE reservation[t]]
      BY <1>0, <2>3 DEF Replace, TakesReservation, DropsReservation, UpdateReservations
    <3>2. CASE d = c
      BY <1>1, <1>2, <2>0, <3>1, <3>2, StoreAssumption DEF ReservationVerified
    <3>3. CASE d # c
      BY <1>1, <1>2, <2>0, <2>1, <3>1, <3>3, StoreAssumption DEF ReservationVerified, TargetOfRow
    <3>4. QED
      BY <3>2, <3>3
  <2>4. CASE ~TakesReservation(p) /\ ~DropsReservation(p)
    <3>1. /\ reservation' = reservation
          /\ upd.state \in ReservationStates <=> cur.state \in ReservationStates
      BY <2>4 DEF Replace, TakesReservation, DropsReservation, UpdateReservations
    <3>2. CASE d = c
      BY <1>1, <1>5, <2>0, <2>1, <3>1, <3>2 DEF ReservationVerified
    <3>3. CASE d # c
      BY <2>0, <2>1, <3>1, <3>3 DEF ReservationVerified, TargetOfRow
    <3>4. QED
      BY <3>2, <3>3
  <2>5. QED
    BY <2>2, <2>3, <2>4
<1>7. ev \in AuditEvent
  BY <1>2, <1>4 DEF AuditEvent, Row
<1>8. ev.prev = cur.state /\ ev.cur = upd.state
  OBVIOUS
<1>9. /\ audit[c] \in Seq(AuditEvent) /\ AuditVerified(c, cur)
      /\ audit'[c] = Append(audit[c], ev)
  BY <1>1, <1>2, <1>3, <1>4 DEF StoreInv, AuditMatchesState, Stored
<1> HIDE DEF cur, upd, ev
<1>10. row'[c] = upd /\ \A d \in ContractId : d # c => row'[d] = row[d] /\ audit'[d] = audit[d]
  BY <1>1, <1>2, <1>3
<1>11. /\ Len(audit[c]) = cur.version + 1 /\ Len(audit'[c]) = Len(audit[c]) + 1
       /\ audit[c][Len(audit[c])].cur = cur.state
       /\ audit'[c][Len(audit[c]) + 1] = ev
       /\ \A i \in 1..Len(audit[c]) : audit'[c][i] = audit[c][i]
  BY <1>7, <1>9, AppendEvent DEF AuditVerified
<1>12. AuditVerified(c, row[c])'
  <2>1. Len(audit'[c]) = upd.version + 1
    BY <1>4, <1>11
  <2>2. audit'[c][1].prev = "absent"
    BY <1>4, <1>9, <1>11 DEF AuditVerified
  <2>3. ASSUME NEW i \in 2..Len(audit'[c]) PROVE audit'[c][i].prev = audit'[c][i-1].cur
    <3>1. CASE i = Len(audit[c]) + 1
      <4>1. i - 1 = Len(audit[c]) /\ Len(audit[c]) \in 1..Len(audit[c])
        BY <1>4, <1>11, <3>1
      <4>2. QED
        BY <1>8, <1>11, <3>1, <4>1
    <3>2. CASE i # Len(audit[c]) + 1
      <4>1. i \in 2..Len(audit[c]) /\ i \in 1..Len(audit[c]) /\ i - 1 \in 1..Len(audit[c])
        BY <1>4, <1>11, <3>2
      <4>2. QED
        BY <1>9, <1>11, <4>1 DEF AuditVerified
    <3>3. QED
      BY <3>1, <3>2
  <2>4. audit'[c][Len(audit'[c])].cur = upd.state
    BY <1>8, <1>11
  <2>5. QED
    BY <1>10, <2>1, <2>2, <2>3, <2>4 DEF AuditVerified
<1>13. AuditMatchesState'
  <2> SUFFICES ASSUME NEW d \in ContractId
               PROVE  (IF Stored(d) THEN AuditVerified(d, row[d]) ELSE audit[d] = <<>>)'
    BY DEF AuditMatchesState
  <2>1. CASE d = c
    BY <1>4, <1>10, <1>12, <2>1 DEF Stored
  <2>2. CASE d # c
    BY <1>10, <2>2 DEF StoreInv, AuditMatchesState, AuditVerified, Stored
  <2>3. QED
    BY <2>1, <2>2
<1>14. OneBlockingContractPerKey'
  <2>1. upd.state \in BlockingStates => cur.state \in BlockingStates
    BY <1>1, BlockingIsLeftForGood
  <2>2. QED
    BY <1>1, <1>4, <1>10, <2>1 DEF StoreInv, OneBlockingContractPerKey
<1>15. ExecutedOnlyConfirmed'
  <2> SUFFICES ASSUME NEW d \in ContractId, NEW i \in 1..Len(audit'[d]),
                      audit'[d][i].cur = "executing"
               PROVE  row'[d].confirmed
    BY DEF ExecutedOnlyConfirmed
  <2>1. CASE d # c
    BY <1>10, <2>1 DEF StoreInv, ExecutedOnlyConfirmed
  <2>2. CASE d = c
    <3>1. CASE i = Len(audit[c]) + 1
      <4>1. upd.state = "executing"
        BY <1>8, <1>11, <2>2, <3>1
      <4>2. CASE cur.state # "executing"
        BY <1>4, <1>10, <2>2, <4>1, <4>2
      <4>3. CASE cur.state = "executing"
        <5>1. Len(audit[c]) \in 1..Len(audit[c]) /\ audit[c][Len(audit[c])].cur = "executing"
          BY <1>4, <1>11, <4>3
        <5>2. cur.confirmed
          BY <1>1, <5>1 DEF StoreInv, ExecutedOnlyConfirmed
        <5>3. QED
          BY <1>4, <1>10, <2>2, <5>2
      <4>4. QED
        BY <4>2, <4>3
    <3>2. CASE i # Len(audit[c]) + 1
      <4>1. i \in 1..Len(audit[c])
        BY <1>4, <1>11, <2>2, <3>2
      <4>2. cur.confirmed
        BY <1>1, <1>11, <2>2, <4>1 DEF StoreInv, ExecutedOnlyConfirmed
      <4>3. QED
        BY <1>4, <1>10, <2>2, <4>2
    <3>3. QED
      BY <3>1, <3>2
  <2>3. QED
    BY <2>1, <2>2
<1>16. call'[p].phase = "idle" /\ call'[p].cid = NoContract
       /\ \A q \in Proc : q # p => call'[q] = call[q]
  BY <1>2, <1>3 DEF IdleCall
<1>17. upd.version > row[c].version
  BY <1>1, <1>4
<1>18. ASSUME NEW q \in Proc PROVE CallFresh(q)'
  <2>1. CASE q = p
    BY <1>16, <2>1 DEF CallFresh, MidPhase
  <2>2. CASE q # p
    <3>1. SUFFICES ASSUME call[q].phase \in MidPhase PROVE CallFresh(q)'
      BY <1>16, <2>2 DEF CallFresh
    <3>2. /\ call[q].cid \in ContractId /\ GoodUpdate(call[q].cur, call[q].upd)
          /\ Stored(call[q].cid) /\ Fresh(call[q].cid, call[q].cur) /\ call[q].cur \in Row
      BY <1>2, <3>1 DEF StoreInv, CallFresh, Call
    <3>3. Fresh(call[q].cid, call[q].cur)'
      <4>1. (Fresh(call[q].cid, call[q].cur))' <=>
              /\ call[q].cur.version <= row'[call[q].cid].version
              /\ call[q].cur.version = row'[call[q].cid].version => row'[call[q].cid] = call[q].cur
        BY <1>16, <2>2 DEF Fresh
      <4>2. call[q].cur.version \in Nat /\ row[c].version \in Nat /\ upd.version \in Nat
        BY <1>1, <1>2, <3>2 DEF Row
      <4>3. QED
        BY <1>10, <1>17, <3>2, <4>1, <4>2 DEF Fresh
    <3>4. QED
      BY <1>4, <1>10, <1>16, <2>2, <3>2, <3>3 DEF CallFresh, Stored
  <2>3. QED
    BY <2>1, <2>2
<1>19. ASSUME NEW q \in Proc PROVE CreateFresh(q)'
  <2>1. row[c].state # "absent"
    BY <1>1, <1>4
  <2>2. QED
    BY <1>10, <1>16, <2>1, StoreAssumption DEF StoreInv, CreateFresh, Stored
<1>20. ASSUME NEW r \in Reader PROVE LoadFresh(r)'
  <2>1. SUFFICES ASSUME load[r].phase # "idle" PROVE LoadFresh(r)'
    BY <1>3 DEF LoadFresh
  <2>2. /\ load[r].cid \in ContractId /\ Stored(load[r].cid)
        /\ Fresh(load[r].cid, load[r].cur) /\ load[r].cur \in Row
    BY <1>2, <2>1 DEF StoreInv, LoadFresh, Load
  <2>3. load[r].cur.version \in Nat /\ row[c].version \in Nat /\ upd.version \in Nat
    BY <1>1, <1>2, <2>2 DEF Row
  <2>4. QED
    BY <1>3, <1>4, <1>10, <1>17, <2>2, <2>3 DEF LoadFresh, Stored, Fresh
<1>21. QED
  BY <1>6, <1>13, <1>14, <1>15, <1>18, <1>19, <1>20 DEF StoreInv

----------------------------------------------------------------------------
(* The invariant is inductive *)

\* The empty store satisfies the invariant.
LEMMA InvInit == Init => StoreInv
<1> SUFFICES ASSUME Init PROVE StoreInv
  OBVIOUS
<1>1. TypeOK
  BY TypeInit
<1>2. \A c \in ContractId : row[c].state = "absent" /\ audit[c] = <<>>
  BY BlankRowType DEF Init
<1>3. \A c \in ContractId : ReservationVerified(c, row[c])
  BY <1>2, StoreAssumption DEF Init, ReservationVerified, ReservationStates
<1>4. AuditMatchesState /\ OneBlockingContractPerKey
  BY <1>2 DEF AuditMatchesState, Stored, OneBlockingContractPerKey, BlockingStates
<1>5. ExecutedOnlyConfirmed
  BY <1>2 DEF ExecutedOnlyConfirmed
<1>6. \A p \in Proc : CallFresh(p) /\ CreateFresh(p)
  BY DEF Init, IdleCall, CallFresh, CreateFresh, MidPhase
<1>7. \A r \in Reader : LoadFresh(r)
  BY DEF Init, IdleLoad, LoadFresh
<1>8. QED
  BY <1>1, <1>3, <1>4, <1>5, <1>6, <1>7 DEF StoreInv

\* Ending a method is a quiet step for its process and for all others.
LEMMA LeaveKeeps ==
  ASSUME StoreInv, NEW p \in Proc, Leave(p)
  PROVE  \A q \in Proc : CallKept(q)
  BY DEF StoreInv, TypeOK, Leave, IdleCall, CallKept

\* Every step of the store preserves the invariant.
LEMMA InvStep == StoreInv /\ [Next]_vars => StoreInv'
<1> SUFFICES ASSUME StoreInv, [Next]_vars PROVE StoreInv'
  OBVIOUS
<1>0. TypeOK /\ TypeOK'
  BY TypeStep DEF StoreInv
<1>1. ASSUME load' = load PROVE \A r \in Reader : LoadKept(r)
  BY <1>1 DEF LoadKept
<1>2. ASSUME NEW p \in Proc, Method(p) PROVE StoreInv'
  <2>1. PICK c \in ContractId :
          \/ \E k \in IdemKey, e \in 1..(MaxTime + MaxLifetime) :
               e <= clock + MaxLifetime /\ BeginCreate(p, c, k, e)
          \/ \E target \in RecoveryState : BeginTransition(p, c, target)
          \/ BeginExpirePrepared(p, c)
          \/ BeginConfirm(p, c)
          \/ BeginMarkExecutionVerified(p, c)
          \/ BeginMarkRollbackVerified(p, c)
          \/ \E outcome \in ReconciliationOutcome : BeginResolveReconciliation(p, c, outcome)
          \/ BeginRotateArtifacts(p, c)
    BY <1>2 DEF Method
  <2>2. ASSUME NEW k \in IdemKey, NEW e \in 1..(MaxTime + MaxLifetime), BeginCreate(p, c, k, e)
        PROVE  StoreInv'
    BY <1>0, <2>2, BeginCreateStep, StoreAssumption
  <2>3. ASSUME \/ \E target \in RecoveryState : BeginTransition(p, c, target)
               \/ BeginExpirePrepared(p, c)
               \/ BeginConfirm(p, c)
               \/ BeginMarkExecutionVerified(p, c)
               \/ BeginMarkRollbackVerified(p, c)
               \/ \E outcome \in ReconciliationOutcome : BeginResolveReconciliation(p, c, outcome)
               \/ BeginRotateArtifacts(p, c)
        PROVE  StoreInv'
    BY <1>0, <2>3, MethodStarts, StartStep
  <2>4. QED
    BY <2>1, <2>2, <2>3
<1>3. ASSUME NEW p \in Proc, Gate(p) PROVE StoreInv'
  <2>1. UNCHANGED <<row, reservation, audit, load>>
    BY <1>3 DEF Gate, OpenGate, DetectRollback, AdvanceAnchor, AnchorUnavailable,
                CommitGate, RefuseGate, tables
  <2>2. \A q \in Proc : CallKept(q)
    <3>0. call \in [Proc -> Call] /\ call[p] \in Call
      BY <1>0 DEF TypeOK
    <3>1. CASE OpenGate(p)
      BY <3>0, <3>1 DEF OpenGate, CallKept, MidPhase, Call
    <3>2. CASE AdvanceAnchor(p)
      BY <3>0, <3>2 DEF AdvanceAnchor, CallKept, MidPhase, Call
    <3>3. CASE CommitGate(p)
      BY <3>0, <3>3 DEF CommitGate, CallKept, MidPhase, Call
    <3>4. CASE DetectRollback(p) \/ AnchorUnavailable(p) \/ RefuseGate(p)
      BY <3>4, LeaveKeeps DEF DetectRollback, AnchorUnavailable, RefuseGate
    <3>5. QED
      BY <1>3, <3>1, <3>2, <3>3, <3>4 DEF Gate
  <2>3. QED
    BY <1>0, <1>1, <2>1, <2>2, QuietStep
<1>4. ASSUME NEW p \in Proc, Commit(p) PROVE StoreInv'
  <2>1. CASE CommitCreate(p)
    BY <1>0, <2>1, CommitCreateStep
  <2>2. CASE Replace(p)
    BY <1>0, <2>2, ReplaceStep
  <2>3. CASE RefuseCreate(p) \/ RefuseReplace(p)
    <3>1. UNCHANGED <<row, reservation, audit, load>> /\ Leave(p)
      BY <2>3 DEF RefuseCreate, RefuseReplace, tables
    <3>2. QED
      BY <1>0, <1>1, <3>1, LeaveKeeps, QuietStep
  <2>4. QED
    BY <1>4, <2>1, <2>2, <2>3 DEF Commit
<1>5. ASSUME NEW p \in Proc, Crash(p) PROVE StoreInv'
  <2>1. UNCHANGED <<row, reservation, audit, load>> /\ Leave(p)
    BY <1>5 DEF Crash, tables
  <2>2. QED
    BY <1>0, <1>1, <2>1, LeaveKeeps, QuietStep
<1>6. ASSUME NEW r \in Reader, ReaderStep(r) PROVE StoreInv'
  <2>1. UNCHANGED <<row, reservation, audit, call>>
    BY <1>6 DEF ReaderStep, LoadRow, LoadReservation, LoadAudit, LoadDone, tables
  <2>2. \A q \in Proc : CallKept(q)
    BY <2>1 DEF CallKept
  <2>3. \A s \in Reader : LoadKept(s)
    <3>0. load \in [Reader -> Load] /\ load[r] \in Load
      BY <1>0 DEF TypeOK
    <3>1. ASSUME NEW c \in ContractId, LoadRow(r, c) PROVE \A s \in Reader : LoadKept(s)
      BY <3>0, <3>1 DEF LoadRow, LoadKept
    <3>2. CASE LoadReservation(r)
      BY <3>0, <3>2 DEF LoadReservation, LoadKept, Load
    <3>3. CASE LoadAudit(r)
      BY <3>0, <3>3 DEF LoadAudit, LoadKept, Load
    <3>4. CASE LoadDone(r)
      BY <3>0, <3>4 DEF LoadDone, LoadKept, IdleLoad
    <3>5. QED
      BY <1>6, <3>1, <3>2, <3>3, <3>4 DEF ReaderStep
  <2>4. QED
    BY <1>0, <2>1, <2>2, <2>3, QuietStep
<1>7. CASE Tick
  <2>1. UNCHANGED <<row, reservation, audit, call, load>>
    BY <1>7 DEF Tick, tables
  <2>2. QED
    BY <1>0, <1>1, <2>1, QuietStep DEF CallKept
<1>8. CASE UNCHANGED vars
  <2>1. UNCHANGED <<row, reservation, audit, call, load>>
    BY <1>8 DEF vars
  <2>2. QED
    BY <1>0, <1>1, <2>1, QuietStep DEF CallKept
<1>9. QED
  BY <1>2, <1>3, <1>4, <1>5, <1>6, <1>7, <1>8 DEF Next

\* The inductive invariant holds in every reachable state of the store.
THEOREM StoreInvariant == Spec => []StoreInv
  BY InvInit, InvStep, PTL DEF Spec

----------------------------------------------------------------------------
(* What follows for every instance of the store *)

\* Every variable keeps its type, and no method ever builds a contract that
\* RecoveryContract.__post_init__ would refuse.
THEOREM TypeCorrect == Spec => []TypeOK
<1>1. StoreInv => TypeOK
  BY DEF StoreInv
<1>2. QED
  BY <1>1, StoreInvariant, PTL

\* At most one unsettled write per canonical target (target_reservations).
THEOREM SingleFlight == Spec => []OneUnsettledWritePerTarget
<1>1. StoreInv => OneUnsettledWritePerTarget
  <2> SUFFICES ASSUME StoreInv, NEW c \in ContractId, NEW d \in ContractId,
                      row[c].state \in ReservationStates, row[d].state \in ReservationStates,
                      TargetOfRow(row[c]) = TargetOfRow(row[d])
               PROVE  c = d
    BY DEF OneUnsettledWritePerTarget
  <2>1. row[c] \in Row /\ ReservationVerified(c, row[c]) /\ ReservationVerified(d, row[d])
    BY DEF StoreInv, TypeOK
  <2>2. TargetOfRow(row[c]) \in Target
    BY <2>1, StoreAssumption DEF TargetOfRow, Row
  <2>3. reservation[TargetOfRow(row[c])] = c /\ reservation[TargetOfRow(row[c])] = d
    BY <2>1, <2>2 DEF ReservationVerified
  <2>4. QED
    BY <2>3
<1>2. QED
  BY <1>1, StoreInvariant, PTL

\* The integrity checks of load() never refuse an untampered store that is read
\* in one snapshot: the reservation and the audit chain always match the row.
THEOREM IntegrityChecksHold == Spec => [](ReservationMatchesState /\ AuditMatchesState)
<1>1. StoreInv => ReservationMatchesState /\ AuditMatchesState
  BY DEF StoreInv, ReservationMatchesState
<1>2. QED
  BY <1>1, StoreInvariant, PTL

\* No second contract of an idempotency key is live, applied or in doubt.
THEOREM IdempotencyHolds == Spec => []OneBlockingContractPerKey
<1>1. StoreInv => OneBlockingContractPerKey
  BY DEF StoreInv
<1>2. QED
  BY <1>1, StoreInvariant, PTL

\* Nothing is executed without a confirmation that is still on record.
THEOREM ConfirmedBeforeExecuted == Spec => []ExecutedOnlyConfirmed
<1>1. StoreInv => ExecutedOnlyConfirmed
  BY DEF StoreInv
<1>2. QED
  BY <1>1, StoreInvariant, PTL

\* The compare-and-set of _replace on (state, version) never overwrites a row
\* other than the one its method loaded.
THEOREM CompareAndSetSuffices == Spec => NoLostUpdate
<1>1. StoreInv /\ [Next]_vars =>
        [\A p \in Proc : Replace(p) => row[call[p].cid] = call[p].cur]_vars
  BY CasMeansFresh DEF Replace, MidPhase
<1>2. QED
  BY <1>1, StoreInvariant, PTL DEF Spec, NoLostUpdate

\* Only the two commits write the contracts table.
LEMMA WhoWritesRows ==
  ASSUME [Next]_vars
  PROVE  \/ \E p \in Proc : Replace(p) \/ CommitCreate(p)
         \/ row' = row /\ audit' = audit
<1>1. ASSUME NEW p \in Proc, Method(p) PROVE UNCHANGED <<row, audit>>
  BY <1>1 DEF Method, tables, Start, BeginCreate, BeginTransition, BeginExpirePrepared,
     BeginConfirm, BeginMarkExecutionVerified, BeginMarkRollbackVerified,
     BeginResolveReconciliation, BeginRotateArtifacts
<1>2. ASSUME NEW p \in Proc, Gate(p) PROVE UNCHANGED <<row, audit>>
  BY <1>2 DEF Gate, tables, OpenGate, DetectRollback, AdvanceAnchor, AnchorUnavailable,
     CommitGate, RefuseGate
<1>3. ASSUME NEW p \in Proc, RefuseCreate(p) \/ RefuseReplace(p) \/ Crash(p) PROVE UNCHANGED <<row, audit>>
  BY <1>3 DEF RefuseCreate, RefuseReplace, Crash, tables
<1>4. ASSUME NEW r \in Reader, ReaderStep(r) PROVE UNCHANGED <<row, audit>>
  BY <1>4 DEF ReaderStep, LoadRow, LoadReservation, LoadAudit, LoadDone, tables
<1>5. Tick \/ UNCHANGED vars => UNCHANGED <<row, audit>>
  BY DEF Tick, vars, tables
<1>6. QED
  BY <1>1, <1>2, <1>3, <1>4, <1>5 DEF Next, Commit

\* The state column moves only along LEGAL_TRANSITIONS.
THEOREM StateMachineClosed == Spec => OnlyLegalTransitions
<1> DEFINE Legal == \A c \in ContractId : row'[c].state # row[c].state =>
                      \/ row[c].state = "absent" /\ row'[c].state = "preparing"
                      \/ RequireTransition(row[c].state, row'[c].state, TRUE)
<1>1. ASSUME StoreInv, [Next]_vars PROVE [Legal]_vars
  <2>1. ASSUME NEW p \in Proc, Replace(p) PROVE Legal
    <3>1. /\ call[p].cid \in ContractId /\ row[call[p].cid] = call[p].cur
          /\ GoodUpdate(call[p].cur, call[p].upd)
      BY <1>1, <2>1, CasMeansFresh DEF Replace, MidPhase
    <3>2. row \in [ContractId -> Row] /\ row' = [row EXCEPT ![call[p].cid] = call[p].upd]
      BY <1>1, <2>1 DEF StoreInv, TypeOK, Replace
    <3>3. QED
      BY <3>1, <3>2 DEF GoodUpdate
  <2>2. ASSUME NEW p \in Proc, CommitCreate(p) PROVE Legal
    <3>1. /\ call[p].cid \in ContractId /\ row[call[p].cid].state = "absent"
          /\ call[p].upd.state = "preparing"
      BY <1>1, <2>2 DEF StoreInv, CommitCreate, CreateFresh, Stored
    <3>2. row \in [ContractId -> Row] /\ row' = [row EXCEPT ![call[p].cid] = call[p].upd]
      BY <1>1, <2>2 DEF StoreInv, TypeOK, CommitCreate
    <3>3. QED
      BY <3>1, <3>2
  <2>3. ASSUME row' = row PROVE Legal
    BY <2>3
  <2>4. \/ \E p \in Proc : Replace(p) \/ CommitCreate(p)
        \/ row' = row
    BY <1>1, WhoWritesRows
  <2>5. QED
    BY <2>1, <2>2, <2>3, <2>4
<1>2. QED
  BY <1>1, StoreInvariant, PTL DEF Spec, OnlyLegalTransitions

\* A load() that is not refused returns the row of its last SELECT.
THEOREM LoadLinearizes == Spec => LoadReturnsCurrentRow
<1> DEFINE Current == \A r \in Reader : LoadAudit(r) /\ load'[r].phase = "returned"
                        => load[r].cur = row[load[r].cid]
<1>1. ASSUME StoreInv, [Next]_vars PROVE [Current]_vars
  <2> SUFFICES ASSUME NEW r \in Reader, LoadAudit(r), load'[r].phase = "returned"
               PROVE  load[r].cur = row[load[r].cid]
    OBVIOUS
  <2>1. load \in [Reader -> Load] /\ row \in [ContractId -> Row]
    BY <1>1 DEF StoreInv, TypeOK
  <2>2. /\ load[r].cid \in ContractId /\ Stored(load[r].cid)
        /\ Fresh(load[r].cid, load[r].cur)
    BY <1>1 DEF StoreInv, LoadFresh, LoadAudit
  <2>3. AuditVerified(load[r].cid, load[r].cur)
    <3>1. load'[r].phase = IF AuditVerified(load[r].cid, load[r].cur)
                             THEN "returned" ELSE "refused"
      BY <2>1 DEF LoadAudit, Load
    <3>2. QED
      BY <3>1
  <2>4. AuditVerified(load[r].cid, row[load[r].cid])
    BY <1>1, <2>2 DEF StoreInv, AuditMatchesState
  <2>5. load[r].cur.version \in Nat /\ row[load[r].cid].version \in Nat
    BY <2>1, <2>2 DEF Load, Row
  <2>6. QED
    BY <2>2, <2>3, <2>4, <2>5 DEF AuditVerified, Fresh
<1>2. QED
  BY <1>1, StoreInvariant, PTL DEF Spec, LoadReturnsCurrentRow

----------------------------------------------------------------------------
(* The history of a contract and the ticks it spent: a second invariant *)

\* What an operator may conclude about an interrupted forward write or rollback.
FitsOrigin(origin, state) ==
  \/ origin = "executing"    /\ state \in {"verified", "failed"}
  \/ origin = "rolling_back" /\ state \in {"rolled_back", "rollback_failed"}

\* A resolution whose compare-and-set can still pass fits the last audit event.
ResolvesFit(p) ==
  /\ call[p].phase \in MidPhase
  /\ call[p].cur.state = "reconciliation" /\ call[p].upd.state # "reconciliation"
  /\ row[call[p].cid].version = call[p].cur.version
  => FitsOrigin(UncertaintyBoundary(call[p].cid), call[p].upd.state)

\* create() checked the contract at an instant that is not in the future.
CreateClock(p) == call[p].phase = "create" => call[p].at <= clock

\* A gate transaction holds the write lock, and the mark it will commit is
\* ahead of the stored one exactly when it called the witness.
GateHeld(p) ==
  /\ call[p].phase \in {"advance", "rate"} => writer = p
  /\ call[p].phase = "advance" => NeedsWitness(p) /\ mark <= anchor
  /\ call[p].phase = "rate" =>
       /\ mark <= call[p].mark /\ call[p].mark <= anchor
       /\ NeedsWitness(p) => mark < call[p].mark

\* The methods that passed the gate and have not written EXECUTING yet.
Spending ==
  {p \in Proc : /\ call[p].phase = "replace"
                /\ call[p].cur.state = "prepared" /\ call[p].upd.state = "executing"
                /\ call[p].cur.key \in HighAssurance}

\* Committed executions and those on their way have a recorded tick each.
TicksInv ==
  /\ mark <= anchor
  /\ AnchorEnabled =>
       /\ IsFiniteSet(HighExecutions) /\ IsFiniteSet(Spending)
       /\ Cardinality(HighExecutions) + Cardinality(Spending) <= mark

HistoryInv ==
  /\ ResolutionFitsOrigin
  /\ \A p \in Proc : ResolvesFit(p)
  /\ \A p \in Proc : CreateClock(p)
  /\ \A p \in Proc : GateHeld(p)
  /\ TicksInv

\* What the first half of a method on an existing contract leaves in the call:
\* the row it loaded, an update that fits the history, the gate for every
\* execution of a store with an anchor, and, unless it rotates, no doubt that
\* stays one.
StartsWell(p, c) ==
  \E phase \in {"gate", "replace"}, upd \in Row :
    /\ Start(p, c, phase, upd)
    /\ row[c].state = "reconciliation" /\ upd.state # "reconciliation"
         => FitsOrigin(UncertaintyBoundary(c), upd.state)
    /\ AnchorEnabled /\ upd.state = "executing" /\ row[c].state # "executing"
         => phase = "gate"
    /\ row[c].state = "reconciliation" /\ ~RotationEnabled => upd.state # "reconciliation"

LEMMA MethodsStartWell ==
  ASSUME TypeOK, NEW p \in Proc, NEW c \in ContractId,
         \/ \E target \in RecoveryState : BeginTransition(p, c, target)
         \/ BeginExpirePrepared(p, c)
         \/ BeginConfirm(p, c)
         \/ BeginMarkExecutionVerified(p, c)
         \/ BeginMarkRollbackVerified(p, c)
         \/ \E outcome \in ReconciliationOutcome : BeginResolveReconciliation(p, c, outcome)
         \/ BeginRotateArtifacts(p, c)
  PROVE  StartsWell(p, c)
<1>0. row[c] \in Row /\ SealConsistent(row[c])
  BY DEF TypeOK
<1>1. ASSUME NEW target \in RecoveryState, BeginTransition(p, c, target) PROVE StartsWell(p, c)
  <2> DEFINE phase == IF target = "executing" /\ (AnchorEnabled \/ RateEnabled)
                        THEN "gate" ELSE "replace"
             upd == Next1(row[c], target)
  <2>1. row[c].state # "reconciliation"
    BY <1>1 DEF BeginTransition, TransitionAllowed, RequireTransition, AutomaticTransitions
  <2>2. Start(p, c, phase, upd) /\ phase \in {"gate", "replace"}
    BY <1>1 DEF BeginTransition
  <2>3. upd \in Row /\ upd.state = target
    BY <1>0, Next1Type
  <2>4. AnchorEnabled /\ target = "executing" => phase = "gate"
    OBVIOUS
  <2> HIDE DEF phase, upd
  <2>5. QED
    BY <2>1, <2>2, <2>3, <2>4 DEF StartsWell
<1>2. ASSUME BeginExpirePrepared(p, c) PROVE StartsWell(p, c)
  <2>1. row[c].state = "prepared" /\ Start(p, c, "replace", Next1(row[c], "expired"))
    BY <1>2 DEF BeginExpirePrepared
  <2>2. Next1(row[c], "expired") \in Row /\ Next1(row[c], "expired").state = "expired"
    BY <1>0, Next1Type DEF RecoveryState
  <2>3. QED
    BY <2>1, <2>2 DEF StartsWell
<1>3. ASSUME BeginConfirm(p, c) PROVE StartsWell(p, c)
  <2>1. row[c].state = "prepared" /\ Start(p, c, "replace", Confirmed(row[c]))
    BY <1>3 DEF BeginConfirm
  <2>2. Confirmed(row[c]) \in Row /\ Confirmed(row[c]).state = "prepared"
    BY <1>0, <2>1, ConfirmedType
  <2>3. QED
    BY <2>1, <2>2 DEF StartsWell
<1>4. ASSUME BeginMarkExecutionVerified(p, c) PROVE StartsWell(p, c)
  <2>1. row[c].state = "executing" /\ Start(p, c, "replace", VerifiedRow(row[c]))
    BY <1>4 DEF BeginMarkExecutionVerified, VerifiedRow
  <2>2. VerifiedRow(row[c]) \in Row /\ VerifiedRow(row[c]).state = "verified"
    BY <1>0, VerifiedType
  <2>3. QED
    BY <2>1, <2>2 DEF StartsWell
<1>5. ASSUME BeginMarkRollbackVerified(p, c) PROVE StartsWell(p, c)
  <2>1. row[c].state = "rolling_back" /\ Start(p, c, "replace", Next1(row[c], "rolled_back"))
    BY <1>5 DEF BeginMarkRollbackVerified
  <2>2. Next1(row[c], "rolled_back") \in Row /\ Next1(row[c], "rolled_back").state = "rolled_back"
    BY <1>0, Next1Type DEF RecoveryState
  <2>3. QED
    BY <2>1, <2>2 DEF StartsWell
<1>6. ASSUME NEW outcome \in ReconciliationOutcome, BeginResolveReconciliation(p, c, outcome)
      PROVE  StartsWell(p, c)
  <2> DEFINE upd == Resolved(row[c], outcome)
  <2>1. /\ Start(p, c, "replace", upd)
        /\ outcome \in OutcomesFor(UncertaintyBoundary(c))
    BY <1>6 DEF BeginResolveReconciliation
  <2>2. upd \in Row /\ upd.state = OutcomeTargetState[outcome]
    BY <1>0, ResolvedType
  <2>3. FitsOrigin(UncertaintyBoundary(c), OutcomeTargetState[outcome])
    BY <2>1, OutcomeTargets DEF OutcomesFor, FitsOrigin
  <2>4. OutcomeTargetState[outcome] \notin {"executing", "reconciliation"}
    BY OutcomeTargets
  <2> HIDE DEF upd
  <2>5. QED
    BY <2>1, <2>2, <2>3, <2>4 DEF StartsWell
<1>7. ASSUME BeginRotateArtifacts(p, c) PROVE StartsWell(p, c)
  <2>1. RotationEnabled /\ Start(p, c, "replace", Rotated(row[c]))
    BY <1>7 DEF BeginRotateArtifacts
  <2>2. Rotated(row[c]) \in Row /\ Rotated(row[c]).state = row[c].state
    BY <1>0, RotatedType
  <2>3. QED
    BY <2>1, <2>2 DEF StartsWell
<1>8. QED
  BY <1>1, <1>2, <1>3, <1>4, <1>5, <1>6, <1>7

\* While neither rows nor histories change, no method joins the Spending ones
\* and the gates stay sound, the second invariant carries over.
LEMMA HistoryKept ==
  ASSUME StoreInv, HistoryInv, TypeOK', UNCHANGED <<row, audit, mark>>,
         clock' >= clock, anchor' >= anchor,
         Spending' \subseteq Spending,
         \A p \in Proc : GateHeld(p)' /\ ResolvesFit(p)' /\ CreateClock(p)'
  PROVE  HistoryInv'
<1>1. ResolutionFitsOrigin'
  BY DEF HistoryInv, ResolutionFitsOrigin
<1>2. mark \in Nat /\ anchor \in Nat /\ anchor' \in Nat
  BY DEF StoreInv, TypeOK
<1>3. HighExecutions' = HighExecutions
  BY DEF HighExecutions
<1>4. ASSUME AnchorEnabled
      PROVE  /\ IsFiniteSet(HighExecutions') /\ IsFiniteSet(Spending')
             /\ Cardinality(HighExecutions') + Cardinality(Spending') <= mark
  <2>1. /\ IsFiniteSet(HighExecutions) /\ IsFiniteSet(Spending)
        /\ Cardinality(HighExecutions) + Cardinality(Spending) <= mark
    BY <1>4 DEF HistoryInv, TicksInv
  <2>2. IsFiniteSet(Spending') /\ Cardinality(Spending') <= Cardinality(Spending)
    BY <2>1, FS_Subset
  <2>3. /\ Cardinality(Spending) \in Nat /\ Cardinality(Spending') \in Nat
        /\ Cardinality(HighExecutions) \in Nat
    BY <2>1, <2>2, FS_CardinalityType
  <2>4. QED
    BY <1>2, <1>3, <2>1, <2>2, <2>3
<1>5. mark' <= anchor'
  BY <1>2 DEF HistoryInv, TicksInv
<1>6. TicksInv'
  BY <1>4, <1>5 DEF TicksInv
<1>7. QED
  BY <1>1, <1>6 DEF HistoryInv

\* Ending calls keeps what each call promises, and no method joins the spending
\* ones by it.
LEMMA CallsKept ==
  ASSUME StoreInv, HistoryInv, UNCHANGED <<row, audit>>, clock' >= clock, clock \in Nat,
         clock' \in Nat,
         \A q \in Proc : call'[q] = call[q] \/ call'[q] = IdleCall
  PROVE  /\ Spending' \subseteq Spending
         /\ \A q \in Proc : ResolvesFit(q)' /\ CreateClock(q)'
<1>1. Spending' \subseteq Spending
  BY DEF Spending, IdleCall
<1>2. ASSUME NEW q \in Proc PROVE ResolvesFit(q)'
  <2>1. CASE call'[q] = IdleCall
    BY <2>1 DEF ResolvesFit, IdleCall, MidPhase
  <2>2. CASE call'[q] = call[q]
    BY <2>2 DEF HistoryInv, ResolvesFit, UncertaintyBoundary
  <2>3. QED
    BY <2>1, <2>2
<1>3. ASSUME NEW q \in Proc PROVE CreateClock(q)'
  <2>1. CASE call'[q] = IdleCall
    BY <2>1 DEF CreateClock, IdleCall
  <2>2. CASE call'[q] = call[q]
    <3>1. call[q].at \in Nat
      BY DEF StoreInv, TypeOK, Call
    <3>2. QED
      BY <2>2, <3>1 DEF HistoryInv, CreateClock
  <2>3. QED
    BY <2>1, <2>2
<1>4. QED
  BY <1>1, <1>2, <1>3

\* The gates of the other processes are sound after a step of p outside the
\* gate transaction, which leaves lock, mark and anchor alone.
LEMMA GatesKept ==
  ASSUME StoreInv, HistoryInv, UNCHANGED <<mark, anchor, writer>>,
         \A q \in Proc : call'[q] = call[q] \/ call'[q].phase \notin {"advance", "rate"}
  PROVE  \A q \in Proc : GateHeld(q)'
<1> SUFFICES ASSUME NEW q \in Proc PROVE GateHeld(q)'
  OBVIOUS
<1>1. CASE call'[q] = call[q]
  BY <1>1 DEF HistoryInv, GateHeld, NeedsWitness
<1>2. CASE call'[q].phase \notin {"advance", "rate"}
  BY <1>2 DEF GateHeld
<1>3. QED
  BY <1>1, <1>2

\* Two gate transactions are never open at once.
LEMMA OneGate ==
  ASSUME StoreInv, HistoryInv, NEW p \in Proc,
         writer = p \/ writer = NoProc
  PROVE  \A q \in Proc : q # p => call[q].phase \notin {"advance", "rate"}
  BY StoreAssumption DEF HistoryInv, GateHeld

\* The methods on existing contracts start without touching the history.
LEMMA HistoryStart ==
  ASSUME StoreInv, HistoryInv, TypeOK', NEW p \in Proc, NEW c \in ContractId, StartsWell(p, c)
  PROVE  HistoryInv'
<1>1. PICK phase \in {"gate", "replace"}, upd \in Row :
        /\ Start(p, c, phase, upd)
        /\ row[c].state = "reconciliation" /\ upd.state # "reconciliation"
             => FitsOrigin(UncertaintyBoundary(c), upd.state)
        /\ AnchorEnabled /\ upd.state = "executing" /\ row[c].state # "executing"
             => phase = "gate"
  BY DEF StartsWell
<1>2. /\ UNCHANGED <<row, audit, mark, anchor, clock, writer>>
      /\ \A q \in Proc : q # p => call'[q] = call[q]
      /\ call'[p].cid = c /\ call'[p].cur = row[c]
      /\ call'[p].phase = phase /\ call'[p].upd = upd
  BY <1>1 DEF Start, tables, StoreInv, TypeOK
<1>3. \A q \in Proc : GateHeld(q)'
  BY <1>2, GatesKept
<1>4. ASSUME NEW q \in Proc PROVE ResolvesFit(q)'
  <2>1. CASE q = p
    <3>1. ResolvesFit(p)'
      BY <1>1, <1>2 DEF ResolvesFit, UncertaintyBoundary
    <3>2. QED
      BY <2>1, <3>1
  <2>2. CASE q # p
    BY <1>2, <2>2 DEF HistoryInv, ResolvesFit, UncertaintyBoundary
  <2>3. QED
    BY <2>1, <2>2
<1>5. ASSUME NEW q \in Proc PROVE CreateClock(q)'
  BY <1>2 DEF HistoryInv, CreateClock
<1>6. clock' >= clock /\ anchor' >= anchor
  BY <1>2 DEF StoreInv, TypeOK
<1>7. CASE AnchorEnabled
  <2>1. p \notin Spending'
    BY <1>1, <1>2, <1>7 DEF Spending
  <2>2. Spending' \subseteq Spending
    BY <1>2, <2>1 DEF Spending
  <2>3. QED
    BY <1>2, <1>3, <1>4, <1>5, <1>6, <2>2, HistoryKept
<1>8. CASE ~AnchorEnabled
  <2>1. ResolutionFitsOrigin'
    BY <1>2 DEF HistoryInv, ResolutionFitsOrigin
  <2>2. TicksInv'
    BY <1>2, <1>8 DEF HistoryInv, TicksInv
  <2>3. QED
    BY <1>3, <1>4, <1>5, <2>1, <2>2 DEF HistoryInv
<1>9. QED
  BY <1>7, <1>8

\* create() reads the clock.
LEMMA HistoryBeginCreate ==
  ASSUME StoreInv, HistoryInv, TypeOK', NEW p \in Proc, NEW c, NEW k, NEW e,
         BeginCreate(p, c, k, e)
  PROVE  HistoryInv'
<1>1. /\ UNCHANGED <<row, audit, mark, anchor, clock, writer>>
      /\ \A q \in Proc : q # p => call'[q] = call[q]
      /\ call'[p].phase = "create" /\ call'[p].at = clock
  <2>1. call' = [call EXCEPT ![p] = [IdleCall EXCEPT !.phase = "create", !.cid = c,
                                       !.upd = NewRow(k, e), !.at = clock]]
    BY DEF BeginCreate
  <2>2. call'[p] = [IdleCall EXCEPT !.phase = "create", !.cid = c,
                      !.upd = NewRow(k, e), !.at = clock]
    BY <2>1 DEF StoreInv, TypeOK
  <2>3. call'[p].phase = "create" /\ call'[p].at = clock
    BY <2>2 DEF IdleCall
  <2>4. QED
    BY <2>1, <2>3 DEF BeginCreate, tables, StoreInv, TypeOK
<1>2. \A q \in Proc : GateHeld(q)'
  BY <1>1, GatesKept
<1>3. \A q \in Proc : ResolvesFit(q)'
  BY <1>1 DEF HistoryInv, ResolvesFit, UncertaintyBoundary, MidPhase
<1>4. ASSUME NEW q \in Proc PROVE CreateClock(q)'
  <2>1. clock \in Nat /\ CreateClock(q)
    BY DEF StoreInv, TypeOK, HistoryInv
  <2>2. CASE q = p
    <3>1. CreateClock(p)'
      BY <1>1, <2>1 DEF CreateClock
    <3>2. QED
      BY <2>2, <3>1
  <2>3. CASE q # p
    BY <1>1, <2>1, <2>3 DEF CreateClock
  <2>4. QED
    BY <2>2, <2>3
<1>5. Spending' \subseteq Spending
  BY <1>1 DEF Spending
<1>6. clock' >= clock /\ anchor' >= anchor
  BY <1>1 DEF StoreInv, TypeOK
<1>7. QED
  BY <1>1, <1>2, <1>3, <1>4, <1>5, <1>6, HistoryKept

\* A method that ends without a commit, a crash, a reader and the clock.
LEMMA HistoryQuiet ==
  ASSUME StoreInv, HistoryInv, TypeOK', UNCHANGED <<row, audit, mark>>,
         clock' >= clock, anchor' >= anchor,
         \A q \in Proc : call'[q] = call[q] \/ call'[q] = IdleCall,
         \A q \in Proc : GateHeld(q)'
  PROVE  HistoryInv'
<1>1. clock \in Nat /\ clock' \in Nat
  BY DEF StoreInv, TypeOK
<1>2. QED
  BY <1>1, CallsKept, HistoryKept

\* The gate transaction: the lock keeps the mark, and the commit adds the tick
\* the witness granted before the execution may be written.
LEMMA HistoryGate ==
  ASSUME StoreInv, HistoryInv, TypeOK', NEW p \in Proc, Gate(p)
  PROVE  HistoryInv'
<1>0. /\ call \in [Proc -> Call] /\ call[p] \in Call /\ mark \in Nat /\ anchor \in Nat
      /\ clock \in Nat /\ call[p].mark \in Nat /\ anchor' \in Nat
  BY DEF StoreInv, TypeOK, Call
<1>1. /\ UNCHANGED <<row, audit, clock>> /\ \A q \in Proc : q # p => call'[q] = call[q]
      /\ clock' >= clock
  BY <1>0 DEF Gate, OpenGate, DetectRollback, AdvanceAnchor, AnchorUnavailable,
              CommitGate, RefuseGate, tables, Leave
<1>2. mark <= anchor /\ GateHeld(p)
  BY DEF HistoryInv, TicksInv
<1>3. writer = p \/ writer = NoProc
  BY <1>2 DEF GateHeld, Gate, OpenGate, DetectRollback, AdvanceAnchor, AnchorUnavailable,
              CommitGate, RefuseGate, CanWrite
<1>4. \A q \in Proc : q # p => call[q].phase \notin {"advance", "rate"}
  BY <1>3, OneGate
<1>5. \A q \in Proc : q # p => GateHeld(q)'
  BY <1>1, <1>4 DEF GateHeld
<1>6. ASSUME call'[p].phase \in MidPhase, call[p].phase \in MidPhase,
             call'[p].cid = call[p].cid, call'[p].cur = call[p].cur, call'[p].upd = call[p].upd
      PROVE  \A q \in Proc : ResolvesFit(q)' /\ CreateClock(q)'
  BY <1>1, <1>6 DEF HistoryInv, ResolvesFit, CreateClock, UncertaintyBoundary, MidPhase
<1>7. CASE OpenGate(p)
  <2> DEFINE ph == IF NeedsWitness(p) THEN "advance" ELSE "rate"
             new == [call[p] EXCEPT !.phase = ph, !.mark = mark]
  <2>1. call'[p] = new
    BY <1>0, <1>7 DEF OpenGate
  <2>2. /\ new.phase = ph /\ new.mark = mark /\ new.cid = call[p].cid
        /\ new.cur = call[p].cur /\ new.upd = call[p].upd
    BY <1>0 DEF Call
  <2>3. ph \in {"advance", "rate"} /\ (ph = "advance" <=> NeedsWitness(p))
    OBVIOUS
  <2> HIDE DEF new, ph
  <2>4. NeedsWitness(p)' <=> NeedsWitness(p)
    BY <2>1, <2>2 DEF NeedsWitness
  <2>5. GateHeld(p)'
    BY <1>0, <1>2, <1>7, <2>1, <2>2, <2>3, <2>4 DEF GateHeld, OpenGate
  <2>6. Spending' \subseteq Spending
    BY <1>1, <2>1, <2>2, <2>3 DEF Spending
  <2>7. call[p].phase = "gate" /\ UNCHANGED <<mark, anchor>> /\ anchor' >= anchor
    BY <1>0, <1>7 DEF OpenGate
  <2>8. QED
    BY <1>1, <1>5, <1>6, <2>1, <2>2, <2>3, <2>5, <2>6, <2>7, HistoryKept DEF MidPhase
<1>8. CASE AdvanceAnchor(p)
  <2> DEFINE new == [call[p] EXCEPT !.phase = "rate", !.mark = anchor + 1]
  <2>1. call'[p] = new
    BY <1>0, <1>8 DEF AdvanceAnchor
  <2>2. /\ new.phase = "rate" /\ new.mark = anchor + 1 /\ new.cid = call[p].cid
        /\ new.cur = call[p].cur /\ new.upd = call[p].upd
    BY <1>0 DEF Call
  <2> HIDE DEF new
  <2>3. /\ call[p].phase = "advance" /\ UNCHANGED <<mark, writer>> /\ anchor' = anchor + 1
        /\ anchor' >= anchor
    BY <1>0, <1>8 DEF AdvanceAnchor
  <2>4. GateHeld(p)'
    BY <1>0, <1>2, <2>1, <2>2, <2>3 DEF GateHeld
  <2>5. Spending' \subseteq Spending
    BY <1>1, <2>1, <2>2 DEF Spending
  <2>6. QED
    BY <1>1, <1>5, <1>6, <2>1, <2>2, <2>3, <2>4, <2>5, HistoryKept DEF MidPhase
<1>9. CASE DetectRollback(p) \/ AnchorUnavailable(p) \/ RefuseGate(p)
  <2>1. Leave(p) /\ UNCHANGED mark /\ anchor' >= anchor
    BY <1>0, <1>9 DEF DetectRollback, AnchorUnavailable, RefuseGate
  <2>2. call'[p] = IdleCall
    BY <1>0, <2>1 DEF Leave
  <2>3. GateHeld(p)'
    BY <2>2 DEF GateHeld, IdleCall
  <2>4. QED
    BY <1>1, <1>5, <2>1, <2>2, <2>3, HistoryQuiet
<1>10. CASE CommitGate(p)
  <2> DEFINE new == [call[p] EXCEPT !.phase = "replace", !.mark = 0]
  <2>1. call'[p] = new
    BY <1>0, <1>10 DEF CommitGate
  <2>2. /\ new.phase = "replace" /\ new.cid = call[p].cid
        /\ new.cur = call[p].cur /\ new.upd = call[p].upd
    BY <1>0 DEF Call
  <2> HIDE DEF new
  <2>3. call[p].phase = "rate" /\ mark' = call[p].mark /\ UNCHANGED anchor
    BY <1>10 DEF CommitGate
  <2>4. mark <= mark' /\ mark' <= anchor' /\ (NeedsWitness(p) => mark < mark')
    BY <1>0, <1>2, <2>3 DEF GateHeld
  <2>5. \A q \in Proc : GateHeld(q)'
    BY <1>5, <2>1, <2>2 DEF GateHeld
  <2>6. \A q \in Proc : ResolvesFit(q)' /\ CreateClock(q)'
    BY <1>6, <2>1, <2>2, <2>3 DEF MidPhase
  <2>7. ResolutionFitsOrigin'
    BY <1>1 DEF HistoryInv, ResolutionFitsOrigin
  <2>8. HighExecutions' = HighExecutions
    BY <1>1 DEF HighExecutions
  <2>9. ASSUME AnchorEnabled
        PROVE  /\ IsFiniteSet(HighExecutions') /\ IsFiniteSet(Spending')
               /\ Cardinality(HighExecutions') + Cardinality(Spending') <= mark'
    <3>1. /\ IsFiniteSet(HighExecutions) /\ IsFiniteSet(Spending)
          /\ Cardinality(HighExecutions) + Cardinality(Spending) <= mark
      BY <2>9 DEF HistoryInv, TicksInv
    <3>2. Cardinality(HighExecutions) \in Nat /\ Cardinality(Spending) \in Nat
      BY <3>1, FS_CardinalityType
    <3>3. CASE NeedsWitness(p)
      <4>1. Spending' \subseteq Spending \cup {p}
        BY <1>1 DEF Spending
      <4>2. p \notin Spending
        BY <2>3 DEF Spending
      <4>3. IsFiniteSet(Spending \cup {p})
            /\ Cardinality(Spending \cup {p}) = Cardinality(Spending) + 1
        BY <3>1, <4>2, FS_AddElement
      <4>4. IsFiniteSet(Spending') /\ Cardinality(Spending') <= Cardinality(Spending) + 1
        BY <4>1, <4>3, FS_Subset
      <4>5. Cardinality(Spending') \in Nat
        BY <4>4, FS_CardinalityType
      <4>6. QED
        BY <1>0, <2>3, <2>4, <2>8, <3>1, <3>2, <3>3, <4>4, <4>5
    <3>4. CASE ~NeedsWitness(p)
      <4>1. Spending' \subseteq Spending
        BY <1>1, <2>1, <2>2, <2>9, <3>4 DEF Spending, NeedsWitness
      <4>2. IsFiniteSet(Spending') /\ Cardinality(Spending') <= Cardinality(Spending)
        BY <3>1, <4>1, FS_Subset
      <4>3. Cardinality(Spending') \in Nat
        BY <4>2, FS_CardinalityType
      <4>4. QED
        BY <1>0, <2>3, <2>4, <2>8, <3>1, <3>2, <4>2, <4>3
    <3>5. QED
      BY <3>3, <3>4
  <2>10. TicksInv'
    BY <2>4, <2>9 DEF TicksInv
  <2>11. QED
    BY <2>5, <2>6, <2>7, <2>10 DEF HistoryInv
<1>11. QED
  BY <1>7, <1>8, <1>9, <1>10 DEF Gate

\* create() commits: a history of one event, which is not an execution.
LEMMA HistoryCommitCreate ==
  ASSUME StoreInv, HistoryInv, TypeOK', NEW p \in Proc, CommitCreate(p)
  PROVE  HistoryInv'
<1> DEFINE c == call[p].cid
           new == call[p].upd
<1>1. /\ c \in ContractId /\ ~Stored(c)
      /\ \A q \in Proc : q # p => call[q].cid # c
  BY DEF StoreInv, CommitCreate, CreateFresh
<1>2. /\ row \in [ContractId -> Row] /\ audit \in [ContractId -> Seq(AuditEvent)]
      /\ call \in [Proc -> Call] /\ audit[c] = <<>>
  BY <1>1 DEF StoreInv, TypeOK, AuditMatchesState
<1>3. /\ row' = [row EXCEPT ![c] = new]
      /\ audit' = [audit EXCEPT ![c] = <<[prev |-> "absent", cur |-> new.state]>>]
      /\ call' = [call EXCEPT ![p] = IdleCall]
      /\ UNCHANGED <<mark, anchor, clock, writer>>
  BY DEF CommitCreate, Leave
<1>4. /\ \A q \in Proc : q # p => call'[q] = call[q]
      /\ call'[p] = IdleCall
      /\ audit'[c] = <<[prev |-> "absent", cur |-> new.state]>>
      /\ \A d \in ContractId : d # c => audit'[d] = audit[d] /\ row'[d] = row[d]
  BY <1>1, <1>2, <1>3
<1>5. IdleCall.phase = "idle"
  BY DEF IdleCall
<1> HIDE DEF c, new
<1>6. Len(audit'[c]) = 1 /\ audit'[c][1].prev = "absent" /\ Len(audit[c]) = 0
  BY <1>2, <1>4
<1>7. ResolutionFitsOrigin'
  <2> SUFFICES ASSUME NEW d \in ContractId, NEW i \in 2..Len(audit'[d]),
                      audit'[d][i].prev = "reconciliation", audit'[d][i].cur # "reconciliation"
               PROVE  FitsOrigin(audit'[d][i-1].prev, audit'[d][i].cur)
    BY DEF ResolutionFitsOrigin, FitsOrigin
  <2>1. d # c
    BY <1>6
  <2>2. QED
    BY <1>4, <2>1 DEF HistoryInv, ResolutionFitsOrigin, FitsOrigin
<1>8. \A q \in Proc : GateHeld(q)'
  BY <1>3, <1>4, <1>5, GatesKept
<1>9. ASSUME NEW q \in Proc PROVE ResolvesFit(q)' /\ CreateClock(q)'
  <2>1. CASE q = p
    <3>1. ResolvesFit(p)' /\ CreateClock(p)'
      BY <1>4, <1>5 DEF ResolvesFit, CreateClock, MidPhase
    <3>2. QED
      BY <2>1, <3>1
  <2>2. CASE q # p
    <3>1. CreateClock(q)'
      BY <1>3, <1>4, <2>2 DEF HistoryInv, CreateClock
    <3>2. SUFFICES ASSUME call[q].phase \in MidPhase PROVE ResolvesFit(q)'
      BY <1>4, <2>2, <3>1 DEF ResolvesFit
    <3>3. call[q].cid \in ContractId /\ call[q].cid # c
      BY <1>1, <2>2, <3>2 DEF StoreInv, CallFresh, c
    <3>4. ResolvesFit(q)'
      BY <1>4, <2>2, <3>3 DEF HistoryInv, ResolvesFit, UncertaintyBoundary
    <3>5. QED
      BY <3>1, <3>4
  <2>3. QED
    BY <2>1, <2>2
<1>10. HighExecutions' = HighExecutions
  <2>1. ASSUME NEW i PROVE <<c, i>> \notin HighExecutions /\ <<c, i>> \notin HighExecutions'
    BY <1>6 DEF HighExecutions
  <2>2. ASSUME NEW d \in ContractId, d # c, NEW i
        PROVE  <<d, i>> \in HighExecutions <=> <<d, i>> \in HighExecutions'
    BY <1>4, <2>2 DEF HighExecutions
  <2>3. \A x \in HighExecutions \cup HighExecutions' : \E d \in ContractId, i \in 1..(MaxVersion + 1) : x = <<d, i>>
    BY DEF HighExecutions
  <2>4. QED
    BY <2>1, <2>2, <2>3
<1>11. Spending' = Spending
  <2>1. p \notin Spending /\ p \notin Spending'
    BY <1>4, <1>5 DEF Spending, CommitCreate
  <2>2. QED
    BY <1>4, <2>1 DEF Spending
<1>12. TicksInv'
  BY <1>3, <1>10, <1>11 DEF HistoryInv, TicksInv
<1>13. QED
  BY <1>7, <1>8, <1>9, <1>12 DEF HistoryInv

\* _replace commits: the event it appends leaves RECONCILIATION as its origin
\* allows, and an execution it adds stops being one that is on its way.
LEMMA HistoryReplace ==
  ASSUME StoreInv, HistoryInv, TypeOK', NEW p \in Proc, Replace(p)
  PROVE  HistoryInv'
<1> DEFINE c == call[p].cid
           cur == call[p].cur
           upd == call[p].upd
           n == Len(audit[c])
           new == [prev |-> cur.state, cur |-> upd.state]
<1>1. /\ call[p].phase = "replace" /\ c \in ContractId /\ row[c] = cur
      /\ GoodUpdate(cur, upd)
  BY CasMeansFresh DEF Replace, MidPhase
<1>2. /\ row \in [ContractId -> Row] /\ audit \in [ContractId -> Seq(AuditEvent)]
      /\ call \in [Proc -> Call] /\ cur \in Row
  BY DEF StoreInv, TypeOK, Call
<1>3. /\ row' = [row EXCEPT ![c] = upd]
      /\ audit' = [audit EXCEPT ![c] = Append(@, new)]
      /\ call' = [call EXCEPT ![p] = IdleCall]
      /\ UNCHANGED <<mark, anchor, clock, writer>>
  BY DEF Replace, Leave
<1>4. /\ \A q \in Proc : q # p => call'[q] = call[q]
      /\ call'[p] = IdleCall /\ row'[c] = upd
      /\ audit'[c] = Append(audit[c], new)
      /\ \A d \in ContractId : d # c => audit'[d] = audit[d] /\ row'[d] = row[d]
  BY <1>1, <1>2, <1>3
<1>5. IdleCall.phase = "idle" /\ new.prev = cur.state /\ new.cur = upd.state
  BY DEF IdleCall
<1>6. /\ upd.key = cur.key /\ upd.version = cur.version + 1 /\ cur.version \in Nat
      /\ n \in Nat /\ n = cur.version + 1
  BY <1>1, <1>2 DEF GoodUpdate, Row, StoreInv, AuditMatchesState, AuditVerified, Stored
<1>7. ResolvesFit(p) /\ mark \in Nat
  BY DEF HistoryInv, StoreInv, TypeOK
<1>8. UncertaintyBoundary(c) = audit[c][n].prev
  BY DEF UncertaintyBoundary
<1>9. audit[c] \in Seq(AuditEvent)
  BY <1>1, <1>2
<1> HIDE DEF new, n
<1>10. /\ Len(audit'[c]) = n + 1 /\ audit'[c][n + 1] = new
       /\ \A i \in 1..n : audit'[c][i] = audit[c][i]
  BY <1>4, <1>9 DEF n
<1>11. cur.state = "reconciliation" /\ upd.state # "reconciliation"
         => FitsOrigin(audit[c][n].prev, upd.state)
  BY <1>1, <1>7, <1>8 DEF ResolvesFit, MidPhase
<1> HIDE DEF c, cur, upd
<1>12. ResolutionFitsOrigin'
  <2> SUFFICES ASSUME NEW d \in ContractId, NEW i \in 2..Len(audit'[d]),
                      audit'[d][i].prev = "reconciliation", audit'[d][i].cur # "reconciliation"
               PROVE  FitsOrigin(audit'[d][i-1].prev, audit'[d][i].cur)
    BY DEF ResolutionFitsOrigin, FitsOrigin
  <2>1. CASE d # c
    BY <1>4, <2>1 DEF HistoryInv, ResolutionFitsOrigin, FitsOrigin
  <2>2. CASE d = c /\ i = n + 1
    <3>1. audit'[c][i] = new /\ audit'[c][i-1] = audit[c][n]
      BY <1>6, <1>10, <2>2
    <3>2. QED
      BY <1>5, <1>11, <2>2, <3>1
  <2>3. CASE d = c /\ i # n + 1
    <3>1. i \in 2..n /\ i - 1 \in 1..n /\ i \in 1..n
      BY <1>6, <1>10, <2>3
    <3>2. audit'[c][i] = audit[c][i] /\ audit'[c][i-1] = audit[c][i-1]
      BY <1>10, <3>1
    <3>3. i \in 2..Len(audit[c])
      BY <3>1 DEF n
    <3>4. audit[c][i].prev = "reconciliation" /\ audit[c][i].cur # "reconciliation"
      BY <2>3, <3>2
    <3>5. FitsOrigin(audit[c][i-1].prev, audit[c][i].cur)
      BY <1>1, <3>3, <3>4 DEF HistoryInv, ResolutionFitsOrigin, FitsOrigin
    <3>6. QED
      BY <2>3, <3>2, <3>5
  <2>4. QED
    BY <2>1, <2>2, <2>3
<1>13. \A q \in Proc : GateHeld(q)'
  BY <1>3, <1>4, <1>5, GatesKept
<1>14. ASSUME NEW q \in Proc PROVE ResolvesFit(q)' /\ CreateClock(q)'
  <2>1. CASE q = p
    <3>1. ResolvesFit(p)' /\ CreateClock(p)'
      BY <1>4, <1>5 DEF ResolvesFit, CreateClock, MidPhase
    <3>2. QED
      BY <2>1, <3>1
  <2>2. CASE q # p
    <3>1. CreateClock(q)'
      BY <1>3, <1>4, <2>2 DEF HistoryInv, CreateClock
    <3>2. SUFFICES ASSUME call[q].phase \in MidPhase PROVE ResolvesFit(q)'
      BY <1>4, <2>2, <3>1 DEF ResolvesFit
    <3>3. call[q].cid \in ContractId /\ Fresh(call[q].cid, call[q].cur)
      BY <3>2 DEF StoreInv, CallFresh
    <3>4. call[q].cur.version \in Nat
      BY <1>2 DEF Call, Row
    <3>5. CASE call[q].cid = c
      <4>1. row'[call[q].cid].version # call[q].cur.version
        BY <1>1, <1>4, <1>6, <3>3, <3>4, <3>5 DEF Fresh
      <4>2. QED
        BY <1>4, <2>2, <4>1 DEF ResolvesFit
    <3>6. CASE call[q].cid # c
      BY <1>4, <2>2, <3>3, <3>6 DEF HistoryInv, ResolvesFit, UncertaintyBoundary
    <3>7. QED
      BY <3>5, <3>6
  <2>3. QED
    BY <2>1, <2>2
<1>15. HighExecutions' \subseteq
         HighExecutions \cup (IF p \in Spending THEN {<<c, n + 1>>} ELSE {})
  <2> SUFFICES ASSUME NEW d \in ContractId, NEW i \in 1..(MaxVersion + 1),
                      <<d, i>> \in HighExecutions', <<d, i>> \notin HighExecutions
               PROVE  p \in Spending /\ d = c /\ i = n + 1
    BY DEF HighExecutions
  <2>1. /\ row'[d].key \in HighAssurance /\ i <= Len(audit'[d])
        /\ audit'[d][i].prev = "prepared" /\ audit'[d][i].cur = "executing"
    BY DEF HighExecutions
  <2>2. d = c
    BY <1>4, <2>1 DEF HighExecutions
  <2>3. row[c].key \in HighAssurance
    BY <1>1, <1>4, <1>6, <2>1, <2>2
  <2>4. i = n + 1
    <3>1. SUFFICES ASSUME i # n + 1 PROVE FALSE
      OBVIOUS
    <3>2. i \in 1..n
      BY <1>6, <1>10, <2>1, <2>2, <3>1
    <3>3. audit[c][i].prev = "prepared" /\ audit[c][i].cur = "executing" /\ i <= Len(audit[c])
      BY <1>10, <2>1, <2>2, <3>2 DEF n
    <3>4. QED
      BY <2>2, <2>3, <3>3 DEF HighExecutions
  <2>5. cur.state = "prepared" /\ upd.state = "executing"
    BY <1>5, <1>10, <2>1, <2>2, <2>4
  <2>6. p \in Spending
    BY <1>1, <2>3, <2>5 DEF Spending, cur, upd
  <2>7. QED
    BY <2>2, <2>4, <2>6
<1>16. Spending' = Spending \ {p}
  <2>1. p \notin Spending'
    BY <1>4, <1>5 DEF Spending
  <2>2. QED
    BY <1>4, <2>1 DEF Spending
<1>17. ASSUME AnchorEnabled
       PROVE  /\ IsFiniteSet(HighExecutions') /\ IsFiniteSet(Spending')
              /\ Cardinality(HighExecutions') + Cardinality(Spending') <= mark
  <2>1. /\ IsFiniteSet(HighExecutions) /\ IsFiniteSet(Spending)
        /\ Cardinality(HighExecutions) + Cardinality(Spending) <= mark
    BY <1>17 DEF HistoryInv, TicksInv
  <2>2. Cardinality(HighExecutions) \in Nat /\ Cardinality(Spending) \in Nat
    BY <2>1, FS_CardinalityType
  <2>3. CASE p \in Spending
    <3>1. IsFiniteSet(Spending') /\ Cardinality(Spending') = Cardinality(Spending) - 1
      BY <1>16, <2>1, <2>3, FS_RemoveElement
    <3>2. /\ IsFiniteSet(HighExecutions \cup {<<c, n + 1>>})
          /\ Cardinality(HighExecutions \cup {<<c, n + 1>>})
               \in {Cardinality(HighExecutions), Cardinality(HighExecutions) + 1}
      BY <2>1, FS_AddElement
    <3>3. HighExecutions' \subseteq HighExecutions \cup {<<c, n + 1>>}
      BY <1>15, <2>3
    <3>4. /\ IsFiniteSet(HighExecutions')
          /\ Cardinality(HighExecutions') <= Cardinality(HighExecutions \cup {<<c, n + 1>>})
      BY <3>2, <3>3, FS_Subset
    <3>5. Cardinality(HighExecutions') \in Nat /\ Cardinality(Spending') \in Nat
      BY <3>1, <3>4, FS_CardinalityType
    <3>6. QED
      BY <1>7, <2>1, <2>2, <3>1, <3>2, <3>4, <3>5
  <2>4. CASE p \notin Spending
    <3>1. Spending' = Spending /\ HighExecutions' \subseteq HighExecutions
      BY <1>15, <1>16, <2>4
    <3>2. /\ IsFiniteSet(HighExecutions')
          /\ Cardinality(HighExecutions') <= Cardinality(HighExecutions)
      BY <2>1, <3>1, FS_Subset
    <3>3. Cardinality(HighExecutions') \in Nat
      BY <3>2, FS_CardinalityType
    <3>4. QED
      BY <1>7, <2>1, <2>2, <3>1, <3>2, <3>3
  <2>5. QED
    BY <2>3, <2>4
<1>18. TicksInv'
  BY <1>3, <1>17 DEF HistoryInv, TicksInv
<1>19. QED
  BY <1>12, <1>13, <1>14, <1>18 DEF HistoryInv

\* The empty store has no history and spent no tick.
LEMMA HistoryInit == Init => HistoryInv
<1> SUFFICES ASSUME Init PROVE HistoryInv
  OBVIOUS
<1>1. \A c \in ContractId : audit[c] = <<>>
  BY DEF Init
<1>2. \A p \in Proc : call[p] = IdleCall
  BY DEF Init
<1>3. IdleCall.phase = "idle"
  BY DEF IdleCall
<1>4. ResolutionFitsOrigin
  BY <1>1 DEF ResolutionFitsOrigin
<1>5. \A p \in Proc : ResolvesFit(p) /\ CreateClock(p) /\ GateHeld(p)
  BY <1>2, <1>3 DEF ResolvesFit, CreateClock, GateHeld, MidPhase
<1>6. HighExecutions = {} /\ Spending = {}
  BY <1>1, <1>2, <1>3 DEF HighExecutions, Spending
<1>7. IsFiniteSet({}) /\ Cardinality({}) = 0
  BY FS_EmptySet
<1>8. TicksInv
  BY <1>6, <1>7 DEF TicksInv, Init
<1>9. QED
  BY <1>4, <1>5, <1>8 DEF HistoryInv

\* Every step of the store preserves the second invariant.
LEMMA HistoryStep == StoreInv /\ HistoryInv /\ [Next]_vars => HistoryInv'
<1> SUFFICES ASSUME StoreInv, HistoryInv, [Next]_vars PROVE HistoryInv'
  OBVIOUS
<1>0. /\ TypeOK /\ TypeOK' /\ call \in [Proc -> Call]
      /\ clock \in Nat /\ anchor \in Nat
  BY TypeStep DEF StoreInv, TypeOK
<1>1. ASSUME NEW p \in Proc, Method(p) PROVE HistoryInv'
  <2>1. PICK c \in ContractId :
          \/ \E k \in IdemKey, e \in 1..(MaxTime + MaxLifetime) :
               e <= clock + MaxLifetime /\ BeginCreate(p, c, k, e)
          \/ \E target \in RecoveryState : BeginTransition(p, c, target)
          \/ BeginExpirePrepared(p, c)
          \/ BeginConfirm(p, c)
          \/ BeginMarkExecutionVerified(p, c)
          \/ BeginMarkRollbackVerified(p, c)
          \/ \E outcome \in ReconciliationOutcome : BeginResolveReconciliation(p, c, outcome)
          \/ BeginRotateArtifacts(p, c)
    BY <1>1 DEF Method
  <2>2. ASSUME NEW k, NEW e, BeginCreate(p, c, k, e) PROVE HistoryInv'
    BY <1>0, <2>2, HistoryBeginCreate
  <2>3. ASSUME \/ \E target \in RecoveryState : BeginTransition(p, c, target)
               \/ BeginExpirePrepared(p, c)
               \/ BeginConfirm(p, c)
               \/ BeginMarkExecutionVerified(p, c)
               \/ BeginMarkRollbackVerified(p, c)
               \/ \E outcome \in ReconciliationOutcome : BeginResolveReconciliation(p, c, outcome)
               \/ BeginRotateArtifacts(p, c)
        PROVE  HistoryInv'
    BY <1>0, <2>3, MethodsStartWell, HistoryStart
  <2>4. QED
    BY <2>1, <2>2, <2>3
<1>2. ASSUME NEW p \in Proc, Gate(p) PROVE HistoryInv'
  BY <1>0, <1>2, HistoryGate
<1>3. ASSUME NEW p \in Proc, RefuseCreate(p) \/ RefuseReplace(p) PROVE HistoryInv'
  <2>1. UNCHANGED <<row, audit, mark, anchor, clock, writer>> /\ Leave(p)
    BY <1>3 DEF RefuseCreate, RefuseReplace, tables
  <2>2. \A q \in Proc : call'[q] = call[q] \/ call'[q] = IdleCall
    BY <1>0, <2>1 DEF Leave
  <2>3. \A q \in Proc : GateHeld(q)'
    BY <2>1, <2>2, GatesKept DEF IdleCall
  <2>4. clock' >= clock /\ anchor' >= anchor
    BY <1>0, <2>1
  <2>5. QED
    BY <1>0, <2>1, <2>2, <2>3, <2>4, HistoryQuiet
<1>4. ASSUME NEW p \in Proc, Crash(p) PROVE HistoryInv'
  <2>1. /\ UNCHANGED <<row, audit, mark, anchor, clock>>
        /\ \A q \in Proc : q # p => call'[q] = call[q]
        /\ call'[p] = IdleCall
        /\ writer' = IF writer = p THEN NoProc ELSE writer
    BY <1>0, <1>4 DEF Crash, tables, Leave
  <2>2. ASSUME NEW q \in Proc PROVE GateHeld(q)'
    <3>1. CASE q = p
      BY <2>1, <3>1 DEF GateHeld, IdleCall
    <3>2. CASE q # p
      BY <2>1, <3>2 DEF HistoryInv, GateHeld, NeedsWitness
    <3>3. QED
      BY <3>1, <3>2
  <2>3. clock' >= clock /\ anchor' >= anchor
    BY <1>0, <2>1
  <2>4. QED
    BY <1>0, <2>1, <2>2, <2>3, HistoryQuiet
<1>5. ASSUME UNCHANGED <<row, audit, mark, anchor, call, writer>>, clock' >= clock
      PROVE  HistoryInv'
  <2>1. \A q \in Proc : GateHeld(q)'
    BY <1>5, GatesKept
  <2>2. QED
    BY <1>0, <1>5, <2>1, HistoryQuiet
<1>6. ASSUME NEW r \in Reader, ReaderStep(r) PROVE HistoryInv'
  <2>1. UNCHANGED <<row, audit, mark, anchor, call, writer, clock>>
    BY <1>6 DEF ReaderStep, LoadRow, LoadReservation, LoadAudit, LoadDone, tables
  <2>2. QED
    BY <1>0, <1>5, <2>1
<1>7. CASE Tick
  BY <1>0, <1>5, <1>7 DEF Tick, tables
<1>8. CASE UNCHANGED vars
  BY <1>0, <1>5, <1>8 DEF vars
<1>9. ASSUME NEW p \in Proc, Commit(p) PROVE HistoryInv'
  BY <1>0, <1>3, <1>9, HistoryCommitCreate, HistoryReplace DEF Commit
<1>10. QED
  BY <1>1, <1>2, <1>4, <1>6, <1>7, <1>8, <1>9 DEF Next

\* The second invariant holds in every reachable state of the store.
THEOREM HistoryInvariant == Spec => []HistoryInv
  BY HistoryInit, HistoryStep, StoreInvariant, PTL DEF Spec

\* An operator's conclusion about a contract in RECONCILIATION always fits what
\* was interrupted, forward write or rollback, whatever rotations and stale
\* updates raced with it (resolve_reconciliation).
THEOREM ConclusionsFitTheOrigin == Spec => []ResolutionFitsOrigin
<1>1. HistoryInv => ResolutionFitsOrigin
  BY DEF HistoryInv
<1>2. QED
  BY <1>1, HistoryInvariant, PTL

\* Every high-assurance execution on record spent an anchor tick of its own, and
\* the store's mark never runs ahead of the anchor, through lost replies,
\* crashes and refusals between witness call and commit
\* (before_executing_transition).
THEOREM EveryExecutionSpendsATick == Spec => []ExecutionsSpendTicks
<1>1. StoreInv /\ HistoryInv => ExecutionsSpendTicks
  <2> SUFFICES ASSUME StoreInv, HistoryInv, AnchorEnabled
               PROVE  Cardinality(HighExecutions) <= mark /\ mark <= anchor
    BY DEF ExecutionsSpendTicks
  <2>1. /\ IsFiniteSet(HighExecutions) /\ IsFiniteSet(Spending)
        /\ Cardinality(HighExecutions) + Cardinality(Spending) <= mark /\ mark <= anchor
    BY DEF HistoryInv, TicksInv
  <2>2. Cardinality(HighExecutions) \in Nat /\ Cardinality(Spending) \in Nat /\ mark \in Nat
    BY <2>1, FS_CardinalityType DEF StoreInv, TypeOK
  <2>3. QED
    BY <2>1, <2>2
<1>2. QED
  BY <1>1, StoreInvariant, HistoryInvariant, PTL

\* A contract is created outside its target's cooldown, outside the lockout and
\* within the limit of PREPARED contracts for its target as of the commit,
\* although create() read the clock before its transaction.
THEOREM ContainmentHoldsAtCommit == Spec => CreationRespectsContainment
<1> DEFINE Contained ==
      \A c \in ContractId :
        RateEnabled /\ row[c].state = "absent" /\ row'[c].state # "absent" =>
          /\ clock >= cooldown[TargetOfRow(row'[c])]
          /\ Cardinality(PreparedFor(TargetOfRow(row'[c]))) < MaxPrepared
          /\ Cardinality(InState({"reconciliation"})) < LockoutThreshold
<1>1. ASSUME StoreInv, HistoryInv, [Next]_vars PROVE [Contained]_vars
  <2>1. ASSUME NEW p \in Proc, Replace(p) PROVE Contained
    <3>1. /\ call[p].cid \in ContractId /\ row[call[p].cid] = call[p].cur
          /\ GoodUpdate(call[p].cur, call[p].upd)
      BY <1>1, <2>1, CasMeansFresh DEF Replace, MidPhase
    <3>2. row \in [ContractId -> Row] /\ row' = [row EXCEPT ![call[p].cid] = call[p].upd]
      BY <1>1, <2>1 DEF StoreInv, TypeOK, Replace
    <3>3. QED
      BY <3>1, <3>2 DEF GoodUpdate
  <2>2. ASSUME NEW p \in Proc, CommitCreate(p) PROVE Contained
    <3> SUFFICES ASSUME NEW c \in ContractId, RateEnabled,
                        row[c].state = "absent", row'[c].state # "absent"
                 PROVE  /\ clock >= cooldown[TargetOfRow(row'[c])]
                        /\ Cardinality(PreparedFor(TargetOfRow(row'[c]))) < MaxPrepared
                        /\ Cardinality(InState({"reconciliation"})) < LockoutThreshold
      OBVIOUS
    <3>1. /\ row \in [ContractId -> Row] /\ row' = [row EXCEPT ![call[p].cid] = call[p].upd]
          /\ call[p].at <= clock /\ call[p].at \in Nat /\ clock \in Nat /\ call[p].upd \in Row
          /\ cooldown \in [Target -> Nat]
      BY <1>1, <2>2 DEF StoreInv, TypeOK, CommitCreate, HistoryInv, CreateClock, Call
    <3>2. c = call[p].cid /\ row'[c] = call[p].upd
      BY <3>1
    <3>3. /\ call[p].at >= cooldown[TargetOfRow(call[p].upd)]
          /\ Cardinality(PreparedFor(TargetOfRow(call[p].upd))) < MaxPrepared
          /\ Cardinality(InState({"reconciliation"})) < LockoutThreshold
      BY <2>2 DEF CommitCreate, CheckPrepareAllowed
    <3>4. TargetOfRow(call[p].upd) \in Target
      BY <3>1, StoreAssumption DEF TargetOfRow, Row
    <3>5. cooldown[TargetOfRow(call[p].upd)] \in Nat
      BY <3>1, <3>4
    <3>6. TargetOfRow(row'[c]) = TargetOfRow(call[p].upd)
      BY <3>2 DEF TargetOfRow
    <3>7. QED
      BY <3>1, <3>3, <3>5, <3>6
  <2>3. ASSUME row' = row PROVE Contained
    BY <2>3
  <2>4. \/ \E p \in Proc : Replace(p) \/ CommitCreate(p)
        \/ row' = row
    BY <1>1, WhoWritesRows
  <2>5. QED
    BY <2>1, <2>2, <2>3, <2>4
<1>2. QED
  BY <1>1, StoreInvariant, HistoryInvariant, PTL DEF Spec, CreationRespectsContainment

----------------------------------------------------------------------------
(* A doubt can be resolved, unless its artifacts were rotated *)

\* A method that is going to write a contract in doubt takes it out of doubt.
EndsDoubt(p) ==
  call[p].phase \in MidPhase /\ call[p].cur.state = "reconciliation" =>
    call[p].upd.state # "reconciliation"

DoubtInv == (\A p \in Proc : EndsDoubt(p)) /\ ReconciliationResolvable

\* A call under way in a method on an existing contract started well just now
\* or was under way with the same two rows.
CallComesFrom(q) ==
  \/ call'[q].phase \notin MidPhase
  \/ call[q].phase \in MidPhase /\ call'[q].cur = call[q].cur /\ call'[q].upd = call[q].upd
  \/ \E c \in ContractId : StartsWell(q, c)

LEMMA CallsComeFrom ==
  ASSUME StoreInv, [Next]_vars, NEW q \in Proc PROVE CallComesFrom(q)
<1>0. call \in [Proc -> Call] /\ TypeOK
  BY DEF StoreInv, TypeOK
<1>1. CASE UNCHANGED call
  BY <1>1 DEF CallComesFrom
<1>2. ASSUME NEW p \in Proc, Leave(p) PROVE CallComesFrom(q)
  BY <1>0, <1>2 DEF Leave, IdleCall, CallComesFrom, MidPhase
<1>3. ASSUME NEW p \in Proc, NEW c \in ContractId, NEW k, NEW e, BeginCreate(p, c, k, e)
      PROVE  CallComesFrom(q)
  <2> DEFINE new == [IdleCall EXCEPT !.phase = "create", !.cid = c, !.upd = NewRow(k, e), !.at = clock]
  <2>1. call' = [call EXCEPT ![p] = new] /\ new.phase = "create"
    BY <1>3 DEF BeginCreate, IdleCall
  <2> HIDE DEF new
  <2>2. QED
    BY <1>0, <2>1 DEF CallComesFrom, MidPhase
<1>4. ASSUME NEW p \in Proc, NEW c \in ContractId, StartsWell(p, c) PROVE CallComesFrom(q)
  <2>1. CASE q = p
    BY <1>4, <2>1 DEF CallComesFrom
  <2>2. CASE q # p
    BY <1>0, <1>4, <2>2 DEF CallComesFrom, StartsWell, Start
  <2>3. QED
    BY <2>1, <2>2
<1>5. ASSUME NEW p \in Proc, Method(p) PROVE CallComesFrom(q)
  BY <1>0, <1>3, <1>4, <1>5, MethodsStartWell DEF Method
<1>6. ASSUME NEW p \in Proc, OpenGate(p) \/ AdvanceAnchor(p) \/ CommitGate(p) PROVE CallComesFrom(q)
  <2>1. CASE q = p
    BY <1>0, <1>6, <2>1 DEF OpenGate, AdvanceAnchor, CommitGate, CallComesFrom, MidPhase, Call
  <2>2. CASE q # p
    BY <1>0, <1>6, <2>2 DEF OpenGate, AdvanceAnchor, CommitGate, CallComesFrom
  <2>3. QED
    BY <2>1, <2>2
<1>7. ASSUME NEW p \in Proc, Gate(p) \/ Commit(p) \/ Crash(p) PROVE CallComesFrom(q)
  BY <1>2, <1>6, <1>7 DEF Gate, Commit, Crash, DetectRollback, AnchorUnavailable, RefuseGate,
     CommitCreate, RefuseCreate, Replace, RefuseReplace
<1>8. ASSUME NEW r \in Reader, ReaderStep(r) PROVE CallComesFrom(q)
  BY <1>1, <1>8 DEF ReaderStep, LoadRow, LoadReservation, LoadAudit, LoadDone
<1>9. Tick \/ UNCHANGED vars => CallComesFrom(q)
  BY <1>1 DEF Tick, vars
<1>10. QED
  BY <1>5, <1>7, <1>8, <1>9 DEF Next

LEMMA DoubtInit == Init => DoubtInv
<1>1. Init => \A p \in Proc : EndsDoubt(p)
  BY DEF Init, EndsDoubt, IdleCall, MidPhase
<1>2. Init => ReconciliationResolvable
  BY DEF Init, ReconciliationResolvable, BlankRow
<1>3. QED
  BY <1>1, <1>2 DEF DoubtInv

LEMMA DoubtStep ==
  ASSUME ~RotationEnabled, StoreInv, DoubtInv, [Next]_vars PROVE DoubtInv'
<1>0. row \in [ContractId -> Row] /\ call \in [Proc -> Call] /\ audit \in [ContractId -> Seq(AuditEvent)]
  BY DEF StoreInv, TypeOK
<1>1. ASSUME NEW q \in Proc PROVE EndsDoubt(q)'
  <2>1. CASE \E c \in ContractId : StartsWell(q, c)
    <3>1. PICK c \in ContractId, phase \in {"gate", "replace"}, upd \in Row :
            /\ Start(q, c, phase, upd)
            /\ row[c].state = "reconciliation" => upd.state # "reconciliation"
      BY <2>1 DEF StartsWell
    <3>2. call'[q].cur = row[c] /\ call'[q].upd = upd
      BY <1>0, <3>1 DEF Start
    <3>3. QED
      BY <3>1, <3>2 DEF EndsDoubt
  <2>2. CASE ~\E c \in ContractId : StartsWell(q, c)
    BY <2>2, CallsComeFrom DEF CallComesFrom, EndsDoubt, DoubtInv
  <2>3. QED
    BY <2>1, <2>2
<1>2. ASSUME NEW p \in Proc, Replace(p) PROVE ReconciliationResolvable'
  <2> DEFINE cur == call[p].cur
             upd == call[p].upd
             event == [prev |-> cur.state, cur |-> upd.state]
  <2>1. PICK c \in ContractId :
          /\ c = call[p].cid /\ row[c] = cur /\ GoodUpdate(cur, upd)
          /\ cur.state = "reconciliation" => upd.state # "reconciliation"
    BY <1>2, CasMeansFresh DEF Replace, MidPhase, DoubtInv, EndsDoubt
  <2>2. /\ row' = [row EXCEPT ![c] = upd]
        /\ audit' = [audit EXCEPT ![c] = Append(audit[c], event)]
    BY <1>2, <2>1 DEF Replace
  <2>3. audit'[c] = Append(audit[c], event) /\ audit[c] \in Seq(AuditEvent)
    BY <1>0, <2>1, <2>2
  <2>4. Len(audit'[c]) = Len(audit[c]) + 1 /\ audit'[c][Len(audit[c]) + 1] = event
    <3> HIDE DEF event
    <3>1. QED
      BY <2>3
  <2>5. UncertaintyBoundary(c)' = cur.state
    BY <2>4 DEF UncertaintyBoundary
  <2>6. upd.state = "reconciliation" => OutcomesFor(cur.state) # {}
    BY <2>1 DEF GoodUpdate, RequireTransition, AutomaticTransitions, ManualTransitions, OutcomesFor,
       ForwardOutcomes, RollbackOutcomes
  <2>7. ASSUME NEW d \in ContractId, row'[d].state = "reconciliation"
        PROVE  OutcomesFor(UncertaintyBoundary(d)') # {}
    <3>1. CASE d = c
      BY <1>0, <2>2, <2>5, <2>6, <2>7, <3>1
    <3>2. CASE d # c
      BY <1>0, <2>2, <2>7, <3>2 DEF DoubtInv, ReconciliationResolvable, UncertaintyBoundary
    <3>3. QED
      BY <3>1, <3>2
  <2>8. QED
    BY <2>7 DEF ReconciliationResolvable, UncertaintyBoundary
<1>3. ASSUME NEW p \in Proc, CommitCreate(p) PROVE ReconciliationResolvable'
  <2>1. /\ call[p].cid \in ContractId /\ call[p].upd.state = "preparing"
        /\ row' = [row EXCEPT ![call[p].cid] = call[p].upd]
        /\ \A d \in ContractId : d # call[p].cid => audit'[d] = audit[d]
    BY <1>0, <1>3 DEF StoreInv, CommitCreate, CreateFresh
  <2>2. QED
    BY <1>0, <2>1 DEF DoubtInv, ReconciliationResolvable, UncertaintyBoundary
<1>4. ASSUME row' = row, audit' = audit PROVE ReconciliationResolvable'
  BY <1>4 DEF DoubtInv, ReconciliationResolvable, UncertaintyBoundary
<1>5. ReconciliationResolvable'
  BY <1>2, <1>3, <1>4, WhoWritesRows
<1>6. QED
  BY <1>1, <1>5 DEF DoubtInv

\* A contract in RECONCILIATION accepts some outcome from the operator, always,
\* if its artifacts are not rotated: resolve_reconciliation takes the origin of
\* the doubt from the last audit event, and rotate_artifacts is the only method
\* that appends one while the doubt stays.
THEOREM ResolvableUnlessRotated ==
  ASSUME ~RotationEnabled PROVE Spec => []ReconciliationResolvable
<1>1. StoreInv /\ DoubtInv /\ [Next]_vars => DoubtInv'
  BY DoubtStep
<1>2. DoubtInv => ReconciliationResolvable
  BY DEF DoubtInv
<1>3. QED
  BY <1>1, <1>2, DoubtInit, StoreInvariant, PTL DEF Spec
=============================================================================
