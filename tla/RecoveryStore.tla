--------------------------- MODULE RecoveryStore ---------------------------
(***************************************************************************)
(* SqliteRecoveryContractStore: the authoritative table of Recovery        *)
(* Contracts, the per-target reservation table, the audit history, the     *)
(* rate policy and the anti-rollback high-water mark.                      *)
(*                                                                         *)
(* Every mutating method has the same shape.  It loads the contract and    *)
(* checks it (one read), builds the updated contract in memory, and then   *)
(* commits it with a compare-and-set transaction (_replace).  Several      *)
(* processes share the file (a server, a second server, the operator's     *)
(* tools), so the two halves of a method are separate steps here, and so   *)
(* are the gate transaction of PREPARED -> EXECUTING, the witness call     *)
(* inside it, and its commit.                                              *)
(***************************************************************************)
EXTENDS Integers, Sequences, FiniteSets, RecoveryStates

CONSTANTS
  ContractId,        \* identifiers a contract may be created under
  IdemKey,           \* idempotency keys
  Target,            \* canonical targets (target_identity_digest)
  TargetOf,          \* the target an idempotency key was derived from
  HighAssurance,     \* the keys of HIGH_ASSURANCE_TIER1 operations
  Proc,              \* processes that use the store
  Reader,            \* processes that only load contracts
  NoContract, NoProc,
  RateEnabled,       \* a RatePolicy is configured
  AnchorEnabled,     \* an AntiRollbackAnchor is configured
  RotationEnabled,   \* the owner may run key rotation
  MaxPrepared, MaxInFlight, CooldownTicks, LockoutThreshold,  \* RateLimits
  MaxLifetime,       \* the longest validity window of a contract
  MaxTime, MaxVersion, MaxAnchor   \* bounds on clock, state_version, anchor

ASSUME StoreAssumption ==
  /\ IdemKey # {}
  /\ TargetOf \in [IdemKey -> Target]
  /\ HighAssurance \subseteq IdemKey
  /\ NoContract \notin ContractId
  /\ NoProc \notin Proc
  /\ RateEnabled \in BOOLEAN /\ AnchorEnabled \in BOOLEAN
  /\ RotationEnabled \in BOOLEAN
  /\ MaxPrepared \in Nat /\ MaxInFlight \in Nat
  /\ CooldownTicks \in Nat /\ LockoutThreshold \in Nat
  /\ MaxLifetime \in Nat
  /\ MaxTime \in Nat /\ MaxVersion \in Nat /\ MaxAnchor \in Nat

VARIABLES
  row,          \* contracts table; state "absent" when there is no row
  reservation,  \* target_reservations table
  audit,        \* audit_events, per contract, in state_version order
  cooldown,     \* rate_cooldowns: the instant until which a target rests
  mark,         \* the persisted anchor high-water mark
  anchor,       \* the external monotonic anchor
  clock,        \* the store's clock
  call,         \* per process: the store method it is inside
  writer,       \* the process holding SQLite's write lock across a gate
  load          \* per reader: the load() it is inside

vars == <<row, reservation, audit, cooldown, mark, anchor, clock, call, writer, load>>

----------------------------------------------------------------------------
(* Data *)

Row == [key       : IdemKey,
        state     : RecoveryState \cup {"absent"},
        version   : Nat,
        confirmed : BOOLEAN,
        expires   : Nat,
        sealed    : BOOLEAN]     \* verified_target_fingerprint is set

BlankRow == [key |-> CHOOSE k \in IdemKey : TRUE, state |-> "absent", version |-> 0,
             confirmed |-> FALSE, expires |-> 0, sealed |-> FALSE]

AuditEvent == [prev : RecoveryState \cup {"absent"}, cur : RecoveryState]

Phase == {"idle", "create", "gate", "advance", "rate", "replace"}

\* A method in progress: the row it loaded, the row it means to write, the
\* instant it read, and the mark its gate transaction has not committed yet.
Call == [phase : Phase, cid : ContractId \cup {NoContract},
         cur : Row, upd : Row, at : Nat, mark : Nat]

IdleCall == [phase |-> "idle", cid |-> NoContract, cur |-> BlankRow,
             upd |-> BlankRow, at |-> 0, mark |-> 0]

LoadPhase == {"idle", "row", "reservation", "returned", "refused"}

Load == [phase : LoadPhase, cid : ContractId \cup {NoContract}, cur : Row]

IdleLoad == [phase |-> "idle", cid |-> NoContract, cur |-> BlankRow]

Stored(c) == row[c].state # "absent"

TargetOfRow(r) == TargetOf[r.key]

\* is_expired
Expired(r, now) == now >= r.expires

\* The rule of RecoveryContract.__post_init__ relating state and fingerprint.
SealConsistent(r) ==
  /\ r.state \in {"preparing", "prepared", "executing"} => ~r.sealed
  /\ r.state \in {"verified", "rolling_back"} => r.sealed

----------------------------------------------------------------------------
(* Rate policy *)

InState(S) == {c \in ContractId : row[c].state \in S}

PreparedFor(t) == {c \in InState({"prepared"}) : TargetOfRow(row[c]) = t}

\* Mutant: the cooldown is not consulted.
PrepareIgnoresCooldown(t, now) ==
  RateEnabled =>
    /\ Cardinality(InState({"reconciliation"})) < LockoutThreshold
    /\ Cardinality(PreparedFor(t)) < MaxPrepared

\* check_prepare_allowed
CheckPrepareAllowed(t, now) ==
  RateEnabled =>
    /\ Cardinality(InState({"reconciliation"})) < LockoutThreshold
    /\ Cardinality(PreparedFor(t)) < MaxPrepared
    /\ now >= cooldown[t]

\* check_execute_allowed
CheckExecuteAllowed ==
  RateEnabled => Cardinality(InState(InFlightStates)) < MaxInFlight

\* record_terminal, called by _replace for is_cooldown_state(updated.state).
RecordTerminal(upd) ==
  cooldown' = IF RateEnabled /\ upd.state \in CooldownStates
              THEN [cooldown EXCEPT ![TargetOfRow(upd)] = clock + CooldownTicks]
              ELSE cooldown

----------------------------------------------------------------------------
Init ==
  /\ row = [c \in ContractId |-> BlankRow]
  /\ reservation = [t \in Target |-> NoContract]
  /\ audit = [c \in ContractId |-> <<>>]
  /\ cooldown = [t \in Target |-> 0]
  /\ mark = 0
  /\ anchor = 0
  /\ clock = 0
  /\ call = [p \in Proc |-> IdleCall]
  /\ writer = NoProc
  /\ load = [r \in Reader |-> IdleLoad]

tables == <<row, reservation, audit, cooldown>>

Idle(p) == call[p].phase = "idle"

\* A method returns or raises: the process keeps nothing of it.
Leave(p) == call' = [call EXCEPT ![p] = IdleCall]

\* BEGIN IMMEDIATE: the write lock is free.
CanWrite == writer = NoProc

----------------------------------------------------------------------------
(* create / create_authorized *)

NewRow(k, expires) ==
  [key |-> k, state |-> "preparing", version |-> 0, confirmed |-> FALSE,
   expires |-> expires, sealed |-> FALSE]

\* The checks create() makes before its transaction, on the clock it reads.
BeginCreate(p, c, k, expires) ==
  /\ Idle(p)
  /\ ~Stored(c) /\ \A q \in Proc : call[q].cid # c
  /\ clock < expires
  /\ call' = [call EXCEPT ![p] = [IdleCall EXCEPT !.phase = "create", !.cid = c,
                                    !.upd = NewRow(k, expires), !.at = clock]]
  /\ UNCHANGED <<tables, mark, anchor, clock, writer, load>>

\* Mutant: the index forgets that an applied change blocks its key.
KeyBlockedUnlessVerified(k) ==
  \E c \in ContractId : row[c].key = k /\ row[c].state \in BlockingStates \ {"verified"}

\* The partial unique index on idempotency_key over the blocking states.
KeyBlocked(k) == \E c \in ContractId : row[c].key = k /\ row[c].state \in BlockingStates

CommitCreate(p) ==
  LET c == call[p].cid
      new == call[p].upd
  IN  /\ call[p].phase = "create"
      /\ CanWrite
      /\ CheckPrepareAllowed(TargetOfRow(new), call[p].at)
      /\ ~KeyBlocked(new.key)
      /\ row' = [row EXCEPT ![c] = new]
      /\ audit' = [audit EXCEPT ![c] = <<[prev |-> "absent", cur |-> new.state]>>]
      /\ Leave(p)
      /\ UNCHANGED <<reservation, cooldown, mark, anchor, clock, writer, load>>

\* RateLimitExceededError, or ContractConflictError from the unique index.
RefuseCreate(p) ==
  LET new == call[p].upd
  IN  /\ call[p].phase = "create"
      /\ CanWrite
      /\ CheckPrepareAllowed(TargetOfRow(new), call[p].at) => KeyBlocked(new.key)
      /\ Leave(p)
      /\ UNCHANGED <<tables, mark, anchor, clock, writer, load>>

----------------------------------------------------------------------------
(* The first half of every method on an existing contract: load and check. *)

Start(p, c, phase, upd) ==
  /\ Idle(p)
  /\ row[c].version < MaxVersion
  /\ call' = [call EXCEPT ![p] = [phase |-> phase, cid |-> c, cur |-> row[c],
                                    upd |-> upd, at |-> 0, mark |-> 0]]
  /\ UNCHANGED <<tables, mark, anchor, clock, writer, load>>

Next1(r, state) == [r EXCEPT !.state = state, !.version = @ + 1]

\* Mutant: EXECUTING is checked for expiry but not for confirmation.
TransitionWithoutConfirmation(r, target) ==
  /\ RequireTransition(r.state, target, FALSE)
  /\ target \notin {"verified", "rolled_back"}
  /\ r.state \in {"preparing", "prepared"} /\ Expired(r, clock) => target = "expired"

\* The checks transition() makes on the row it loaded.
TransitionAllowed(r, target) ==
  /\ RequireTransition(r.state, target, FALSE)
  /\ target \notin {"verified", "rolled_back"}
  /\ r.state \in {"preparing", "prepared"} /\ Expired(r, clock) => target = "expired"
  /\ target = "executing" => r.confirmed /\ ~Expired(r, clock)

\* transition(); EXPIRED is requested by expire_prepared alone.
BeginTransition(p, c, target) ==
  /\ target # "expired"
  /\ TransitionAllowed(row[c], target)
  /\ Start(p, c,
           IF target = "executing" /\ (AnchorEnabled \/ RateEnabled)
             THEN "gate" ELSE "replace",
           Next1(row[c], target))

BeginExpirePrepared(p, c) ==
  /\ row[c].state = "prepared"
  /\ ~row[c].confirmed
  /\ Expired(row[c], clock)
  /\ TransitionAllowed(row[c], "expired")
  /\ Start(p, c, "replace", Next1(row[c], "expired"))

\* with_confirmation
Confirmed(r) == [r EXCEPT !.confirmed = TRUE, !.version = @ + 1]

BeginConfirm(p, c) ==
  /\ row[c].state = "prepared"
  /\ ~row[c].confirmed
  /\ ~Expired(row[c], clock)
  /\ Start(p, c, "replace", Confirmed(row[c]))

BeginMarkExecutionVerified(p, c) ==
  /\ row[c].state = "executing"
  /\ Start(p, c, "replace", [Next1(row[c], "verified") EXCEPT !.sealed = TRUE])

BeginMarkRollbackVerified(p, c) ==
  /\ row[c].state = "rolling_back"
  /\ Start(p, c, "replace", Next1(row[c], "rolled_back"))

\* The state the last audit event left: what the operator was uncertain about.
UncertaintyBoundary(c) == audit[c][Len(audit[c])].prev

\* Mutant: the evidence's fingerprint is not stored.
ResolvedUnsealed(r, outcome) == Next1(r, OutcomeTargetState[outcome])

\* Only CONFIRMED_APPLIED brings a fingerprint; the others keep what is there.
Resolved(r, outcome) ==
  [Next1(r, OutcomeTargetState[outcome]) EXCEPT !.sealed = @ \/ outcome = "confirmed_applied"]

BeginResolveReconciliation(p, c, outcome) ==
  /\ row[c].state = "reconciliation"
  /\ outcome \in OutcomesFor(UncertaintyBoundary(c))
  /\ RequireTransition(row[c].state, OutcomeTargetState[outcome], TRUE)
  /\ Start(p, c, "replace", Resolved(row[c], outcome))

\* rotate_artifacts: the artifacts change, and with them only the version.
Rotated(r) == [r EXCEPT !.version = @ + 1]

BeginRotateArtifacts(p, c) ==
  /\ RotationEnabled
  /\ Stored(c)
  /\ Start(p, c, "replace", Rotated(row[c]))

----------------------------------------------------------------------------
(* The gate transaction of PREPARED -> EXECUTING *)

\* Mutant: the security class is ignored.
NeverNeedsWitness(p) == FALSE

NeedsWitness(p) == AnchorEnabled /\ call[p].cur.key \in HighAssurance

\* BEGIN IMMEDIATE, then anchor.read() equals the persisted mark.
OpenGate(p) ==
  /\ call[p].phase = "gate"
  /\ CanWrite
  /\ NeedsWitness(p) => anchor = mark
  /\ writer' = p
  /\ call' = [call EXCEPT ![p].phase = IF NeedsWitness(p) THEN "advance" ELSE "rate",
                          ![p].mark = mark]
  /\ UNCHANGED <<tables, mark, anchor, clock, load>>

\* anchor.read() differs from the mark: WholeStoreRollbackDetected.
DetectRollback(p) ==
  /\ call[p].phase = "gate"
  /\ CanWrite
  /\ NeedsWitness(p) /\ anchor # mark
  /\ Leave(p)
  /\ UNCHANGED <<tables, mark, anchor, clock, writer, load>>

\* anchor.advance() succeeds; the new mark is written inside the transaction.
AdvanceAnchor(p) ==
  /\ call[p].phase = "advance"
  /\ anchor < MaxAnchor
  /\ anchor' = anchor + 1
  /\ call' = [call EXCEPT ![p].phase = "rate", ![p].mark = anchor + 1]
  /\ UNCHANGED <<tables, mark, clock, writer, load>>

\* AnchorUnavailableError from read() or advance(): the request was lost, or
\* only the reply of an advance that took effect.
AnchorUnavailable(p) ==
  /\ \/ call[p].phase = "gate" /\ CanWrite /\ NeedsWitness(p) /\ anchor' = anchor
     \/ call[p].phase = "advance" /\ anchor' \in {anchor, anchor + 1} /\ anchor' <= MaxAnchor
  /\ writer' = NoProc
  /\ Leave(p)
  /\ UNCHANGED <<tables, mark, clock, load>>

CommitGate(p) ==
  /\ call[p].phase = "rate"
  /\ CheckExecuteAllowed
  /\ mark' = call[p].mark
  /\ writer' = NoProc
  /\ call' = [call EXCEPT ![p].phase = "replace", ![p].mark = 0]
  /\ UNCHANGED <<tables, anchor, clock, load>>

\* RateLimitExceededError rolls the gate transaction back, the mark with it.
RefuseGate(p) ==
  /\ call[p].phase = "rate"
  /\ ~CheckExecuteAllowed
  /\ writer' = NoProc
  /\ Leave(p)
  /\ UNCHANGED <<tables, mark, anchor, clock, load>>

----------------------------------------------------------------------------
(* _replace: compare-and-set, reservation, audit event and cooldown at once. *)

\* Mutant: compare-and-set on the state column alone.
CompareStateOnly(p) == row[call[p].cid].state = call[p].cur.state

CompareAndSet(p) ==
  LET c == call[p].cid
  IN  row[c].state = call[p].cur.state /\ row[c].version = call[p].cur.version

\* Mutant: only EXECUTING takes a reservation, ROLLING_BACK does not.
TakesReservationForward(p) ==
  call[p].upd.state = "executing" /\ call[p].cur.state \notin ReservationStates

TakesReservation(p) ==
  call[p].upd.state \in ReservationStates /\ call[p].cur.state \notin ReservationStates

DropsReservation(p) ==
  call[p].upd.state \notin ReservationStates /\ call[p].cur.state \in ReservationStates

\* Mutant: INSERT OR REPLACE.
TargetAlwaysFree(p) == TRUE

\* The primary key of target_reservations.
TargetFree(p) == reservation[TargetOfRow(call[p].upd)] = NoContract

UpdateReservations(p) ==
  reservation' =
    CASE TakesReservation(p) -> [reservation EXCEPT ![TargetOfRow(call[p].upd)] = call[p].cid]
      [] DropsReservation(p) -> [t \in Target |-> IF reservation[t] = call[p].cid
                                                  THEN NoContract ELSE reservation[t]]
      [] OTHER -> reservation

Replace(p) ==
  LET c == call[p].cid
      cur == call[p].cur
      upd == call[p].upd
  IN  /\ call[p].phase = "replace"
      /\ CanWrite
      /\ CompareAndSet(p)
      /\ TakesReservation(p) => TargetFree(p)
      /\ row' = [row EXCEPT ![c] = upd]
      /\ UpdateReservations(p)
      /\ audit' = [audit EXCEPT ![c] = Append(@, [prev |-> cur.state, cur |-> upd.state])]
      /\ RecordTerminal(upd)
      /\ Leave(p)
      /\ UNCHANGED <<mark, anchor, clock, writer, load>>

\* ContractConflictError: nothing of the transaction remains.
RefuseReplace(p) ==
  /\ call[p].phase = "replace"
  /\ CanWrite
  /\ CompareAndSet(p) => TakesReservation(p) /\ ~TargetFree(p)
  /\ Leave(p)
  /\ UNCHANGED <<tables, mark, anchor, clock, writer, load>>

----------------------------------------------------------------------------
(* load(): three SELECTs of an autocommit connection, each its own snapshot *)

LoadRow(r, c) ==
  /\ load[r].phase = "idle"
  /\ Stored(c)
  /\ load' = [load EXCEPT ![r] = [phase |-> "row", cid |-> c, cur |-> row[c]]]
  /\ UNCHANGED <<tables, mark, anchor, clock, call, writer>>

ReservationVerified(c, r) ==
  \A t \in Target :
    (reservation[t] = c) <=> (r.state \in ReservationStates /\ t = TargetOfRow(r))

\* Mutant: the history's length is not compared with the version.
AuditVerifiedAnyLength(c, r) ==
  /\ audit[c][1].prev = "absent"
  /\ \A i \in 2..Len(audit[c]) : audit[c][i].prev = audit[c][i-1].cur
  /\ audit[c][Len(audit[c])].cur = r.state

AuditVerified(c, r) ==
  /\ Len(audit[c]) = r.version + 1
  /\ audit[c][1].prev = "absent"
  /\ \A i \in 2..Len(audit[c]) : audit[c][i].prev = audit[c][i-1].cur
  /\ audit[c][Len(audit[c])].cur = r.state

\* _verify_reservation
LoadReservation(r) ==
  /\ load[r].phase = "row"
  /\ load' = [load EXCEPT ![r].phase =
                IF ReservationVerified(load[r].cid, load[r].cur)
                THEN "reservation" ELSE "refused"]
  /\ UNCHANGED <<tables, mark, anchor, clock, call, writer>>

\* _verified_audit_rows
LoadAudit(r) ==
  /\ load[r].phase = "reservation"
  /\ load' = [load EXCEPT ![r].phase =
                IF AuditVerified(load[r].cid, load[r].cur)
                THEN "returned" ELSE "refused"]
  /\ UNCHANGED <<tables, mark, anchor, clock, call, writer>>

LoadDone(r) ==
  /\ load[r].phase \in {"returned", "refused"}
  /\ load' = [load EXCEPT ![r] = IdleLoad]
  /\ UNCHANGED <<tables, mark, anchor, clock, call, writer>>

----------------------------------------------------------------------------
\* A process dies; SQLite rolls its open transaction back.
Crash(p) ==
  /\ ~Idle(p)
  /\ Leave(p)
  /\ writer' = IF writer = p THEN NoProc ELSE writer
  /\ UNCHANGED <<tables, mark, anchor, clock, load>>

Tick ==
  /\ clock < MaxTime
  /\ clock' = clock + 1
  /\ UNCHANGED <<tables, mark, anchor, call, writer, load>>

Method(p) ==
  \E c \in ContractId :
    \/ \E k \in IdemKey, e \in 1..(MaxTime + MaxLifetime) :
         e <= clock + MaxLifetime /\ BeginCreate(p, c, k, e)
    \/ \E target \in RecoveryState : BeginTransition(p, c, target)
    \/ BeginExpirePrepared(p, c)
    \/ BeginConfirm(p, c)
    \/ BeginMarkExecutionVerified(p, c)
    \/ BeginMarkRollbackVerified(p, c)
    \/ \E outcome \in ReconciliationOutcome : BeginResolveReconciliation(p, c, outcome)
    \/ BeginRotateArtifacts(p, c)

Gate(p) ==
  \/ OpenGate(p) \/ DetectRollback(p)
  \/ AdvanceAnchor(p) \/ AnchorUnavailable(p)
  \/ CommitGate(p) \/ RefuseGate(p)

Commit(p) ==
  \/ CommitCreate(p) \/ RefuseCreate(p)
  \/ Replace(p) \/ RefuseReplace(p)

ReaderStep(r) ==
  \/ \E c \in ContractId : LoadRow(r, c)
  \/ LoadReservation(r) \/ LoadAudit(r) \/ LoadDone(r)

Next ==
  \/ \E p \in Proc : Method(p) \/ Gate(p) \/ Commit(p) \/ Crash(p)
  \/ \E r \in Reader : ReaderStep(r)
  \/ Tick

Spec == Init /\ [][Next]_vars

----------------------------------------------------------------------------
(* Properties *)

\* Every variable has its type, and every row, stored or about to be stored,
\* satisfies the state/fingerprint rule of RecoveryContract.__post_init__, so
\* no method fails half way because the contract it builds is inconsistent.
TypeOK ==
  /\ row \in [ContractId -> Row]
  /\ reservation \in [Target -> ContractId \cup {NoContract}]
  /\ audit \in [ContractId -> Seq(AuditEvent)]
  /\ cooldown \in [Target -> Nat]
  /\ mark \in Nat /\ anchor \in Nat /\ clock \in Nat
  /\ call \in [Proc -> Call]
  /\ writer \in Proc \cup {NoProc}
  /\ load \in [Reader -> Load]
  /\ \A c \in ContractId : SealConsistent(row[c])
  /\ \A p \in Proc : SealConsistent(call[p].upd)

\* At most one contract per canonical target is executing, rolling back, in
\* doubt or stuck after a failed rollback, whatever processes race in
\* _replace (target_reservations and its primary key).
OneUnsettledWritePerTarget ==
  \A c, d \in ContractId :
    /\ row[c].state \in ReservationStates /\ row[d].state \in ReservationStates
    /\ TargetOfRow(row[c]) = TargetOfRow(row[d])
    => c = d

\* The check _verify_reservation makes in every load holds of every row at
\* every moment: an untampered store never raises on it.
ReservationMatchesState ==
  \A c \in ContractId : Stored(c) => ReservationVerified(c, row[c])

\* The check _verified_audit_rows makes in every load holds of every row at
\* every moment: one event per version, chained, ending in the row's state.
AuditMatchesState ==
  \A c \in ContractId : IF Stored(c) THEN AuditVerified(c, row[c]) ELSE audit[c] = <<>>

\* At most one contract of an idempotency key is in a blocking state: no second
\* attempt starts while an earlier one is live, applied or unresolved
\* (create() and the partial unique index).
OneBlockingContractPerKey ==
  \A c, d \in ContractId :
    /\ row[c].state \in BlockingStates /\ row[d].state \in BlockingStates
    /\ row[c].key = row[d].key
    => c = d

\* A contract that ever reached EXECUTING was confirmed and still carries its
\* confirmation, whatever stale update was tried since (transition, confirm).
ExecutedOnlyConfirmed ==
  \A c \in ContractId :
    (\E i \in 1..Len(audit[c]) : audit[c][i].cur = "executing") => row[c].confirmed

\* An operator's conclusion fits what was uncertain: a contract leaves
\* RECONCILIATION for VERIFIED or FAILED only if its forward write was
\* interrupted, and for ROLLED_BACK or ROLLBACK_FAILED only if its rollback was
\* (resolve_reconciliation reads the origin from the audit history).
ResolutionFitsOrigin ==
  \A c \in ContractId : \A i \in 2..Len(audit[c]) :
    LET left == audit[c][i] IN
    left.prev = "reconciliation" /\ left.cur # "reconciliation" =>
      \/ audit[c][i-1].prev = "executing"    /\ left.cur \in {"verified", "failed"}
      \/ audit[c][i-1].prev = "rolling_back" /\ left.cur \in {"rolled_back", "rollback_failed"}

HighExecutions ==
  {ci \in ContractId \X (1..(MaxVersion + 1)) :
     /\ row[ci[1]].key \in HighAssurance
     /\ ci[2] <= Len(audit[ci[1]])
     /\ audit[ci[1]][ci[2]].prev = "prepared"
     /\ audit[ci[1]][ci[2]].cur = "executing"}

\* Every high-assurance execution spent an anchor tick of its own that the
\* store had recorded, and the recorded mark never runs ahead of the anchor:
\* what makes a restored older store detectable (before_executing_transition).
ExecutionsSpendTicks ==
  AnchorEnabled => Cardinality(HighExecutions) <= mark /\ mark <= anchor

\* The state column only ever moves along LEGAL_TRANSITIONS, although methods
\* check the edge on a row they loaded earlier; a terminal contract is final.
OnlyLegalTransitions ==
  [][\A c \in ContractId : row'[c].state # row[c].state =>
       \/ row[c].state = "absent" /\ row'[c].state = "preparing"
       \/ RequireTransition(row[c].state, row'[c].state, TRUE)]_vars

\* The compare-and-set on (state, version) suffices: a _replace overwrites
\* exactly the row its method loaded, so no confirmation, fingerprint or
\* rotation committed in between is lost.
NoLostUpdate ==
  [][\A p \in Proc : Replace(p) => row[call[p].cid] = call[p].cur]_vars

\* No contract is created for a target within its cooldown or with as many
\* PREPARED contracts as it may have, nor while the reconciliation lockout is
\* on, as of the commit and not of the earlier clock reading
\* (RatePolicy.check_prepare_allowed inside create()'s transaction). Contracts
\* still PREPARING do not count, so several may become PREPARED afterwards.
CreationRespectsContainment ==
  [][\A c \in ContractId :
       RateEnabled /\ row[c].state = "absent" /\ row'[c].state # "absent" =>
         /\ clock >= cooldown[TargetOfRow(row'[c])]
         /\ Cardinality(PreparedFor(TargetOfRow(row'[c]))) < MaxPrepared
         /\ Cardinality(InState({"reconciliation"})) < LockoutThreshold]_vars

\* A load() that returns, returns the authoritative row of the moment of its
\* last SELECT, although its three SELECTs are three snapshots.
LoadReturnsCurrentRow ==
  [][\A r \in Reader : LoadAudit(r) /\ load'[r].phase = "returned"
       => load[r].cur = row[load[r].cid]]_vars

----------------------------------------------------------------------------
(* The inductive invariant of the proofs *)

MidPhase == {"gate", "advance", "rate", "replace"}

\* What a method may turn the row it loaded into.
GoodUpdate(cur, upd) ==
  /\ cur.state # "absent" /\ upd.state # "absent"
  /\ upd.key = cur.key
  /\ upd.version = cur.version + 1
  /\ cur.confirmed => upd.confirmed
  /\ upd.state = cur.state \/ RequireTransition(cur.state, upd.state, TRUE)
  /\ upd.state = "executing" /\ cur.state # "executing" => upd.confirmed

\* The version of a row determines the row, as far as a loaded copy can tell.
Fresh(c, copy) ==
  /\ copy.version <= row[c].version
  /\ copy.version = row[c].version => row[c] = copy

CallFresh(p) ==
  call[p].phase \in MidPhase =>
    /\ call[p].cid \in ContractId
    /\ GoodUpdate(call[p].cur, call[p].upd)
    /\ Stored(call[p].cid)
    /\ Fresh(call[p].cid, call[p].cur)

CreateFresh(p) ==
  call[p].phase = "create" =>
    /\ call[p].cid \in ContractId
    /\ ~Stored(call[p].cid)
    /\ call[p].upd.state = "preparing" /\ call[p].upd.version = 0
    /\ \A q \in Proc : q # p => call[q].cid # call[p].cid

LoadFresh(r) ==
  load[r].phase # "idle" =>
    /\ load[r].cid \in ContractId
    /\ Stored(load[r].cid)
    /\ Fresh(load[r].cid, load[r].cur)

StoreInv ==
  /\ TypeOK
  /\ \A c \in ContractId : ReservationVerified(c, row[c])
  /\ AuditMatchesState
  /\ OneBlockingContractPerKey
  /\ ExecutedOnlyConfirmed
  /\ \A p \in Proc : CallFresh(p) /\ CreateFresh(p)
  /\ \A r \in Reader : LoadFresh(r)

----------------------------------------------------------------------------
(* What comments and documents of the repository say and the code does not do *)

\* docs/RECOVERY_CONTRACT_SPEC.md: RECONCILIATION is left by a recorded operator
\* conclusion; some outcome is accepted for every contract in it
\* (resolve_reconciliation).
ReconciliationResolvable ==
  \A c \in ContractId :
    row[c].state = "reconciliation" => OutcomesFor(UncertaintyBoundary(c)) # {}
=============================================================================
