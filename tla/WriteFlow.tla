----------------------------- MODULE WriteFlow -----------------------------
(***************************************************************************)
(* The alias description write as its client sees it: one call of          *)
(* request_alias_description_change per attempt, each over a runtime built *)
(* afresh, with the owner's two signatures travelling through fixed files. *)
(*                                                                         *)
(* A call prepares the request, looks the contract up by its idempotency   *)
(* key, and either resumes it or spends an authorization and creates it;   *)
(* then it delivers the request for confirmation, confirms, and hands off  *)
(* to the executor.  Several servers make calls at the same time, the      *)
(* clock runs during a call, files are left behind by earlier operations,  *)
(* and the alias changes underneath.                                       *)
(*                                                                         *)
(* One alias is modelled.  A store method that reads the clock is two      *)
(* steps: its checks, and the transaction that commits.  It waits for the  *)
(* database in between and does not look at the clock again.  The          *)
(* executor's exchange with the appliance is one step (Executor).          *)
(***************************************************************************)
EXTENDS Integers, Sequences, FiniteSets, RecoveryStates

CONSTANTS
  Server,            \* server processes
  Descr,             \* descriptions of the alias
  Wanted,            \* those that clients ask for
  AuthValidity,      \* how long a signed authorization is valid
  ContractValidity,  \* contract_validity
  MaxClock, MaxContracts, MaxGrants,  \* bounds
  MaxMishaps,        \* how many crashes and foreign edits of the alias there may be
  StoreMayFail       \* a store call may raise (locked, disk full)

ASSUME FlowAssumption ==
  /\ Wanted \subseteq Descr
  /\ AuthValidity \in Nat \ {0} /\ ContractValidity \in Nat \ {0}
  /\ MaxClock \in Nat /\ MaxContracts \in Nat /\ MaxGrants \in Nat
  /\ MaxMishaps \in Nat
  /\ StoreMayFail \in BOOLEAN

VARIABLES
  clock,
  live,         \* the description on the appliance
  rows,         \* the recovery store; a contract id is its position
  consumed,     \* the authorization consumption store
  grants,       \* plan authorizations the owner has signed; ids are positions
  confirmations,\* confirmation evidence the owner has signed
  files,        \* the four fixed files
  call,         \* per server: the call it is in
  mishaps,
  runs          \* history: how often execute() was called for a contract

vars == <<clock, live, rows, consumed, grants, confirmations, files, call, mishaps, runs>>
store == <<rows, consumed>>
owner == <<grants, confirmations>>

None == 0

\* What the owner authorizes: this description over exactly that reading.
Intent == [want : Descr, base : Descr]

Grant == [intent : Intent, issued : Nat, expires : Nat]

Confirmation == [cid : Nat, issued : Nat, expires : Nat]

Row == [intent    : Intent,         \* the idempotency key is derived from it
        auth      : Nat,            \* authorization_provenance.authorization_id
        expires   : Nat,
        state     : RecoveryState,
        confirmed : BOOLEAN,
        confirmedAt : Nat]          \* the instant confirm() took its decision

\* inbox and signed hold a position in grants and confirmations, preview and
\* pending what the server wrote; none of them is ever overwritten by it.
Files == [preview : SUBSET Intent, inbox : Nat, pending : Nat, signed : Nat]

PC == {"idle", "prepare", "lookup", "resume", "fetch", "verify", "consume", "create",
       "insert", "promote", "promoting", "deliver", "confirm", "confirming", "execute",
       "gate", "acquire", "refuse", "run"}

\* now is the time at which the call began, at the instant that the store
\* method it is in has read.
Call == [pc : PC, want : Descr \cup {None}, base : Descr \cup {None}, now : Nat, auth : Nat, cid : Nat,
         conf : Nat, at : Nat]

IntentOf(s) == [want |-> call[s].want, base |-> call[s].base]

\* No call.
Idle == [pc |-> "idle", want |-> None, base |-> None, now |-> 0, auth |-> None,
         cid |-> None, conf |-> None, at |-> 0]

Init ==
  /\ clock = 0
  /\ live \in Descr
  /\ rows = <<>> /\ consumed = {}
  /\ grants = <<>> /\ confirmations = <<>>
  /\ files = [preview |-> {}, inbox |-> None, pending |-> None, signed |-> None]
  /\ call = [s \in Server |-> Idle]
  /\ mishaps = 0
  /\ runs = <<>>

At(s, pc) == call[s].pc = pc
Goto(s, pc) == call' = [call EXCEPT ![s].pc = pc]

\* The call answers its client, whatever the answer, and is over.
Return(s) == call' = [call EXCEPT ![s] = Idle]

----------------------------------------------------------------------------
(* The store *)

\* find_by_idempotency_key
Blocking(intent) ==
  {c \in DOMAIN rows : rows[c].intent = intent /\ rows[c].state \in BlockingStates}

\* find_historical_by_idempotency_key
Historical(intent) == {c \in DOMAIN rows : rows[c].intent = intent}

Expired(c, time) == time >= rows[c].expires

\* authorization_issued_at <= now < authorization_expires_at
Current(auth, time) == grants[auth].issued <= time /\ time < grants[auth].expires

----------------------------------------------------------------------------
(* One call *)

\* build_production_runtime: the executor's constructor moves whatever is
\* EXECUTING to RECONCILIATION, whoever is executing it.
Swept == [c \in DOMAIN rows |->
            IF rows[c].state \in InterruptedStates
              THEN [rows[c] EXCEPT !.state = "reconciliation"] ELSE rows[c]]

Ask(s, want) ==
  /\ At(s, "idle")
  /\ rows' = Swept
  /\ call' = [call EXCEPT ![s] = [Idle EXCEPT !.pc = "prepare", !.want = want, !.now = clock]]
  /\ UNCHANGED <<clock, live, consumed, owner, files, mishaps, runs>>

\* A fresh read; a change that would change nothing is refused here, before
\* any contract is looked up.
Prepare(s) ==
  /\ At(s, "prepare")
  /\ IF live = call[s].want
       THEN Return(s)
       ELSE call' = [call EXCEPT ![s].pc = "lookup", ![s].base = live]
  /\ UNCHANGED <<clock, live, store, owner, files, mishaps, runs>>

Lookup(s) ==
  /\ At(s, "lookup")
  /\ \/ \E c \in Blocking(IntentOf(s)) :
          IF rows[c].state = "prepared"
            THEN call' = [call EXCEPT ![s].pc = "resume", ![s].cid = c]
            ELSE Return(s)
     \/ Blocking(IntentOf(s)) = {} /\ Goto(s, "fetch")
  /\ UNCHANGED <<clock, live, store, owner, files, mishaps, runs>>

\* resume_prepared: the contract is as it was, the authorization is current
\* and a fresh reading equals the one the contract was prepared from.
Resumable(s) ==
  LET c == call[s].cid
  IN  /\ rows[c].state = "prepared"
      /\ Current(rows[c].auth, call[s].now) /\ ~Expired(c, call[s].now)
      /\ [want |-> call[s].want, base |-> live] = rows[c].intent

Resume(s) ==
  /\ At(s, "resume")
  /\ IF Resumable(s) THEN Goto(s, "deliver") ELSE Return(s)
  /\ UNCHANGED <<clock, live, store, owner, files, mishaps, runs>>

\* The preview is written once; then the inbox is read, and an authorization
\* that an earlier attempt at this intent has spent is refused.
Fetch(s) ==
  LET used == {c \in Historical(IntentOf(s)) : rows[c].auth = files.inbox}
  IN  /\ At(s, "fetch")
      /\ files' = [files EXCEPT !.preview = IF @ = {} THEN {IntentOf(s)} ELSE @]
      /\ IF files.inbox = None \/ used # {}
           THEN Return(s)
           ELSE call' = [call EXCEPT ![s].pc = "verify", ![s].auth = files.inbox]
      /\ UNCHANGED <<clock, live, store, owner, mishaps, runs>>

\* The reading the contract is built from is the one that was authorized.
SameReading(s, fresh) == fresh = IntentOf(s)

\* authorize_and_create, up to the consumption of the authorization.
Verify(s) ==
  LET fresh == [want |-> call[s].want, base |-> live]
  IN  /\ At(s, "verify")
      /\ IF /\ Current(call[s].auth, call[s].now)
            /\ grants[call[s].auth].intent = IntentOf(s)
            /\ live # call[s].want
            /\ SameReading(s, fresh)
            /\ Blocking(fresh) = {}
           THEN call' = [call EXCEPT ![s].pc = "consume", ![s].base = live]
           ELSE Return(s)
      /\ UNCHANGED <<clock, live, store, owner, files, mishaps, runs>>

\* Mutant: consumption is recorded but not checked.
AlwaysConsumable(auth) == TRUE

\* The INSERT finds no row for this authorization.
Consumable(auth) == auth \notin consumed

TryConsume(s) ==
  /\ At(s, "consume")
  /\ IF Consumable(call[s].auth) THEN Goto(s, "create") ELSE Return(s)
  /\ consumed' = consumed \cup {call[s].auth}
  /\ UNCHANGED <<clock, live, rows, owner, files, mishaps, runs>>

\* Mutant: the contract outlives its authorization.
ExpiryUncapped(s) == call[s].now + ContractValidity

\* min(now + contract_validity, authorization.expires_at)
Expiry(s) ==
  LET a == call[s].now + ContractValidity
      b == grants[call[s].auth].expires
  IN  IF a < b THEN a ELSE b

\* create_authorized: an expired validity window is refused.
Create(s) ==
  /\ At(s, "create")
  /\ IF clock < Expiry(s) THEN Goto(s, "insert") ELSE Return(s)
  /\ UNCHANGED <<clock, live, store, owner, files, mishaps, runs>>

\* The INSERT of create_authorized.
Insert(s) ==
  rows' = Append(rows, [intent |-> IntentOf(s), auth |-> call[s].auth,
                        expires |-> Expiry(s), state |-> "preparing",
                        confirmed |-> FALSE, confirmedAt |-> 0])

\* The unique index refuses a second blocking contract; the store may fail.
CommitCreation(s) ==
  /\ At(s, "insert")
  /\ \/ /\ Blocking(IntentOf(s)) = {} /\ Len(rows) < MaxContracts
        /\ Insert(s)
        /\ runs' = Append(runs, 0)
        /\ call' = [call EXCEPT ![s].pc = "promote", ![s].cid = Len(rows) + 1]
     \/ /\ Blocking(IntentOf(s)) # {} \/ StoreMayFail
        /\ Return(s) /\ UNCHANGED <<rows, runs>>
  /\ UNCHANGED <<clock, live, consumed, owner, files, mishaps>>

\* transition() to PREPARED: only an unexpired contract moves on.
Promote(s) ==
  /\ At(s, "promote")
  /\ IF ~Expired(call[s].cid, clock) THEN Goto(s, "promoting") ELSE Return(s)
  /\ UNCHANGED <<clock, live, store, owner, files, mishaps, runs>>

\* A failure leaves the contract PREPARING.
CommitPromotion(s) ==
  LET c == call[s].cid
  IN  /\ At(s, "promoting")
      /\ \/ /\ rows[c].state = "preparing"
            /\ rows' = [rows EXCEPT ![c].state = "prepared"]
            /\ Goto(s, "deliver")
         \/ StoreMayFail /\ Return(s) /\ UNCHANGED rows
      /\ UNCHANGED <<clock, live, consumed, owner, files, mishaps, runs>>

\* The pending request is written once; the signed file, whatever operation it
\* belongs to, is picked up.
Deliver(s) ==
  /\ At(s, "deliver")
  /\ files' = [files EXCEPT !.pending = IF @ = None THEN call[s].cid ELSE @]
  /\ IF files.signed = None
       THEN Return(s)
       ELSE call' = [call EXCEPT ![s].pc = "confirm", ![s].conf = files.signed]
  /\ UNCHANGED <<clock, live, store, owner, mishaps, runs>>

\* Mutant: the evidence is not bound to the contract it names.
BindsAny(f, c) == TRUE

\* ConfirmationEvidence.verify_bindings
Binds(f, c) == f.cid = c /\ f.expires = rows[c].expires

Confirmable(c) == rows[c].state = "prepared" /\ ~rows[c].confirmed

\* confirm_and_handoff and store.confirm up to the transaction: the former
\* compares with the time at which the call began, the latter with the clock.
Confirm(s) ==
  LET c == call[s].cid
      f == confirmations[call[s].conf]
  IN  /\ At(s, "confirm")
      /\ IF /\ Confirmable(c)
            /\ Current(rows[c].auth, call[s].now)
            /\ f.issued <= call[s].now /\ call[s].now < f.expires
            /\ ~Expired(c, clock) /\ Binds(f, c)
           THEN call' = [call EXCEPT ![s].pc = "confirming", ![s].at = clock]
           ELSE Return(s)
      /\ UNCHANGED <<clock, live, store, owner, files, mishaps, runs>>

\* with_confirmation
WithConfirmation(r, instant) == [r EXCEPT !.confirmed = TRUE, !.confirmedAt = instant]

\* _replace compares state and version, not the clock.  No version comes back,
\* so the row is the one that was loaded as long as it is confirmable.
CommitConfirmation(s) ==
  LET c == call[s].cid
  IN  /\ At(s, "confirming")
      /\ \/ /\ Confirmable(c)
            /\ rows' = [rows EXCEPT ![c] = WithConfirmation(@, call[s].at)]
            /\ Goto(s, "execute")
         \/ /\ ~Confirmable(c) \/ StoreMayFail
            /\ Return(s) /\ UNCHANGED rows
      /\ UNCHANGED <<clock, live, consumed, owner, files, mishaps, runs>>

\* execute() loads the contract and checks it; policy, the bindings or the
\* appliance's read-only switch may refuse.
Execute(s) ==
  LET c == call[s].cid
  IN  /\ At(s, "execute")
      /\ runs' = [runs EXCEPT ![c] = @ + 1]
      /\ \/ rows[c].state = "prepared" /\ ~Expired(c, clock) /\ Goto(s, "gate")
         \/ Return(s)
      /\ UNCHANGED <<clock, live, store, owner, files, mishaps>>

\* store.transition() looks again, to EXECUTING or, when the security class
\* does not match the registry, to FAILED.  The witness or the rate policy may
\* refuse, and the former takes its time.
Gate(s) ==
  LET c == call[s].cid
  IN  /\ At(s, "gate")
      /\ \/ /\ rows[c].state = "prepared" /\ ~Expired(c, clock)
            /\ \E pc \in {"acquire", "refuse"} :
                 call' = [call EXCEPT ![s].pc = pc, ![s].at = clock]
         \/ Return(s)
      /\ UNCHANGED <<clock, live, store, owner, files, mishaps, runs>>

\* No other contract of this alias is unsettled.
TargetFree(c) == \A d \in DOMAIN rows \ {c} : rows[d].state \notin ReservationStates

\* The transition to EXECUTING commits, whatever the clock says by then.
Acquire(s) ==
  LET c == call[s].cid
  IN  /\ At(s, "acquire")
      /\ IF rows[c].state = "prepared" /\ TargetFree(c)
           THEN rows' = [rows EXCEPT ![c].state = "executing"] /\ Goto(s, "run")
           ELSE Return(s) /\ UNCHANGED rows
      /\ UNCHANGED <<clock, live, consumed, owner, files, mishaps, runs>>

\* The transition to FAILED commits.
Refuse(s) ==
  LET c == call[s].cid
  IN  /\ At(s, "refuse")
      /\ rows' = IF rows[c].state = "prepared" THEN [rows EXCEPT ![c].state = "failed"] ELSE rows
      /\ Return(s)
      /\ UNCHANGED <<clock, live, consumed, owner, files, mishaps, runs>>

\* The exchange with the appliance and the record of its outcome, unless
\* another call's constructor has moved the contract meanwhile.
Run(s) ==
  LET c == call[s].cid
  IN  /\ At(s, "run")
      /\ \E applied \in BOOLEAN, state \in {"verified", "failed", "reconciliation"} :
           /\ applied => live = rows[c].intent.base
           /\ state = "verified" => applied
           /\ live' = IF applied THEN call[s].want ELSE live
           /\ rows' = IF rows[c].state = "executing" THEN [rows EXCEPT ![c].state = state] ELSE rows
      /\ Return(s)
      /\ UNCHANGED <<clock, consumed, owner, files, mishaps, runs>>

Crash(s) ==
  /\ ~At(s, "idle") /\ mishaps < MaxMishaps
  /\ mishaps' = mishaps + 1
  /\ Return(s)
  /\ UNCHANGED <<clock, live, store, owner, files, runs>>

----------------------------------------------------------------------------
(* The owner, the operator and the world *)

\* The owner signs what the preview shows and puts it into the inbox.
SignAuthorization ==
  /\ Len(grants) < MaxGrants
  /\ \E i \in files.preview :
       grants' = Append(grants, [intent |-> i, issued |-> clock,
                                 expires |-> clock + AuthValidity])
  /\ files' = [files EXCEPT !.inbox = Len(grants) + 1]
  /\ UNCHANGED <<clock, live, store, confirmations, call, mishaps, runs>>

\* The owner signs the pending request, whose bindings came from the contract.
SignConfirmation ==
  /\ files.pending # None
  /\ \A i \in DOMAIN confirmations : confirmations[i].cid # files.pending
  /\ confirmations' = Append(confirmations, [cid |-> files.pending, issued |-> clock,
                               expires |-> rows[files.pending].expires])
  /\ files' = [files EXCEPT !.signed = Len(confirmations) + 1]
  /\ UNCHANGED <<clock, live, store, grants, call, mishaps, runs>>

\* Cleanup is an explicit act of the operator.
Cleanup ==
  /\ \/ files' = [files EXCEPT !.preview = {}]
     \/ files' = [files EXCEPT !.inbox = None]
     \/ files' = [files EXCEPT !.pending = None, !.signed = None]
  /\ files' # files
  /\ UNCHANGED <<clock, live, store, owner, call, mishaps, runs>>

\* expire_prepared
ExpirePrepared(c) ==
  /\ c \in DOMAIN rows
  /\ rows[c].state = "prepared" /\ ~rows[c].confirmed /\ Expired(c, clock)
  /\ rows' = [rows EXCEPT ![c].state = "expired"]
  /\ UNCHANGED <<clock, live, consumed, owner, files, call, mishaps, runs>>

\* resolve_reconciliation by what is on the appliance.
ResolveReconciliation(c) ==
  /\ c \in DOMAIN rows
  /\ rows[c].state = "reconciliation"
  /\ \A s \in Server : ~(At(s, "run") /\ call[s].cid = c)
  /\ rows' = [rows EXCEPT ![c].state = IF live = rows[c].intent.want THEN "verified" ELSE "failed"]
  /\ UNCHANGED <<clock, live, consumed, owner, files, call, mishaps, runs>>

AdminEdit ==
  /\ mishaps < MaxMishaps
  /\ mishaps' = mishaps + 1
  /\ live' \in Descr \ {live}
  /\ UNCHANGED <<clock, store, owner, files, call, runs>>

Tick ==
  /\ clock < MaxClock
  /\ clock' = clock + 1
  /\ UNCHANGED <<live, store, owner, files, call, mishaps, runs>>

----------------------------------------------------------------------------
Step(s) ==
  \/ Prepare(s) \/ Lookup(s) \/ Resume(s) \/ Fetch(s)
  \/ Verify(s) \/ TryConsume(s) \/ Create(s) \/ CommitCreation(s)
  \/ Promote(s) \/ CommitPromotion(s) \/ Deliver(s)
  \/ Confirm(s) \/ CommitConfirmation(s)
  \/ Execute(s) \/ Gate(s) \/ Acquire(s) \/ Refuse(s) \/ Run(s)

Next ==
  \/ \E s \in Server : Step(s) \/ Crash(s)
  \/ \E s \in Server, want \in Wanted : Ask(s, want)
  \/ SignAuthorization \/ SignConfirmation \/ Cleanup
  \/ \E c \in 1 .. MaxContracts : ExpirePrepared(c) \/ ResolveReconciliation(c)
  \/ AdminEdit \/ Tick

Spec == Init /\ [][Next]_vars

\* A call that has begun runs on, clients ask again, the clock runs, and the
\* operator closes out and resolves what the program lets him.
Fairness ==
  /\ \A s \in Server : WF_vars(Step(s))
  /\ \A s \in Server, want \in Wanted : SF_vars(Ask(s, want))
  /\ \A c \in 1 .. MaxContracts :
       WF_vars(ExpirePrepared(c)) /\ WF_vars(ResolveReconciliation(c))
  /\ WF_vars(Tick)

LiveSpec == Spec /\ Fairness

----------------------------------------------------------------------------
(* Properties *)

\* Types; a call knows only contracts, authorizations and evidence that exist.
TypeOK ==
  /\ clock \in 0 .. MaxClock /\ live \in Descr
  /\ rows \in Seq(Row) /\ runs \in [DOMAIN rows -> Nat]
  /\ consumed \subseteq DOMAIN grants
  /\ grants \in Seq(Grant) /\ confirmations \in Seq(Confirmation)
  /\ files \in Files /\ call \in [Server -> Call]
  /\ \A s \in Server :
       /\ call[s].auth \in {None} \cup DOMAIN grants
       /\ call[s].cid \in {None} \cup DOMAIN rows
       /\ call[s].conf \in {None} \cup DOMAIN confirmations
  /\ mishaps \in 0 .. MaxMishaps

\* An authorization is good for one contract, whichever servers found it in
\* the inbox and however often: it is consumed before the contract exists.
AuthorizationSpentOnce ==
  /\ \A c \in DOMAIN rows : rows[c].auth \in consumed
  /\ \A c, d \in DOMAIN rows : c # d => rows[c].auth # rows[d].auth

\* A contract asks for exactly the change, over exactly the reading, that the
\* owner authorized, although the alias is read twice and may change between.
ContractIsAuthorized ==
  \A c \in DOMAIN rows : grants[rows[c].auth].intent = rows[c].intent

\* Only a contract whose own evidence the owner signed is confirmed: evidence
\* left in the fixed file by an earlier operation confirms nothing else.
ConfirmedByName ==
  \A c \in DOMAIN rows : rows[c].confirmed =>
    \E i \in DOMAIN confirmations : confirmations[i].cid = c

\* A contract is handed to the executor at most once, by whichever server.
HandedOffOnce == \A c \in DOMAIN runs : runs[c] <= 1

\* Neither an authorization nor a contract is used twice
\* (alias_description_execution.py, authorization_consumption_store.py).
AtMostOnce == AuthorizationSpentOnce /\ HandedOffOnce

\* What reaches the executor is what the owner authorized and confirmed
\* (alias_description_execution.py, artifact_exchange.py).
HandedOffAsApproved == ContractIsAuthorized /\ ConfirmedByName

\* confirm() took its decision, by the clock, while the authorization and the
\* evidence that names the contract were valid, although the former is compared
\* only with the time at which the call began.
ConfirmedInTime ==
  \A c \in DOMAIN rows : rows[c].confirmed =>
    LET t == rows[c].confirmedAt
    IN  /\ Current(rows[c].auth, t)
        /\ \E i \in DOMAIN confirmations :
             confirmations[i].cid = c /\ confirmations[i].issued <= t /\ t < confirmations[i].expires

\* So did transition(), later, for what is about to become EXECUTING: a
\* confirmation that was committed too late is not executed.
ExecutedInTime ==
  \A s \in Server : At(s, "acquire") =>
    LET c == call[s].cid
    IN  rows[c].confirmed /\ rows[c].confirmedAt <= call[s].at /\ Current(rows[c].auth, call[s].at)

\* Each decision that lets a contract through was taken in its time, however
\* late it is committed (store.py, alias_description_execution.py).
DecidedInTime == ConfirmedInTime /\ ExecutedInTime

\* Confirmed, expired, and still PREPARED.
HandoffOpen(c) ==
  c \in DOMAIN rows /\ rows[c].confirmed /\ rows[c].state = "prepared" /\ Expired(c, clock)

\* A confirmed contract does not stay PREPARED for ever: expire_prepared()
\* leaves it to manual reconciliation, which must then be able to settle it.
ConfirmedIsSettled == \A c \in 1 .. MaxContracts : HandoffOpen(c) ~> ~HandoffOpen(c)
=============================================================================
