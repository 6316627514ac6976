------------------------------ MODULE Executor ------------------------------
(***************************************************************************)
(* MutationExecutor against a live appliance: execute() and rollback() as  *)
(* several servers run them, the request on the wire, the appliance that   *)
(* may answer late or never, an administrator who edits the alias table    *)
(* behind the program's back, crashes between any two steps, the startup   *)
(* pass of reconcile_interrupted, and the operator who resolves doubt.     *)
(*                                                                         *)
(* A store method is one compare-and-set step here: RecoveryStore shows    *)
(* that its load and its commit cannot be torn apart (CompareAndSetSuffices,*)
(* SingleFlight).  A contract starts PREPARED and confirmed.               *)
(***************************************************************************)
EXTENDS Integers, Sequences, FiniteSets, RecoveryStates

CONSTANTS
  Contract,        \* contracts
  Server,          \* server processes sharing the store and the appliance
  Name,            \* natural identities of the aliases on the appliance
  Descr,           \* descriptions an alias may carry
  AdminDescr,      \* those an administrator sets behind the program's back
  AliasOf,         \* the alias a contract changes
  Want,            \* the description a contract wants
  NoContract,
  FirstTable,      \* the alias table the run starts from
  MaxEdits, MaxCrashes,   \* bounds on the administrator and on crashes
  ResetAfterSend,  \* a connection may break after the request was written
  PatientOperator  \* doubt is resolved only when nothing can land any more

ASSUME ExecutorAssumption ==
  /\ AdminDescr \subseteq Descr
  /\ AliasOf \in [Contract -> Name]
  /\ Want \in [Contract -> Descr]
  /\ NoContract \notin Contract
  /\ MaxEdits \in Nat /\ MaxCrashes \in Nat
  /\ ResetAfterSend \in BOOLEAN /\ PatientOperator \in BOOLEAN

\* An alias: its description is ours to change, `other' stands for every
\* other fingerprinted field (type, address, detail).
Alias == [name : Name, descr : Descr, other : BOOLEAN]

ASSUME TableAssumption == FirstTable \in Seq(Alias) /\ FirstTable # <<>>

VARIABLES
  row,      \* contracts: state, version, snapshot, sealed read-back
  table,    \* the appliance's alias table, addressed by position
  wire,     \* requests written to a connection and not yet processed
  server,   \* per server: where it is in execute, rollback or startup
  edits, crashes,
  sends,    \* history: requests sent per contract and direction
  landed,   \* history: requests that took effect
  touched   \* history: since a contract's last read the table was edited, or a
            \* request that an edit had overtaken took effect

vars == <<row, table, wire, server, edits, crashes, sends, landed, touched>>

Kind == {"forward", "rollback"}

\* What read_target returns: the object and its transport locator.
Reading == [obj : Alias, slot : Nat]
NoReading == [obj |-> FirstTable[1], slot |-> 0]

Row == [state   : RecoveryState,
        version : Nat,
        snap    : Reading,     \* target_fingerprint, snapshot and lifecycle_locator
        seal    : Reading,     \* verified_target_fingerprint; NoReading until verified
        origin  : {"none"} \cup InterruptedStates]   \* what a doubt is about

NewRow == [state |-> "preparing", version |-> 0, snap |-> NoReading,
           seal |-> NoReading, origin |-> "none"]

Request == [cid : Contract, kind : Kind, slot : Nat, descr : Descr]

PC == {"down", "boot", "idle", "gate", "pre", "send", "wait", "post", "finish"}
Reply == {"none", "2xx", "4xx", "other"}

ServerState ==
  [pc : PC, cid : Contract \cup {NoContract}, kind : Kind, version : Nat,
   pre : Reading, reply : Reply, known : EffectKnowledge \cup {"none"},
   verdict : RecoveryState \cup {"none"}, todo : SUBSET (Contract \X Nat)]

Settle(pc) ==
  [pc |-> pc, cid |-> NoContract, kind |-> "forward", version |-> 0,
   pre |-> NoReading, reply |-> "none", known |-> "none", verdict |-> "none",
   todo |-> {}]

InFlight(kind) == IF kind = "forward" THEN "executing" ELSE "rolling_back"

----------------------------------------------------------------------------
Init ==
  /\ row = [c \in Contract |-> NewRow]
  /\ table = FirstTable
  /\ wire = {}
  /\ server = [s \in Server |-> Settle("down")]
  /\ edits = 0 /\ crashes = 0
  /\ sends = [c \in Contract |-> [k \in Kind |-> 0]]
  /\ landed = [c \in Contract |-> {}]
  /\ touched = [c \in Contract |-> FALSE]

history == <<sends, landed, touched>>
environment == <<edits, crashes>>

\* read_target finds the alias of that name if there is exactly one.
Resolves(name, i) == \A j \in DOMAIN table : table[j].name = name <=> j = i

Readings(name) == {[obj |-> table[i], slot |-> i] : i \in {j \in DOMAIN table : Resolves(name, j)}}

Goto(s, pc) == server' = [server EXCEPT ![s].pc = pc]

\* execute() or rollback() returns or raises.
Return(s) == server' = [server EXCEPT ![s] = Settle("idle")]

Conclude(s, known, verdict) ==
  server' = [server EXCEPT ![s].pc = "finish", ![s].known = known, ![s].verdict = verdict]

----------------------------------------------------------------------------
(* The store, one compare-and-set at a time *)

Matches(c, state, version) == row[c].state = state /\ row[c].version = version

\* No other contract of the same target holds its reservation.
TargetFree(c) ==
  \A d \in Contract \ {c} :
    AliasOf[d] = AliasOf[c] => row[d].state \notin ReservationStates

To(c, state) ==
  [row EXCEPT ![c].state = state, ![c].version = @ + 1,
              ![c].origin = IF state = "reconciliation" THEN row[c].state ELSE @]

\* An outcome is recorded; VERIFIED comes with the reading that proved it.
Recorded(c, state, reading) ==
  [To(c, state) EXCEPT ![c].seal = IF state = "verified" THEN reading ELSE @]

\* prepare: a fresh read of the target becomes the contract's precondition; a
\* change that would change nothing is refused.
Prepare(c) ==
  /\ row[c].state = "preparing"
  /\ \E r \in Readings(AliasOf[c]) :
       /\ r.obj.descr # Want[c]
       /\ row' = [row EXCEPT ![c].state = "prepared", ![c].version = @ + 1, ![c].snap = r]
  /\ touched' = [touched EXCEPT ![c] = FALSE]
  /\ UNCHANGED <<table, wire, server, environment, sends, landed>>

----------------------------------------------------------------------------
(* Startup: __init__ calls reconcile_interrupted *)

Boot(s) ==
  /\ server[s].pc = "down"
  /\ server' = [server EXCEPT ![s] = [Settle("boot") EXCEPT !.todo =
        {<<c, row[c].version>> : c \in {d \in Contract : row[d].state \in InterruptedStates}}]]
  /\ UNCHANGED <<row, table, wire, environment, history>>

\* Mutant: startup serves calls without looking for interrupted contracts.
ReconcileNothing(s, c, version) ==
  /\ server' = [server EXCEPT ![s].todo = @ \ {<<c, version>>}]
  /\ UNCHANGED row

\* One transition of the loop; a contract that moved since the list was read
\* raises ContractConflictError out of the constructor, and the server stops.
Reconcile(s, c, version) ==
  IF row[c].version = version
    THEN /\ row' = To(c, "reconciliation")
         /\ server' = [server EXCEPT ![s].todo = @ \ {<<c, version>>}]
    ELSE /\ server' = [server EXCEPT ![s] = Settle("down")]
         /\ UNCHANGED row

ReconcileNext(s) ==
  /\ server[s].pc = "boot"
  /\ \E t \in server[s].todo : Reconcile(s, t[1], t[2])
  /\ UNCHANGED <<table, wire, environment, history>>

Serve(s) ==
  /\ server[s].pc = "boot" /\ server[s].todo = {}
  /\ Goto(s, "idle")
  /\ UNCHANGED <<row, table, wire, environment, history>>

----------------------------------------------------------------------------
(* execute and rollback, up to the request *)

\* store.load and the state checks; confirmation and expiry are the store's.
Begin(s, c, kind) ==
  /\ server[s].pc = "idle"
  /\ row[c].state = IF kind = "forward" THEN "prepared" ELSE "verified"
  /\ kind = "rollback" => row[c].seal # NoReading
  /\ server' = [server EXCEPT ![s] = [Settle("gate") EXCEPT !.cid = c, !.kind = kind,
                                        !.version = row[c].version]]
  /\ UNCHANGED <<row, table, wire, environment, history>>

\* The security class or the owner approval is refused: PREPARED -> FAILED.
RefuseClass(s) ==
  LET c == server[s].cid
  IN  /\ server[s].pc = "gate" /\ server[s].kind = "forward"
      /\ row' = IF Matches(c, "prepared", server[s].version) THEN To(c, "failed") ELSE row
      /\ Return(s)
      /\ UNCHANGED <<table, wire, environment, history>>

\* Policy, bindings or the appliance's read-only switch raise.
RaiseBeforeGate(s) ==
  /\ server[s].pc = "gate" /\ server[s].kind = "forward"
  /\ Return(s)
  /\ UNCHANGED <<row, table, wire, environment, history>>

\* Mutant: the gate does not insist on the version it loaded or on the state.
GateOpen(s) == TargetFree(server[s].cid)

\* store.transition to EXECUTING or ROLLING_BACK can commit.
GateOpens(s) ==
  /\ Matches(server[s].cid, IF server[s].kind = "forward" THEN "prepared" ELSE "verified",
             server[s].version)
  /\ TargetFree(server[s].cid)

EnterGate(s) ==
  LET c == server[s].cid
  IN  /\ server[s].pc = "gate"
      /\ IF GateOpens(s)
           THEN /\ row' = To(c, InFlight(server[s].kind))
                /\ server' = [server EXCEPT ![s].pc = "pre", ![s].version = row[c].version + 1]
           ELSE Return(s) /\ UNCHANGED row
      /\ UNCHANGED <<table, wire, environment, history>>

\* The reading the request is conditioned on, and its locator.
Expected(c, kind) ==
  [obj  |-> IF kind = "forward" THEN row[c].snap.obj ELSE row[c].seal.obj,
   slot |-> row[c].snap.slot]

\* Mutant: the fresh read is not compared with the contract's fingerprint.
UnchangedAtSlot(c, kind, r) == r.slot = Expected(c, kind).slot

\* Fingerprint unchanged and locator continuity proven.
Unchanged(c, kind, r) == r = Expected(c, kind)

\* The fresh pre-send read; on any failure the attempt ends without a request.
ReadPre(s) ==
  LET c == server[s].cid
      kind == server[s].kind
      refused == ClassifyFault(kind = "rollback", "proven_none")
  IN  /\ server[s].pc = "pre"
      /\ \/ \E r \in Readings(AliasOf[c]) :
              /\ Unchanged(c, kind, r)
              /\ server' = [server EXCEPT ![s].pc = "send", ![s].pre = r]
              /\ touched' = [touched EXCEPT ![c] = FALSE]
         \/ Conclude(s, "none", refused) /\ UNCHANGED touched
      /\ UNCHANGED <<row, table, wire, environment, sends, landed>>

\* _send writes the request: PATCH of the description at the locator.
Send(s) ==
  LET c == server[s].cid
      kind == server[s].kind
      r == [cid |-> c, kind |-> kind, slot |-> server[s].pre.slot,
            descr |-> IF kind = "forward" THEN Want[c] ELSE row[c].snap.obj.descr]
  IN  /\ server[s].pc = "send"
      /\ wire' = wire \cup {r}
      /\ sends' = [sends EXCEPT ![c][kind] = @ + 1]
      /\ Goto(s, "wait")
      /\ UNCHANGED <<row, table, environment, landed, touched>>

\* WriteNotAllowedError, or no connection could be opened.
SendRefused(s) ==
  /\ server[s].pc = "send"
  /\ Conclude(s, "proven_none", ClassifyFault(server[s].kind = "rollback", "proven_none"))
  /\ UNCHANGED <<row, table, wire, environment, history>>

----------------------------------------------------------------------------
(* The appliance (external) *)

\* Servers still waiting for the answer to request r.
Waiting(r) == {s \in Server : /\ server[s].pc = "wait" /\ server[s].reply = "none"
                              /\ server[s].cid = r.cid /\ server[s].kind = r.kind}

Answer(r, reply) ==
  server' = [s \in Server |-> IF s \in Waiting(r) THEN [server[s] EXCEPT !.reply = reply]
                                                   ELSE server[s]]

\* The request takes effect on whatever alias is at that position by now; the
\* answer is a success, an error, or never arrives.
Apply(r) ==
  /\ r \in wire /\ r.slot \in DOMAIN table
  /\ table' = [table EXCEPT ![r.slot].descr = r.descr]
  /\ wire' = wire \ {r}
  /\ landed' = [landed EXCEPT ![r.cid] = @ \cup {r.kind}]
  /\ touched' = [c \in Contract |-> touched[c] \/ touched[r.cid]]
  /\ \E reply \in {"2xx", "other", "none"} : Answer(r, reply)
  /\ UNCHANGED <<row, environment, sends>>

\* It has no effect: rejected, failed, accepted but not carried out, or lost.
Ignore(r) ==
  /\ r \in wire
  /\ wire' = wire \ {r}
  /\ \E reply \in Reply : Answer(r, reply)
  /\ UNCHANGED <<row, table, environment, history>>

\* WebConfigurator: the administrator changes an alias or the table's order.
AdminEdit ==
  /\ edits < MaxEdits
  /\ edits' = edits + 1
  /\ \/ \E i \in DOMAIN table : \E d \in AdminDescr \ {table[i].descr} :
          table' = [table EXCEPT ![i].descr = d]
     \/ \E i \in DOMAIN table : table' = [table EXCEPT ![i].other = ~@]
     \/ \E i \in DOMAIN table \ {Len(table)} :
          table' = [table EXCEPT ![i] = table[i + 1], ![i + 1] = table[i]]
  /\ touched' = [c \in Contract |-> TRUE]
  /\ UNCHANGED <<row, wire, server, crashes, sends, landed>>

----------------------------------------------------------------------------
(* execute and rollback, from the answer on *)

\* _send: what a status code proves.
Knowledge(reply) ==
  CASE reply = "2xx"   -> "verified_success"
    [] reply = "4xx"   -> "verified_failure"
    [] reply = "other" -> "ambiguous"

Receive(s) ==
  /\ server[s].pc = "wait" /\ server[s].reply # "none"
  /\ LET k == Knowledge(server[s].reply)
     IN  IF k = "verified_success"
           THEN Goto(s, "post")
           ELSE Conclude(s, k, ClassifyFault(server[s].kind = "rollback", k))
  /\ UNCHANGED <<row, table, wire, environment, history>>

\* TransportTimeoutError, or an unexpected exception.
Timeout(s) ==
  /\ server[s].pc = "wait" /\ server[s].reply = "none"
  /\ Conclude(s, "ambiguous", ClassifyFault(server[s].kind = "rollback", "ambiguous"))
  /\ UNCHANGED <<row, table, wire, environment, history>>

\* httpx.ReadError, WriteError or RemoteProtocolError after the request was
\* written: HttpTransport raises TransportConnectionError, and _send reads
\* every TransportConnectionError as proof that nothing was sent.
ConnectionLost(s) ==
  /\ ResetAfterSend
  /\ server[s].pc = "wait" /\ server[s].reply = "none"
  /\ Conclude(s, "proven_none", ClassifyFault(server[s].kind = "rollback", "proven_none"))
  /\ UNCHANGED <<row, table, wire, environment, history>>

\* Mutant: the status code decides, not the read-back.
TrustStatus(c, kind, pre, post) == TRUE

\* is_semantically_verified, is_rollback_verified
Verified(c, kind, pre, post) ==
  IF kind = "forward" THEN post.obj = [pre.obj EXCEPT !.descr = Want[c]]
                      ELSE post.obj = row[c].snap.obj

\* The authoritative read-back: identity and locator must still resolve.
ReadPost(s) ==
  LET c == server[s].cid
      kind == server[s].kind
  IN  /\ server[s].pc = "post"
      /\ \/ Conclude(s, "none", "reconciliation")
         \/ \E r \in Readings(AliasOf[c]) :
              /\ r.slot = Expected(c, kind).slot
              /\ LET k == IF Verified(c, kind, server[s].pre, r)
                            THEN "verified_success" ELSE "verified_failure"
                 IN  server' = [server EXCEPT ![s].pc = "finish", ![s].known = k,
                                  ![s].verdict = ClassifyFault(kind = "rollback", k),
                                  ![s].pre = r]
      /\ UNCHANGED <<row, table, wire, environment, history>>

\* The compare of _finish_execute, _finish_rollback and the two mark_ methods.
StillMine(s) == Matches(server[s].cid, InFlight(server[s].kind), server[s].version)

\* The outcome is committed, or the contract moved and the call raises.
Finish(s) ==
  LET c == server[s].cid
  IN  /\ server[s].pc = "finish"
      /\ row' = IF StillMine(s)
                  THEN Recorded(c, server[s].verdict, server[s].pre)
                  ELSE row
      /\ Return(s)
      /\ UNCHANGED <<table, wire, environment, history>>

----------------------------------------------------------------------------
(* Failures and the operator *)

Crash(s) ==
  /\ server[s].pc # "down" /\ crashes < MaxCrashes
  /\ crashes' = crashes + 1
  /\ server' = [server EXCEPT ![s] = Settle("down")]
  /\ UNCHANGED <<row, table, wire, edits, history>>

\* A server that may still send, or a request that may still land, for c.
Pending(c) ==
  \/ \E r \in wire : r.cid = c
  \/ \E s \in Server : server[s].cid = c /\ server[s].pc \in {"pre", "send", "wait"}

\* The conclusion an operator draws from observe_reconciliation_target.
Conclusion(c, r) ==
  IF row[c].origin = "executing"
    THEN IF r.obj.descr = Want[c] THEN "confirmed_applied" ELSE "confirmed_not_applied"
    ELSE IF r.obj = row[c].snap.obj THEN "confirmed_rollback_applied"
                                    ELSE "confirmed_rollback_not_applied"

ResolveReconciliation(c) ==
  /\ row[c].state = "reconciliation"
  /\ PatientOperator => ~Pending(c)
  /\ \E r \in Readings(AliasOf[c]) :
       LET o == Conclusion(c, r)
       IN  /\ o \in OutcomesFor(row[c].origin)
           /\ row' = Recorded(c, OutcomeTargetState[o], r)
  /\ UNCHANGED <<table, wire, server, environment, history>>

----------------------------------------------------------------------------
ServerStep(s) ==
  \/ ReconcileNext(s) \/ Serve(s)
  \/ RefuseClass(s) \/ RaiseBeforeGate(s) \/ EnterGate(s)
  \/ ReadPre(s) \/ Send(s) \/ SendRefused(s)
  \/ Receive(s) \/ Timeout(s) \/ ConnectionLost(s)
  \/ ReadPost(s) \/ Finish(s)

Next ==
  \/ \E c \in Contract : Prepare(c) \/ ResolveReconciliation(c)
  \/ \E s \in Server : Boot(s) \/ ServerStep(s) \/ Crash(s)
  \/ \E s \in Server, c \in Contract, k \in Kind : Begin(s, c, k)
  \/ \E r \in wire : Apply(r) \/ Ignore(r)
  \/ AdminEdit

Spec == Init /\ [][Next]_vars

\* A call that has begun runs on (a blocked read or send ends in its timeout),
\* and a stopped server is started again.
Fairness == \A s \in Server : WF_vars(ServerStep(s)) /\ WF_vars(Boot(s))

LiveSpec == Spec /\ Fairness

----------------------------------------------------------------------------
(* Properties *)

\* Types, and the constructor's rule that VERIFIED and ROLLING_BACK carry a
\* verified fingerprint.
TypeOK ==
  /\ row \in [Contract -> Row]
  /\ \A c \in Contract :
       row[c].state \in {"verified", "rolling_back"} => row[c].seal # NoReading
  /\ table \in Seq(Alias) /\ Len(table) = Len(FirstTable)
  /\ wire \subseteq Request
  /\ server \in [Server -> ServerState]
  /\ edits \in 0 .. MaxEdits /\ crashes \in 0 .. MaxCrashes
  /\ sends \in [Contract -> [Kind -> Nat]]
  /\ landed \in [Contract -> SUBSET Kind]
  /\ touched \in [Contract -> BOOLEAN]

\* A contract's change is requested at most once, and so is its rollback, over
\* every crash, restart and second server: execute() never retries, and a
\* contract that was once EXECUTING never becomes PREPARED again.
SentOnce == \A c \in Contract, k \in Kind : sends[c][k] <= 1

\* While a request of a contract is under way, or a server is on its way to
\* sending one, the contract holds its target's reservation, so no other
\* contract of this target can be executing: ambiguity is never settled by a
\* server, and startup reconciliation keeps the reservation.
PendingKeepsReservation ==
  \A c \in Contract : Pending(c) => row[c].state \in ReservationStates

\* A request that lands finds exactly the alias and the fields its server
\* verified before sending, unless the table was edited since, or a request
\* that an edit had overtaken landed: the program's own contracts never
\* overwrite each other's effects.
NoBlindOverwrite ==
  [][\A r \in wire \ wire' :
       table' # table /\ ~touched[r.cid] => table[r.slot] = Expected(r.cid, r.kind).obj]_vars

Became(c, state) == row[c].state # state /\ row'[c].state = state

\* Unless the table was edited since the contract's last read, or a request
\* that an edit had overtaken landed, a recorded outcome is true of the
\* appliance: VERIFIED and ROLLED_BACK match what is on it, and FAILED left no
\* effect of this contract.
OutcomesAreTrue ==
  [][\A c \in Contract : ~touched[c] =>
       /\ Became(c, "verified") =>
            \E r \in Readings(AliasOf[c]) : r.obj = [row[c].snap.obj EXCEPT !.descr = Want[c]]
       /\ Became(c, "rolled_back") =>
            \E r \in Readings(AliasOf[c]) : r.obj = row[c].snap.obj
       /\ Became(c, "failed") => landed[c] = {}]_vars

\* A contract does not stay EXECUTING or ROLLING_BACK: its server finishes it,
\* or the startup pass of a restarted server moves it to RECONCILIATION.
InterruptedIsReconciled ==
  \A c \in Contract : []<>(row[c].state \notin InterruptedStates)

\* A send that _send classified as "zero effect, provably" put nothing on the
\* wire that took or may still take effect.
ProvenNoneIsProven ==
  \A s \in Server : server[s].pc = "finish" /\ server[s].known = "proven_none" =>
    /\ server[s].kind \notin landed[server[s].cid]
    /\ \A r \in wire : ~(r.cid = server[s].cid /\ r.kind = server[s].kind)
=============================================================================
