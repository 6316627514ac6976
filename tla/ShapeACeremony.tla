--------------------------- MODULE ShapeACeremony ---------------------------
(***************************************************************************)
(* The Batch-1 write programme: one server that asks for changes of several *)
(* settings ("Shape-A" capabilities), four fixed files per capability, and *)
(* the owner's signing tool, which signs files one by one or as a batch    *)
(* under a single approval of a manifest.                                  *)
(*                                                                         *)
(* The tool reads a file, waits for the owner, and writes another file;    *)
(* meanwhile the server runs, the operator clears files, a file is         *)
(* damaged on its way, settings are edited and the security posture        *)
(* changes.  A store call is one step (RecoveryStore, WriteFlow), so is    *)
(* the executor's exchange with the appliance (Executor).                  *)
(***************************************************************************)
EXTENDS Integers, Sequences, FiniteSets, RecoveryStates

CONSTANTS
  Capability,          \* SHAPE_A_REGISTRATIONS
  StandardSealed,      \* the STANDARD_SEALED_WRITE ones
  Value,               \* values of a setting
  Posture,             \* security-plan digests
  UnsafePosture,       \* those of plans that are not safe to proceed
  SigningTool,         \* runs of the signing tool that may overlap
  Validity,            \* of a singly signed authorization
  BatchValidity,       \* of one signed in a batch
  ContractValidity,
  MaxCalls, MaxClock, MaxCommands, MaxMishaps, MaxApprovals   \* bounds

ASSUME CeremonyAssumption ==
  /\ IsFiniteSet(Capability) /\ StandardSealed \subseteq Capability
  /\ UnsafePosture \subseteq Posture
  /\ {Validity, BatchValidity, ContractValidity} \subseteq Nat \ {0}
  /\ {MaxCalls, MaxClock, MaxCommands, MaxMishaps, MaxApprovals} \subseteq Nat

VARIABLES
  clock, posture,
  setting,      \* per capability: the value on the appliance
  box,          \* per capability: the four files
  contracts,    \* the recovery store; a contract id is its position
  spent,        \* the authorization consumption store
  call,         \* the server's call
  tool,         \* per run of the tool: the command it executes
  drawn,        \* authorization ids drawn so far
  signatures,   \* history: everything the tool has signed
  reviewed,     \* history: everything the owner said yes to
  requested,    \* history: everything the server put into a file
  manifests,    \* batch owner approvals
  sealed,       \* sealed-write approvals
  calls, commands, mishaps

owner == <<signatures, reviewed, manifests>>
store == <<contracts, spent>>
world == <<clock, posture, setting>>
budget == <<commands, mishaps>>
ceremonyVars == <<world, box, store, call, tool, drawn, owner, requested, sealed, calls, budget>>

-----------------------------------------------------------------------------
(* Artifacts.  Each carries the intent: this value over exactly that       *)
(* reading of that setting.                                                *)

Intent(x) == [cap |-> x.cap, want |-> x.want, base |-> x.base]

Preview(c, want, base, plan) == [cap |-> c, want |-> want, base |-> base, plan |-> plan]

Pending(c, cid) ==
  [cap |-> c, want |-> contracts[cid].want, base |-> contracts[cid].base,
   cid |-> cid, expires |-> contracts[cid].expires]

Authorization(p, plan, id, issued, expires) ==
  [cap |-> p.cap, want |-> p.want, base |-> p.base, plan |-> plan,
   id |-> id, issued |-> issued, expires |-> expires]

Evidence(p, issued) ==
  [cap |-> p.cap, want |-> p.want, base |-> p.base, cid |-> p.cid,
   issued |-> issued, expires |-> p.expires]

FileName == {"preview", "inbox", "pending", "signed"}

\* A file holds a body under the MAC (preview, pending) or signature (inbox,
\* signed) of the body it was written for.
File(body) == {[body |-> body, mac |-> body]}

\* load_...(): what a file says, if it is there and intact
Load(c, name) == {f.body : f \in {g \in box[c][name] : g.mac = g.body}}

Present(c, name) == box[c][name] # {}

\* write_secure_new(): O_EXCL, so a file that is there stays and the write fails
WriteNew(c, name, body) ==
  box' = [box EXCEPT ![c][name] = IF @ = {} THEN File(body) ELSE @]

NoFiles == [n \in FileName |-> {}]

\* no runtime is built yet; one is built and no call is in progress
Down == [pc |-> "down"]
NoCall == [pc |-> "idle"]
NoCommand == [pc |-> "idle"]

CeremonyInit ==
  /\ clock = 0 /\ posture \in Posture /\ setting \in [Capability -> Value]
  /\ box = [c \in Capability |-> NoFiles]
  /\ contracts = <<>> /\ spent = {}
  /\ call = Down /\ tool = [t \in SigningTool |-> NoCommand]
  /\ drawn = 0
  /\ signatures = {} /\ reviewed = {} /\ requested = {} /\ manifests = {} /\ sealed = {}
  /\ calls = 0 /\ commands = 0 /\ mishaps = 0

-----------------------------------------------------------------------------
(* The server: ShapeAAcceptanceOrchestrator.request_change                 *)

AtCall(pc) == call.pc = pc
Answer == call' = NoCall

Blocking(i) ==
  {k \in DOMAIN contracts : Intent(contracts[k]) = i /\ contracts[k].state \in BlockingStates}

CurrentAt(a, time) == a.issued <= time /\ time < a.expires

\* build_write_batch1_production_runtime(): stores, keys, authorities, witness
\* and one core per capability over the same stores; the executor's constructor
\* sweeps interrupted contracts.  An incomplete configuration or an anchor that
\* is not ready builds nothing.
BuildRuntime ==
  /\ AtCall("down")
  /\ call' = NoCall
  /\ contracts' = [k \in DOMAIN contracts |->
       IF contracts[k].state \in InterruptedStates
         THEN [contracts[k] EXCEPT !.state = "reconciliation"] ELSE contracts[k]]
  /\ UNCHANGED <<world, box, spent, tool, drawn, owner, requested, sealed, calls, budget>>

RequestChange(c, want) ==
  /\ AtCall("idle") /\ calls < MaxCalls
  /\ calls' = calls + 1
  /\ call' = [pc |-> "prepare", cap |-> c, want |-> want, plan |-> posture, now |-> clock]
  /\ UNCHANGED <<world, box, store, tool, drawn, owner, requested, sealed, budget>>

\* The preview is written once and the inbox looked at; the authorization
\* must not have been spent on an earlier contract of the same intent.
Fetch(i) ==
  LET c == call.cap
      preview == Preview(c, i.want, i.base, call.plan)
      inbox == Load(c, "inbox")
  IN
  /\ WriteNew(c, "preview", preview)
  /\ requested' = IF Present(c, "preview") THEN requested ELSE requested \cup {preview}
  /\ IF \E a \in inbox : \A k \in DOMAIN contracts :
          Intent(contracts[k]) = i => contracts[k].auth.id # a.id
       THEN call' = [pc |-> "authorize", cap |-> c, want |-> i.want, base |-> i.base,
                     plan |-> call.plan, now |-> call.now, auth |-> CHOOSE a \in inbox : TRUE]
       ELSE Answer

\* resume_prepared()
Resumable(k) ==
  /\ contracts[k].state = "prepared"
  /\ CurrentAt(contracts[k].auth, call.now) /\ call.now < contracts[k].expires

ToDelivery(k) ==
  call' = [pc |-> "deliver", cap |-> call.cap, now |-> call.now, cid |-> k]

\* A fresh reading, the contract of the same idempotency key if there is one,
\* and otherwise the authorization's files.
PrepareChange ==
  LET i == [cap |-> call.cap, want |-> call.want, base |-> setting[call.cap]]
  IN
  /\ AtCall("prepare")
  /\ \/ /\ i.want = i.base \/ (\E k \in Blocking(i) : ~Resumable(k))
        /\ Answer /\ UNCHANGED <<box, requested>>
     \/ /\ i.want # i.base
        /\ \E k \in Blocking(i) : Resumable(k) /\ ToDelivery(k)
        /\ UNCHANGED <<box, requested>>
     \/ i.want # i.base /\ Blocking(i) = {} /\ Fetch(i)
  /\ UNCHANGED <<world, store, tool, drawn, owner, sealed, calls, budget>>

\* The checks of authorize_and_create() on the authorization.
Authorizes(a) ==
  /\ CurrentAt(a, call.now) /\ a.plan = call.plan
  /\ Intent(a) = Intent(call)

Earlier(a, b) == IF a < b THEN a ELSE b

NewContract(a) ==
  [cap |-> call.cap, want |-> call.want, base |-> call.base, auth |-> a,
   expires |-> Earlier(call.now + ContractValidity, a.expires),
   state |-> "prepared", version |-> 1, confirmed |-> FALSE, executed |-> FALSE]

\* authorize_and_create(): the posture and the setting are what they were, the
\* authorization is spent first, and what follows may fail.
AuthorizeAndCreate ==
  /\ AtCall("authorize")
  /\ LET a == call.auth
         ok == Authorizes(a) /\ posture = call.plan /\ posture \notin UnsafePosture
               /\ setting[call.cap] = call.base /\ a.id \notin spent
     IN  \/ ~ok /\ Answer /\ UNCHANGED store
         \/ /\ ok /\ spent' = spent \cup {a.id}
            /\ \/ /\ clock < NewContract(a).expires
                  /\ contracts' = Append(contracts, NewContract(a))
                  /\ ToDelivery(Len(contracts) + 1)
               \/ Answer /\ UNCHANGED contracts
  /\ UNCHANGED <<world, box, tool, drawn, owner, requested, sealed, calls, budget>>

\* The pending request is written once and the signed file looked at.
DeliverPending ==
  LET c == call.cap
      pending == Pending(c, call.cid)
  IN
  /\ AtCall("deliver")
  /\ WriteNew(c, "pending", pending)
  /\ requested' = IF Present(c, "pending") THEN requested ELSE requested \cup {pending}
  /\ \/ Load(c, "signed") = {} /\ Answer
     \/ \E e \in Load(c, "signed") :
          call' = [pc |-> "handoff", cap |-> c, now |-> call.now, cid |-> call.cid, evidence |-> e]
  /\ UNCHANGED <<world, store, tool, drawn, owner, sealed, calls, budget>>

\* ConfirmationEvidence.verify_bindings()
Confirms(e, k) == e.cid = k /\ e.expires = contracts[k].expires /\ Intent(e) = Intent(contracts[k])

\* Mutant: an approval of an earlier version of the contract will do.
SealOfAnyVersion(k, version) ==
  \E s \in sealed : s.cid = k /\ Intent(s) = Intent(contracts[k]) /\ CurrentAt(s, clock)

\* verify_sealed_write_approval(), for the contract as it is after confirmation
SealApproved(k, version) ==
  \E s \in sealed : /\ s.cid = k /\ s.version = version
                    /\ Intent(s) = Intent(contracts[k]) /\ CurrentAt(s, clock)

\* shape_a_registry: the class is the registry's, never the contract's
SecurityClass(c) == IF c \in StandardSealed THEN "standard_sealed_write" ELSE "high_assurance_tier1"

\* confirm_and_handoff(): confirmation, the sealed-write gate, and execution,
\* which may be refused before it starts.
ConfirmAndHandoff ==
  LET k == call.cid
      row == contracts[k]
      confirmed == [row EXCEPT !.confirmed = TRUE, !.version = @ + 1]
      confirmable == /\ row.state = "prepared" /\ ~row.confirmed
                     /\ CurrentAt(row.auth, call.now) /\ CurrentAt(call.evidence, call.now)
                     /\ clock < row.expires /\ Confirms(call.evidence, k)
      admitted == SecurityClass(row.cap) = "standard_sealed_write" => SealApproved(k, confirmed.version)
  IN
  /\ AtCall("handoff") /\ Answer
  /\ \/ ~confirmable /\ UNCHANGED <<contracts, setting>>
     \/ /\ confirmable /\ UNCHANGED setting
        /\ contracts' = [contracts EXCEPT ![k] =
             IF admitted THEN confirmed ELSE [confirmed EXCEPT !.state = "failed"]]
     \/ /\ confirmable /\ admitted
        /\ \E state \in {"verified", "failed", "reconciliation"}, applied \in BOOLEAN :
             /\ applied => setting[row.cap] = row.base
             /\ state = "verified" => applied
             /\ setting' = IF applied THEN [setting EXCEPT ![row.cap] = row.want] ELSE setting
             /\ contracts' = [contracts EXCEPT ![k] =
                                [confirmed EXCEPT !.state = state, !.executed = TRUE]]
  /\ UNCHANGED <<clock, posture, box, spent, tool, drawn, owner, requested, sealed, calls, budget>>

ServerStep == BuildRuntime \/ PrepareChange \/ AuthorizeAndCreate \/ DeliverPending \/ ConfirmAndHandoff
=============================================================================
