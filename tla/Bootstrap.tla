------------------------------- MODULE Bootstrap -------------------------------
(***************************************************************************)
(* The administrative commands `bootstrap` and `recover`: processes that   *)
(* may run at the same time and may end at any step, the local files they  *)
(* share (OperationJournal, the key custody file) and the appliance they   *)
(* change over a network that may answer late or never.                    *)
(*                                                                         *)
(* The privilege set of the target profile is one privilege, "expected";   *)
(* "temp" is the temporary bootstrap privilege, "extra" any other one.     *)
(* The administrator edits the appliance only while no command runs, the   *)
(* exclusive window the engine's results are stated for.                   *)
(***************************************************************************)
EXTENDS OperationJournal, FiniteSets

CONSTANTS Profiles,         \* service-account profiles commands are run for
          InitialAccounts,  \* accounts the appliance may start with
          MaxOps,           \* bound: operation ids ever drawn
          MaxGenerations    \* bound of the chain walk, 64 in the code

\* there are two service accounts; the administrator neither grants the
\* temporary privilege nor uses the identity of an account a command makes
ASSUME BootstrapAssumption ==
  /\ Profiles \subseteq {"read_only", "write_protected"}
  /\ MaxOps \in Nat /\ MaxGenerations \in Nat
  /\ \A a \in InitialAccounts :
       /\ a \in [id : Seq(Nat), priv : SUBSET {"expected", "extra"}, owned : BOOLEAN]
       /\ a.id \notin {<<n>> : n \in 1..MaxOps}

VARIABLES pc,        \* process -> where in its command it is
          job,       \* process -> what its command has learnt so far
          custody,   \* profile -> the key in the custody file, or NoKey
          account,   \* profile -> the service account on the appliance
          keys,      \* profile -> API keys of that account on the appliance
          inflight,  \* requests whose answer was lost and that may still land
          issued,    \* the confirmation token the operator holds, the last one printed
          drawn      \* operation ids drawn so far

appliance == <<account, keys, inflight>>
vars == <<journal, head, lockFile, flock, pc, job, custody, account, keys, inflight,
          issued, drawn>>

Privileges == {"expected", "temp", "extra"}
NoAccount == [id |-> <<>>, priv |-> {}, owned |-> FALSE]
NoKey == <<>>
NoToken == [action |-> NoAction, object |-> <<>>, incident |-> <<>>]
NoJob == [profile |-> "none", ns |-> <<>>, op |-> <<>>, observation |-> "none",
          snap |-> NoSnapshot, next |-> Rec("CREATED", 0, NoAction),
          seen |-> NoAccount, tx |-> "NOT_STARTED", action |-> NoAction, token |-> NoToken]

Init ==
  /\ journal = <<>> /\ head = <<>> /\ lockFile = <<>> /\ flock = <<>>
  /\ pc = [p \in Procs |-> "idle"]
  /\ job = [p \in Procs |-> NoJob]
  /\ custody = [f \in Profiles |-> NoKey]
  /\ account \in [Profiles -> InitialAccounts]
  /\ keys = [f \in Profiles |-> {}]
  /\ inflight = {} /\ issued = {} /\ drawn = 0

-----------------------------------------------------------------------------
(* Namespaces and contexts.                                                *)

\* _namespace(): fixed account and profile, operation type, resolution id
AdminNamespace(type, salt) == <<"write_protected", type, salt>>
ReadonlyNamespace(type, salt) == <<"read_only", type, salt>>
Namespace(profile, type, salt) ==
  IF profile = "read_only" THEN ReadonlyNamespace(type, salt) ELSE AdminNamespace(type, salt)

\* derive_resolution_operation_id(): determined by the incident's latest record
ResolutionId(ns) == <<journal[ns].op[1], Len(journal[ns].recs)>>

\* build_admin_context() and its read-only twin refuse local state that is
\* untrusted, corrupt, or a lock without its journal
ContextBuilds(p, ns) ==
  LET snap == Snapshot(ns)
      lock == LockObservation(p, ns)
  IN /\ snap.kind # "untrusted"
     /\ lock.state # "CORRUPT"
     /\ snap.kind = "none" => lock.state \in {"ABSENT", "RELEASED"}
     /\ (snap.kind = "journal" /\ lock.op # <<>>) => lock.op = snap.op

Classify(p, ns, observation) ==
  ClassifyRestart(Snapshot(ns), LockObservation(p, ns), custody[ns[1]] # NoKey, observation)

\* one hop of locate_bootstrap_chain_frontier(): this generation's incident
\* has no closed action and its own resolution is recorded complete
Resolved(p, profile, salt) ==
  LET ns == Namespace(profile, "bootstrap", salt)
      decision == Classify(p, ns, "none")
      res == Namespace(profile, "resolve", salt)
  IN /\ decision.classification = "RECOVERY_REQUIRED"
     /\ decision.action = NoAction
     /\ Loadable(ns)
     /\ ContextBuilds(p, res)
     /\ Loadable(res)
     /\ Latest(res).state = "COMPLETED"
     /\ journal[res].op = ResolutionId(ns)
     /\ ContextBuilds(p, Namespace(profile, "bootstrap", ResolutionId(ns)))

\* the salt of the frontier generation
Frontier(p, profile) ==
  LET walk[n \in 0..MaxGenerations] ==
        IF n = 0 THEN <<>>
        ELSE LET salt == walk[n - 1] IN
             IF Resolved(p, profile, salt)
             THEN ResolutionId(Namespace(profile, "bootstrap", salt)) ELSE salt
  IN walk[MaxGenerations]

-----------------------------------------------------------------------------
(* Steps shared by both commands.                                          *)

Goto(p, l) == pc' = [pc EXCEPT ![p] = l]
Set(p, j) == job' = [job EXCEPT ![p] = j]

\* the process ends; the lock metadata it wrote stays in the file
EndProcess(p) ==
  /\ pc' = [pc EXCEPT ![p] = "idle"]
  /\ Set(p, NoJob)
  /\ DropAllOf(p)

Crash(p) ==
  /\ pc[p] # "idle"
  /\ EndProcess(p)
  /\ UNCHANGED <<journal, head, lockFile, custody, appliance, issued, drawn>>

\* acquire(): open or create the file, flock without waiting, refuse active
\* metadata, truncate; then write the metadata
AcquireRefused(p) ==
  /\ pc[p] = "acquire"
  /\ Holder(job[p].ns) # NoProc \/ LockMeta(job[p].ns).meta = "active"
  /\ EndProcess(p)
  /\ UNCHANGED <<journal, head, lockFile, custody, appliance, issued, drawn>>

AcquireFlock(p) ==
  /\ pc[p] = "acquire"
  /\ TakeFlock(p, job[p].ns)
  /\ LockMeta(job[p].ns).meta # "active"
  /\ LockTruncate(job[p].ns)
  /\ Goto(p, "metadata")
  /\ UNCHANGED <<journal, head, job, custody, appliance, issued, drawn>>

AcquireWrite(p) ==
  /\ pc[p] = "metadata"
  /\ LockWrite(job[p].ns, "active", job[p].op)
  /\ Goto(p, IF job[p].action = NoAction THEN "preflight" ELSE "create")
  /\ UNCHANGED <<journal, head, flock, job, custody, appliance, issued, drawn>>

ReleaseTruncate(p) ==
  /\ pc[p] = "release"
  /\ LockTruncate(job[p].ns)
  /\ Goto(p, "released")
  /\ UNCHANGED <<journal, head, flock, job, custody, appliance, issued, drawn>>

ReleaseWrite(p) ==
  /\ pc[p] = "released"
  /\ LockWrite(job[p].ns, "released", job[p].op)
  /\ EndProcess(p)
  /\ UNCHANGED <<journal, head, custody, appliance, issued, drawn>>

\* the journal already exists: OperationJournalError, the lock is kept
CreateRefused(p) ==
  /\ pc[p] = "create"
  /\ Exists(job[p].ns)
  /\ EndProcess(p)
  /\ UNCHANGED <<journal, head, lockFile, custody, appliance, issued, drawn>>

CreateJournal(p) ==
  /\ pc[p] = "create"
  /\ JournalCreate(job[p].ns, job[p].op)
  /\ Set(p, [job[p] EXCEPT !.next = Rec("PRE_SEND_READY", 1, NoAction)])
  /\ Goto(p, "head")
  /\ UNCHANGED <<lockFile, flock, custody, appliance, issued, drawn>>

\* append() refuses a record that does not follow; the holder of the lock never
\* meets that, since nobody else appends to its journal.
AppendRecord(p) ==
  /\ pc[p] = "append"
  /\ CanAppend(job[p].ns, job[p].op, job[p].next)
  /\ JournalAppend(job[p].ns, job[p].next)
  /\ Goto(p, "head")
  /\ UNCHANGED <<lockFile, flock, job, custody, appliance, issued, drawn>>

\* what the orchestration does once a record is durable
AfterRecord(p, state) ==
  CASE state = "CREATED" -> Goto(p, "append") /\ UNCHANGED <<job, flock>>
    [] state = "PRE_SEND_READY" ->
         /\ Set(p, [job[p] EXCEPT !.next = Rec("MUTATION_INTENT_RECORDED", 1, NoAction)])
         /\ Goto(p, "append") /\ UNCHANGED flock
    [] state = "MUTATION_INTENT_RECORDED" ->
         Goto(p, IF job[p].action = NoAction THEN "observe" ELSE "select") /\ UNCHANGED <<job, flock>>
    [] state = "FINAL_VERIFICATION_PENDING" ->
         /\ Set(p, [job[p] EXCEPT !.next = Rec("COMPLETED", 1, NoAction)])
         /\ Goto(p, "append") /\ UNCHANGED flock
    [] state = "COMPLETED" -> Goto(p, "release") /\ UNCHANGED <<job, flock>>
    [] OTHER -> EndProcess(p)   \* MUTATION_RESULT_UNKNOWN: the lock is kept

RecordHead(p) ==
  /\ pc[p] = "head"
  /\ WriteHead(job[p].ns)
  /\ AfterRecord(p, Latest(job[p].ns).state)
  /\ UNCHANGED <<lockFile, custody, appliance, issued, drawn>>

-----------------------------------------------------------------------------
(* bootstrap: walk, observe, classify, lock, preflight.                    *)

Exact(acct) == acct.owned /\ acct.priv = {"expected"}

\* build_authoritative_restart_observation(): UNKNOWN unless exactly provisioned
RestartObservations(profile) ==
  {"none", IF Exact(account[profile]) THEN "EXPECTED_COMPLETED" ELSE "UNKNOWN"}

StartBootstrap(p, profile) ==
  /\ pc[p] = "idle" /\ drawn < MaxOps
  /\ ContextBuilds(p, Namespace(profile, "bootstrap", <<>>))
  /\ LET ns == Namespace(profile, "bootstrap", Frontier(p, profile)) IN
     \E o \in (IF Exists(ns) THEN RestartObservations(profile) ELSE {"none"}) :
       Set(p, [NoJob EXCEPT !.profile = profile, !.ns = ns, !.op = <<drawn + 1>>,
                            !.observation = o])
  /\ drawn' = drawn + 1
  /\ Goto(p, "classify")
  /\ UNCHANGED <<storage, custody, appliance, issued>>

\* classify(): the journal is loaded, then inspect() holds the flock while
\* it reads the metadata
ClassifyLoad(p) ==
  LET ns == job[p].ns
      snap == Snapshot(ns)
      lock == LockObservation(p, ns)
      free == ns \in DOMAIN lockFile /\ Holder(ns) = NoProc
  IN
  /\ pc[p] = "classify"
  /\ IF free
     THEN /\ TakeFlock(p, ns)
          /\ Set(p, [job[p] EXCEPT !.snap = snap])
          /\ Goto(p, "inspect")
     ELSE IF ClassifyRestart(snap, lock, custody[ns[1]] # NoKey, job[p].observation).classification
             = "CLEAN_NO_OPERATION"
          THEN Goto(p, "acquire") /\ UNCHANGED <<job, flock>>
          ELSE EndProcess(p)
  /\ UNCHANGED <<journal, head, lockFile, custody, appliance, issued, drawn>>

ClassifyInspect(p) ==
  LET ns == job[p].ns
      decision == ClassifyRestart(job[p].snap, LockObservation(p, ns), custody[ns[1]] # NoKey,
                                  job[p].observation)
  IN
  /\ pc[p] = "inspect"
  /\ IF decision.classification = "CLEAN_NO_OPERATION"
     THEN /\ DropFlock(ns)
          /\ Set(p, [job[p] EXCEPT !.snap = NoSnapshot])
          /\ Goto(p, "acquire")
     ELSE EndProcess(p)
  /\ UNCHANGED <<journal, head, lockFile, custody, appliance, issued, drawn>>

\* check_read_only(): writable, or the switch is on or unreadable, and then
\* nothing is journalled
CheckReadOnly(p) ==
  /\ pc[p] = "preflight"
  /\ Goto(p, "create") \/ Goto(p, "release")
  /\ UNCHANGED <<storage, job, custody, appliance, issued, drawn>>

-----------------------------------------------------------------------------
(* The provisioning engine.  A read may fail; a change is acknowledged,    *)
(* refused, or its answer is lost and the request may land later.          *)

TransactionNext ==
  [s \in {"NOT_STARTED", "USER_CREATED", "GRANTED", "KEY_GENERATED", "REVOKED", "VERIFIED"} |->
    CASE s = "NOT_STARTED" -> "USER_CREATED" [] s = "USER_CREATED" -> "GRANTED"
      [] s = "GRANTED" -> "KEY_GENERATED" [] s = "KEY_GENERATED" -> "REVOKED"
      [] OTHER -> "VERIFIED"]

\* check_invariants(): the temporary privilege only between grant and revocation
TransactionInvariant(s, priv) ==
  s \in {"NOT_STARTED", "USER_CREATED", "REVOKED", "VERIFIED"} => "temp" \notin priv

\* not a clean success: the journal is closed at MUTATION_RESULT_UNKNOWN
Fail(p) ==
  /\ Set(p, [job[p] EXCEPT !.next = Rec("MUTATION_RESULT_UNKNOWN", 1, NoAction),
                           !.seen = NoAccount, !.tx = "NOT_STARTED"])
  /\ Goto(p, "append")

Succeed(p) ==
  /\ Set(p, [job[p] EXCEPT !.next = Rec("FINAL_VERIFICATION_PENDING", 1, NoAction),
                           !.seen = NoAccount, !.tx = "NOT_STARTED"])
  /\ Goto(p, "append")

\* provision_service_account(): pre-flight observation, then one of two ways
Observe(p) ==
  LET acct == account[job[p].profile] IN
  /\ pc[p] = "observe"
  /\ \/ Fail(p)
     \/ acct = NoAccount /\ Goto(p, "create_user") /\ UNCHANGED job
     \* already satisfied, with or without other privileges
     \/ /\ acct.owned /\ "temp" \notin acct.priv /\ "expected" \in acct.priv
        /\ Succeed(p)
     \/ /\ acct.owned /\ "temp" \notin acct.priv /\ "expected" \notin acct.priv
        /\ Set(p, [job[p] EXCEPT !.seen = acct])
        /\ Goto(p, "sync_read")
  /\ UNCHANGED <<storage, custody, appliance, issued, drawn>>

\* the final read before privileges of an existing account are written back
SyncRead(p) ==
  LET acct == account[job[p].profile] IN
  /\ pc[p] = "sync_read"
  /\ \/ Fail(p)
     \/ /\ acct.id = job[p].seen.id /\ acct.owned /\ "temp" \notin acct.priv
        /\ Set(p, [job[p] EXCEPT !.seen = acct])
        /\ Goto(p, "sync")
  /\ UNCHANGED <<storage, custody, appliance, issued, drawn>>

\* what a request does when the appliance carries it out
Apply(r) ==
  CASE r.kind = "create_user" ->
         /\ account' = [account EXCEPT ![r.profile] =
                          IF @ = NoAccount THEN [id |-> r.id, priv |-> r.priv, owned |-> TRUE] ELSE @]
         /\ UNCHANGED keys
    [] r.kind = "update_priv" ->
         /\ account' = [account EXCEPT ![r.profile] = IF @.id = r.id THEN [@ EXCEPT !.priv = r.priv] ELSE @]
         /\ UNCHANGED keys
    [] r.kind = "create_key" ->
         /\ keys' = [keys EXCEPT ![r.profile] =
                       IF "temp" \in account[r.profile].priv THEN @ \cup {r.id} ELSE @]
         /\ UNCHANGED account
    [] r.kind = "delete_key" ->
         keys' = [keys EXCEPT ![r.profile] = @ \ {r.id}] /\ UNCHANGED account
    [] r.kind = "delete_user" ->
         /\ account' = [account EXCEPT ![r.profile] = IF @.id = r.id THEN NoAccount ELSE @]
         /\ UNCHANGED keys

\* whether the appliance accepts a request at this moment
Accepts(r) ==
  CASE r.kind = "create_user" -> account[r.profile] = NoAccount
    [] r.kind = "create_key" -> account[r.profile].id # <<>> /\ "temp" \in account[r.profile].priv
    [] r.kind = "delete_key" -> r.id \in keys[r.profile]
    [] OTHER -> account[r.profile].id = r.id /\ r.id # <<>>

Request(kind, profile, id, priv) == [kind |-> kind, profile |-> profile, id |-> id, priv |-> priv]

\* one change sent by p: acknowledged and then k, or the engine gives up
Send(p, r, k) ==
  \/ /\ Accepts(r)
     /\ Apply(r)
     /\ k
     /\ UNCHANGED inflight
  \/ Fail(p) /\ UNCHANGED <<account, keys, inflight>>
  \/ Fail(p) /\ inflight' = inflight \cup {r} /\ UNCHANGED <<account, keys>>

\* a request whose answer was lost is carried out after all
Land(r) ==
  /\ r \in inflight
  /\ inflight' = inflight \ {r}
  /\ IF Accepts(r) THEN Apply(r) ELSE UNCHANGED <<account, keys>>
  /\ UNCHANGED <<storage, pc, job, custody, issued, drawn>>

\* slip: only the expected privileges are written back
SyncReplaces(p) ==
  /\ pc[p] = "sync"
  /\ Send(p, Request("update_priv", job[p].profile, job[p].seen.id, {"expected"}),
          Goto(p, "sync_verify") /\ UNCHANGED job)
  /\ UNCHANGED <<storage, custody, issued, drawn>>

Sync(p) ==
  /\ pc[p] = "sync"
  /\ Send(p, Request("update_priv", job[p].profile, job[p].seen.id,
                     job[p].seen.priv \cup {"expected"}),
          Goto(p, "sync_verify") /\ UNCHANGED job)
  /\ UNCHANGED <<storage, custody, issued, drawn>>

SyncVerify(p) ==
  LET acct == account[job[p].profile] IN
  /\ pc[p] = "sync_verify"
  /\ \/ Fail(p)
     \/ /\ acct.id = job[p].seen.id /\ acct.owned
        /\ "expected" \in acct.priv /\ job[p].seen.priv \subseteq acct.priv
        /\ Succeed(p)
  /\ UNCHANGED <<storage, custody, appliance, issued, drawn>>

\* a request of the new-account path, and where the engine goes once it is
\* acknowledged
NewAccountStep(p, l, r, l2) ==
  /\ pc[p] = l
  /\ Send(p, r, Goto(p, l2) /\ UNCHANGED job)
  /\ UNCHANGED <<storage, custody, issued, drawn>>

CreateUser(p) ==
  NewAccountStep(p, "create_user",
                 Request("create_user", job[p].profile, job[p].op, {"expected"}), "verify_created")
Grant(p) ==
  NewAccountStep(p, "grant",
                 Request("update_priv", job[p].profile, job[p].op, {"expected", "temp"}), "verify_granted")
Revoke(p) ==
  NewAccountStep(p, "revoke",
                 Request("update_priv", job[p].profile, job[p].op, {"expected"}), "verify_revoked")

CreateKey(p) ==
  /\ pc[p] = "create_key"
  /\ Send(p, Request("create_key", job[p].profile, job[p].op, {}),
          Set(p, [job[p] EXCEPT !.tx = TransactionNext[@]]) /\ Goto(p, "revoke"))
  /\ UNCHANGED <<storage, custody, issued, drawn>>

\* _reread_and_check() and the transaction step that rests on it
Verify(p, l, priv, l2) ==
  LET acct == account[job[p].profile]
      tx == TransactionNext[job[p].tx]
  IN
  /\ pc[p] = l
  /\ \/ Fail(p)
     \/ /\ acct.id = job[p].op /\ acct.owned /\ acct.priv = priv
        /\ TransactionInvariant(tx, priv)
        /\ Set(p, [job[p] EXCEPT !.tx = tx])
        /\ Goto(p, l2)
  /\ UNCHANGED <<storage, custody, appliance, issued, drawn>>

VerifyCreated(p) == Verify(p, "verify_created", {"expected"}, "grant")
VerifyGranted(p) == Verify(p, "verify_granted", {"expected", "temp"}, "create_key")
VerifyRevoked(p) == Verify(p, "verify_revoked", {"expected"}, "persist")

\* the generated key goes to the custody file, created exclusively, before
\* the journal is closed; a failure escapes run_bootstrap()
PersistKey(p) ==
  /\ pc[p] = "persist"
  /\ IF custody[job[p].profile] = NoKey
     THEN /\ custody' = [custody EXCEPT ![job[p].profile] = job[p].op]
          /\ Succeed(p) /\ UNCHANGED flock
     ELSE EndProcess(p) /\ UNCHANGED custody
  /\ UNCHANGED <<journal, head, lockFile, appliance, issued, drawn>>

\* slip: the failure to store the key is swallowed
PersistFailureIgnored(p) ==
  /\ pc[p] = "persist"
  /\ Succeed(p)
  /\ UNCHANGED <<storage, custody, appliance, issued, drawn>>

PersistFails(p) ==
  /\ pc[p] = "persist"
  /\ EndProcess(p)
  /\ UNCHANGED <<journal, head, lockFile, custody, appliance, issued, drawn>>
=============================================================================
