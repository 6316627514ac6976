----------------------------- MODULE AdminCommands -----------------------------
(***************************************************************************)
(* The `recover` command and the composition of both administrative        *)
(* commands with the administrator and the network.                        *)
(*                                                                         *)
(* The offline part of a command (the walk to the frontier generation and  *)
(* the reads that identify a candidate) is one step; whatever is read      *)
(* before the lock is taken may be stale once it is.                       *)
(***************************************************************************)
EXTENDS Bootstrap

-----------------------------------------------------------------------------
(* recover: inspection.                                                    *)

\* the frontier journal's action; without one the incident is taken to be
\* unprovisioned, until the evidence is read
RequiredAction(decision) ==
  IF decision.action = NoAction THEN "RESOLVE_UNPROVISIONED_INCIDENT" ELSE decision.action

\* only the resolution of an unprovisioned incident follows the chain
RecoveryNamespace(profile, action, salt) ==
  CASE action = "REVOKE_ORPHAN_KEY" -> Namespace(profile, "revoke", <<>>)
    [] action = "DELETE_DEDICATED_USER" -> Namespace(profile, "delete", <<>>)
    [] action = "RESOLVE_UNPROVISIONED_INCIDENT" -> Namespace(profile, "resolve", salt)

\* _select_orphan_api_key(): exactly one matching key
OrphanKey(profile) == {k \in keys[profile] : keys[profile] = {k}}

\* _select_dedicated_recovery_user() and _check_no_owned_key()
DedicatedUser(profile) ==
  {a \in {account[profile].id} : Exact(account[profile]) /\ keys[profile] = {}}

\* identify_unprovisioned_incident_evidence(): both collections read as empty
UnprovisionedEvidence(profile) ==
  {e \in {<<>>} : account[profile] = NoAccount /\ keys[profile] = {}}

\* the objects the action could be about: one or none
Candidate(profile, action) ==
  CASE action = "REVOKE_ORPHAN_KEY" -> OrphanKey(profile)
    [] action = "DELETE_DEDICATED_USER" -> DedicatedUser(profile)
    [] action = "RESOLVE_UNPROVISIONED_INCIDENT" -> UnprovisionedEvidence(profile)

\* derive_confirmation_token(): action, object and the incident's latest record
Token(action, object, ns) == [action |-> action, object |-> object, incident |-> Mac(ns)]

\* the part run_recovery_from_environment() has in common for an inspection
\* and an execution: the frontier incident ns, its action, and a recovery
\* namespace nothing was done in yet
RecoveryNeeded(p, profile, ns, action) ==
  LET salt == Frontier(p, profile)
      decision == Classify(p, ns, "none")
      recovery == RecoveryNamespace(profile, action, salt)
  IN
  /\ ContextBuilds(p, Namespace(profile, "bootstrap", <<>>))
  /\ ns = Namespace(profile, "bootstrap", salt)
  /\ decision.classification = "RECOVERY_REQUIRED"
  /\ action = RequiredAction(decision)
  /\ Loadable(ns)
  /\ ContextBuilds(p, recovery)
  /\ Classify(p, recovery, "none").classification = "CLEAN_NO_OPERATION"

\* a plausible slip: the object is left out of what the token binds
TokenIgnoresObject(token, object, ns) == token.incident = Mac(ns)

\* confirmation_token_matches(): the given token is the one derived now
TokenMatches(token, object, ns) == token = Token(token.action, object, ns)

Incidents(profile) == {ns \in DOMAIN journal : ns[1] = profile /\ ns[2] = "bootstrap"}

InspectIncident(p, profile) ==
  /\ pc[p] = "idle"
  /\ \E ns \in Incidents(profile), action \in RecoveryActions :
       \E object \in Candidate(profile, action) :
         /\ RecoveryNeeded(p, profile, ns, action)
         /\ issued' = {Token(action, object, ns)}
  /\ UNCHANGED <<storage, pc, job, custody, appliance, drawn>>

\* --execute with a token an earlier inspection printed
StartRecovery(p, profile) ==
  /\ pc[p] = "idle" /\ drawn < MaxOps
  /\ \E ns \in Incidents(profile), token \in issued :
       LET action == token.action IN
       /\ \E object \in Candidate(profile, action) : TokenMatches(token, object, ns)
       /\ RecoveryNeeded(p, profile, ns, action)
       /\ Set(p, [NoJob EXCEPT !.profile = profile, !.action = action, !.token = token,
                               !.ns = RecoveryNamespace(profile, action, ns[3]),
                               !.op = IF action = "RESOLVE_UNPROVISIONED_INCIDENT"
                                      THEN ResolutionId(ns) ELSE <<drawn + 1>>])
       /\ drawn' = IF action = "RESOLVE_UNPROVISIONED_INCIDENT" THEN drawn ELSE drawn + 1
  /\ Goto(p, "acquire")
  /\ UNCHANGED <<storage, custody, appliance, issued>>

-----------------------------------------------------------------------------
(* recover: the call made once the intent is recorded.                     *)

\* two agreeing reads select the object afresh; a resolution needs no more
Select(p) ==
  LET found == Candidate(job[p].profile, job[p].action) IN
  /\ pc[p] = "select"
  /\ \/ Fail(p)
     \/ /\ job[p].action = "RESOLVE_UNPROVISIONED_INCIDENT" /\ found # {}
        /\ Succeed(p)
     \/ /\ job[p].action # "RESOLVE_UNPROVISIONED_INCIDENT"
        /\ \E object \in found : Set(p, [job[p] EXCEPT !.seen.id = object])
        /\ Goto(p, "delete")
  /\ UNCHANGED <<storage, custody, appliance, issued, drawn>>

Delete(p) ==
  LET kind == IF job[p].action = "REVOKE_ORPHAN_KEY" THEN "delete_key" ELSE "delete_user" IN
  /\ pc[p] = "delete"
  /\ Send(p, Request(kind, job[p].profile, job[p].seen.id, {}),
          Goto(p, "verify_deleted") /\ UNCHANGED job)
  /\ UNCHANGED <<storage, custody, issued, drawn>>

\* the collection is the one read before the deletion without the object
VerifyDeleted(p) ==
  /\ pc[p] = "verify_deleted"
  /\ \/ Fail(p)
     \/ /\ keys[job[p].profile] = {}
        /\ job[p].action = "DELETE_DEDICATED_USER" => account[job[p].profile] = NoAccount
        /\ Succeed(p)
  /\ UNCHANGED <<storage, custody, appliance, issued, drawn>>

-----------------------------------------------------------------------------
(* The environment.                                                        *)

Quiet == inflight = {} /\ \A p \in Procs : pc[p] = "idle"

\* an unfinished operation is closed through the journal's own append();
\* no command does it, the operator's tooling may
RecordRecoveryRequired(ns, action) ==
  LET rec == Rec("RECOVERY_REQUIRED", 1, action) IN
  /\ Quiet /\ ns \in DOMAIN journal
  /\ CanAppend(ns, journal[ns].op, rec)
  /\ journal' = [journal EXCEPT ![ns].recs = Append(@, rec)]
  /\ head' = Extend(head, ns, Len(journal[ns].recs) + 1)
  /\ UNCHANGED <<lockFile, flock, pc, job, custody, appliance, issued, drawn>>

\* the administrator removes what a failed bootstrap left behind, or puts
\* another account in its place
Administer(profile) ==
  /\ Quiet
  /\ \E a \in InitialAccounts : account' = [account EXCEPT ![profile] = a]
  /\ keys' = [keys EXCEPT ![profile] = {}]
  /\ UNCHANGED <<storage, pc, job, custody, inflight, issued, drawn>>

-----------------------------------------------------------------------------
LockStep(p) ==
  \/ AcquireRefused(p) \/ AcquireFlock(p) \/ AcquireWrite(p)
  \/ ReleaseTruncate(p) \/ ReleaseWrite(p)

JournalStep(p) ==
  \/ CreateRefused(p) \/ CreateJournal(p) \/ AppendRecord(p)
  \/ RecordHead(p)

EngineStep(p) ==
  \/ Observe(p) \/ SyncRead(p) \/ Sync(p) \/ SyncVerify(p)
  \/ CreateUser(p) \/ VerifyCreated(p) \/ Grant(p) \/ VerifyGranted(p) \/ CreateKey(p)
  \/ Revoke(p) \/ VerifyRevoked(p)

\* the steps a running command takes by itself
CommandStep(p) ==
  \/ LockStep(p) \/ JournalStep(p) \/ EngineStep(p)
  \/ ClassifyLoad(p) \/ ClassifyInspect(p) \/ CheckReadOnly(p)
  \/ PersistKey(p) \/ PersistFails(p)
  \/ Select(p) \/ Delete(p) \/ VerifyDeleted(p)

Next ==
  \/ \E p \in Procs :
       \/ CommandStep(p) \/ Crash(p)
       \/ \E f \in Profiles : StartBootstrap(p, f) \/ InspectIncident(p, f) \/ StartRecovery(p, f)
  \/ \E r \in inflight : Land(r)
  \/ \E f \in Profiles : Administer(f)
  \/ \E ns \in DOMAIN journal, a \in {"REVOKE_ORPHAN_KEY", "DELETE_DEDICATED_USER"} :
       RecordRecoveryRequired(ns, a)

Spec == Init /\ [][Next]_vars

-----------------------------------------------------------------------------
(* Properties.                                                             *)

NamespaceType == {"bootstrap", "resolve", "revoke", "delete"}
IsNamespace(ns) == ns[1] \in Profiles /\ ns[2] \in NamespaceType

\* Type correctness of the durable state, the appliance and the processes.
TypeOK ==
  /\ \A ns \in DOMAIN journal :
       /\ IsNamespace(ns)
       /\ \A i \in 1..Len(journal[ns].recs) : journal[ns].recs[i] \in Record
  /\ \A ns \in DOMAIN head : ns \in DOMAIN journal /\ head[ns] \in 0..Len(journal[ns].recs)
  /\ \A ns \in DOMAIN lockFile : IsNamespace(ns) /\ lockFile[ns].meta \in {"empty", "active", "released"}
  /\ \A ns \in DOMAIN flock : flock[ns] \in Procs \cup {NoProc}
  /\ \A f \in Profiles : account[f].priv \subseteq Privileges
  /\ \A r \in inflight : r.profile \in Profiles
  /\ \A p \in Procs : pc[p] = "idle" <=> job[p] = NoJob
  /\ drawn \in 0..MaxOps

\* OperationJournal.create() and append(): a journal is never truncated,
\* replaced or handed to another operation, whatever the commands racing
\* for its namespace read before they took the lock.
JournalAppendOnly ==
  \A ns \in DOMAIN journal :
    /\ ns \in DOMAIN journal'
    /\ journal'[ns].op = journal[ns].op
    /\ \E recs \in {journal'[ns].recs} :
         /\ Len(recs) >= Len(journal[ns].recs)
         /\ SubSeq(recs, 1, Len(journal[ns].recs)) = journal[ns].recs

\* OperationJournal.append(): once a crash left a record its head does not
\* authenticate, nothing is ever added to that journal again.
UntrustedNeverGrows ==
  \A ns \in DOMAIN journal :
    (~Loadable(ns) /\ \A p \in Procs : ~(pc[p] = "head" /\ job[p].ns = ns))
      => journal'[ns] = journal[ns] /\ ~(Loadable(ns))'

\* A journal keeps its history, and one that lost its authenticity keeps
\* still (security_operation_journal.py).
JournalHistory == [][JournalAppendOnly /\ UntrustedNeverGrows]_vars

Locked(p) ==
  pc[p] \notin {"idle", "classify", "inspect", "acquire"}

\* ExclusiveOperationLock: two commands are never inside the same lock, even
\* when an inspection takes and drops the flock in between.
LockExcludes ==
  \A p, q \in Procs : (p # q /\ Locked(p) /\ Locked(q)) => job[p].ns # job[q].ns

Open == {"MUTATION_INTENT_RECORDED", "MUTATION_RESULT_UNKNOWN", "RECOVERY_REQUIRED"}

\* run_bootstrap(): an account is left with the temporary bootstrap
\* privilege only while a bootstrap journal of its profile is still open, so
\* every next bootstrap is blocked until somebody looked.
TempPrivilegeOnRecord ==
  \A f \in Profiles :
    "temp" \in account[f].priv => \E ns \in Incidents(f) : Latest(ns).state \in Open

\* _run_locked(): an API key that exists on the appliance and is not the one
\* in the custody file belongs to an operation whose journal is still open.
OrphanKeyOnRecord ==
  \A f \in Profiles : \A k \in keys[f] :
    custody[f] = k
      \/ \E ns \in Incidents(f) : journal[ns].op = k /\ Latest(ns).state \in Open

\* locate_bootstrap_chain_frontier(): a later generation only ever exists
\* after the resolution it is named for was recorded complete.
RetryNeedsResolution ==
  \A ns \in DOMAIN journal :
    (ns[2] = "bootstrap" /\ ns[3] # <<>>) =>
      \E res \in DOMAIN journal :
        /\ res[1] = ns[1] /\ res[2] = "resolve"
        /\ journal[res].op = ns[3] /\ Latest(res).state = "COMPLETED"

\* Every privilege, key and retry is accounted for by a journal, whichever
\* request failed or process died (security_bootstrap_orchestration.py).
JournalAccounts == TempPrivilegeOnRecord /\ OrphanKeyOnRecord /\ RetryNeedsResolution

\* recover --execute: what is deleted is the object whose identity the
\* operator's token was derived from, although it is selected afresh.
DeletesConfirmedObject ==
  \A p \in Procs : pc[p] = "delete" => job[p].seen.id = job[p].token.object

\* _provision_existing_account(): outside the administrator's own edits no
\* step takes an unrelated privilege away from an account that stays.
ForeignPrivilegesKept ==
  [][~Quiet => \A f \in Profiles :
       ("extra" \in account[f].priv /\ account'[f].id = account[f].id)
         => "extra" \in account'[f].priv]_vars

\* RecoveryAction: the bootstrap journal a completed resolution is about
\* "remains a permanent, immutable incident record".
ResolvedIncidentFrozen ==
  [][\A f \in Profiles : \A ns \in Incidents(f) :
       (\E res \in DOMAIN journal :
          /\ res = Namespace(f, "resolve", ns[3])
          /\ journal[res].op[1] = journal[ns].op[1]
          /\ Latest(res).state = "COMPLETED")
         => journal'[ns] = journal[ns]]_vars
=============================================================================
