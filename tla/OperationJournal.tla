--------------------------- MODULE OperationJournal ---------------------------
(***************************************************************************)
(* Durable state of the administrative commands: the authenticated journal *)
(* with its separate head file, and the exclusive operation lock, a file   *)
(* whose metadata outlives the flock taken on it.                          *)
(*                                                                         *)
(* A namespace names one journal, one head and one lock file.  A record's  *)
(* MAC is abstracted to <<operation id, number of records>>: a journal     *)
(* only grows and keeps its operation id, so that pair names its prefix.   *)
(***************************************************************************)
EXTENDS Integers, Sequences

CONSTANTS Procs,    \* processes that may run an administrative command
          NoProc    \* nobody holds the flock

ASSUME NoProcAssumption == NoProc \notin Procs

VARIABLES journal,   \* namespace -> [op, recs]: the journal file, if created
          head,      \* namespace -> records authenticated by the head file
          lockFile,  \* namespace -> [meta, op]: the lock file, if created
          flock      \* namespace -> the process that holds the flock

storage == <<journal, head, lockFile, flock>>

DurableStates ==
  {"CREATED", "PRE_SEND_READY", "MUTATION_INTENT_RECORDED", "MUTATION_RESULT_UNKNOWN",
   "SERVER_STATE_PARTIAL", "RECOVERY_REQUIRED", "FINAL_VERIFICATION_PENDING", "COMPLETED"}

Allowed ==
  [s \in DurableStates |->
    CASE s = "CREATED" -> {"PRE_SEND_READY"}
      [] s = "PRE_SEND_READY" -> {"MUTATION_INTENT_RECORDED", "COMPLETED"}
      [] s = "MUTATION_INTENT_RECORDED" ->
           {"MUTATION_RESULT_UNKNOWN", "SERVER_STATE_PARTIAL", "FINAL_VERIFICATION_PENDING",
            "RECOVERY_REQUIRED"}
      [] s = "MUTATION_RESULT_UNKNOWN" -> {"SERVER_STATE_PARTIAL", "RECOVERY_REQUIRED"}
      [] s = "SERVER_STATE_PARTIAL" ->
           {"PRE_SEND_READY", "RECOVERY_REQUIRED", "FINAL_VERIFICATION_PENDING"}
      [] s = "FINAL_VERIFICATION_PENDING" -> {"COMPLETED", "RECOVERY_REQUIRED"}
      [] OTHER -> {}]

RecoveryActions == {"REVOKE_ORPHAN_KEY", "DELETE_DEDICATED_USER", "RESOLVE_UNPROVISIONED_INCIDENT"}
NoAction == "none"

\* JournalRecord: the timestamp and the previous MAC are left out
Record == [state: DurableStates, index: 0..1, action: RecoveryActions \cup {NoAction}]

Rec(s, i, a) == [state |-> s, index |-> i, action |-> a]

Extend(f, k, v) == [x \in DOMAIN f \cup {k} |-> IF x = k THEN v ELSE f[x]]
At(f, k, default) == IF k \in DOMAIN f THEN f[k] ELSE default

Exists(ns) == ns \in DOMAIN journal
Latest(ns) == journal[ns].recs[Len(journal[ns].recs)]
Mac(ns) == <<journal[ns].op, Len(journal[ns].recs)>>

\* load() succeeds when the head authenticates exactly the last record
Loadable(ns) == Exists(ns) /\ At(head, ns, 0) = Len(journal[ns].recs)

ValidTransition(prev, cand) ==
  /\ cand.state \in Allowed[prev.state]
  /\ prev.index <= cand.index /\ cand.index <= prev.index + 1
  /\ cand.state = "PRE_SEND_READY" => cand.index = prev.index + 1
  /\ (cand.state = "RECOVERY_REQUIRED") = (cand.action # NoAction)

-----------------------------------------------------------------------------
(* The journal: a record is written and synced, then the head replaces the *)
(* old one.  Each of the two is one durable step.                          *)

\* slip: create() opens without O_EXCL and starts the journal over
JournalCreateTruncates(ns, op) ==
  /\ journal' = Extend(journal, ns, [op |-> op, recs |-> <<Rec("CREATED", 0, NoAction)>>])
  /\ head' = Extend(head, ns, 0)

\* create(): O_EXCL, so an existing journal raises OperationJournalError
JournalCreate(ns, op) ==
  /\ ~Exists(ns)
  /\ journal' = Extend(journal, ns, [op |-> op, recs |-> <<Rec("CREATED", 0, NoAction)>>])
  /\ UNCHANGED head

\* append(): the journal is loaded and the transition validated first
CanAppend(ns, op, rec) ==
  Loadable(ns) /\ journal[ns].op = op /\ ValidTransition(Latest(ns), rec)

JournalAppend(ns, rec) ==
  /\ journal' = [journal EXCEPT ![ns].recs = Append(@, rec)]
  /\ UNCHANGED head

WriteHead(ns) ==
  /\ head' = Extend(head, ns, Len(journal[ns].recs))
  /\ UNCHANGED journal

-----------------------------------------------------------------------------
(* The lock.  meta is "empty" between the truncation of the file and the   *)
(* write of its new metadata, and in a file that was only created.         *)

LockMeta(ns) == At(lockFile, ns, [meta |-> "absent", op |-> <<>>])
Holder(ns) == At(flock, ns, NoProc)

LockTruncate(ns) == lockFile' = Extend(lockFile, ns, [meta |-> "empty", op |-> <<>>])
LockWrite(ns, meta, op) == lockFile' = [lockFile EXCEPT ![ns] = [meta |-> meta, op |-> op]]

\* slip: the flock is not exclusive
TakeFlockShared(p, ns) == flock' = Extend(flock, ns, p)

TakeFlock(p, ns) == Holder(ns) = NoProc /\ flock' = Extend(flock, ns, p)
DropFlock(ns) == flock' = Extend(flock, ns, NoProc)

\* a process that ends, however it ends, closes its descriptors
DropAllOf(p) == flock' = [ns \in DOMAIN flock |-> IF flock[ns] = p THEN NoProc ELSE flock[ns]]

\* inspect(), with the flock taken for an instant when it is free.
\* The operation id is <<>> where the code reports None.
LockObservation(p, ns) ==
  LET file == LockMeta(ns) IN
  CASE file.meta = "absent" -> [state |-> "ABSENT", op |-> <<>>]
    [] file.meta # "absent" /\ Holder(ns) \notin {NoProc, p} ->
         [state |-> "ACTIVE_HELD", op |-> file.op]
    [] file.meta = "empty" /\ Holder(ns) \in {NoProc, p} -> [state |-> "CORRUPT", op |-> <<>>]
    [] file.meta = "active" /\ Holder(ns) \in {NoProc, p} -> [state |-> "ACTIVE_STALE", op |-> file.op]
    [] OTHER -> [state |-> "RELEASED", op |-> file.op]

-----------------------------------------------------------------------------
(* classify_restart().  A snapshot is what _load_bound_journal returned:   *)
(* no journal, an untrusted one, or the operation and its latest record.   *)
(* observation is the authoritative server state, "none" when there is no  *)
(* fresh one.                                                              *)

Snapshot(ns) ==
  [kind |-> IF ~Exists(ns) THEN "none" ELSE IF Loadable(ns) THEN "journal" ELSE "untrusted",
   op |-> IF Loadable(ns) THEN journal[ns].op ELSE <<>>,
   latest |-> IF Loadable(ns) THEN Latest(ns) ELSE Rec("CREATED", 0, NoAction)]

NoSnapshot == [kind |-> "none", op |-> <<>>, latest |-> Rec("CREATED", 0, NoAction)]

Decision(c, op, a) == [classification |-> c, op |-> op, action |-> a]

ClassifyRestart(snap, lock, keyPresent, observation) ==
  LET latest == snap.latest
      required == Decision("RECOVERY_REQUIRED", snap.op, latest.action)
  IN
  CASE snap.kind = "untrusted" \/ lock.state = "CORRUPT" -> Decision("CORRUPT", <<>>, NoAction)
    [] snap.kind = "none" /\ lock.state # "CORRUPT" ->
         IF lock.state \notin {"ABSENT", "RELEASED"} \/ keyPresent
         THEN Decision("CORRUPT", lock.op, NoAction)
         ELSE Decision("CLEAN_NO_OPERATION", <<>>, NoAction)
    [] OTHER ->
         IF lock.op # <<>> /\ lock.op # snap.op THEN Decision("CORRUPT", snap.op, NoAction)
         ELSE IF lock.state = "ACTIVE_HELD" \/ observation = "none" THEN required
         ELSE CASE latest.state = "COMPLETED" ->
                     Decision(IF observation = "EXPECTED_COMPLETED" THEN "CLEAN_COMPLETED"
                              ELSE "COMPLETED_NEEDS_FINAL_VERIFICATION", snap.op, NoAction)
                [] latest.state \in {"CREATED", "PRE_SEND_READY"} ->
                     Decision(IF observation = "CLEAN" THEN "PRE_SEND_RESUMABLE"
                              ELSE "PARTIAL_SERVER_STATE", snap.op, NoAction)
                [] latest.state \in {"MUTATION_INTENT_RECORDED", "MUTATION_RESULT_UNKNOWN"} ->
                     Decision("MUTATION_SENT_RESULT_UNKNOWN", snap.op, NoAction)
                [] latest.state = "FINAL_VERIFICATION_PENDING" ->
                     Decision("COMPLETED_NEEDS_FINAL_VERIFICATION", snap.op, NoAction)
                [] latest.state = "SERVER_STATE_PARTIAL" ->
                     Decision("PARTIAL_SERVER_STATE", snap.op, NoAction)
                [] OTHER -> required
=============================================================================
