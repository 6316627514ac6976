------------------------ MODULE AdminCommandsProofs ------------------------
(***************************************************************************)
(* Proofs about AdminCommands: the lock excludes, journals keep their      *)
(* history and account for what is on the appliance, and a recovery        *)
(* deletes what the operator confirmed.                                    *)
(***************************************************************************)
EXTENDS AdminCommands, SequenceTheorems, WellFoundedInduction, TLAPS

-----------------------------------------------------------------------------
(* Types.                                                                  *)

Id == Seq(Nat)
Ns == {"read_only", "write_protected"} \X NamespaceType \X Id
Action == RecoveryActions \cup {NoAction}
Account == [id : Id, priv : SUBSET Privileges, owned : BOOLEAN]
TokenType == [action : Action, object : Id, incident : (Id \X Nat) \cup {<<>>}]
SnapshotType == [kind : {"none", "journal", "untrusted"}, op : Id, latest : Record]
TxState == {"NOT_STARTED", "USER_CREATED", "GRANTED", "KEY_GENERATED", "REVOKED", "VERIFIED"}
Journal == [op : Id, recs : Seq(Record)]
RequestType ==
  [kind : {"create_user", "update_priv", "create_key", "delete_key", "delete_user"},
   profile : Profiles, id : Id, priv : SUBSET Privileges]

Job ==
  [profile : Profiles \cup {"none"}, ns : Ns \cup {<<>>}, op : Id,
   observation : {"none", "EXPECTED_COMPLETED", "UNKNOWN"}, snap : SnapshotType,
   next : Record, seen : Account, tx : TxState, action : Action, token : TokenType]

\* where only a bootstrap, only a recovery, or either of them can be
BootstrapLabels ==
  {"classify", "inspect", "preflight", "observe", "sync_read", "sync", "sync_verify",
   "create_user", "verify_created", "grant", "verify_granted", "create_key", "revoke",
   "verify_revoked", "persist"}
RecoveryLabels == {"select", "delete", "verify_deleted"}
SharedLabels == {"acquire", "metadata", "create", "head", "append", "release", "released"}
Labels == {"idle"} \cup BootstrapLabels \cup RecoveryLabels \cup SharedLabels

\* A journal that exists has an operation and at least one record, and a
\* record carries an action exactly when it asks for recovery.
JournalOK(j) ==
  /\ j \in Journal
  /\ j.op # <<>> /\ j.recs # <<>>
  /\ j.recs[Len(j.recs)].action # NoAction => j.recs[Len(j.recs)].state = "RECOVERY_REQUIRED"

StorageType ==
  /\ DOMAIN journal \subseteq Ns
  /\ journal = [ns \in DOMAIN journal |-> journal[ns]]
  /\ \A ns \in DOMAIN journal : JournalOK(journal[ns])
  /\ flock = [ns \in DOMAIN flock |-> flock[ns]]
  /\ \A ns \in DOMAIN flock : flock[ns] \in Procs \cup {NoProc}

ApplianceType ==
  /\ account \in [Profiles -> Account]
  /\ keys \in [Profiles -> SUBSET Id]
  /\ inflight \subseteq RequestType

ProcessType ==
  /\ pc \in [Procs -> Labels]
  /\ job \in [Procs -> Job]
  /\ custody \in [Profiles -> Id]
  /\ issued \subseteq TokenType
  /\ drawn \in 0..MaxOps

\* What a running command is about does not change until it ends.
Started(j) ==
  /\ j.profile \in Profiles
  /\ j.ns \in Ns /\ j.ns[1] = j.profile
  /\ j.op # <<>>
  /\ j.action = NoAction => j.ns[2] = "bootstrap" /\ \E n \in 1..drawn : j.op = <<n>>
  /\ j.action # NoAction => j.ns[2] # "bootstrap" /\ j.token.action = j.action

JobOK(p) ==
  /\ pc[p] # "idle" => Started(job[p])
  /\ pc[p] \in BootstrapLabels => job[p].action = NoAction
  /\ pc[p] \in RecoveryLabels => job[p].action # NoAction

TypeInv ==
  /\ StorageType
  /\ ApplianceType
  /\ ProcessType
  /\ \A p \in Procs : JobOK(p)

-----------------------------------------------------------------------------
LEMMA RecordTypes ==
  /\ \A s \in DurableStates, i \in 0..1, a \in Action : Rec(s, i, a) \in Record
  /\ NoAction \in Action /\ RecoveryActions \subseteq Action
  /\ NoAction \notin RecoveryActions
BY DEF Rec, Record, Action, RecoveryActions, NoAction

LEMMA ExtendType ==
  ASSUME NEW f, NEW k, NEW v
  PROVE  /\ DOMAIN Extend(f, k, v) = DOMAIN f \cup {k}
         /\ Extend(f, k, v)[k] = v
         /\ \A x \in DOMAIN f : x # k => Extend(f, k, v)[x] = f[x]
         /\ Extend(f, k, v) = [x \in DOMAIN Extend(f, k, v) |-> Extend(f, k, v)[x]]
BY DEF Extend

LEMMA NoJobType ==
  /\ NoJob \in Job
  /\ NoAccount \in Account
  /\ NoSnapshot \in SnapshotType
  /\ NoToken \in TokenType
<1>1. <<>> \in Id
  BY EmptySeq DEF Id
<1>2. Rec("CREATED", 0, NoAction) \in Record
  BY RecordTypes DEF DurableStates
<1>3. NoAccount \in Account /\ NoSnapshot \in SnapshotType /\ NoToken \in TokenType
  BY <1>1, <1>2, RecordTypes DEF NoAccount, Account, Privileges, NoSnapshot, SnapshotType, NoToken, TokenType
<1> QED
  BY <1>1, <1>2, <1>3, RecordTypes DEF NoJob, Job, TxState

LEMMA NamespaceTypes ==
  ASSUME NEW f \in Profiles, NEW t \in NamespaceType, NEW s \in Id
  PROVE  Namespace(f, t, s) \in Ns /\ Namespace(f, t, s) = <<f, t, s>>
BY BootstrapAssumption DEF Namespace, AdminNamespace, ReadonlyNamespace, Ns

LEMMA NatIds ==
  /\ \A n \in Nat : <<n>> \in Id /\ <<n>> # <<>> /\ <<n>>[1] = n
  /\ \A m, n \in Nat : <<m, n>> \in Id /\ <<m, n>> # <<>> /\ <<m, n>>[1] = m
  /\ \A m, n \in Nat : <<m>> = <<n>> => m = n
  /\ \A k, m, n \in Nat : <<k>> # <<m, n>>
  /\ <<>> \in Id
BY DEF Id

LEMMA InitType == Init => TypeInv
<1> SUFFICES ASSUME Init PROVE TypeInv
  OBVIOUS
<1> USE DEF Init
<1>1. StorageType
  <2>1. DOMAIN <<>> = {} /\ <<>> = [x \in {} |-> x]
    OBVIOUS
  <2> QED
    BY <2>1 DEF StorageType
<1>2. ApplianceType
  <2>1. InitialAccounts \subseteq Account
    BY BootstrapAssumption DEF Account, Privileges, Id
  <2> QED
    BY <2>1 DEF ApplianceType
<1>3. ProcessType
  BY NoJobType, BootstrapAssumption, NatIds DEF ProcessType, Labels, NoKey
<1>4. \A p \in Procs : JobOK(p)
  BY DEF JobOK, BootstrapLabels, RecoveryLabels
<1> QED
  BY <1>1, <1>2, <1>3, <1>4 DEF TypeInv


-----------------------------------------------------------------------------
(* What a step of a running command does to its process: the command ends, *)
(* or it goes on with the same profile, namespace, operation and token.    *)

Same(j, k) ==
  /\ k.profile = j.profile /\ k.ns = j.ns /\ k.op = j.op
  /\ k.action = j.action /\ k.token = j.token

GoesOn(p, l, j) ==
  /\ pc' = [pc EXCEPT ![p] = l]
  /\ job' = [job EXCEPT ![p] = j]
  /\ Same(job[p], j)
  /\ l \in BootstrapLabels => job[p].action = NoAction
  /\ l \in RecoveryLabels => job[p].action # NoAction

Shape(p) == EndProcess(p) \/ \E l \in Labels \ {"idle"}, j \in Job : GoesOn(p, l, j)

LEMMA JobUpdates ==
  ASSUME NEW j \in Job
  PROVE  /\ Same(j, j)
         /\ \A rec \in Record : [j EXCEPT !.next = rec] \in Job /\ Same(j, [j EXCEPT !.next = rec])
         /\ \A rec \in Record : \A k \in {[j EXCEPT !.next = rec, !.seen = NoAccount, !.tx = "NOT_STARTED"]} :
              k \in Job /\ Same(j, k) /\ k.next = rec
         /\ \A s \in SnapshotType : [j EXCEPT !.snap = s] \in Job /\ Same(j, [j EXCEPT !.snap = s])
         /\ \A a \in Account : [j EXCEPT !.seen = a] \in Job /\ Same(j, [j EXCEPT !.seen = a])
         /\ \A t \in TxState : [j EXCEPT !.tx = t] \in Job /\ Same(j, [j EXCEPT !.tx = t])
<1>1. NoAccount \in Account /\ "NOT_STARTED" \in TxState
  BY NoJobType DEF TxState
<1> QED
  BY <1>1 DEF Job, Same

LEMMA StateRecords ==
  \A s \in DurableStates : Rec(s, 1, NoAction) \in Record
BY RecordTypes DEF Rec

LEMMA FailGoesOn ==
  ASSUME TypeInv, NEW p \in Procs, Fail(p) \/ Succeed(p)
  PROVE  \E j \in Job : GoesOn(p, "append", j) /\
           (Fail(p) => j.next.state = "MUTATION_RESULT_UNKNOWN") /\
           (Succeed(p) => j.next.state = "FINAL_VERIFICATION_PENDING")
<1>1. job[p] \in Job
  BY DEF TypeInv, ProcessType
<1> DEFINE f == Rec("MUTATION_RESULT_UNKNOWN", 1, NoAction)
           s == Rec("FINAL_VERIFICATION_PENDING", 1, NoAction)
<1>2. f \in Record /\ s \in Record
  BY StateRecords DEF DurableStates
<1>3. f.state = "MUTATION_RESULT_UNKNOWN" /\ s.state = "FINAL_VERIFICATION_PENDING"
  BY DEF Rec
<1>4. ~(Fail(p) /\ Succeed(p))
  <2> SUFFICES ASSUME Fail(p), Succeed(p) PROVE FALSE
    OBVIOUS
  <2> DEFINE jf == [job[p] EXCEPT !.next = f, !.seen = NoAccount, !.tx = "NOT_STARTED"]
             js == [job[p] EXCEPT !.next = s, !.seen = NoAccount, !.tx = "NOT_STARTED"]
  <2>1. jf.next = f /\ js.next = s
    BY <1>1, <1>2, JobUpdates
  <2>2. job' = [job EXCEPT ![p] = jf] /\ job' = [job EXCEPT ![p] = js]
    BY DEF Fail, Succeed, Set
  <2> HIDE DEF jf, js, f, s
  <2>3. job \in [Procs -> Job]
    BY DEF TypeInv, ProcessType
  <2> QED
    BY <2>1, <2>2, <2>3, <1>3
<1>5. ASSUME NEW rec \in Record,
             Set(p, [job[p] EXCEPT !.next = rec, !.seen = NoAccount, !.tx = "NOT_STARTED"]),
             Goto(p, "append")
      PROVE  \E j \in Job : GoesOn(p, "append", j) /\ j.next = rec
  <2> DEFINE k == [job[p] EXCEPT !.next = rec, !.seen = NoAccount, !.tx = "NOT_STARTED"]
  <2>1. k \in Job /\ Same(job[p], k) /\ k.next = rec
    BY <1>1, JobUpdates
  <2>2. job' = [job EXCEPT ![p] = k] /\ pc' = [pc EXCEPT ![p] = "append"]
    BY <1>5 DEF Set, Goto
  <2> HIDE DEF k
  <2>3. GoesOn(p, "append", k)
    BY <2>1, <2>2 DEF GoesOn, BootstrapLabels, RecoveryLabels
  <2> QED
    BY <2>1, <2>3
<1>6. CASE Fail(p)
  <2>1. \E j \in Job : GoesOn(p, "append", j) /\ j.next = f
    BY <1>2, <1>5, <1>6 DEF Fail
  <2> QED
    BY <2>1, <1>3, <1>4, <1>6
<1>7. CASE Succeed(p)
  <2>1. \E j \in Job : GoesOn(p, "append", j) /\ j.next = s
    BY <1>2, <1>5, <1>7 DEF Succeed
  <2> QED
    BY <2>1, <1>3, <1>4, <1>7
<1> QED
  BY <1>6, <1>7


\* how a process goes on without learning anything
LEMMA GotoGoesOn ==
  ASSUME TypeInv, NEW p \in Procs, NEW l \in Labels \ {"idle"}, Goto(p, l), UNCHANGED job,
         l \in BootstrapLabels => job[p].action = NoAction,
         l \in RecoveryLabels => job[p].action # NoAction
  PROVE  GoesOn(p, l, job[p])
<1>1. job[p] \in Job /\ job \in [Procs -> Job]
  BY DEF TypeInv, ProcessType
<1>2. job' = [job EXCEPT ![p] = job[p]]
  BY <1>1
<1> QED
  BY <1>1, <1>2, JobUpdates DEF GoesOn, Goto

LEMMA SetGoesOn ==
  ASSUME TypeInv, NEW p \in Procs, NEW l \in Labels \ {"idle"}, Goto(p, l),
         NEW j \in Job, Set(p, j), Same(job[p], j),
         l \in BootstrapLabels => job[p].action = NoAction,
         l \in RecoveryLabels => job[p].action # NoAction
  PROVE  GoesOn(p, l, j)
BY DEF GoesOn, Goto, Set

LEMMA SnapshotTypes ==
  ASSUME TypeInv, NEW ns
  PROVE  /\ Snapshot(ns) \in SnapshotType
         /\ Exists(ns) => Latest(ns) \in Record
         /\ Snapshot(ns).kind = "none" <=> ~Exists(ns)
         /\ Snapshot(ns).kind = "journal" <=> Loadable(ns)
         /\ Loadable(ns) => Snapshot(ns).latest = Latest(ns) /\ Snapshot(ns).op = journal[ns].op
<1>1. Exists(ns) => Latest(ns) \in Record /\ journal[ns].op \in Id
  <2> SUFFICES ASSUME Exists(ns) PROVE Latest(ns) \in Record /\ journal[ns].op \in Id
    OBVIOUS
  <2>1. journal[ns] \in Journal /\ journal[ns].recs # <<>>
    BY DEF TypeInv, StorageType, JournalOK, Exists
  <2>2. journal[ns].op \in Id /\ journal[ns].recs \in Seq(Record)
    BY <2>1 DEF Journal
  <2>3. Len(journal[ns].recs) \in 1..Len(journal[ns].recs)
    BY <2>1, <2>2, EmptySeq, LenProperties
  <2> QED
    BY <2>2, <2>3, ElementOfSeq DEF Latest
<1>2. Loadable(ns) => Exists(ns)
  BY DEF Loadable
<1>3. Rec("CREATED", 0, NoAction) \in Record /\ <<>> \in Id
  BY RecordTypes, NatIds DEF DurableStates
<1> QED
  BY <1>1, <1>2, <1>3 DEF Snapshot, SnapshotType

LEMMA LockShape ==
  ASSUME TypeInv, NEW p \in Procs,
         LockStep(p) \/ ClassifyLoad(p) \/ ClassifyInspect(p) \/ CheckReadOnly(p) \/ Crash(p)
  PROVE  Shape(p) /\ pc[p] # "idle" /\ UNCHANGED <<journal, head, custody, appliance, issued, drawn>>
<1> USE DEF Labels, BootstrapLabels, RecoveryLabels, SharedLabels
<1>0. job[p] \in Job /\ JobOK(p)
  BY DEF TypeInv, ProcessType
<1>1. CASE AcquireRefused(p) \/ ReleaseWrite(p) \/ Crash(p)
  BY <1>1 DEF AcquireRefused, ReleaseWrite, Crash, Shape
<1>2. CASE AcquireFlock(p)
  <2>1. GoesOn(p, "metadata", job[p])
    BY <1>2, GotoGoesOn DEF AcquireFlock
  <2> QED
    BY <1>0, <1>2, <2>1 DEF AcquireFlock, Shape
<1>3. CASE AcquireWrite(p)
  <2>1. CASE job[p].action = NoAction
    <3>1. GoesOn(p, "preflight", job[p])
      BY <1>3, <2>1, GotoGoesOn DEF AcquireWrite
    <3> QED
      BY <1>0, <1>3, <3>1 DEF AcquireWrite, Shape
  <2>2. CASE job[p].action # NoAction
    <3>1. GoesOn(p, "create", job[p])
      BY <1>3, <2>2, GotoGoesOn DEF AcquireWrite
    <3> QED
      BY <1>0, <1>3, <3>1 DEF AcquireWrite, Shape
  <2> QED
    BY <2>1, <2>2
<1>4. CASE ReleaseTruncate(p)
  <2>1. GoesOn(p, "released", job[p])
    BY <1>4, GotoGoesOn DEF ReleaseTruncate
  <2> QED
    BY <1>0, <1>4, <2>1 DEF ReleaseTruncate, Shape
<1>5. CASE ClassifyLoad(p)
  <2>1. job[p].action = NoAction
    BY <1>0, <1>5 DEF ClassifyLoad, JobOK
  <2>2. CASE EndProcess(p)
    BY <1>5, <2>2 DEF ClassifyLoad, Shape
  <2>3. CASE Goto(p, "acquire") /\ UNCHANGED job
    <3>1. GoesOn(p, "acquire", job[p])
      BY <2>3, GotoGoesOn
    <3> QED
      BY <1>0, <1>5, <3>1 DEF ClassifyLoad, Shape
  <2>4. CASE Goto(p, "inspect") /\ Set(p, [job[p] EXCEPT !.snap = Snapshot(job[p].ns)])
    <3> DEFINE j == [job[p] EXCEPT !.snap = Snapshot(job[p].ns)]
    <3>1. j \in Job /\ Same(job[p], j)
      BY <1>0, JobUpdates, SnapshotTypes
    <3> HIDE DEF j
    <3>2. GoesOn(p, "inspect", j)
      BY <2>4, <2>1, <3>1, SetGoesOn DEF j
    <3> QED
      BY <1>5, <3>1, <3>2 DEF ClassifyLoad, Shape
  <2> QED
    BY <1>5, <2>2, <2>3, <2>4 DEF ClassifyLoad
<1>6. CASE ClassifyInspect(p)
  <2>1. CASE EndProcess(p)
    BY <1>6, <2>1 DEF ClassifyInspect, Shape
  <2>2. CASE Goto(p, "acquire") /\ Set(p, [job[p] EXCEPT !.snap = NoSnapshot])
    <3> DEFINE j == [job[p] EXCEPT !.snap = NoSnapshot]
    <3>1. j \in Job /\ Same(job[p], j)
      BY <1>0, JobUpdates, NoJobType
    <3> HIDE DEF j
    <3>2. GoesOn(p, "acquire", j)
      BY <2>2, <3>1, SetGoesOn DEF j
    <3> QED
      BY <1>6, <3>1, <3>2 DEF ClassifyInspect, Shape
  <2> QED
    BY <1>6, <2>1, <2>2 DEF ClassifyInspect
<1>7. CASE CheckReadOnly(p)
  <2>1. GoesOn(p, "create", job[p]) \/ GoesOn(p, "release", job[p])
    BY <1>7, GotoGoesOn DEF CheckReadOnly
  <2> QED
    BY <1>0, <1>7, <2>1 DEF CheckReadOnly, Shape, storage
<1> QED
  BY <1>1, <1>2, <1>3, <1>4, <1>5, <1>6, <1>7 DEF LockStep


LEMMA JournalShape ==
  ASSUME TypeInv, NEW p \in Procs, JournalStep(p)
  PROVE  Shape(p) /\ pc[p] # "idle" /\ UNCHANGED <<lockFile, custody, appliance, issued, drawn>>
<1> USE DEF Labels, BootstrapLabels, RecoveryLabels, SharedLabels
<1>0. job[p] \in Job /\ JobOK(p)
  BY DEF TypeInv, ProcessType
<1>1. CASE CreateRefused(p)
  BY <1>1 DEF CreateRefused, Shape
<1>a. ASSUME NEW s \in DurableStates, Goto(p, "head") \/ Goto(p, "append"),
             Set(p, [job[p] EXCEPT !.next = Rec(s, 1, NoAction)])
      PROVE  Shape(p)
  <2> DEFINE j == [job[p] EXCEPT !.next = Rec(s, 1, NoAction)]
  <2>1. j \in Job /\ Same(job[p], j)
    BY <1>0, JobUpdates, StateRecords
  <2> HIDE DEF j
  <2>2. GoesOn(p, "head", j) \/ GoesOn(p, "append", j)
    BY <1>a, <2>1, SetGoesOn DEF j
  <2> QED
    BY <2>1, <2>2 DEF Shape
<1>2. CASE CreateJournal(p)
  BY <1>2, <1>a DEF CreateJournal, DurableStates
<1>3. CASE AppendRecord(p)
  <2>1. GoesOn(p, "head", job[p])
    BY <1>3, GotoGoesOn DEF AppendRecord
  <2> QED
    BY <1>0, <1>3, <2>1 DEF AppendRecord, Shape
<1>4. CASE RecordHead(p)
  <2> DEFINE s == Latest(job[p].ns).state
  <2>1. CASE s = "CREATED"
    <3>1. Goto(p, "append") /\ UNCHANGED <<job, flock>>
      BY <1>4, <2>1 DEF RecordHead, AfterRecord
    <3>2. GoesOn(p, "append", job[p])
      BY <3>1, GotoGoesOn
    <3> QED
      BY <1>0, <1>4, <3>2 DEF RecordHead, Shape
  <2>2. CASE s = "PRE_SEND_READY"
    <3>1. Set(p, [job[p] EXCEPT !.next = Rec("MUTATION_INTENT_RECORDED", 1, NoAction)]) /\ Goto(p, "append")
      BY <1>4, <2>2 DEF RecordHead, AfterRecord
    <3> QED
      BY <1>4, <1>a, <3>1 DEF RecordHead, DurableStates
  <2>3. CASE s = "MUTATION_INTENT_RECORDED"
    <3>1. Goto(p, IF job[p].action = NoAction THEN "observe" ELSE "select") /\ UNCHANGED <<job, flock>>
      BY <1>4, <2>3 DEF RecordHead, AfterRecord
    <3>2. CASE job[p].action = NoAction
      <4>1. GoesOn(p, "observe", job[p])
        BY <3>1, <3>2, GotoGoesOn
      <4> QED
        BY <1>0, <1>4, <4>1 DEF RecordHead, Shape
    <3>3. CASE job[p].action # NoAction
      <4>1. GoesOn(p, "select", job[p])
        BY <3>1, <3>3, GotoGoesOn
      <4> QED
        BY <1>0, <1>4, <4>1 DEF RecordHead, Shape
    <3> QED
      BY <3>2, <3>3
  <2>4. CASE s = "FINAL_VERIFICATION_PENDING"
    <3>1. Set(p, [job[p] EXCEPT !.next = Rec("COMPLETED", 1, NoAction)]) /\ Goto(p, "append")
      BY <1>4, <2>4 DEF RecordHead, AfterRecord
    <3> QED
      BY <1>4, <1>a, <3>1 DEF RecordHead, DurableStates
  <2>5. CASE s = "COMPLETED"
    <3>1. Goto(p, "release") /\ UNCHANGED <<job, flock>>
      BY <1>4, <2>5 DEF RecordHead, AfterRecord
    <3>2. GoesOn(p, "release", job[p])
      BY <3>1, GotoGoesOn
    <3> QED
      BY <1>0, <1>4, <3>2 DEF RecordHead, Shape
  <2>6. CASE s \notin {"CREATED", "PRE_SEND_READY", "MUTATION_INTENT_RECORDED",
                       "FINAL_VERIFICATION_PENDING", "COMPLETED"}
    <3>1. EndProcess(p)
      BY <1>4, <2>6 DEF RecordHead, AfterRecord
    <3> QED
      BY <1>4, <3>1 DEF RecordHead, Shape
  <2> QED
    BY <2>1, <2>2, <2>3, <2>4, <2>5, <2>6
<1> QED
  BY <1>1, <1>2, <1>3, <1>4 DEF JournalStep

LEMMA FailShape ==
  ASSUME TypeInv, NEW p \in Procs, Fail(p) \/ Succeed(p)
  PROVE  Shape(p)
BY FailGoesOn DEF Shape, Labels, SharedLabels

LEMMA AccountTypes ==
  ASSUME TypeInv, NEW f \in Profiles
  PROVE  account[f] \in Account
BY DEF TypeInv, ApplianceType

LEMMA EngineShape ==
  ASSUME TypeInv, NEW p \in Procs, EngineStep(p)
  PROVE  /\ Shape(p) /\ pc[p] \in BootstrapLabels
         /\ UNCHANGED <<storage, custody, issued, drawn>>
<1> USE DEF Labels, BootstrapLabels, RecoveryLabels, SharedLabels
<1>0. job[p] \in Job /\ JobOK(p)
  BY DEF TypeInv, ProcessType
<1>1. ASSUME NEW l \in Labels \ {"idle"}, Goto(p, l), UNCHANGED job, job[p].action = NoAction,
             l \notin RecoveryLabels
      PROVE  Shape(p)
  <2>1. GoesOn(p, l, job[p])
    BY <1>1, GotoGoesOn
  <2> QED
    BY <1>0, <2>1 DEF Shape
<1>2. ASSUME NEW l \in Labels \ {"idle"}, Goto(p, l), job[p].action = NoAction, l \notin RecoveryLabels,
             NEW a \in Account, Set(p, [job[p] EXCEPT !.seen = a])
      PROVE  Shape(p)
  <2> DEFINE j == [job[p] EXCEPT !.seen = a]
  <2>1. j \in Job /\ Same(job[p], j)
    BY <1>0, JobUpdates
  <2> HIDE DEF j
  <2>2. GoesOn(p, l, j)
    BY <1>2, <2>1, SetGoesOn DEF j
  <2> QED
    BY <2>1, <2>2 DEF Shape
<1>3. ASSUME NEW l \in Labels \ {"idle"}, Goto(p, l), job[p].action = NoAction, l \notin RecoveryLabels,
             Set(p, [job[p] EXCEPT !.tx = TransactionNext[@]])
      PROVE  Shape(p)
  <2> DEFINE t == TransactionNext[job[p].tx]
             j == [job[p] EXCEPT !.tx = t]
  <2>1. job[p].tx \in TxState
    BY <1>0 DEF Job
  <2>2. t \in TxState
    BY <2>1 DEF TxState, TransactionNext
  <2>3. Set(p, j)
    BY <1>3
  <2> HIDE DEF t
  <2>4. j \in Job /\ Same(job[p], j)
    BY <1>0, <2>2, JobUpdates
  <2> HIDE DEF j
  <2>5. GoesOn(p, l, j)
    BY <1>3, <2>3, <2>4, SetGoesOn
  <2> QED
    BY <2>4, <2>5 DEF Shape
<1>4. ASSUME NEW l1 \in BootstrapLabels, NEW r, NEW l2 \in BootstrapLabels, NewAccountStep(p, l1, r, l2)
      PROVE  /\ Shape(p) /\ pc[p] \in BootstrapLabels
             /\ UNCHANGED <<storage, custody, issued, drawn>>
  <2>1. Fail(p) \/ (Goto(p, l2) /\ UNCHANGED job)
    BY <1>4 DEF NewAccountStep, Send
  <2>2. pc[p] = l1 /\ UNCHANGED <<storage, custody, issued, drawn>>
    BY <1>4 DEF NewAccountStep
  <2>3. job[p].action = NoAction
    BY <1>0, <2>2 DEF JobOK
  <2> QED
    BY <2>1, <2>2, <2>3, <1>1, FailShape
<1>5. ASSUME NEW l1 \in BootstrapLabels, NEW q, NEW l2 \in BootstrapLabels, Verify(p, l1, q, l2)
      PROVE  /\ Shape(p) /\ pc[p] \in BootstrapLabels
             /\ UNCHANGED <<storage, custody, issued, drawn>>
  <2>1. Fail(p) \/ (Goto(p, l2) /\ Set(p, [job[p] EXCEPT !.tx = TransactionNext[@]]))
    BY <1>5 DEF Verify
  <2>2. pc[p] = l1 /\ UNCHANGED <<storage, custody, issued, drawn>>
    BY <1>5 DEF Verify
  <2>3. job[p].action = NoAction
    BY <1>0, <2>2 DEF JobOK
  <2> QED
    BY <2>1, <2>2, <2>3, <1>3, FailShape
<1>6. CASE Observe(p)
  <2>1. pc[p] = "observe" /\ job[p].action = NoAction /\ job[p].profile \in Profiles
    BY <1>0, <1>6 DEF Observe, JobOK, Started
  <2>2. Shape(p)
    BY <1>6, <2>1, <1>1, <1>2, FailShape, AccountTypes DEF Observe
  <2> QED
    BY <2>1, <2>2, <1>6 DEF Observe
<1>7. CASE SyncRead(p)
  <2>1. pc[p] = "sync_read" /\ job[p].action = NoAction /\ job[p].profile \in Profiles
    BY <1>0, <1>7 DEF SyncRead, JobOK, Started
  <2>2. Shape(p)
    BY <1>7, <2>1, <1>2, FailShape, AccountTypes DEF SyncRead
  <2> QED
    BY <2>1, <2>2, <1>7 DEF SyncRead
<1>8. CASE Sync(p)
  <2>1. pc[p] = "sync" /\ job[p].action = NoAction
    BY <1>0, <1>8 DEF Sync, JobOK
  <2>2. Fail(p) \/ (Goto(p, "sync_verify") /\ UNCHANGED job)
    BY <1>8 DEF Sync, Send
  <2> QED
    BY <2>1, <2>2, <1>1, <1>8, FailShape DEF Sync
<1>9. CASE SyncVerify(p)
  <2>1. pc[p] = "sync_verify" /\ (Fail(p) \/ Succeed(p))
    BY <1>9 DEF SyncVerify
  <2> QED
    BY <2>1, <1>9, FailShape DEF SyncVerify
<1>10. CASE CreateKey(p)
  <2>1. pc[p] = "create_key" /\ job[p].action = NoAction
    BY <1>0, <1>10 DEF CreateKey, JobOK
  <2>2. Fail(p) \/ (Goto(p, "revoke") /\ Set(p, [job[p] EXCEPT !.tx = TransactionNext[@]]))
    BY <1>10 DEF CreateKey, Send
  <2> QED
    BY <2>1, <2>2, <1>3, <1>10, FailShape DEF CreateKey
<1>11. CASE CreateUser(p) \/ Grant(p) \/ Revoke(p)
  BY <1>4, <1>11 DEF CreateUser, Grant, Revoke
<1>12. CASE VerifyCreated(p) \/ VerifyGranted(p) \/ VerifyRevoked(p)
  BY <1>5, <1>12 DEF VerifyCreated, VerifyGranted, VerifyRevoked
<1> QED
  BY <1>6, <1>7, <1>8, <1>9, <1>10, <1>11, <1>12 DEF EngineStep


LEMMA CandidateTypes ==
  ASSUME TypeInv, NEW f \in Profiles, NEW a \in RecoveryActions
  PROVE  Candidate(f, a) \subseteq Id
<1>1. account[f].id \in Id /\ keys[f] \subseteq Id
  BY DEF TypeInv, ApplianceType, Account
<1> QED
  BY <1>1, NatIds DEF Candidate, RecoveryActions, OrphanKey, DedicatedUser, UnprovisionedEvidence

LEMMA RecoveryShape ==
  ASSUME TypeInv, NEW p \in Procs, Select(p) \/ Delete(p) \/ VerifyDeleted(p)
  PROVE  /\ Shape(p) /\ pc[p] \in RecoveryLabels
         /\ UNCHANGED <<storage, custody, issued, drawn>>
<1> USE DEF Labels, BootstrapLabels, RecoveryLabels, SharedLabels
<1>0. job[p] \in Job /\ JobOK(p)
  BY DEF TypeInv, ProcessType
<1>1. CASE Select(p)
  <2>1. job[p].action # NoAction /\ job[p].profile \in Profiles /\ job[p].action \in RecoveryActions
    BY <1>0, <1>1 DEF Select, JobOK, Started, Job, Action
  <2>2. CASE Fail(p) \/ Succeed(p)
    BY <1>1, <2>2, FailShape DEF Select
  <2>3. CASE \E object \in Candidate(job[p].profile, job[p].action) :
               Set(p, [job[p] EXCEPT !.seen.id = object]) /\ Goto(p, "delete")
    <3>1. PICK object \in Candidate(job[p].profile, job[p].action) :
                 Set(p, [job[p] EXCEPT !.seen.id = object]) /\ Goto(p, "delete")
      BY <2>3
    <3>2. object \in Id
      BY <2>1, <3>1, CandidateTypes
    <3> DEFINE a == [job[p].seen EXCEPT !.id = object]
               j == [job[p] EXCEPT !.seen = a]
    <3>3. a \in Account
      BY <1>0, <3>2 DEF Job, Account
    <3>4. Set(p, j)
      BY <3>1
    <3> HIDE DEF a
    <3>5. j \in Job /\ Same(job[p], j)
      BY <1>0, <3>3, JobUpdates
    <3> HIDE DEF j
    <3>6. GoesOn(p, "delete", j)
      BY <2>1, <3>1, <3>4, <3>5, SetGoesOn
    <3> QED
      BY <1>1, <3>5, <3>6 DEF Select, Shape
  <2> QED
    BY <1>1, <2>2, <2>3 DEF Select
<1>2. CASE Delete(p)
  <2>1. job[p].action # NoAction
    BY <1>0, <1>2 DEF Delete, JobOK
  <2>2. Fail(p) \/ (Goto(p, "verify_deleted") /\ UNCHANGED job)
    BY <1>2 DEF Delete, Send
  <2>3. CASE Fail(p)
    BY <1>2, <2>3, FailShape DEF Delete
  <2>4. CASE Goto(p, "verify_deleted") /\ UNCHANGED job
    <3>1. GoesOn(p, "verify_deleted", job[p])
      BY <2>1, <2>4, GotoGoesOn
    <3> QED
      BY <1>0, <1>2, <3>1 DEF Delete, Shape
  <2> QED
    BY <2>2, <2>3, <2>4
<1>3. CASE VerifyDeleted(p)
  BY <1>3, FailShape DEF VerifyDeleted
<1> QED
  BY <1>1, <1>2, <1>3

LEMMA PersistShape ==
  ASSUME TypeInv, NEW p \in Procs, PersistKey(p) \/ PersistFails(p)
  PROVE  /\ Shape(p) /\ pc[p] = "persist"
         /\ UNCHANGED <<journal, head, lockFile, appliance, issued, drawn>>
BY FailShape DEF PersistKey, PersistFails, Shape

-----------------------------------------------------------------------------
(* Type correctness.                                                       *)

LEMMA StartedLasts ==
  ASSUME TypeInv, drawn' \in Nat, drawn' >= drawn, NEW j \in Job, Started(j)
  PROVE  Started(j)'
BY DEF Started, TypeInv, ProcessType

LEMMA SameStarted ==
  ASSUME NEW j \in Job, NEW k \in Job, Started(j), Same(j, k)
  PROVE  Started(k)
BY DEF Started, Same

LEMMA ShapeType ==
  ASSUME TypeInv, NEW p \in Procs, Shape(p), pc[p] # "idle", drawn' = drawn
  PROVE  /\ pc' \in [Procs -> Labels] /\ job' \in [Procs -> Job]
         /\ \A q \in Procs : JobOK(q)'
         /\ \A q \in Procs \ {p} : pc'[q] = pc[q] /\ job'[q] = job[q]
<1>0. pc \in [Procs -> Labels] /\ job \in [Procs -> Job] /\ \A q \in Procs : JobOK(q)
  BY DEF TypeInv, ProcessType
<1>1. CASE EndProcess(p)
  <2>1. pc' = [pc EXCEPT ![p] = "idle"] /\ job' = [job EXCEPT ![p] = NoJob]
    BY <1>1 DEF EndProcess, Set
  <2>2. pc' \in [Procs -> Labels] /\ job' \in [Procs -> Job]
    BY <1>0, <2>1, NoJobType DEF Labels
  <2>3. \A q \in Procs \ {p} : pc'[q] = pc[q] /\ job'[q] = job[q]
    BY <1>0, <2>1
  <2>4. pc'[p] = "idle"
    BY <1>0, <2>1
  <2>5. ASSUME NEW q \in Procs PROVE JobOK(q)'
    BY <1>0, <2>3, <2>4 DEF JobOK, Started, BootstrapLabels, RecoveryLabels
  <2> QED
    BY <2>2, <2>3, <2>5
<1>2. CASE \E l \in Labels \ {"idle"}, j \in Job : GoesOn(p, l, j)
  <2>1. PICK l \in Labels \ {"idle"}, j \in Job : GoesOn(p, l, j)
    BY <1>2
  <2>2. pc' \in [Procs -> Labels] /\ job' \in [Procs -> Job] /\ pc'[p] = l /\ job'[p] = j
    BY <1>0, <2>1 DEF GoesOn
  <2>3. \A q \in Procs \ {p} : pc'[q] = pc[q] /\ job'[q] = job[q]
    BY <1>0, <2>1 DEF GoesOn
  <2>4. Started(j)
    BY <1>0, <2>1, SameStarted DEF GoesOn, JobOK
  <2>5. JobOK(p)'
    BY <2>1, <2>2, <2>4 DEF JobOK, Started, GoesOn, Same
  <2>6. ASSUME NEW q \in Procs PROVE JobOK(q)'
    BY <1>0, <2>3, <2>5 DEF JobOK, Started
  <2> QED
    BY <2>2, <2>3, <2>6
<1> QED
  BY <1>1, <1>2 DEF Shape


\* what a record added to a journal leaves of it
LEMMA AppendEffect ==
  ASSUME TypeInv, NEW ns \in DOMAIN journal, NEW rec \in Record, ValidTransition(Latest(ns), rec),
         journal' = [journal EXCEPT ![ns].recs = Append(@, rec)]
  PROVE  /\ DOMAIN journal' = DOMAIN journal
         /\ journal' = [x \in DOMAIN journal' |-> journal'[x]]
         /\ \A x \in DOMAIN journal : x # ns => journal'[x] = journal[x]
         /\ JournalOK(journal'[ns])
         /\ journal'[ns].op = journal[ns].op
         /\ journal'[ns].recs = Append(journal[ns].recs, rec)
         /\ Len(journal'[ns].recs) = Len(journal[ns].recs) + 1
         /\ SubSeq(journal'[ns].recs, 1, Len(journal[ns].recs)) = journal[ns].recs
         /\ Latest(ns)' = rec
<1> DEFINE s == journal[ns].recs
<1>1. journal[ns] \in Journal /\ s # <<>> /\ journal[ns].op # <<>>
  BY DEF TypeInv, StorageType, JournalOK
<1>2. s \in Seq(Record) /\ journal[ns].op \in Id
  BY <1>1 DEF Journal
<1>3. journal = [x \in DOMAIN journal |-> journal[x]]
  BY DEF TypeInv, StorageType
<1>4. DOMAIN journal' = DOMAIN journal /\ journal' = [x \in DOMAIN journal' |-> journal'[x]]
  BY <1>3
<1>5. \A x \in DOMAIN journal : x # ns => journal'[x] = journal[x]
  BY <1>3
<1>6. journal'[ns] = [journal[ns] EXCEPT !.recs = Append(s, rec)]
  BY <1>3
<1> DEFINE t == Append(s, rec)
<1>7. t \in Seq(Record) /\ Len(t) = Len(s) + 1 /\ t[Len(t)] = rec /\ t # <<>> /\ Len(s) \in Nat
  BY <1>2, AppendProperties, LenProperties
<1>8. SubSeq(t, 1, Len(s)) = s
  <2>1. SubSeq(t, 1, Len(s)) \in Seq(Record) /\ Len(SubSeq(t, 1, Len(s))) = Len(s)
        /\ \A i \in 1..Len(s) : SubSeq(t, 1, Len(s))[i] = t[i]
    BY <1>2, <1>7, SubSeqProperties
  <2>2. \A i \in 1..Len(s) : t[i] = s[i]
    BY <1>2, AppendProperties
  <2> QED
    BY <1>2, <2>1, <2>2, SeqEqual
<1> HIDE DEF s
<1>9. journal'[ns].op = journal[ns].op /\ journal'[ns].recs = t /\ journal'[ns] \in Journal
  BY <1>1, <1>2, <1>6, <1>7 DEF Journal
<1>10. rec.action # NoAction => rec.state = "RECOVERY_REQUIRED"
  BY DEF ValidTransition
<1>11. Latest(ns)' = rec
  BY <1>7, <1>9 DEF Latest
<1>12. JournalOK(journal'[ns])
  BY <1>1, <1>7, <1>9, <1>10 DEF JournalOK
<1> QED
  BY <1>4, <1>5, <1>7, <1>8, <1>9, <1>11, <1>12 DEF s

LEMMA CreateEffect ==
  ASSUME TypeInv, NEW ns \in Ns, NEW op \in Id, op # <<>>, JournalCreate(ns, op)
  PROVE  /\ ns \notin DOMAIN journal
         /\ DOMAIN journal' = DOMAIN journal \cup {ns}
         /\ journal' = [x \in DOMAIN journal' |-> journal'[x]]
         /\ \A x \in DOMAIN journal : journal'[x] = journal[x]
         /\ JournalOK(journal'[ns])
         /\ journal'[ns].op = op
         /\ Latest(ns)' = Rec("CREATED", 0, NoAction)
<1> DEFINE r == Rec("CREATED", 0, NoAction)
           j == [op |-> op, recs |-> <<r>>]
<1>1. r \in Record /\ r.action = NoAction
  BY RecordTypes DEF DurableStates, Rec
<1>2. ns \notin DOMAIN journal /\ journal' = Extend(journal, ns, j)
  BY DEF JournalCreate, Exists
<1>3. /\ DOMAIN journal' = DOMAIN journal \cup {ns}
      /\ journal'[ns] = j
      /\ \A x \in DOMAIN journal : journal'[x] = journal[x]
      /\ journal' = [x \in DOMAIN journal' |-> journal'[x]]
  BY <1>2 DEF Extend
<1> HIDE DEF r
<1>4. <<r>> \in Seq(Record) /\ <<r>> # <<>> /\ Len(<<r>>) = 1 /\ <<r>>[1] = r
  BY <1>1
<1>5. j \in Journal /\ j.op = op /\ j.recs = <<r>>
  BY <1>4 DEF Journal
<1>6. JournalOK(j)
  BY <1>1, <1>4, <1>5 DEF JournalOK
<1>7. Latest(ns)' = r
  BY <1>3, <1>4, <1>5 DEF Latest
<1> QED
  BY <1>2, <1>3, <1>5, <1>6, <1>7 DEF r

\* the flock by what each step does to it
FlockMoves(p) ==
  \/ UNCHANGED flock
  \/ DropAllOf(p)
  \/ \E ns : TakeFlock(p, ns) \/ DropFlock(ns)

LEMMA FlockType ==
  ASSUME TypeInv, NEW p \in Procs, FlockMoves(p)
  PROVE  /\ flock' = [ns \in DOMAIN flock' |-> flock'[ns]]
         /\ \A ns \in DOMAIN flock' : flock'[ns] \in Procs \cup {NoProc}
<1>0. /\ flock = [ns \in DOMAIN flock |-> flock[ns]]
      /\ \A ns \in DOMAIN flock : flock[ns] \in Procs \cup {NoProc}
  BY DEF TypeInv, StorageType
<1>1. CASE UNCHANGED flock
  BY <1>0, <1>1
<1>2. CASE DropAllOf(p)
  BY <1>0, <1>2 DEF DropAllOf
<1>3. ASSUME NEW ns, NEW v \in Procs \cup {NoProc}, flock' = Extend(flock, ns, v)
      PROVE  /\ flock' = [x \in DOMAIN flock' |-> flock'[x]]
             /\ \A x \in DOMAIN flock' : flock'[x] \in Procs \cup {NoProc}
  BY <1>0, <1>3 DEF Extend
<1> QED
  BY <1>1, <1>2, <1>3 DEF FlockMoves, TakeFlock, DropFlock

LEMMA ApplyType ==
  ASSUME TypeInv, NEW r \in RequestType, Apply(r)
  PROVE  account' \in [Profiles -> Account] /\ keys' \in [Profiles -> SUBSET Id]
<1>0. account \in [Profiles -> Account] /\ keys \in [Profiles -> SUBSET Id] /\ NoAccount \in Account
  BY NoJobType DEF TypeInv, ApplianceType
<1>1. r.profile \in Profiles /\ r.id \in Id /\ r.priv \in SUBSET Privileges
  BY DEF RequestType
<1>2. [id |-> r.id, priv |-> r.priv, owned |-> TRUE] \in Account
  BY <1>1 DEF Account
<1>3. \A a \in Account : [a EXCEPT !.priv = r.priv] \in Account
  BY <1>1 DEF Account
<1>4. CASE r.kind = "create_user"
  BY <1>0, <1>1, <1>2, <1>4 DEF Apply
<1>5. CASE r.kind = "update_priv"
  BY <1>0, <1>1, <1>3, <1>5 DEF Apply
<1>6. CASE r.kind = "create_key"
  BY <1>0, <1>1, <1>6 DEF Apply
<1>7. CASE r.kind = "delete_key"
  BY <1>0, <1>1, <1>7 DEF Apply
<1>8. CASE r.kind = "delete_user"
  BY <1>0, <1>1, <1>8 DEF Apply
<1>9. r.kind \in {"create_user", "update_priv", "create_key", "delete_key", "delete_user"}
  BY DEF RequestType
<1> QED
  BY <1>4, <1>5, <1>6, <1>7, <1>8, <1>9


\* a request is acknowledged, or the engine gives up and it may still be on
\* its way
Requests(p, r) ==
  \/ Accepts(r) /\ Apply(r) /\ UNCHANGED inflight
  \/ Fail(p) /\ UNCHANGED <<account, keys>> /\ inflight' \in {inflight, inflight \cup {r}}

RequestOf(p) ==
  LET f == job[p].profile
      id == IF pc[p] \in {"sync", "delete"} THEN job[p].seen.id ELSE job[p].op
  IN CASE pc[p] = "create_user" -> Request("create_user", f, id, {"expected"})
       [] pc[p] = "grant" -> Request("update_priv", f, id, {"expected", "temp"})
       [] pc[p] = "create_key" -> Request("create_key", f, id, {})
       [] pc[p] = "revoke" -> Request("update_priv", f, id, {"expected"})
       [] pc[p] = "sync" -> Request("update_priv", f, id, job[p].seen.priv \cup {"expected"})
       [] pc[p] = "delete" ->
            Request(IF job[p].action = "REVOKE_ORPHAN_KEY" THEN "delete_key" ELSE "delete_user", f, id, {})

SendingLabels == {"create_user", "grant", "create_key", "revoke", "sync", "delete"}

LEMMA RequestOfType ==
  ASSUME TypeInv, NEW p \in Procs, pc[p] \in SendingLabels
  PROVE  RequestOf(p) \in RequestType
<1>1. /\ job[p].profile \in Profiles /\ job[p].op \in Id
      /\ job[p].seen.id \in Id /\ job[p].seen.priv \subseteq Privileges
  BY DEF TypeInv, ProcessType, JobOK, Started, Job, Account, SendingLabels
<1> QED
  BY <1>1 DEF RequestOf, SendingLabels, Request, RequestType, Privileges

LEMMA SendingSteps ==
  ASSUME TypeInv, NEW p \in Procs,
         Sync(p) \/ CreateUser(p) \/ Grant(p) \/ CreateKey(p) \/ Revoke(p) \/ Delete(p)
  PROVE  /\ pc[p] \in SendingLabels
         /\ Requests(p, RequestOf(p))
         /\ UNCHANGED <<storage, custody, issued, drawn>>
<1>1. CASE Sync(p)
  BY <1>1 DEF Sync, Send, Requests, RequestOf, SendingLabels
<1>2. CASE CreateUser(p)
  BY <1>2 DEF CreateUser, NewAccountStep, Send, Requests, RequestOf, SendingLabels
<1>3. CASE Grant(p)
  BY <1>3 DEF Grant, NewAccountStep, Send, Requests, RequestOf, SendingLabels
<1>4. CASE CreateKey(p)
  BY <1>4 DEF CreateKey, Send, Requests, RequestOf, SendingLabels
<1>5. CASE Revoke(p)
  BY <1>5 DEF Revoke, NewAccountStep, Send, Requests, RequestOf, SendingLabels
<1>6. CASE Delete(p)
  BY <1>6 DEF Delete, Send, Requests, RequestOf, SendingLabels
<1> QED
  BY <1>1, <1>2, <1>3, <1>4, <1>5, <1>6

\* the engine's and the recovery's steps that only read
ReadingStep(p) ==
  \/ Observe(p) \/ SyncRead(p) \/ SyncVerify(p)
  \/ VerifyCreated(p) \/ VerifyGranted(p) \/ VerifyRevoked(p)
  \/ Select(p) \/ VerifyDeleted(p)

SendingStep(p) ==
  Sync(p) \/ CreateUser(p) \/ Grant(p) \/ CreateKey(p) \/ Revoke(p) \/ Delete(p)

LEMMA ReadingSteps ==
  ASSUME NEW p \in Procs, ReadingStep(p)
  PROVE  UNCHANGED <<storage, custody, appliance, issued, drawn>>
BY DEF ReadingStep, Observe, SyncRead, SyncVerify, VerifyCreated, VerifyGranted, VerifyRevoked,
       Verify, Select, VerifyDeleted

LEMMA CommandSteps ==
  ASSUME NEW p \in Procs, CommandStep(p)
  PROVE  \/ LockStep(p) \/ ClassifyLoad(p) \/ ClassifyInspect(p) \/ CheckReadOnly(p)
         \/ JournalStep(p) \/ ReadingStep(p) \/ SendingStep(p)
         \/ PersistKey(p) \/ PersistFails(p)
BY DEF CommandStep, EngineStep, ReadingStep, SendingStep

LEMMA EngineOrRecovery ==
  ASSUME TypeInv, NEW p \in Procs, ReadingStep(p) \/ SendingStep(p)
  PROVE  Shape(p) /\ pc[p] # "idle" /\ UNCHANGED <<storage, custody, issued, drawn>>
<1>1. EngineStep(p) \/ Select(p) \/ Delete(p) \/ VerifyDeleted(p)
  BY DEF ReadingStep, SendingStep, EngineStep
<1> QED
  BY <1>1, EngineShape, RecoveryShape DEF BootstrapLabels, RecoveryLabels

LEMMA RequestsType ==
  ASSUME TypeInv, NEW p \in Procs, NEW r \in RequestType, Requests(p, r)
  PROVE  ApplianceType'
<1>1. CASE Accepts(r) /\ Apply(r) /\ UNCHANGED inflight
  BY <1>1, ApplyType DEF TypeInv, ApplianceType
<1>2. CASE UNCHANGED <<account, keys>> /\ inflight' \in {inflight, inflight \cup {r}}
  BY <1>2 DEF TypeInv, ApplianceType
<1> QED
  BY <1>1, <1>2 DEF Requests

LEMMA FlockSteps ==
  ASSUME NEW p \in Procs, CommandStep(p) \/ Crash(p)
  PROVE  FlockMoves(p)
<1>1. CASE EndProcess(p)
  BY <1>1 DEF EndProcess, FlockMoves
<1>2. CASE Crash(p)
  BY <1>2, <1>1 DEF Crash
<1>3. CASE LockStep(p)
  BY <1>1, <1>3 DEF LockStep, AcquireRefused, AcquireFlock, AcquireWrite, ReleaseTruncate, ReleaseWrite, FlockMoves
<1>4. CASE ClassifyLoad(p)
  BY <1>1, <1>4 DEF ClassifyLoad, FlockMoves
<1>5. CASE ClassifyInspect(p)
  BY <1>1, <1>5 DEF ClassifyInspect, FlockMoves
<1>6. CASE CheckReadOnly(p)
  BY <1>6 DEF CheckReadOnly, storage, FlockMoves
<1>7. CASE JournalStep(p)
  <2>1. CASE CreateRefused(p)
    BY <1>1, <2>1 DEF CreateRefused
  <2>2. CASE CreateJournal(p) \/ AppendRecord(p)
    BY <2>2 DEF CreateJournal, AppendRecord, FlockMoves
  <2>3. CASE RecordHead(p)
    <3>1. EndProcess(p) \/ UNCHANGED flock
      BY <2>3 DEF RecordHead, AfterRecord
    <3> QED
      BY <1>1, <3>1 DEF FlockMoves
  <2> QED
    BY <1>7, <2>1, <2>2, <2>3 DEF JournalStep
<1>8. CASE ReadingStep(p)
  BY <1>8, ReadingSteps DEF storage, FlockMoves
<1>9. CASE SendingStep(p)
  BY <1>9 DEF SendingStep, Sync, CreateUser, Grant, CreateKey, Revoke, Delete, NewAccountStep, storage, FlockMoves
<1>10. CASE PersistKey(p) \/ PersistFails(p)
  BY <1>1, <1>10 DEF PersistKey, PersistFails, FlockMoves
<1> QED
  BY <1>2, <1>3, <1>4, <1>5, <1>6, <1>7, <1>8, <1>9, <1>10, CommandSteps


-----------------------------------------------------------------------------
(* The chain of generations.                                               *)

LEMMA SmallestOf ==
  ASSUME NEW T \in SUBSET Nat, T # {}
  PROVE  \E x \in T : \A y \in T : x <= y
<1> DEFINE R == OpToRel(<, Nat)
<1>1. IsWellFoundedOn(R, Nat)
  BY NatLessThanWellFounded, Zenon
<1>2. \A x, y \in Nat : <<x, y>> \in R <=> x < y
  BY DEF OpToRel
<1> HIDE DEF R
<1>3. PICK x \in T : \A y \in T : ~(<<y, x>> \in R)
  BY <1>1, WFMin
<1>4. ASSUME NEW y \in T PROVE x <= y
  <2>1. x \in Nat /\ y \in Nat /\ ~(y < x)
    BY <1>2, <1>3
  <2> QED
    BY <2>1
<1> QED
  BY <1>4

LEMMA SetInduction ==
  ASSUME NEW S \in SUBSET Nat, 0 \in S, \A n \in S : n + 1 \in S
  PROVE  S = Nat
<1> SUFFICES ASSUME S # Nat PROVE FALSE
  OBVIOUS
<1>1. Nat \ S # {} /\ Nat \ S \in SUBSET Nat
  OBVIOUS
<1>2. PICK x \in Nat \ S : \A y \in Nat \ S : x <= y
  BY <1>1, SmallestOf
<1>3. x # 0 /\ x - 1 \in Nat /\ ~(x <= x - 1)
  BY <1>2
<1>4. x - 1 \in S
  BY <1>2, <1>3
<1> QED
  BY <1>2, <1>3, <1>4

Hop(p, f, s) ==
  IF Resolved(p, f, s) THEN ResolutionId(Namespace(f, "bootstrap", s)) ELSE s

LEMMA ResolutionIdType ==
  ASSUME TypeInv, NEW ns \in DOMAIN journal
  PROVE  ResolutionId(ns) \in Id /\ ResolutionId(ns) # <<>> /\ ResolutionId(ns)[1] = journal[ns].op[1]
         /\ journal[ns].op[1] \in Nat
<1>1. journal[ns] \in Journal /\ journal[ns].op # <<>>
  BY DEF TypeInv, StorageType, JournalOK
<1>2. journal[ns].op \in Seq(Nat) /\ journal[ns].recs \in Seq(Record)
  BY <1>1 DEF Journal, Id
<1>3. journal[ns].op[1] \in Nat /\ Len(journal[ns].recs) \in Nat
  <2>1. 1 \in 1..Len(journal[ns].op)
    BY <1>1, <1>2, EmptySeq, LenProperties
  <2> QED
    BY <1>2, <2>1, ElementOfSeq, LenProperties
<1> QED
  BY <1>3, NatIds DEF ResolutionId

LEMMA HopType ==
  ASSUME TypeInv, NEW p, NEW f \in Profiles, NEW s \in Id
  PROVE  Hop(p, f, s) \in Id
<1>1. Resolved(p, f, s) => Namespace(f, "bootstrap", s) \in DOMAIN journal
  BY DEF Resolved, Loadable, Exists
<1> QED
  BY <1>1, ResolutionIdType DEF Hop

\* The walk of Frontier, as the sequence of salts it visits.
IsWalk(p, f, g, n) ==
  /\ g \in [0..n -> Id]
  /\ g[0] = <<>>
  /\ \A i \in 1..n : g[i] = Hop(p, f, g[i - 1])

LEMMA WalkExists ==
  ASSUME TypeInv, NEW p, NEW f \in Profiles
  PROVE  \A n \in Nat : \E g : IsWalk(p, f, g, n)
<1> DEFINE S == {n \in Nat : \E g : IsWalk(p, f, g, n)}
<1>1. 0 \in S
  <2>1. IsWalk(p, f, [i \in 0..0 |-> <<>>], 0)
    BY NatIds DEF IsWalk
  <2> QED
    BY <2>1
<1>2. ASSUME NEW n \in S PROVE n + 1 \in S
  <2>1. PICK g : IsWalk(p, f, g, n)
    OBVIOUS
  <2>2. n \in Nat /\ g \in [0..n -> Id] /\ g[n] \in Id
    BY <2>1 DEF IsWalk
  <2> DEFINE last == Hop(p, f, g[n])
             h == [i \in 0..(n + 1) |-> IF i = n + 1 THEN last ELSE g[i]]
  <2>3. last \in Id
    BY <2>2, HopType
  <2> HIDE DEF last
  <2>4. h \in [0..(n + 1) -> Id] /\ h[0] = <<>>
    BY <2>1, <2>2, <2>3 DEF IsWalk
  <2>5. ASSUME NEW i \in 1..(n + 1) PROVE h[i] = Hop(p, f, h[i - 1])
    <3>1. CASE i = n + 1
      <4>1. h[i] = last /\ h[i - 1] = g[n]
        BY <2>2, <3>1
      <4> QED
        BY <4>1 DEF last
    <3>2. CASE i # n + 1
      <4>1. i \in 1..n /\ i - 1 \in 0..n /\ i \in 0..(n + 1) /\ i - 1 \in 0..(n + 1) /\ i - 1 # n + 1
        BY <2>2, <3>2
      <4>2. h[i] = g[i] /\ h[i - 1] = g[i - 1]
        BY <3>2, <4>1
      <4> QED
        BY <2>1, <4>1, <4>2 DEF IsWalk
    <3> QED
      BY <3>1, <3>2
  <2> HIDE DEF h
  <2>6. IsWalk(p, f, h, n + 1)
    BY <2>2, <2>4, <2>5 DEF IsWalk
  <2> QED
    BY <2>2, <2>6
<1>3. S = Nat
  <2> HIDE DEF S
  <2>1. S \in SUBSET Nat
    BY DEF S
  <2> QED
    BY <1>1, <1>2, <2>1, SetInduction
<1> QED
  BY <1>3

LEMMA FrontierIsWalk ==
  ASSUME TypeInv, NEW p, NEW f \in Profiles
  PROVE  \E g : IsWalk(p, f, g, MaxGenerations) /\ Frontier(p, f) = g[MaxGenerations]
<1>0. MaxGenerations \in Nat
  BY BootstrapAssumption
<1> DEFINE F(w) == [n \in 0..MaxGenerations |->
                      IF n = 0 THEN <<>>
                      ELSE IF Resolved(p, f, w[n - 1])
                           THEN ResolutionId(Namespace(f, "bootstrap", w[n - 1])) ELSE w[n - 1]]
           walk == CHOOSE w : w = F(w)
<1>1. Frontier(p, f) = walk[MaxGenerations]
  BY DEF Frontier
<1>2. PICK g : IsWalk(p, f, g, MaxGenerations)
  BY <1>0, WalkExists
<1>3. g = F(g)
  BY <1>0, <1>2 DEF IsWalk, Hop
<1>4. walk = F(walk)
  BY <1>3
<1> HIDE DEF walk
<1>5. walk[0] = <<>> /\ DOMAIN walk = 0..MaxGenerations
  BY <1>0, <1>4
<1>6. \A i \in 1..MaxGenerations : walk[i] = Hop(p, f, walk[i - 1])
  BY <1>0, <1>4 DEF Hop
<1>7. \A i \in 0..MaxGenerations : walk[i] \in Id
  <2> DEFINE S == {n \in Nat : n <= MaxGenerations => walk[n] \in Id}
  <2>1. 0 \in S
    BY <1>5, NatIds
  <2>2. ASSUME NEW n \in S PROVE n + 1 \in S
    <3> SUFFICES ASSUME n + 1 <= MaxGenerations PROVE walk[n + 1] \in Id
      OBVIOUS
    <3>1. n \in Nat /\ n <= MaxGenerations /\ n + 1 \in 1..MaxGenerations
      BY <1>0
    <3>2. walk[n] \in Id
      BY <3>1
    <3>3. walk[n + 1] = Hop(p, f, walk[n])
      BY <1>6, <3>1
    <3> QED
      BY <3>2, <3>3, HopType
  <2>3. S = Nat
    <3> HIDE DEF S
    <3>1. S \in SUBSET Nat
      BY DEF S
    <3> QED
      BY <2>1, <2>2, <3>1, SetInduction
  <2> QED
    BY <1>0, <2>3
<1>8. walk = [i \in 0..MaxGenerations |-> walk[i]]
  BY <1>0, <1>4
<1>9. walk \in [0..MaxGenerations -> Id]
  BY <1>7, <1>8
<1>10. IsWalk(p, f, walk, MaxGenerations)
  BY <1>5, <1>6, <1>9 DEF IsWalk
<1> QED
  BY <1>1, <1>10


LEMMA FrontierType ==
  ASSUME TypeInv, NEW p, NEW f \in Profiles
  PROVE  Frontier(p, f) \in Id
BY FrontierIsWalk, BootstrapAssumption DEF IsWalk

-----------------------------------------------------------------------------
(* Every step keeps the types.                                             *)

LEMMA UnchangedJournals ==
  ASSUME TypeInv, UNCHANGED journal
  PROVE  /\ DOMAIN journal' \subseteq Ns
         /\ journal' = [ns \in DOMAIN journal' |-> journal'[ns]]
         /\ \A ns \in DOMAIN journal' : JournalOK(journal'[ns])
BY DEF TypeInv, StorageType

LEMMA JournalTypes ==
  ASSUME TypeInv, NEW p \in Procs, JournalStep(p)
  PROVE  /\ DOMAIN journal' \subseteq Ns
         /\ journal' = [ns \in DOMAIN journal' |-> journal'[ns]]
         /\ \A ns \in DOMAIN journal' : JournalOK(journal'[ns])
<1>0. /\ DOMAIN journal \subseteq Ns
      /\ \A ns \in DOMAIN journal : JournalOK(journal[ns])
  BY DEF TypeInv, StorageType
<1>1. CASE CreateRefused(p)
  BY <1>0, <1>1, UnchangedJournals DEF CreateRefused
<1>2. CASE CreateJournal(p)
  <2>1. job[p].ns \in Ns /\ job[p].op \in Id /\ job[p].op # <<>>
    BY <1>2 DEF CreateJournal, TypeInv, ProcessType, JobOK, Started, Job
  <2>2. PICK ns \in Ns, op \in Id : ns = job[p].ns /\ op = job[p].op
    BY <2>1
  <2>3. JournalCreate(ns, op) /\ op # <<>>
    BY <1>2, <2>1, <2>2 DEF CreateJournal
  <2>4. /\ DOMAIN journal' = DOMAIN journal \cup {ns}
        /\ journal' = [x \in DOMAIN journal' |-> journal'[x]]
        /\ \A x \in DOMAIN journal : journal'[x] = journal[x]
        /\ JournalOK(journal'[ns])
    BY <2>3, CreateEffect
  <2> QED
    BY <1>0, <2>4
<1>3. CASE AppendRecord(p)
  <2>1. job[p].next \in Record
    BY DEF TypeInv, ProcessType, Job
  <2>2. /\ job[p].ns \in DOMAIN journal
        /\ ValidTransition(Latest(job[p].ns), job[p].next)
        /\ journal' = [journal EXCEPT ![job[p].ns].recs = Append(@, job[p].next)]
    BY <1>3 DEF AppendRecord, CanAppend, Loadable, Exists, JournalAppend
  <2> QED
    BY <1>0, <2>1, <2>2, AppendEffect
<1>4. CASE RecordHead(p)
  BY <1>4, UnchangedJournals DEF RecordHead, WriteHead
<1> QED
  BY <1>1, <1>2, <1>3, <1>4 DEF JournalStep

LEMMA CommandType ==
  ASSUME TypeInv, NEW p \in Procs, CommandStep(p) \/ Crash(p)
  PROVE  TypeInv'
<1>1. Shape(p) /\ pc[p] # "idle" /\ UNCHANGED <<issued, drawn>>
  BY CommandSteps, LockShape, JournalShape, EngineOrRecovery, PersistShape
<1>2. /\ pc' \in [Procs -> Labels] /\ job' \in [Procs -> Job]
      /\ \A q \in Procs : JobOK(q)'
  BY <1>1, ShapeType
<1>3. custody' \in [Profiles -> Id]
  <2>0. custody \in [Profiles -> Id]
    BY DEF TypeInv, ProcessType
  <2>1. CASE PersistKey(p)
    <3>1. job[p].op \in Id /\ job[p].profile \in Profiles
      BY <2>1 DEF PersistKey, TypeInv, ProcessType, Job, JobOK, Started
    <3> QED
      BY <2>0, <2>1, <3>1 DEF PersistKey
  <2>2. CASE ~PersistKey(p)
    <3>1. UNCHANGED custody
      BY <2>2, CommandSteps, LockShape, JournalShape, EngineOrRecovery DEF PersistFails
    <3> QED
      BY <2>0, <3>1
  <2> QED
    BY <2>1, <2>2
<1>4. ApplianceType'
  <2>1. CASE SendingStep(p)
    <3>1. pc[p] \in SendingLabels /\ Requests(p, RequestOf(p))
      BY <2>1, SendingSteps DEF SendingStep
    <3> QED
      BY <3>1, RequestOfType, RequestsType
  <2>2. CASE ~SendingStep(p)
    <3>1. UNCHANGED <<account, keys, inflight>>
      BY <2>2, CommandSteps, LockShape, JournalShape, ReadingSteps, PersistShape DEF appliance
    <3> QED
      BY <3>1 DEF TypeInv, ApplianceType
  <2> QED
    BY <2>1, <2>2
<1>5. /\ DOMAIN journal' \subseteq Ns
      /\ journal' = [ns \in DOMAIN journal' |-> journal'[ns]]
      /\ \A ns \in DOMAIN journal' : JournalOK(journal'[ns])
  <2>1. CASE JournalStep(p)
    BY <2>1, JournalTypes
  <2>2. CASE ~JournalStep(p)
    <3>1. UNCHANGED journal
      BY <2>2, CommandSteps, LockShape, EngineOrRecovery, PersistShape DEF storage
    <3> QED
      BY <3>1, UnchangedJournals
  <2> QED
    BY <2>1, <2>2
<1>6. /\ flock' = [ns \in DOMAIN flock' |-> flock'[ns]]
      /\ \A ns \in DOMAIN flock' : flock'[ns] \in Procs \cup {NoProc}
  BY FlockSteps, FlockType
<1>7. issued' \subseteq TokenType /\ drawn' \in 0..MaxOps
  BY <1>1 DEF TypeInv, ProcessType
<1> QED
  BY <1>2, <1>3, <1>4, <1>5, <1>6, <1>7 DEF TypeInv, StorageType, ProcessType


\* the job a bootstrap starts with
BootstrapJob(p, f, j) ==
  /\ job' = [job EXCEPT ![p] = j]
  /\ j.profile = f /\ j.ns = <<f, "bootstrap", Frontier(p, f)>> /\ j.ns \in Ns
  /\ j.op = <<drawn + 1>> /\ j.action = NoAction

LEMMA StartBootstrapJob ==
  ASSUME TypeInv, NEW p \in Procs, NEW f \in Profiles, StartBootstrap(p, f)
  PROVE  \E j \in Job : BootstrapJob(p, f, j)
<1>0. drawn \in 0..MaxOps /\ MaxOps \in Nat
  BY BootstrapAssumption DEF TypeInv, ProcessType
<1>1. drawn + 1 \in Nat
  BY <1>0
<1> DEFINE ns == Namespace(f, "bootstrap", Frontier(p, f))
<1>2. ns \in Ns /\ ns = <<f, "bootstrap", Frontier(p, f)>>
  BY FrontierType, NamespaceTypes DEF NamespaceType
<1> HIDE DEF ns
<1>3. PICK o \in {"none", "EXPECTED_COMPLETED", "UNKNOWN"} :
         Set(p, [NoJob EXCEPT !.profile = f, !.ns = ns, !.op = <<drawn + 1>>, !.observation = o])
  BY DEF StartBootstrap, ns, RestartObservations
<1> DEFINE j == [NoJob EXCEPT !.profile = f, !.ns = ns, !.op = <<drawn + 1>>, !.observation = o]
<1>4. j \in Job /\ j.profile = f /\ j.ns = ns /\ j.op = <<drawn + 1>> /\ j.action = NoJob.action
  <2>1. <<drawn + 1>> \in Id
    BY <1>1, NatIds
  <2> QED
    BY <1>2, <2>1, NoJobType DEF Job
<1>5. NoJob.action = NoAction
  BY DEF NoJob
<1>6. job' = [job EXCEPT ![p] = j]
  BY <1>3 DEF Set
<1> HIDE DEF j
<1>7. BootstrapJob(p, f, j)
  BY <1>2, <1>4, <1>5, <1>6 DEF BootstrapJob
<1> QED
  BY <1>4, <1>7

LEMMA StartBootstrapEffect ==
  ASSUME TypeInv, NEW p \in Procs, NEW f \in Profiles, StartBootstrap(p, f)
  PROVE  /\ pc[p] = "idle"
         /\ drawn' = drawn + 1 /\ drawn' \in 1..MaxOps
         /\ UNCHANGED <<storage, custody, appliance, issued>>
         /\ pc' = [pc EXCEPT ![p] = "classify"]
         /\ \E j \in Job :
              /\ job' = [job EXCEPT ![p] = j]
              /\ j.profile = f /\ j.ns = <<f, "bootstrap", Frontier(p, f)>> /\ j.ns \in Ns
              /\ j.op = <<drawn + 1>> /\ j.action = NoAction
<1>1. drawn \in 0..MaxOps /\ MaxOps \in Nat
  BY BootstrapAssumption DEF TypeInv, ProcessType
<1>2. drawn' = drawn + 1 /\ drawn' \in 1..MaxOps
  BY <1>1 DEF StartBootstrap
<1>3. PICK j \in Job : BootstrapJob(p, f, j)
  BY StartBootstrapJob
<1>4. /\ job' = [job EXCEPT ![p] = j]
      /\ j.profile = f /\ j.ns = <<f, "bootstrap", Frontier(p, f)>> /\ j.ns \in Ns
      /\ j.op = <<drawn + 1>> /\ j.action = NoAction
  BY <1>3 DEF BootstrapJob
<1> QED
  BY <1>2, <1>4 DEF StartBootstrap, Goto

LEMMA ClassifyAction ==
  ASSUME TypeInv, NEW p, NEW ns, Loadable(ns),
         Classify(p, ns, "none").classification = "RECOVERY_REQUIRED"
  PROVE  Classify(p, ns, "none").action = Latest(ns).action
<1>1. Snapshot(ns).kind = "journal" /\ Snapshot(ns).latest = Latest(ns)
  BY SnapshotTypes
<1> QED
  BY <1>1 DEF Classify, ClassifyRestart, Decision

LEMMA StartRecoveryEffect ==
  ASSUME TypeInv, NEW p \in Procs, NEW f \in Profiles, StartRecovery(p, f)
  PROVE  /\ pc[p] = "idle"
         /\ drawn' \in drawn..MaxOps
         /\ UNCHANGED <<storage, custody, appliance, issued>>
         /\ pc' = [pc EXCEPT ![p] = "acquire"]
         /\ \E j \in Job :
              /\ job' = [job EXCEPT ![p] = j]
              /\ j.profile = f /\ j.ns \in Ns /\ j.ns[1] = f /\ j.ns[2] # "bootstrap"
              /\ j.op # <<>> /\ j.action \in RecoveryActions /\ j.token.action = j.action
              /\ j.token.object \in Candidate(f, j.action)
              /\ j.action # "RESOLVE_UNPROVISIONED_INCIDENT" =>
                   \E ns \in Incidents(f) : Latest(ns).action # NoAction
<1>0. drawn \in 0..MaxOps /\ MaxOps \in Nat /\ drawn < MaxOps
  BY BootstrapAssumption DEF TypeInv, ProcessType, StartRecovery
<1>1. PICK ns \in Incidents(f), token \in issued :
        /\ \E object \in Candidate(f, token.action) : TokenMatches(token, object, ns)
        /\ RecoveryNeeded(p, f, ns, token.action)
        /\ Set(p, [NoJob EXCEPT !.profile = f, !.action = token.action, !.token = token,
                                !.ns = RecoveryNamespace(f, token.action, ns[3]),
                                !.op = IF token.action = "RESOLVE_UNPROVISIONED_INCIDENT"
                                       THEN ResolutionId(ns) ELSE <<drawn + 1>>])
        /\ drawn' = IF token.action = "RESOLVE_UNPROVISIONED_INCIDENT" THEN drawn ELSE drawn + 1
  BY DEF StartRecovery
<1>2. drawn' \in drawn..MaxOps
  BY <1>0, <1>1
<1>3. token \in TokenType /\ token.action \in Action
  BY DEF TypeInv, ProcessType, TokenType
<1>4. token.action \in RecoveryActions
  BY <1>1, <1>3 DEF RecoveryNeeded, RequiredAction, Action, RecoveryActions, NoAction
<1>5. ns \in DOMAIN journal /\ ns \in Ns
  BY DEF Incidents, TypeInv, StorageType
<1> DEFINE rns == RecoveryNamespace(f, token.action, ns[3])
<1>6. rns \in Ns /\ rns[1] = f /\ rns[2] # "bootstrap"
  <2>1. ns[3] \in Id /\ <<>> \in Id
    BY <1>5, NatIds DEF Ns
  <2>2. \A t \in {"revoke", "delete", "resolve"}, s \in Id :
           Namespace(f, t, s) \in Ns /\ Namespace(f, t, s)[1] = f /\ Namespace(f, t, s)[2] = t
    BY NamespaceTypes DEF NamespaceType
  <2> QED
    BY <1>4, <2>1, <2>2 DEF RecoveryNamespace, RecoveryActions
<1> DEFINE op == IF token.action = "RESOLVE_UNPROVISIONED_INCIDENT" THEN ResolutionId(ns) ELSE <<drawn + 1>>
<1>7. op \in Id /\ op # <<>>
  BY <1>0, <1>5, ResolutionIdType, NatIds
<1> HIDE DEF rns, op
<1> DEFINE j == [NoJob EXCEPT !.profile = f, !.action = token.action, !.token = token, !.ns = rns, !.op = op]
<1>8. /\ j \in Job /\ j.profile = f /\ j.ns = rns /\ j.op = op
      /\ j.action = token.action /\ j.token = token
  BY <1>3, <1>6, <1>7, NoJobType DEF Job
<1>9. job' = [job EXCEPT ![p] = j]
  BY <1>1 DEF Set, rns, op
<1> HIDE DEF j
<1>10. token.object \in Candidate(f, token.action)
  BY <1>1 DEF TokenMatches, Token
<1>11. token.action # "RESOLVE_UNPROVISIONED_INCIDENT" => Latest(ns).action # NoAction
  <2>1. Loadable(ns) /\ Classify(p, ns, "none").classification = "RECOVERY_REQUIRED"
        /\ token.action = RequiredAction(Classify(p, ns, "none"))
    BY <1>1 DEF RecoveryNeeded
  <2> QED
    BY <2>1, ClassifyAction DEF RequiredAction
<1> QED
  BY <1>2, <1>4, <1>6, <1>7, <1>8, <1>9, <1>10, <1>11 DEF StartRecovery, Goto

LEMMA StartType ==
  ASSUME TypeInv, NEW p \in Procs, NEW f \in Profiles, StartBootstrap(p, f) \/ StartRecovery(p, f)
  PROVE  TypeInv'
<1>0. /\ pc \in [Procs -> Labels] /\ job \in [Procs -> Job] /\ drawn \in 0..MaxOps /\ MaxOps \in Nat
      /\ \A q \in Procs : JobOK(q)
  BY BootstrapAssumption DEF TypeInv, ProcessType
<1>1. PICK l \in {"classify", "acquire"}, j \in Job :
        /\ pc' = [pc EXCEPT ![p] = l] /\ job' = [job EXCEPT ![p] = j]
        /\ drawn' \in drawn..MaxOps
        /\ j.profile = f /\ j.ns \in Ns /\ j.ns[1] = f /\ j.op # <<>>
        /\ j.action = NoAction => j.ns[2] = "bootstrap" /\ j.op = <<drawn'>> /\ drawn' \in 1..MaxOps
        /\ j.action # NoAction => j.ns[2] # "bootstrap" /\ j.token.action = j.action /\ l = "acquire"
  <2>1. CASE StartBootstrap(p, f)
    <3>1. <<drawn + 1>> # <<>> /\ drawn' = drawn + 1 /\ drawn' \in drawn..MaxOps /\ drawn' \in 1..MaxOps
      BY <1>0, <2>1, NatIds, StartBootstrapEffect
    <3>2. PICK j \in Job :
            /\ job' = [job EXCEPT ![p] = j]
            /\ j.profile = f /\ j.ns = <<f, "bootstrap", Frontier(p, f)>> /\ j.ns \in Ns
            /\ j.op = <<drawn + 1>> /\ j.action = NoAction
      BY <2>1, StartBootstrapEffect
    <3>3. j.ns[1] = f /\ j.ns[2] = "bootstrap" /\ j.op # <<>> /\ j.op = <<drawn'>>
      BY <3>1, <3>2
    <3>4. pc' = [pc EXCEPT ![p] = "classify"]
      BY <2>1, StartBootstrapEffect
    <3> QED
      BY <3>1, <3>2, <3>3, <3>4
  <2>2. CASE StartRecovery(p, f)
    BY <2>2, StartRecoveryEffect, RecordTypes
  <2> QED
    BY <2>1, <2>2
<1>2. UNCHANGED <<storage, custody, appliance, issued>>
  BY StartBootstrapEffect, StartRecoveryEffect
<1>3. drawn' \in Nat /\ drawn' >= drawn /\ drawn' \in 0..MaxOps
  BY <1>0, <1>1
<1>4. Started(j)'
  BY <1>1, <1>3 DEF Started
<1>5. pc' \in [Procs -> Labels] /\ job' \in [Procs -> Job] /\ pc'[p] = l /\ job'[p] = j
  BY <1>0, <1>1 DEF Labels, BootstrapLabels, SharedLabels
<1>6. \A q \in Procs \ {p} : pc'[q] = pc[q] /\ job'[q] = job[q]
  BY <1>0, <1>1
<1>7. ASSUME NEW q \in Procs PROVE JobOK(q)'
  <2>1. CASE q = p
    BY <1>1, <1>4, <1>5, <2>1 DEF JobOK, Started, BootstrapLabels, RecoveryLabels
  <2>2. CASE q # p
    <3>1. pc'[q] = pc[q] /\ job'[q] = job[q] /\ job[q] \in Job /\ JobOK(q)
      BY <1>0, <1>6, <2>2
    <3>2. PICK k \in Job : k = job[q] /\ k = job'[q]
      BY <3>1
    <3>3. pc[q] # "idle" => Started(k)'
      BY <1>3, <3>1, <3>2, StartedLasts DEF JobOK
    <3> QED
      BY <3>1, <3>2, <3>3 DEF JobOK, Started
  <2> QED
    BY <2>1, <2>2
<1> QED
  BY <1>2, <1>3, <1>5, <1>7 DEF TypeInv, StorageType, ApplianceType, ProcessType, storage, appliance


LEMMA RecordEffect ==
  ASSUME TypeInv, NEW ns \in DOMAIN journal, NEW a \in {"REVOKE_ORPHAN_KEY", "DELETE_DEDICATED_USER"},
         RecordRecoveryRequired(ns, a)
  PROVE  /\ Quiet /\ Loadable(ns)
         /\ UNCHANGED <<flock, pc, job, custody, appliance, issued, drawn>>
         /\ \E rec \in Record :
              /\ rec = Rec("RECOVERY_REQUIRED", 1, a)
              /\ ValidTransition(Latest(ns), rec)
              /\ journal' = [journal EXCEPT ![ns].recs = Append(@, rec)]
         /\ head' = Extend(head, ns, Len(journal[ns].recs) + 1)
<1>1. Rec("RECOVERY_REQUIRED", 1, a) \in Record
  BY RecordTypes DEF DurableStates, RecoveryActions
<1> QED
  BY <1>1 DEF RecordRecoveryRequired, CanAppend

LEMMA RecordType ==
  ASSUME TypeInv, NEW ns \in DOMAIN journal, NEW a \in {"REVOKE_ORPHAN_KEY", "DELETE_DEDICATED_USER"},
         RecordRecoveryRequired(ns, a)
  PROVE  TypeInv'
<1>1. /\ DOMAIN journal' = DOMAIN journal
      /\ journal' = [x \in DOMAIN journal' |-> journal'[x]]
      /\ \A x \in DOMAIN journal : x # ns => journal'[x] = journal[x]
      /\ JournalOK(journal'[ns])
  BY RecordEffect, AppendEffect
<1>2. UNCHANGED <<flock, pc, job, custody, account, keys, inflight, issued, drawn>>
  BY RecordEffect DEF appliance
<1>3. /\ DOMAIN journal' \subseteq Ns
      /\ \A x \in DOMAIN journal' : JournalOK(journal'[x])
  BY <1>1 DEF TypeInv, StorageType
<1>4. \A q \in Procs : JobOK(q)'
  BY <1>2 DEF TypeInv, JobOK, Started
<1> QED
  BY <1>1, <1>2, <1>3, <1>4 DEF TypeInv, StorageType, ApplianceType, ProcessType

LEMMA UnchangedProcesses ==
  ASSUME TypeInv, UNCHANGED <<storage, pc, job, custody, drawn>>, ApplianceType', issued' \subseteq TokenType
  PROVE  TypeInv'
<1>1. \A q \in Procs : JobOK(q)'
  BY DEF TypeInv, JobOK, Started
<1> QED
  BY <1>1 DEF TypeInv, StorageType, ProcessType, storage

LEMMA InspectType ==
  ASSUME TypeInv, NEW p \in Procs, NEW f \in Profiles, InspectIncident(p, f)
  PROVE  TypeInv'
<1>1. UNCHANGED <<storage, pc, job, custody, drawn, account, keys, inflight>>
  BY DEF InspectIncident, appliance
<1>2. PICK ns \in Incidents(f), a \in RecoveryActions :
        \E object \in Candidate(f, a) : issued' = {Token(a, object, ns)}
  BY DEF InspectIncident
<1>3. PICK object \in Candidate(f, a) : issued' = {Token(a, object, ns)}
  BY <1>2
<1>4. object \in Id
  BY CandidateTypes
<1>5. journal[ns] \in Journal
  BY DEF Incidents, TypeInv, StorageType, JournalOK
<1>6. Mac(ns) \in Id \X Nat
  <2>1. journal[ns].op \in Id /\ journal[ns].recs \in Seq(Record)
    BY <1>5 DEF Journal
  <2> QED
    BY <2>1, LenProperties DEF Mac
<1>7. Token(a, object, ns) \in TokenType
  BY <1>4, <1>6, RecordTypes DEF Token, TokenType
<1>8. ApplianceType'
  BY <1>1 DEF TypeInv, ApplianceType
<1> QED
  BY <1>1, <1>3, <1>7, <1>8, UnchangedProcesses

LEMMA LandType ==
  ASSUME TypeInv, NEW r \in inflight, Land(r)
  PROVE  TypeInv'
<1>1. r \in RequestType
  BY DEF TypeInv, ApplianceType
<1>2. ApplianceType'
  BY <1>1, ApplyType DEF Land, TypeInv, ApplianceType
<1>3. issued' \subseteq TokenType
  BY DEF Land, TypeInv, ProcessType
<1> QED
  BY <1>2, <1>3, UnchangedProcesses DEF Land

LEMMA AdministerType ==
  ASSUME TypeInv, NEW f \in Profiles, Administer(f)
  PROVE  TypeInv'
<1>1. InitialAccounts \subseteq Account
  BY BootstrapAssumption DEF Account, Privileges, Id
<1>2. ApplianceType'
  BY <1>1 DEF Administer, TypeInv, ApplianceType
<1>3. issued' \subseteq TokenType
  BY DEF Administer, TypeInv, ProcessType
<1> QED
  BY <1>2, <1>3, UnchangedProcesses DEF Administer

\* One disjunct of Next at a time.
LEMMA NextCases ==
  ASSUME Next
  PROVE  \/ \E p \in Procs : CommandStep(p) \/ Crash(p)
         \/ \E p \in Procs, f \in Profiles : StartBootstrap(p, f)
         \/ \E p \in Procs, f \in Profiles : InspectIncident(p, f)
         \/ \E p \in Procs, f \in Profiles : StartRecovery(p, f)
         \/ \E r \in inflight : Land(r)
         \/ \E f \in Profiles : Administer(f)
         \/ \E ns \in DOMAIN journal, a \in {"REVOKE_ORPHAN_KEY", "DELETE_DEDICATED_USER"} :
              RecordRecoveryRequired(ns, a)
BY DEF Next

LEMMA NextType == TypeInv /\ [Next]_vars => TypeInv'
<1> SUFFICES ASSUME TypeInv, [Next]_vars PROVE TypeInv'
  OBVIOUS
<1>1. CASE UNCHANGED vars
  <2>1. ApplianceType' /\ issued' \subseteq TokenType
    BY <1>1 DEF vars, TypeInv, ApplianceType, ProcessType
  <2> QED
    BY <1>1, <2>1, UnchangedProcesses DEF vars, storage
<1>2. CASE Next
  BY <1>2, NextCases, CommandType, StartType, InspectType, LandType, AdministerType, RecordType
<1> QED
  BY <1>1, <1>2

\* Every variable of the administrative commands keeps its type, and what a
\* running command is about never changes (the composition of
\* security_bootstrap_orchestration.py and security_recovery_orchestration.py).
THEOREM TypeCorrect == Spec => []TypeInv
<1>1. Init => TypeInv
  BY InitType
<1>2. TypeInv /\ [Next]_vars => TypeInv'
  BY NextType
<1> QED
  BY <1>1, <1>2, PTL DEF Spec

-----------------------------------------------------------------------------
(* The lock.                                                               *)

\* A command inside the lock, and an inspection looking at it, hold the flock.
HoldsFlock(p) ==
  pc[p] \notin {"idle", "classify", "acquire"} =>
    job[p].ns \in DOMAIN flock /\ flock[job[p].ns] = p

LockInv == \A p \in Procs : HoldsFlock(p)

LEMMA LockEnds ==
  ASSUME TypeInv, LockInv, NEW p \in Procs, EndProcess(p)
  PROVE  LockInv'
<1>1. pc \in [Procs -> Labels] /\ job \in [Procs -> Job] /\ NoProc \notin Procs
  BY NoProcAssumption DEF TypeInv, ProcessType
<1>2. /\ pc' = [pc EXCEPT ![p] = "idle"] /\ job' = [job EXCEPT ![p] = NoJob]
      /\ flock' = [ns \in DOMAIN flock |-> IF flock[ns] = p THEN NoProc ELSE flock[ns]]
  BY DEF EndProcess, Set, DropAllOf
<1>3. ASSUME NEW q \in Procs PROVE HoldsFlock(q)'
  <2>1. CASE q = p
    BY <1>1, <1>2, <2>1 DEF HoldsFlock
  <2>2. CASE q # p
    <3>1. pc'[q] = pc[q] /\ job'[q] = job[q] /\ HoldsFlock(q)
      BY <1>1, <1>2, <2>2 DEF LockInv
    <3> QED
      BY <1>2, <2>2, <3>1 DEF HoldsFlock
  <2> QED
    BY <2>1, <2>2
<1> QED
  BY <1>3 DEF LockInv

LEMMA LockGoesOn ==
  ASSUME TypeInv, LockInv, NEW p \in Procs, NEW l \in Labels \ {"idle"}, NEW j \in Job, GoesOn(p, l, j),
         \/ UNCHANGED flock /\ (l \in {"acquire", "classify"} \/ pc[p] \notin {"idle", "classify", "acquire"})
         \/ TakeFlock(p, job[p].ns)
         \/ DropFlock(job[p].ns) /\ pc[p] = "inspect" /\ l = "acquire"
  PROVE  LockInv'
<1>1. pc \in [Procs -> Labels] /\ job \in [Procs -> Job] /\ NoProc \notin Procs
  BY NoProcAssumption DEF TypeInv, ProcessType
<1>2. pc'[p] = l /\ job'[p] = j /\ j.ns = job[p].ns
  BY <1>1 DEF GoesOn, Same
<1>3. \A q \in Procs \ {p} : pc'[q] = pc[q] /\ job'[q] = job[q]
  BY <1>1 DEF GoesOn
<1>4. \A q \in Procs : HoldsFlock(q)
  BY DEF LockInv
<1>5. CASE UNCHANGED flock /\ (l \in {"acquire", "classify"} \/ pc[p] \notin {"idle", "classify", "acquire"})
  <2>1. HoldsFlock(p)'
    BY <1>2, <1>4, <1>5 DEF HoldsFlock
  <2>2. \A q \in Procs \ {p} : HoldsFlock(q)'
    BY <1>3, <1>4, <1>5 DEF HoldsFlock
  <2> QED
    BY <2>1, <2>2 DEF LockInv
<1>6. CASE TakeFlock(p, job[p].ns)
  <2> DEFINE ns == job[p].ns
  <2>0. (ns \in DOMAIN flock => flock[ns] = NoProc) /\ flock' = Extend(flock, ns, p)
    BY <1>6 DEF TakeFlock, Holder, At
  <2>1. HoldsFlock(p)'
    BY <1>2, <2>0 DEF HoldsFlock, Extend
  <2>2. ASSUME NEW q \in Procs \ {p} PROVE HoldsFlock(q)'
    <3>1. pc'[q] = pc[q] /\ job'[q] = job[q] /\ HoldsFlock(q)
      BY <1>3, <1>4
    <3>2. SUFFICES ASSUME pc[q] \notin {"idle", "classify", "acquire"}
                   PROVE  job[q].ns \in DOMAIN flock' /\ flock'[job[q].ns] = q
      BY <3>1 DEF HoldsFlock
    <3>3. job[q].ns \in DOMAIN flock /\ flock[job[q].ns] = q /\ job[q].ns # ns
      BY <1>1, <2>0, <3>1, <3>2 DEF HoldsFlock
    <3> QED
      BY <2>0, <3>3 DEF Extend
  <2> QED
    BY <2>1, <2>2 DEF LockInv
<1>7. CASE DropFlock(job[p].ns) /\ pc[p] = "inspect" /\ l = "acquire"
  <2> DEFINE ns == job[p].ns
  <2>0. flock[ns] = p /\ flock' = Extend(flock, ns, NoProc)
    BY <1>4, <1>7 DEF DropFlock, HoldsFlock
  <2>1. HoldsFlock(p)'
    BY <1>2, <1>7 DEF HoldsFlock
  <2>2. ASSUME NEW q \in Procs \ {p} PROVE HoldsFlock(q)'
    <3>1. pc'[q] = pc[q] /\ job'[q] = job[q] /\ HoldsFlock(q)
      BY <1>3, <1>4
    <3>2. SUFFICES ASSUME pc[q] \notin {"idle", "classify", "acquire"}
                   PROVE  job[q].ns \in DOMAIN flock' /\ flock'[job[q].ns] = q
      BY <3>1 DEF HoldsFlock
    <3>3. job[q].ns \in DOMAIN flock /\ flock[job[q].ns] = q /\ job[q].ns # ns
      BY <2>0, <3>1, <3>2 DEF HoldsFlock
    <3> QED
      BY <2>0, <3>3 DEF Extend
  <2> QED
    BY <2>1, <2>2 DEF LockInv
<1> QED
  BY <1>5, <1>6, <1>7


LEMMA LockCommand ==
  ASSUME TypeInv, LockInv, NEW p \in Procs, CommandStep(p) \/ Crash(p)
  PROVE  LockInv'
<1>0. pc \in [Procs -> Labels]
  BY DEF TypeInv, ProcessType
<1>1. Shape(p)
  BY CommandSteps, LockShape, JournalShape, EngineOrRecovery, PersistShape
<1>2. CASE EndProcess(p)
  BY <1>2, LockEnds
<1>3. CASE ~EndProcess(p)
  <2>1. PICK l \in Labels \ {"idle"}, j \in Job : GoesOn(p, l, j)
    BY <1>1, <1>3 DEF Shape
  <2>2. pc'[p] = l
    BY <1>0, <2>1 DEF GoesOn
  <2>3. CASE AcquireFlock(p)
    BY <2>1, <2>3, LockGoesOn DEF AcquireFlock
  <2>4. CASE ClassifyLoad(p)
    <3>1. \/ TakeFlock(p, job[p].ns)
          \/ Goto(p, "acquire") /\ UNCHANGED flock
      BY <1>3, <2>4 DEF ClassifyLoad
    <3>2. Goto(p, "acquire") => l = "acquire"
      BY <1>0, <2>2 DEF Goto
    <3> QED
      BY <2>1, <3>1, <3>2, LockGoesOn
  <2>5. CASE ClassifyInspect(p)
    <3>1. DropFlock(job[p].ns) /\ Goto(p, "acquire") /\ pc[p] = "inspect"
      BY <1>3, <2>5 DEF ClassifyInspect
    <3>2. l = "acquire"
      BY <1>0, <2>2, <3>1 DEF Goto
    <3> QED
      BY <2>1, <3>1, <3>2, LockGoesOn
  <2>6. CASE ~AcquireFlock(p) /\ ~ClassifyLoad(p) /\ ~ClassifyInspect(p)
    <3>1. CASE AcquireWrite(p) \/ ReleaseTruncate(p) \/ CheckReadOnly(p)
      <4>1. UNCHANGED flock /\ pc[p] \notin {"idle", "classify", "acquire"}
        BY <3>1 DEF AcquireWrite, ReleaseTruncate, CheckReadOnly, storage
      <4> QED
        BY <2>1, <4>1, LockGoesOn
    <3>2. CASE JournalStep(p)
      <4>1. UNCHANGED flock /\ pc[p] \notin {"idle", "classify", "acquire"}
        BY <1>3, <3>2 DEF JournalStep, CreateRefused, CreateJournal, AppendRecord, RecordHead, AfterRecord
      <4> QED
        BY <2>1, <4>1, LockGoesOn
    <3>3. CASE ReadingStep(p) \/ SendingStep(p)
      <4>1. EngineStep(p) \/ Select(p) \/ Delete(p) \/ VerifyDeleted(p)
        BY <3>3 DEF ReadingStep, SendingStep, EngineStep
      <4>2. UNCHANGED flock
        BY <3>3, EngineOrRecovery DEF storage
      <4>3. pc[p] \notin {"idle", "classify", "acquire"}
        BY <4>1 DEF EngineStep, Select, Delete, VerifyDeleted, Observe, SyncRead, Sync, SyncVerify,
                    CreateUser, VerifyCreated, Grant, VerifyGranted, CreateKey, Revoke, VerifyRevoked,
                    NewAccountStep, Verify
      <4> QED
        BY <2>1, <4>2, <4>3, LockGoesOn
    <3>4. CASE PersistKey(p)
      <4>1. UNCHANGED flock /\ pc[p] = "persist"
        BY <1>3, <3>4 DEF PersistKey
      <4> QED
        BY <2>1, <4>1, LockGoesOn
    <3>5. ~(AcquireRefused(p) \/ ReleaseWrite(p) \/ Crash(p) \/ PersistFails(p))
      BY <1>3 DEF AcquireRefused, ReleaseWrite, Crash, PersistFails
    <3> QED
      BY <2>6, <3>1, <3>2, <3>3, <3>4, <3>5, CommandSteps DEF LockStep
  <2> QED
    BY <2>3, <2>4, <2>5, <2>6
<1> QED
  BY <1>2, <1>3

LEMMA LockStarts ==
  ASSUME TypeInv, LockInv, NEW p \in Procs, NEW f \in Profiles, StartBootstrap(p, f) \/ StartRecovery(p, f)
  PROVE  LockInv'
<1>0. pc \in [Procs -> Labels] /\ job \in [Procs -> Job]
  BY DEF TypeInv, ProcessType
<1>1. UNCHANGED flock /\ pc'[p] \in {"classify", "acquire"}
      /\ \A q \in Procs \ {p} : pc'[q] = pc[q] /\ job'[q] = job[q]
  BY <1>0, StartBootstrapEffect, StartRecoveryEffect DEF storage
<1>2. ASSUME NEW q \in Procs PROVE HoldsFlock(q)'
  BY <1>1 DEF HoldsFlock, LockInv
<1> QED
  BY <1>2 DEF LockInv

LEMMA LockNext == TypeInv /\ LockInv /\ [Next]_vars => LockInv'
<1> SUFFICES ASSUME TypeInv, LockInv, [Next]_vars PROVE LockInv'
  OBVIOUS
<1>1. CASE UNCHANGED <<flock, pc, job>>
  BY <1>1 DEF LockInv, HoldsFlock
<1>2. CASE \E r \in inflight : Land(r)
  BY <1>1, <1>2 DEF Land, storage
<1>3. CASE \E f \in Profiles : Administer(f)
  BY <1>1, <1>3 DEF Administer, storage
<1>4. CASE \E p \in Procs, f \in Profiles : InspectIncident(p, f)
  BY <1>1, <1>4 DEF InspectIncident, storage
<1>5. CASE \E ns \in DOMAIN journal, a \in {"REVOKE_ORPHAN_KEY", "DELETE_DEDICATED_USER"} :
              RecordRecoveryRequired(ns, a)
  BY <1>1, <1>5 DEF RecordRecoveryRequired
<1>6. CASE UNCHANGED vars
  BY <1>1, <1>6 DEF vars
<1> QED
  BY <1>2, <1>3, <1>4, <1>5, <1>6, NextCases, LockCommand, LockStarts

LEMMA LockInit == Init => LockInv
BY DEF Init, LockInv, HoldsFlock

LEMMA LockMeaning ==
  ASSUME LockInv
  PROVE  LockExcludes
BY DEF LockInv, HoldsFlock, LockExcludes, Locked

\* ExclusiveOperationLock: two commands are never inside the lock of one
\* namespace, for any number of processes, whatever they find in the lock
\* file and wherever they died before.
THEOREM LockIsExclusive == Spec => []LockExcludes
<1>1. Init => TypeInv /\ LockInv
  BY InitType, LockInit
<1>2. TypeInv /\ LockInv /\ [Next]_vars => TypeInv' /\ LockInv'
  BY NextType, LockNext
<1>3. LockInv => LockExcludes
  BY LockMeaning
<1> QED
  BY <1>1, <1>2, <1>3, PTL DEF Spec

-----------------------------------------------------------------------------
(* The history of a journal.                                               *)

LEMMA JournalKept ==
  ASSUME TypeInv, NEW ns \in DOMAIN journal, ns \in DOMAIN journal', journal'[ns] = journal[ns]
  PROVE  /\ journal'[ns].op = journal[ns].op
         /\ \E recs \in {journal'[ns].recs} :
              /\ Len(recs) >= Len(journal[ns].recs)
              /\ SubSeq(recs, 1, Len(journal[ns].recs)) = journal[ns].recs
<1>1. journal[ns].recs \in Seq(Record)
  BY DEF TypeInv, StorageType, JournalOK, Journal
<1> DEFINE s == journal[ns].recs
<1>2. Len(s) \in Nat
  BY <1>1, LenProperties
<1>3. SubSeq(s, 1, Len(s)) = s
  <2>1. /\ SubSeq(s, 1, Len(s)) \in Seq(Record) /\ Len(SubSeq(s, 1, Len(s))) = Len(s)
        /\ \A i \in 1..Len(s) : SubSeq(s, 1, Len(s))[i] = s[i]
    BY <1>1, <1>2, SubSeqProperties
  <2> QED
    BY <1>1, <2>1, SeqEqual
<1> QED
  BY <1>2, <1>3

\* the journals and heads of the namespaces a step is not about
LEMMA UntouchedJournal ==
  ASSUME NEW ns, ns \in DOMAIN journal, ns \in DOMAIN journal', journal'[ns] = journal[ns],
         \/ UNCHANGED head
         \/ \E k, v : head' = Extend(head, k, v) /\ k # ns
  PROVE  Loadable(ns)' <=> Loadable(ns)
BY DEF Loadable, Exists, At, Extend

\* A step as one of three: it adds a record to a trusted journal, creates a
\* journal, or leaves them alone.
LEMMA JournalStepEffect ==
  ASSUME TypeInv, [Next]_vars
  PROVE  \/ \E ns \in DOMAIN journal, rec \in Record :
              /\ Loadable(ns)
              /\ ValidTransition(Latest(ns), rec)
              /\ journal' = [journal EXCEPT ![ns].recs = Append(@, rec)]
              /\ \/ UNCHANGED head
                 \/ \E v : head' = Extend(head, ns, v)
         \/ \E ns \in Ns, op \in Id : op # <<>> /\ JournalCreate(ns, op)
         \/ /\ UNCHANGED journal
            /\ \/ UNCHANGED head
               \/ \E p \in Procs : \E k, v : pc[p] = "head" /\ k = job[p].ns /\ head' = Extend(head, k, v)
<1>1. CASE UNCHANGED <<journal, head>>
  BY <1>1
<1>2. ASSUME NEW p \in Procs, CreateJournal(p)
      PROVE  \E ns \in Ns, op \in Id : op # <<>> /\ JournalCreate(ns, op)
  <2>1. job[p].ns \in Ns /\ job[p].op \in Id /\ job[p].op # <<>>
    BY <1>2 DEF CreateJournal, TypeInv, ProcessType, JobOK, Started, Job
  <2> QED
    BY <1>2, <2>1 DEF CreateJournal
<1>3. ASSUME NEW p \in Procs, AppendRecord(p)
      PROVE  \E ns \in DOMAIN journal, rec \in Record :
              /\ Loadable(ns)
              /\ ValidTransition(Latest(ns), rec)
              /\ journal' = [journal EXCEPT ![ns].recs = Append(@, rec)]
              /\ UNCHANGED head
  <2>1. job[p].next \in Record
    BY DEF TypeInv, ProcessType, Job
  <2>2. job[p].ns \in DOMAIN journal
    BY <1>3 DEF AppendRecord, CanAppend, Loadable, Exists
  <2> QED
    BY <1>3, <2>1, <2>2 DEF AppendRecord, CanAppend, JournalAppend
<1>4. ASSUME NEW p \in Procs, RecordHead(p)
      PROVE  UNCHANGED journal /\ pc[p] = "head" /\ \E v : head' = Extend(head, job[p].ns, v)
  BY <1>4 DEF RecordHead, WriteHead
<1>5. ASSUME NEW p \in Procs, CommandStep(p) \/ Crash(p), ~CreateJournal(p), ~AppendRecord(p), ~RecordHead(p)
      PROVE  UNCHANGED <<journal, head>>
  BY <1>5, CommandSteps, LockShape, EngineOrRecovery, PersistShape DEF JournalStep, CreateRefused, storage
<1>6. CASE \E p \in Procs : CommandStep(p) \/ Crash(p)
  BY <1>2, <1>3, <1>4, <1>5, <1>6
<1>7. CASE \E p \in Procs, f \in Profiles : StartBootstrap(p, f) \/ StartRecovery(p, f)
  BY <1>1, <1>7, StartBootstrapEffect, StartRecoveryEffect DEF storage
<1>8. CASE \E p \in Procs, f \in Profiles : InspectIncident(p, f)
  BY <1>1, <1>8 DEF InspectIncident, storage
<1>9. CASE \E r \in inflight : Land(r)
  BY <1>1, <1>9 DEF Land, storage
<1>10. CASE \E f \in Profiles : Administer(f)
  BY <1>1, <1>10 DEF Administer, storage
<1>11. CASE \E ns \in DOMAIN journal, a \in {"REVOKE_ORPHAN_KEY", "DELETE_DEDICATED_USER"} :
              RecordRecoveryRequired(ns, a)
  BY <1>11, RecordEffect
<1>12. CASE UNCHANGED vars
  BY <1>1, <1>12 DEF vars
<1> QED
  BY <1>6, <1>7, <1>8, <1>9, <1>10, <1>11, <1>12, NextCases


\* what every step leaves of a journal that exists
LEMMA JournalMonotone ==
  ASSUME TypeInv, [Next]_vars, NEW ns \in DOMAIN journal
  PROVE  /\ ns \in DOMAIN journal'
         /\ journal'[ns].op = journal[ns].op
         /\ \E recs \in {journal'[ns].recs} :
              /\ Len(recs) >= Len(journal[ns].recs)
              /\ SubSeq(recs, 1, Len(journal[ns].recs)) = journal[ns].recs
         /\ \/ journal'[ns] = journal[ns]
            \/ Loadable(ns) /\ ValidTransition(Latest(ns), Latest(ns)')
         /\ (~Loadable(ns) /\ \A p \in Procs : ~(pc[p] = "head" /\ job[p].ns = ns))
              => journal'[ns] = journal[ns] /\ ~(Loadable(ns))'
<1>1. CASE \E k \in DOMAIN journal, rec \in Record :
              /\ Loadable(k)
              /\ ValidTransition(Latest(k), rec)
              /\ journal' = [journal EXCEPT ![k].recs = Append(@, rec)]
              /\ \/ UNCHANGED head
                 \/ \E v : head' = Extend(head, k, v)
  <2>1. PICK k \in DOMAIN journal, rec \in Record :
              /\ Loadable(k)
              /\ ValidTransition(Latest(k), rec)
              /\ journal' = [journal EXCEPT ![k].recs = Append(@, rec)]
              /\ \/ UNCHANGED head
                 \/ \E v : head' = Extend(head, k, v)
    BY <1>1
  <2>2. /\ DOMAIN journal' = DOMAIN journal
        /\ \A x \in DOMAIN journal : x # k => journal'[x] = journal[x]
        /\ journal'[k].op = journal[k].op
        /\ Len(journal'[k].recs) = Len(journal[k].recs) + 1
        /\ SubSeq(journal'[k].recs, 1, Len(journal[k].recs)) = journal[k].recs
        /\ Latest(k)' = rec
    BY <2>1, AppendEffect
  <2>3. CASE ns = k
    <3>1. journal[k].recs \in Seq(Record)
      BY DEF TypeInv, StorageType, JournalOK, Journal
    <3>2. Len(journal'[k].recs) >= Len(journal[k].recs)
      BY <2>2, <3>1, LenProperties
    <3> QED
      BY <2>1, <2>2, <2>3, <3>2
  <2>4. CASE ns # k
    <3>1. journal'[ns] = journal[ns] /\ ns \in DOMAIN journal'
      BY <2>2, <2>4
    <3>2. Loadable(ns)' <=> Loadable(ns)
      BY <2>1, <2>4, <3>1, UntouchedJournal
    <3> QED
      BY <3>1, <3>2, JournalKept
  <2> QED
    BY <2>3, <2>4
<1>2. CASE \E k \in Ns, op \in Id : op # <<>> /\ JournalCreate(k, op)
  <2>1. PICK k \in Ns, op \in Id : op # <<>> /\ JournalCreate(k, op)
    BY <1>2
  <2>2. journal'[ns] = journal[ns] /\ ns \in DOMAIN journal' /\ UNCHANGED head
    BY <2>1, CreateEffect DEF JournalCreate
  <2>3. Loadable(ns)' <=> Loadable(ns)
    BY <2>2, UntouchedJournal
  <2> QED
    BY <2>2, <2>3, JournalKept
<1>3. CASE /\ UNCHANGED journal
           /\ \/ UNCHANGED head
              \/ \E p \in Procs : \E k, v : pc[p] = "head" /\ k = job[p].ns /\ head' = Extend(head, k, v)
  <2>1. journal'[ns] = journal[ns] /\ ns \in DOMAIN journal'
    BY <1>3
  <2>2. (\A p \in Procs : ~(pc[p] = "head" /\ job[p].ns = ns)) => (Loadable(ns)' <=> Loadable(ns))
    BY <1>3, <2>1, UntouchedJournal
  <2> QED
    BY <2>1, <2>2, JournalKept
<1> QED
  BY <1>1, <1>2, <1>3, JournalStepEffect

\* OperationJournal: a journal is never truncated, replaced or handed to
\* another operation, and one whose last record its head does not
\* authenticate never grows, for any number of racing and dying commands.
THEOREM JournalsKeepTheirHistory == Spec => JournalHistory
<1>1. Init => TypeInv
  BY InitType
<1>2. TypeInv /\ [Next]_vars => TypeInv'
  BY NextType
<1>3. TypeInv /\ [Next]_vars => [JournalAppendOnly /\ UntrustedNeverGrows]_vars
  BY JournalMonotone DEF JournalAppendOnly, UntrustedNeverGrows
<1> QED
  BY <1>1, <1>2, <1>3, PTL DEF Spec, JournalHistory

-----------------------------------------------------------------------------
(* Retries.                                                                *)

\* Where a generation comes from: the resolution of an earlier one, which is
\* recorded complete, and whose incident was begun by an earlier operation.
Descends(f, s, n) ==
  s = <<>> \/
    \E t \in Id :
      /\ <<f, "bootstrap", t>> \in DOMAIN journal
      /\ <<f, "resolve", t>> \in DOMAIN journal
      /\ journal[<<f, "resolve", t>>].op = s
      /\ Latest(<<f, "resolve", t>>).state = "COMPLETED"
      /\ journal[<<f, "bootstrap", t>>].op[1] < n

\* a bootstrap and the journal it writes are about the same generation
ChainInv ==
  /\ \A ns \in DOMAIN journal : ns[2] = "bootstrap" =>
       /\ \E n \in 1..drawn : journal[ns].op = <<n>>
       /\ Descends(ns[1], ns[3], journal[ns].op[1])
  /\ \A p \in Procs : (pc[p] # "idle" /\ job[p].action = NoAction) =>
       Descends(job[p].ns[1], job[p].ns[3], job[p].op[1])

LEMMA CompletedIsFinal ==
  ASSUME TypeInv, [Next]_vars, NEW ns \in DOMAIN journal, Latest(ns).state \in {"COMPLETED", "RECOVERY_REQUIRED"}
  PROVE  ns \in DOMAIN journal' /\ journal'[ns] = journal[ns] /\ Latest(ns)' = Latest(ns)
<1>1. Allowed["COMPLETED"] = {} /\ Allowed["RECOVERY_REQUIRED"] = {}
  BY DEF Allowed, DurableStates
<1>2. ns \in DOMAIN journal'
      /\ (journal'[ns] = journal[ns] \/ ValidTransition(Latest(ns), Latest(ns)'))
  BY JournalMonotone
<1>3. journal'[ns] = journal[ns]
  BY <1>1, <1>2 DEF ValidTransition
<1> QED
  BY <1>2, <1>3 DEF Latest

LEMMA DescendsLasts ==
  ASSUME TypeInv, [Next]_vars, NEW f, NEW s, NEW n, Descends(f, s, n)
  PROVE  Descends(f, s, n)'
<1>1. CASE s = <<>>
  BY <1>1 DEF Descends
<1>2. CASE s # <<>>
  <2>1. PICK t \in Id :
          /\ <<f, "bootstrap", t>> \in DOMAIN journal
          /\ <<f, "resolve", t>> \in DOMAIN journal
          /\ journal[<<f, "resolve", t>>].op = s
          /\ Latest(<<f, "resolve", t>>).state = "COMPLETED"
          /\ journal[<<f, "bootstrap", t>>].op[1] < n
    BY <1>2 DEF Descends
  <2>2. PICK b, r : b = <<f, "bootstrap", t>> /\ r = <<f, "resolve", t>>
    OBVIOUS
  <2>3. b \in DOMAIN journal' /\ journal'[b].op = journal[b].op
    BY <2>1, <2>2, JournalMonotone
  <2>4. r \in DOMAIN journal' /\ journal'[r] = journal[r] /\ Latest(r)' = Latest(r)
    BY <2>1, <2>2, CompletedIsFinal
  <2>5. Latest(r)'.state = "COMPLETED"
    BY <2>1, <2>2, <2>4
  <2> QED
    BY <2>1, <2>2, <2>3, <2>4, <2>5 DEF Descends
<1> QED
  BY <1>1, <1>2


\* a running command was started by this step or is still about the same
LEMMA ProcessSteps ==
  ASSUME TypeInv, [Next]_vars, NEW q \in Procs, pc'[q] # "idle"
  PROVE  \/ pc[q] # "idle" /\ Same(job[q], job'[q])
         \/ \E f \in Profiles : StartBootstrap(q, f) \/ StartRecovery(q, f)
<1>0. pc \in [Procs -> Labels] /\ job \in [Procs -> Job] /\ Same(job[q], job[q])
  BY JobUpdates DEF TypeInv, ProcessType
<1>1. CASE UNCHANGED <<pc, job>>
  BY <1>0, <1>1
<1>2. ASSUME NEW p \in Procs, CommandStep(p) \/ Crash(p)
      PROVE  pc[q] # "idle" /\ Same(job[q], job'[q])
  <2>1. Shape(p) /\ pc[p] # "idle" /\ drawn' = drawn
    BY <1>2, CommandSteps, LockShape, JournalShape, EngineOrRecovery, PersistShape
  <2>2. CASE q # p
    BY <1>0, <2>1, <2>2, ShapeType
  <2>3. CASE q = p
    <3>1. ~EndProcess(p)
      BY <1>0, <2>3 DEF EndProcess
    <3>2. PICK l \in Labels \ {"idle"}, j \in Job : GoesOn(p, l, j)
      BY <2>1, <3>1 DEF Shape
    <3> QED
      BY <1>0, <2>1, <2>3, <3>2 DEF GoesOn
  <2> QED
    BY <2>2, <2>3
<1>3. ASSUME NEW p \in Procs, NEW f \in Profiles, StartBootstrap(p, f) \/ StartRecovery(p, f), q # p
      PROVE  pc'[q] = pc[q] /\ job'[q] = job[q]
  BY <1>0, <1>3, StartBootstrapEffect, StartRecoveryEffect
<1>4. CASE \E p \in Procs, f \in Profiles : StartBootstrap(p, f) \/ StartRecovery(p, f)
  BY <1>0, <1>3, <1>4
<1>5. CASE \E p \in Procs, f \in Profiles : InspectIncident(p, f)
  BY <1>1, <1>5 DEF InspectIncident
<1>6. CASE \E r \in inflight : Land(r)
  BY <1>1, <1>6 DEF Land
<1>7. CASE \E f \in Profiles : Administer(f)
  BY <1>1, <1>7 DEF Administer
<1>8. CASE \E ns \in DOMAIN journal, a \in {"REVOKE_ORPHAN_KEY", "DELETE_DEDICATED_USER"} :
              RecordRecoveryRequired(ns, a)
  BY <1>1, <1>8 DEF RecordRecoveryRequired
<1>9. CASE UNCHANGED vars
  BY <1>1, <1>9 DEF vars
<1> QED
  BY <1>2, <1>4, <1>5, <1>6, <1>7, <1>8, <1>9, NextCases

LEMMA DrawnGrows ==
  ASSUME TypeInv, [Next]_vars
  PROVE  drawn \in Nat /\ drawn' \in Nat /\ drawn <= drawn'
<1>0. drawn \in Nat
  BY BootstrapAssumption DEF TypeInv, ProcessType
<1>1. CASE UNCHANGED drawn
  BY <1>0, <1>1
<1>2. CASE \E p \in Procs : CommandStep(p) \/ Crash(p)
  BY <1>1, <1>2, CommandSteps, LockShape, JournalShape, EngineOrRecovery, PersistShape
<1>3. CASE \E p \in Procs, f \in Profiles : StartBootstrap(p, f)
  BY <1>0, <1>3, StartBootstrapEffect
<1>4. CASE \E p \in Procs, f \in Profiles : StartRecovery(p, f)
  BY <1>0, <1>4, StartRecoveryEffect, BootstrapAssumption
<1>5. CASE \E p \in Procs, f \in Profiles : InspectIncident(p, f)
  BY <1>1, <1>5 DEF InspectIncident
<1>6. CASE \E r \in inflight : Land(r)
  BY <1>1, <1>6 DEF Land
<1>7. CASE \E f \in Profiles : Administer(f)
  BY <1>1, <1>7 DEF Administer
<1>8. CASE \E ns \in DOMAIN journal, a \in {"REVOKE_ORPHAN_KEY", "DELETE_DEDICATED_USER"} :
              RecordRecoveryRequired(ns, a)
  BY <1>1, <1>8 DEF RecordRecoveryRequired
<1>9. CASE UNCHANGED vars
  BY <1>1, <1>9 DEF vars
<1> QED
  BY <1>2, <1>3, <1>4, <1>5, <1>6, <1>7, <1>8, <1>9, NextCases

LEMMA NewJournals ==
  ASSUME TypeInv, [Next]_vars, NEW ns \in DOMAIN journal', ns \notin DOMAIN journal
  PROVE  \E p \in Procs : CreateJournal(p) /\ ns = job[p].ns /\ journal'[ns].op = job[p].op
<1>1. ASSUME NEW p \in Procs, CreateJournal(p)
      PROVE  ns = job[p].ns /\ journal'[ns].op = job[p].op
  <2>1. job[p].ns \in Ns /\ job[p].op \in Id /\ job[p].op # <<>>
    BY <1>1 DEF CreateJournal, TypeInv, ProcessType, JobOK, Started, Job
  <2>2. PICK k \in Ns, op \in Id : k = job[p].ns /\ op = job[p].op
    BY <2>1
  <2>3. JournalCreate(k, op) /\ op # <<>>
    BY <1>1, <2>1, <2>2 DEF CreateJournal
  <2>4. DOMAIN journal' = DOMAIN journal \cup {k} /\ journal'[k].op = op
    BY <2>3, CreateEffect
  <2> QED
    BY <2>2, <2>4
<1>2. ASSUME NEW p \in Procs, CommandStep(p) \/ Crash(p), ~CreateJournal(p)
      PROVE  FALSE
  <2>1. CASE AppendRecord(p)
    <3>1. job[p].next \in Record
      BY DEF TypeInv, ProcessType, Job
    <3>2. /\ job[p].ns \in DOMAIN journal
          /\ journal' = [journal EXCEPT ![job[p].ns].recs = Append(@, job[p].next)]
      BY <2>1 DEF AppendRecord, CanAppend, Loadable, Exists, JournalAppend
    <3> QED
      BY <3>2
  <2>2. CASE ~AppendRecord(p)
    <3>1. UNCHANGED journal
      BY <1>2, <2>2, CommandSteps, LockShape, EngineOrRecovery, PersistShape
         DEF JournalStep, CreateRefused, RecordHead, WriteHead, storage
    <3> QED
      BY <3>1
  <2> QED
    BY <2>1, <2>2
<1>3. ASSUME UNCHANGED journal PROVE FALSE
  BY <1>3
<1>4. ~\E p \in Procs, f \in Profiles : StartBootstrap(p, f) \/ StartRecovery(p, f)
  BY <1>3, StartBootstrapEffect, StartRecoveryEffect DEF storage
<1>5. ~\E p \in Procs, f \in Profiles : InspectIncident(p, f)
  BY <1>3 DEF InspectIncident, storage
<1>6. ~\E r \in inflight : Land(r)
  BY <1>3 DEF Land, storage
<1>7. ~\E f \in Profiles : Administer(f)
  BY <1>3 DEF Administer, storage
<1>8. ~\E k \in DOMAIN journal, a \in {"REVOKE_ORPHAN_KEY", "DELETE_DEDICATED_USER"} :
              RecordRecoveryRequired(k, a)
  BY DEF RecordRecoveryRequired
<1>9. ~UNCHANGED vars
  BY <1>3 DEF vars
<1> QED
  BY <1>1, <1>2, <1>4, <1>5, <1>6, <1>7, <1>8, <1>9, NextCases

LEMMA ResolvedMeans ==
  ASSUME TypeInv, NEW p, NEW f \in Profiles, NEW t \in Id, Resolved(p, f, t)
  PROVE  /\ <<f, "bootstrap", t>> \in DOMAIN journal
         /\ <<f, "resolve", t>> \in DOMAIN journal
         /\ journal[<<f, "resolve", t>>].op = ResolutionId(<<f, "bootstrap", t>>)
         /\ Latest(<<f, "resolve", t>>).state = "COMPLETED"
         /\ Latest(<<f, "bootstrap", t>>).action = NoAction
         /\ Hop(p, f, t) = ResolutionId(<<f, "bootstrap", t>>)
<1>1. Namespace(f, "bootstrap", t) = <<f, "bootstrap", t>> /\ Namespace(f, "resolve", t) = <<f, "resolve", t>>
  BY NamespaceTypes DEF NamespaceType
<1>2. PICK b, r : b = <<f, "bootstrap", t>> /\ r = <<f, "resolve", t>>
  OBVIOUS
<1>3. /\ Classify(p, b, "none").classification = "RECOVERY_REQUIRED"
      /\ Classify(p, b, "none").action = NoAction
      /\ Loadable(b) /\ Loadable(r)
      /\ Latest(r).state = "COMPLETED"
      /\ journal[r].op = ResolutionId(b)
  BY <1>1, <1>2 DEF Resolved
<1>4. Latest(b).action = NoAction
  BY <1>3, ClassifyAction
<1> QED
  BY <1>1, <1>2, <1>3, <1>4 DEF Loadable, Exists, Hop

LEMMA FrontierDescends ==
  ASSUME TypeInv, ChainInv, NEW p, NEW f \in Profiles
  PROVE  Descends(f, Frontier(p, f), drawn + 1)
<1>0. MaxGenerations \in Nat /\ drawn \in Nat
  BY BootstrapAssumption DEF TypeInv, ProcessType
<1>1. PICK g : IsWalk(p, f, g, MaxGenerations) /\ Frontier(p, f) = g[MaxGenerations]
  BY FrontierIsWalk
<1> DEFINE S == {n \in Nat : n <= MaxGenerations => Descends(f, g[n], drawn + 1)}
<1>2. 0 \in S
  BY <1>1 DEF IsWalk, Descends
<1>3. ASSUME NEW n \in S PROVE n + 1 \in S
  <2> SUFFICES ASSUME n + 1 <= MaxGenerations PROVE Descends(f, g[n + 1], drawn + 1)
    OBVIOUS
  <2>1. n \in Nat /\ n + 1 \in 1..MaxGenerations /\ n \in 0..MaxGenerations /\ Descends(f, g[n], drawn + 1)
    BY <1>0
  <2>2. g[n + 1] = Hop(p, f, g[n]) /\ g[n] \in Id
    BY <1>1, <2>1 DEF IsWalk
  <2>3. CASE Resolved(p, f, g[n])
    <3>1. PICK t \in Id : t = g[n]
      BY <2>2
    <3>2. PICK b : b = <<f, "bootstrap", t>>
      OBVIOUS
    <3>3. /\ b \in DOMAIN journal
          /\ <<f, "resolve", t>> \in DOMAIN journal
          /\ journal[<<f, "resolve", t>>].op = g[n + 1]
          /\ Latest(<<f, "resolve", t>>).state = "COMPLETED"
      BY <2>2, <2>3, <3>1, <3>2, ResolvedMeans
    <3>4. b[2] = "bootstrap"
      BY <3>2
    <3>5. PICK m \in 1..drawn : journal[b].op = <<m>>
      BY <3>3, <3>4 DEF ChainInv
    <3>6. journal[b].op[1] = m /\ m < drawn + 1
      BY <1>0, <3>5
    <3> QED
      BY <3>2, <3>3, <3>6 DEF Descends
  <2>4. CASE ~Resolved(p, f, g[n])
    BY <2>1, <2>2, <2>4 DEF Hop
  <2> QED
    BY <2>3, <2>4
<1>4. S = Nat
  <2> HIDE DEF S
  <2>1. S \in SUBSET Nat
    BY DEF S
  <2> QED
    BY <1>2, <1>3, <2>1, SetInduction
<1> QED
  BY <1>0, <1>1, <1>4


LEMMA ChainNext == TypeInv /\ ChainInv /\ [Next]_vars => ChainInv'
<1> SUFFICES ASSUME TypeInv, ChainInv, [Next]_vars PROVE ChainInv'
  OBVIOUS
<1>0. drawn \in Nat /\ drawn' \in Nat /\ drawn <= drawn'
  BY DrawnGrows
<1>1. ASSUME NEW p \in Procs, pc'[p] # "idle", job'[p].action = NoAction
      PROVE  Descends(job[p].ns[1], job[p].ns[3], job[p].op[1])'
  <2>1. CASE pc[p] # "idle" /\ Same(job[p], job'[p])
    <3>1. PICK f, s, n : f = job[p].ns[1] /\ s = job[p].ns[3] /\ n = job[p].op[1]
      OBVIOUS
    <3>2. Descends(f, s, n)
      BY <1>1, <2>1, <3>1 DEF ChainInv, Same
    <3>3. Descends(f, s, n)'
      BY <3>2, DescendsLasts
    <3>4. f = job'[p].ns[1] /\ s = job'[p].ns[3] /\ n = job'[p].op[1]
      BY <2>1, <3>1 DEF Same
    <3> QED
      BY <3>3, <3>4 DEF Descends
  <2>2. CASE \E f \in Profiles : StartBootstrap(p, f)
    <3>1. PICK f \in Profiles : StartBootstrap(p, f)
      BY <2>2
    <3>2. PICK s, n : s = Frontier(p, f) /\ n = drawn + 1
      OBVIOUS
    <3>3. Descends(f, s, n)'
      BY <3>2, FrontierDescends, DescendsLasts
    <3>a. PICK j \in Job : BootstrapJob(p, f, j)
      BY <3>1, StartBootstrapJob
    <3>4. job' = [job EXCEPT ![p] = j] /\ j.ns = <<f, "bootstrap", s>> /\ j.op = <<n>>
      BY <3>2, <3>a DEF BootstrapJob
    <3>5. job'[p] = j
      BY <3>4 DEF TypeInv, ProcessType
    <3>6. f = job'[p].ns[1] /\ s = job'[p].ns[3] /\ n = job'[p].op[1]
      BY <3>4, <3>5
    <3> QED
      BY <3>3, <3>6 DEF Descends
  <2>3. CASE \E f \in Profiles : StartRecovery(p, f)
    <3>1. job'[p].action \in RecoveryActions
      BY <2>3, StartRecoveryEffect DEF TypeInv, ProcessType
    <3> QED
      BY <1>1, <3>1, RecordTypes
  <2> QED
    BY <1>1, <2>1, <2>2, <2>3, ProcessSteps
<1>2. ASSUME NEW ns \in DOMAIN journal', ns[2] = "bootstrap"
      PROVE  /\ \E n \in 1..drawn' : journal'[ns].op = <<n>>
             /\ Descends(ns[1], ns[3], journal[ns].op[1])'
  <2>1. CASE ns \in DOMAIN journal
    <3>1. journal'[ns].op = journal[ns].op
      BY <2>1, JournalMonotone
    <3>2. PICK n \in 1..drawn : journal[ns].op = <<n>>
      BY <1>2, <2>1 DEF ChainInv
    <3>3. PICK f, s, m : f = ns[1] /\ s = ns[3] /\ m = journal[ns].op[1]
      OBVIOUS
    <3>4. Descends(f, s, m)
      BY <1>2, <2>1, <3>3 DEF ChainInv
    <3>5. Descends(f, s, m)'
      BY <3>4, DescendsLasts
    <3> QED
      <4>1. \E k \in 1..drawn' : journal'[ns].op = <<k>>
        BY <1>0, <3>1, <3>2
      <4>2. f = ns[1] /\ s = ns[3] /\ m = journal'[ns].op[1]
        BY <3>1, <3>3
      <4>3. Descends(ns[1], ns[3], journal[ns].op[1])'
        BY <3>5, <4>2 DEF Descends
      <4> QED
        BY <4>1, <4>3
  <2>2. CASE ns \notin DOMAIN journal
    <3>1. PICK p \in Procs : CreateJournal(p) /\ ns = job[p].ns /\ journal'[ns].op = job[p].op
      BY <2>2, NewJournals
    <3>2. pc[p] # "idle" /\ JobOK(p)
      BY <3>1 DEF CreateJournal, TypeInv
    <3>3. job[p].action = NoAction /\ \E n \in 1..drawn : job[p].op = <<n>>
      BY <1>2, <3>1, <3>2 DEF JobOK, Started
    <3>4. PICK f, s, m : f = ns[1] /\ s = ns[3] /\ m = job[p].op[1]
      OBVIOUS
    <3>5. Descends(f, s, m)
      BY <3>1, <3>2, <3>3, <3>4 DEF ChainInv
    <3>6. Descends(f, s, m)'
      BY <3>5, DescendsLasts
    <3> QED
      <4>1. \E k \in 1..drawn' : journal'[ns].op = <<k>>
        BY <1>0, <3>1, <3>3
      <4>2. f = ns[1] /\ s = ns[3] /\ m = journal'[ns].op[1]
        BY <3>1, <3>4
      <4>3. Descends(ns[1], ns[3], journal[ns].op[1])'
        BY <3>6, <4>2 DEF Descends
      <4> QED
        BY <4>1, <4>3
  <2> QED
    BY <2>1, <2>2
<1> QED
  BY <1>1, <1>2 DEF ChainInv

LEMMA ChainInit == Init => ChainInv
<1> SUFFICES ASSUME Init PROVE ChainInv
  OBVIOUS
<1>1. DOMAIN journal = {}
  BY DEF Init
<1> QED
  BY <1>1 DEF Init, ChainInv

LEMMA ChainMeaning ==
  ASSUME TypeInv, ChainInv
  PROVE  RetryNeedsResolution
<1> SUFFICES ASSUME NEW ns \in DOMAIN journal, ns[2] = "bootstrap", ns[3] # <<>>
             PROVE  \E res \in DOMAIN journal :
                      /\ res[1] = ns[1] /\ res[2] = "resolve"
                      /\ journal[res].op = ns[3] /\ Latest(res).state = "COMPLETED"
  BY DEF RetryNeedsResolution
<1>1. PICK f, s, n : f = ns[1] /\ s = ns[3] /\ n = journal[ns].op[1]
  OBVIOUS
<1>2. Descends(f, s, n) /\ s # <<>>
  BY <1>1 DEF ChainInv
<1>3. PICK t \in Id :
        /\ <<f, "resolve", t>> \in DOMAIN journal
        /\ journal[<<f, "resolve", t>>].op = s
        /\ Latest(<<f, "resolve", t>>).state = "COMPLETED"
  BY <1>2 DEF Descends
<1>4. PICK r : r = <<f, "resolve", t>>
  OBVIOUS
<1> QED
  BY <1>1, <1>3, <1>4

\* A walk that stopped stays where it is.
LEMMA WalkStops ==
  ASSUME TypeInv, NEW p, NEW f \in Profiles, NEW g, NEW N \in Nat, IsWalk(p, f, g, N),
         NEW i \in 0..N, ~Resolved(p, f, g[i])
  PROVE  g[N] = g[i]
<1> DEFINE S == {n \in Nat : i <= n /\ n <= N => g[n] = g[i]}
<1>1. 0 \in S
  OBVIOUS
<1>2. ASSUME NEW n \in S PROVE n + 1 \in S
  <2> SUFFICES ASSUME i <= n + 1, n + 1 <= N PROVE g[n + 1] = g[i]
    OBVIOUS
  <2>1. CASE i = n + 1
    BY <2>1
  <2>2. CASE i # n + 1
    <3>1. n \in Nat /\ i <= n /\ n <= N /\ n + 1 \in 1..N
      BY <2>2
    <3>2. g[n] = g[i]
      BY <3>1
    <3>3. g[n + 1] = Hop(p, f, g[n])
      BY <3>1 DEF IsWalk
    <3> QED
      BY <3>2, <3>3 DEF Hop
  <2> QED
    BY <2>1, <2>2
<1>3. S = Nat
  <2> HIDE DEF S
  <2>1. S \in SUBSET Nat
    BY DEF S
  <2> QED
    BY <1>1, <1>2, <2>1, SetInduction
<1> QED
  BY <1>3

\* While some incident of a profile waits for a recovery action, every walk
\* ends at a generation that has its journal already: no new bootstrap.
LEMMA ActionBlocksFrontier ==
  ASSUME TypeInv, ChainInv, NEW p, NEW f \in Profiles,
         NEW a \in Incidents(f), Latest(a).action # NoAction
  PROVE  <<f, "bootstrap", Frontier(p, f)>> \in DOMAIN journal
<1> DEFINE N == MaxGenerations
<1>0. N \in Nat
  BY BootstrapAssumption
<1>1. PICK g : IsWalk(p, f, g, N) /\ Frontier(p, f) = g[N]
  BY FrontierIsWalk
<1> SUFFICES ASSUME <<f, "bootstrap", g[N]>> \notin DOMAIN journal PROVE FALSE
  BY <1>1
<1> HIDE DEF N
<1>2. \A i \in 0..N : g[i] \in Id
  BY <1>1 DEF IsWalk
<1>3. ASSUME NEW i \in 0..N, <<f, "bootstrap", g[i]>> \in DOMAIN journal
      PROVE  Resolved(p, f, g[i]) /\ i + 1 \in 0..N /\ g[i + 1] = ResolutionId(<<f, "bootstrap", g[i]>>)
  <2>1. g[i] # g[N] /\ i # N
    BY <1>3
  <2>2. Resolved(p, f, g[i])
    BY <1>0, <1>1, <2>1, WalkStops
  <2>3. i + 1 \in 1..N
    BY <1>0, <2>1
  <2>4. g[i + 1] = Hop(p, f, g[i])
    BY <1>1, <2>3 DEF IsWalk
  <2>5. PICK t \in Id : t = g[i]
    BY <1>2
  <2>6. Hop(p, f, t) = ResolutionId(<<f, "bootstrap", t>>)
    BY <2>2, <2>5, ResolvedMeans
  <2>7. i + 1 \in 0..N
    BY <1>0, <2>3
  <2> QED
    BY <2>2, <2>4, <2>5, <2>6, <2>7
<1> DEFINE Off == {v \in Incidents(f) : \A i \in 0..N : v[3] # g[i]}
           T == {n \in Nat : \E v \in Off : journal[v].op[1] = n}
<1>4. \A v \in Incidents(f) : v \in DOMAIN journal /\ v = <<f, "bootstrap", v[3]>> /\ v[3] \in Id
  BY DEF Incidents, TypeInv, StorageType, Ns
<1>5. ASSUME NEW v \in Off PROVE FALSE
  <2>1. journal[v].op[1] \in Nat
    BY <1>4, ResolutionIdType
  <2>2. T # {} /\ T \in SUBSET Nat
    BY <2>1
  <2>3. PICK n \in T : \A m \in T : n <= m
    BY <2>2, SmallestOf
  <2>4. PICK w \in Off : journal[w].op[1] = n
    BY <2>3
  <2>5. w \in Incidents(f) /\ w \in DOMAIN journal /\ w = <<f, "bootstrap", w[3]>>
    BY <1>4
  <2>6. w[3] # <<>>
    <3>1. 0 \in 0..N /\ g[0] = <<>>
      BY <1>0, <1>1 DEF IsWalk
    <3> QED
      BY <3>1
  <2>7. PICK s : s = w[3]
    OBVIOUS
  <2>8. Descends(f, s, n) /\ s # <<>>
    BY <2>4, <2>5, <2>6, <2>7 DEF ChainInv
  <2>9. PICK t \in Id :
          /\ <<f, "bootstrap", t>> \in DOMAIN journal
          /\ journal[<<f, "resolve", t>>].op = s
          /\ journal[<<f, "bootstrap", t>>].op[1] < n
    BY <2>8 DEF Descends
  <2>10. PICK b : b = <<f, "bootstrap", t>>
    OBVIOUS
  <2>11. b \in Incidents(f) /\ b[3] = t /\ b \in DOMAIN journal
    BY <2>9, <2>10 DEF Incidents
  <2>12. journal[b].op[1] \in Nat
    BY <2>11, ResolutionIdType
  <2>13. b \notin Off
    <3> SUFFICES ASSUME b \in Off PROVE FALSE
      OBVIOUS
    <3>1. journal[b].op[1] \in T
      BY <2>12
    <3>2. n <= journal[b].op[1] /\ n \in Nat
      BY <2>3, <3>1
    <3> QED
      BY <2>9, <2>10, <2>12, <3>2
  <2>14. PICK i \in 0..N : t = g[i]
    BY <2>11, <2>13
  <2>15. Resolved(p, f, t) /\ i + 1 \in 0..N /\ g[i + 1] = ResolutionId(<<f, "bootstrap", t>>)
    BY <1>3, <2>9, <2>14
  <2>16. journal[<<f, "resolve", t>>].op = ResolutionId(<<f, "bootstrap", t>>)
    BY <2>15, ResolvedMeans
  <2>17. g[i + 1] = w[3]
    BY <2>7, <2>9, <2>15, <2>16
  <2> QED
    BY <2>15, <2>17
<1>6. a \notin Off /\ a \in DOMAIN journal /\ a = <<f, "bootstrap", a[3]>>
  BY <1>4, <1>5
<1>7. PICK i \in 0..N : a[3] = g[i]
  BY <1>6
<1>8. PICK t \in Id : t = g[i]
  BY <1>2
<1>9. a = <<f, "bootstrap", t>> /\ Resolved(p, f, t)
  BY <1>3, <1>6, <1>7, <1>8
<1>10. Latest(<<f, "bootstrap", t>>).action = NoAction
  BY <1>9, ResolvedMeans
<1> QED
  BY <1>9, <1>10


-----------------------------------------------------------------------------
(* The moves of the engine and of a recovery.                              *)

EngineLabels == BootstrapLabels \ {"classify", "inspect", "preflight"}

EngineFlow ==
  {<<"observe", "create_user">>, <<"observe", "sync_read">>, <<"sync_read", "sync">>,
   <<"sync", "sync_verify">>, <<"create_user", "verify_created">>, <<"verify_created", "grant">>,
   <<"grant", "verify_granted">>, <<"verify_granted", "create_key">>, <<"create_key", "revoke">>,
   <<"revoke", "verify_revoked">>, <<"verify_revoked", "persist">>,
   <<"select", "delete">>, <<"delete", "verify_deleted">>}

Flows(p, l, j) == GoesOn(p, l, j) /\ <<pc[p], l>> \in EngineFlow

LEMMA FlowLabels ==
  ASSUME NEW l1, NEW l2, <<l1, l2>> \in EngineFlow
  PROVE  l1 \in EngineLabels \cup RecoveryLabels /\ l2 \in EngineLabels \cup RecoveryLabels /\ l2 # "observe"
BY DEF EngineFlow, EngineLabels, BootstrapLabels, RecoveryLabels

LEMMA SendingMoves ==
  ASSUME TypeInv, NEW p \in Procs, SendingStep(p)
  PROVE  \/ /\ Accepts(RequestOf(p)) /\ Apply(RequestOf(p)) /\ UNCHANGED inflight
            /\ \E l \in Labels \ {"idle"}, j \in Job : Flows(p, l, j)
         \/ /\ Fail(p) /\ UNCHANGED <<account, keys>>
            /\ inflight' \in {inflight, inflight \cup {RequestOf(p)}}
<1> USE DEF Labels, BootstrapLabels, RecoveryLabels, SharedLabels
<1>0. job[p] \in Job /\ JobOK(p)
  BY DEF TypeInv, ProcessType
<1>1. Requests(p, RequestOf(p))
  BY SendingSteps DEF SendingStep
<1>2. CASE Fail(p) /\ UNCHANGED <<account, keys>> /\ inflight' \in {inflight, inflight \cup {RequestOf(p)}}
  BY <1>2
<1>3. CASE ~(Fail(p) /\ UNCHANGED <<account, keys>> /\ inflight' \in {inflight, inflight \cup {RequestOf(p)}})
  <2>1. Accepts(RequestOf(p)) /\ Apply(RequestOf(p)) /\ UNCHANGED inflight
    BY <1>1, <1>3 DEF Requests
  <2>2. ASSUME NEW l \in Labels \ {"idle"}, Goto(p, l), UNCHANGED job, <<pc[p], l>> \in EngineFlow,
               l \in BootstrapLabels => job[p].action = NoAction,
               l \in RecoveryLabels => job[p].action # NoAction
        PROVE  \E k \in Labels \ {"idle"}, j \in Job : Flows(p, k, j)
    BY <1>0, <2>2, GotoGoesOn DEF Flows
  <2>3. CASE CreateUser(p)
    <3>1. Goto(p, "verify_created") /\ UNCHANGED job /\ pc[p] = "create_user"
      BY <1>3, <2>3 DEF CreateUser, NewAccountStep, Send, RequestOf
    <3> QED
      BY <1>0, <2>1, <2>2, <3>1 DEF EngineFlow, JobOK
  <2>4. CASE Grant(p)
    <3>1. Goto(p, "verify_granted") /\ UNCHANGED job /\ pc[p] = "grant"
      BY <1>3, <2>4 DEF Grant, NewAccountStep, Send, RequestOf
    <3> QED
      BY <1>0, <2>1, <2>2, <3>1 DEF EngineFlow, JobOK
  <2>5. CASE Revoke(p)
    <3>1. Goto(p, "verify_revoked") /\ UNCHANGED job /\ pc[p] = "revoke"
      BY <1>3, <2>5 DEF Revoke, NewAccountStep, Send, RequestOf
    <3> QED
      BY <1>0, <2>1, <2>2, <3>1 DEF EngineFlow, JobOK
  <2>6. CASE Sync(p)
    <3>1. Goto(p, "sync_verify") /\ UNCHANGED job /\ pc[p] = "sync"
      BY <1>3, <2>6 DEF Sync, Send, RequestOf
    <3> QED
      BY <1>0, <2>1, <2>2, <3>1 DEF EngineFlow, JobOK
  <2>7. CASE Delete(p)
    <3>1. Goto(p, "verify_deleted") /\ UNCHANGED job /\ pc[p] = "delete"
      BY <1>3, <2>7 DEF Delete, Send, RequestOf
    <3> QED
      BY <1>0, <2>1, <2>2, <3>1 DEF EngineFlow, JobOK
  <2>8. CASE CreateKey(p)
    <3>1. /\ Goto(p, "revoke") /\ Set(p, [job[p] EXCEPT !.tx = TransactionNext[@]]) /\ pc[p] = "create_key"
      BY <1>3, <2>8 DEF CreateKey, Send, RequestOf
    <3> DEFINE t == TransactionNext[job[p].tx]
               j == [job[p] EXCEPT !.tx = t]
    <3>2. t \in TxState
      BY <1>0 DEF Job, TxState, TransactionNext
    <3>3. Set(p, j)
      BY <3>1
    <3> HIDE DEF t
    <3>4. j \in Job /\ Same(job[p], j)
      BY <1>0, <3>2, JobUpdates
    <3> HIDE DEF j
    <3>5. GoesOn(p, "revoke", j)
      BY <1>0, <3>1, <3>3, <3>4, SetGoesOn DEF JobOK
    <3> QED
      BY <2>1, <3>1, <3>4, <3>5 DEF Flows, EngineFlow
  <2> QED
    BY <2>3, <2>4, <2>5, <2>6, <2>7, <2>8 DEF SendingStep
<1> QED
  BY <1>2, <1>3

LEMMA ReadingMoves ==
  ASSUME TypeInv, NEW p \in Procs, ReadingStep(p)
  PROVE  \/ Fail(p)
         \/ Succeed(p) /\ pc[p] \in {"observe", "sync_verify", "select", "verify_deleted"}
         \/ \E l \in Labels \ {"idle"}, j \in Job :
              /\ Flows(p, l, j)
              /\ l = "sync" => j.seen = account[job[p].profile] /\ "temp" \notin j.seen.priv
              /\ l = "delete" => /\ job[p].action # "RESOLVE_UNPROVISIONED_INCIDENT"
                                 /\ j.seen.id \in Candidate(job[p].profile, job[p].action)
<1> USE DEF Labels, BootstrapLabels, RecoveryLabels, SharedLabels
<1>0. job[p] \in Job /\ JobOK(p)
  BY DEF TypeInv, ProcessType
<1>s. ASSUME NEW l \in {"sync_read", "sync"}, Goto(p, l), job[p].action = NoAction,
             NEW a \in Account, Set(p, [job[p] EXCEPT !.seen = a])
      PROVE  \E j \in Job : GoesOn(p, l, j) /\ j.seen = a
  <2> DEFINE j == [job[p] EXCEPT !.seen = a]
  <2>1. j \in Job /\ Same(job[p], j) /\ j.seen = a
    BY <1>0, JobUpdates DEF Job
  <2> HIDE DEF j
  <2>2. GoesOn(p, l, j)
    BY <1>s, <2>1, SetGoesOn DEF j
  <2> QED
    BY <2>1, <2>2
<1>t. ASSUME NEW l1, NEW q, NEW l2 \in BootstrapLabels \ {"sync", "delete"}, Verify(p, l1, q, l2), ~Fail(p),
             l1 \in BootstrapLabels, <<l1, l2>> \in EngineFlow
      PROVE  \E j \in Job : Flows(p, l2, j)
  <2>1. pc[p] = l1 /\ Goto(p, l2) /\ Set(p, [job[p] EXCEPT !.tx = TransactionNext[@]])
    BY <1>t DEF Verify
  <2> DEFINE t == TransactionNext[job[p].tx]
             j == [job[p] EXCEPT !.tx = t]
  <2>2. t \in TxState
    BY <1>0 DEF Job, TxState, TransactionNext
  <2>3. Set(p, j)
    BY <2>1
  <2> HIDE DEF t
  <2>4. j \in Job /\ Same(job[p], j)
    BY <1>0, <2>2, JobUpdates
  <2> HIDE DEF j
  <2>5. GoesOn(p, l2, j)
    BY <1>0, <1>t, <2>1, <2>3, <2>4, SetGoesOn DEF JobOK
  <2> QED
    BY <1>t, <2>1, <2>4, <2>5 DEF Flows
<1>1. CASE Fail(p)
  BY <1>1
<1>2. CASE Observe(p) /\ ~Fail(p)
  <2>1. pc[p] = "observe" /\ job[p].action = NoAction /\ job[p].profile \in Profiles
    BY <1>0, <1>2 DEF Observe, JobOK, Started
  <2>2. CASE Succeed(p)
    BY <2>1, <2>2
  <2>3. CASE Goto(p, "create_user") /\ UNCHANGED job
    <3>1. GoesOn(p, "create_user", job[p])
      BY <2>1, <2>3, GotoGoesOn
    <3> QED
      BY <1>0, <2>1, <3>1 DEF Flows, EngineFlow
  <2>4. CASE Goto(p, "sync_read") /\ Set(p, [job[p] EXCEPT !.seen = account[job[p].profile]])
    <3>1. \E j \in Job : GoesOn(p, "sync_read", j)
      BY <1>s, <2>1, <2>4, AccountTypes
    <3> QED
      BY <2>1, <3>1 DEF Flows, EngineFlow
  <2> QED
    BY <1>2, <2>2, <2>3, <2>4 DEF Observe
<1>3. CASE SyncRead(p) /\ ~Fail(p)
  <2>1. pc[p] = "sync_read" /\ job[p].action = NoAction /\ job[p].profile \in Profiles
    BY <1>0, <1>3 DEF SyncRead, JobOK, Started
  <2>2. /\ Goto(p, "sync") /\ Set(p, [job[p] EXCEPT !.seen = account[job[p].profile]])
        /\ "temp" \notin account[job[p].profile].priv
    BY <1>3 DEF SyncRead
  <2>3. \E j \in Job : GoesOn(p, "sync", j) /\ j.seen = account[job[p].profile]
    BY <1>s, <2>1, <2>2, AccountTypes
  <2> QED
    BY <2>1, <2>2, <2>3 DEF Flows, EngineFlow
<1>4. CASE SyncVerify(p) /\ ~Fail(p)
  BY <1>4 DEF SyncVerify
<1>5. CASE VerifyCreated(p) /\ ~Fail(p)
  BY <1>5, <1>t DEF VerifyCreated, EngineFlow
<1>6. CASE VerifyGranted(p) /\ ~Fail(p)
  BY <1>6, <1>t DEF VerifyGranted, EngineFlow
<1>7. CASE VerifyRevoked(p) /\ ~Fail(p)
  BY <1>7, <1>t DEF VerifyRevoked, EngineFlow
<1>8. CASE VerifyDeleted(p) /\ ~Fail(p)
  BY <1>8 DEF VerifyDeleted
<1>9. CASE Select(p) /\ ~Fail(p)
  <2>1. job[p].action # NoAction /\ job[p].profile \in Profiles /\ job[p].action \in RecoveryActions /\ pc[p] = "select"
    BY <1>0, <1>9 DEF Select, JobOK, Started, Job, Action
  <2>2. CASE Succeed(p)
    BY <2>1, <2>2
  <2>3. CASE /\ job[p].action # "RESOLVE_UNPROVISIONED_INCIDENT"
             /\ \E object \in Candidate(job[p].profile, job[p].action) :
                  Set(p, [job[p] EXCEPT !.seen.id = object])
             /\ Goto(p, "delete")
    <3>1. PICK object \in Candidate(job[p].profile, job[p].action) :
                 Set(p, [job[p] EXCEPT !.seen.id = object]) /\ Goto(p, "delete")
      BY <2>3
    <3>2. object \in Id
      BY <2>1, <3>1, CandidateTypes
    <3> DEFINE a == [job[p].seen EXCEPT !.id = object]
               j == [job[p] EXCEPT !.seen = a]
    <3>3. a \in Account /\ a.id = object
      BY <1>0, <3>2 DEF Job, Account
    <3>4. Set(p, j)
      BY <3>1
    <3> HIDE DEF a
    <3>5. j \in Job /\ Same(job[p], j) /\ j.seen = a
      BY <1>0, <3>3, JobUpdates DEF Job
    <3> HIDE DEF j
    <3>6. GoesOn(p, "delete", j)
      BY <2>1, <3>1, <3>4, <3>5, SetGoesOn
    <3> QED
      BY <2>1, <2>3, <3>3, <3>5, <3>6 DEF Flows, EngineFlow
  <2> QED
    BY <1>9, <2>2, <2>3 DEF Select
<1> QED
  BY <1>1, <1>2, <1>3, <1>4, <1>5, <1>6, <1>7, <1>8, <1>9 DEF ReadingStep

\* what a step of a running command does to the files and to its process
LockFlow ==
  {<<"classify", "inspect">>, <<"classify", "acquire">>, <<"inspect", "acquire">>,
   <<"acquire", "metadata">>, <<"metadata", "preflight">>, <<"metadata", "create">>,
   <<"preflight", "create">>, <<"preflight", "release">>, <<"release", "released">>}

Settled(p) == UNCHANGED <<journal, custody, account, keys, inflight, drawn>>

HeadMoves(p, l, j) ==
  \/ Latest(job[p].ns).state = "CREATED" /\ l = "append" /\ j = job[p]
  \/ Latest(job[p].ns).state = "PRE_SEND_READY" /\ l = "append" /\ j.next.state = "MUTATION_INTENT_RECORDED"
  \/ Latest(job[p].ns).state = "MUTATION_INTENT_RECORDED" /\ l \in {"observe", "select"}
  \/ Latest(job[p].ns).state = "FINAL_VERIFICATION_PENDING" /\ l = "append" /\ j.next.state = "COMPLETED"
  \/ Latest(job[p].ns).state = "COMPLETED" /\ l = "release"

LEMMA LockMoves ==
  ASSUME TypeInv, NEW p \in Procs,
         LockStep(p) \/ ClassifyLoad(p) \/ ClassifyInspect(p) \/ CheckReadOnly(p) \/ Crash(p)
  PROVE  /\ Settled(p)
         /\ \/ EndProcess(p)
            \/ \E l \in Labels \ {"idle"}, j \in Job : GoesOn(p, l, j) /\ <<pc[p], l>> \in LockFlow
<1> USE DEF Labels, BootstrapLabels, RecoveryLabels, SharedLabels
<1>0. job[p] \in Job /\ JobOK(p) /\ pc \in [Procs -> Labels]
  BY DEF TypeInv, ProcessType
<1>1. Shape(p) /\ Settled(p)
  BY LockShape DEF Settled, appliance
<1>2. CASE AcquireRefused(p) \/ ReleaseWrite(p) \/ Crash(p)
  BY <1>1, <1>2 DEF AcquireRefused, ReleaseWrite, Crash
<1>3. ASSUME NEW l1, NEW l2 \in Labels \ {"idle"}, pc[p] = l1, Goto(p, l2), <<l1, l2>> \in LockFlow
      PROVE  EndProcess(p) \/ \E l \in Labels \ {"idle"}, j \in Job : GoesOn(p, l, j) /\ <<pc[p], l>> \in LockFlow
  <2>1. CASE EndProcess(p)
    BY <2>1
  <2>2. CASE ~EndProcess(p)
    <3>1. PICK l \in Labels \ {"idle"}, j \in Job : GoesOn(p, l, j)
      BY <1>1, <2>2 DEF Shape
    <3>2. pc' = [pc EXCEPT ![p] = l] /\ pc' = [pc EXCEPT ![p] = l2]
      BY <1>3, <3>1 DEF GoesOn, Goto
    <3>3. l = l2
      BY <1>0, <3>2, Zenon
    <3> QED
      BY <1>3, <3>1, <3>3
  <2> QED
    BY <2>1, <2>2
<1>4. CASE AcquireFlock(p)
  BY <1>1, <1>3, <1>4 DEF AcquireFlock, LockFlow
<1>5. CASE AcquireWrite(p)
  <2>1. \/ pc[p] = "metadata" /\ Goto(p, "preflight")
        \/ pc[p] = "metadata" /\ Goto(p, "create")
    BY <1>5 DEF AcquireWrite
  <2> QED
    BY <1>1, <1>3, <2>1 DEF LockFlow
<1>6. CASE ReleaseTruncate(p)
  BY <1>1, <1>3, <1>6 DEF ReleaseTruncate, LockFlow
<1>7. CASE ClassifyLoad(p)
  <2>1. \/ EndProcess(p)
        \/ pc[p] = "classify" /\ Goto(p, "inspect")
        \/ pc[p] = "classify" /\ Goto(p, "acquire")
    BY <1>7 DEF ClassifyLoad
  <2> QED
    BY <1>1, <1>3, <2>1 DEF LockFlow
<1>8. CASE ClassifyInspect(p)
  <2>1. EndProcess(p) \/ (pc[p] = "inspect" /\ Goto(p, "acquire"))
    BY <1>8 DEF ClassifyInspect
  <2> QED
    BY <1>1, <1>3, <2>1 DEF LockFlow
<1>9. CASE CheckReadOnly(p)
  <2>1. \/ pc[p] = "preflight" /\ Goto(p, "create")
        \/ pc[p] = "preflight" /\ Goto(p, "release")
    BY <1>9 DEF CheckReadOnly
  <2> QED
    BY <1>1, <1>3, <2>1 DEF LockFlow
<1> QED
  BY <1>1, <1>2, <1>4, <1>5, <1>6, <1>7, <1>8, <1>9 DEF LockStep

LEMMA JournalMoves ==
  ASSUME TypeInv, NEW p \in Procs, JournalStep(p)
  PROVE  /\ UNCHANGED <<custody, account, keys, inflight, drawn>>
         /\ \/ EndProcess(p) /\ UNCHANGED journal
            \/ /\ pc[p] = "create" /\ JournalCreate(job[p].ns, job[p].op)
               /\ \E j \in Job : GoesOn(p, "head", j) /\ j.next.state = "PRE_SEND_READY"
            \/ /\ pc[p] = "append" /\ GoesOn(p, "head", job[p])
               /\ AppendRecord(p)
            \/ /\ pc[p] = "head" /\ UNCHANGED journal
               /\ \E l \in Labels \ {"idle"}, j \in Job : GoesOn(p, l, j) /\ HeadMoves(p, l, j)
<1> USE DEF Labels, BootstrapLabels, RecoveryLabels, SharedLabels
<1>0. job[p] \in Job /\ JobOK(p) /\ pc \in [Procs -> Labels]
  BY DEF TypeInv, ProcessType
<1>1. UNCHANGED <<custody, account, keys, inflight, drawn>>
  BY JournalShape DEF appliance
<1>2. CASE CreateRefused(p)
  BY <1>1, <1>2 DEF CreateRefused
<1>a. ASSUME NEW s \in DurableStates, NEW l \in {"head", "append"}, Goto(p, l),
             Set(p, [job[p] EXCEPT !.next = Rec(s, 1, NoAction)])
      PROVE  \E j \in Job : GoesOn(p, l, j) /\ j.next.state = s
  <2> DEFINE rec == Rec(s, 1, NoAction)
             j == [job[p] EXCEPT !.next = rec]
  <2>1. rec \in Record /\ rec.state = s
    BY StateRecords DEF Rec
  <2>2. Set(p, j)
    BY <1>a
  <2> HIDE DEF rec
  <2>3. j \in Job /\ Same(job[p], j) /\ j.next = rec
    BY <1>0, <2>1, JobUpdates DEF Job
  <2> HIDE DEF j
  <2>4. GoesOn(p, l, j)
    BY <1>a, <2>2, <2>3, SetGoesOn
  <2> QED
    BY <2>1, <2>3, <2>4
<1>3. CASE CreateJournal(p)
  <2>1. \E j \in Job : GoesOn(p, "head", j) /\ j.next.state = "PRE_SEND_READY"
    BY <1>3, <1>a DEF CreateJournal, DurableStates
  <2> QED
    BY <1>1, <1>3, <2>1 DEF CreateJournal
<1>4. CASE AppendRecord(p)
  <2>1. GoesOn(p, "head", job[p])
    BY <1>4, GotoGoesOn DEF AppendRecord
  <2> QED
    BY <1>1, <1>4, <2>1 DEF AppendRecord
<1>5. CASE RecordHead(p)
  <2> DEFINE s == Latest(job[p].ns).state
  <2>0. pc[p] = "head" /\ UNCHANGED journal /\ AfterRecord(p, s)
    BY <1>5 DEF RecordHead, WriteHead
  <2>1. CASE s = "CREATED"
    <3>1. Goto(p, "append") /\ UNCHANGED job
      BY <2>0, <2>1 DEF AfterRecord
    <3>2. GoesOn(p, "append", job[p])
      BY <3>1, GotoGoesOn
    <3> QED
      BY <1>0, <1>1, <2>0, <2>1, <3>2 DEF HeadMoves
  <2>2. CASE s = "PRE_SEND_READY"
    <3>1. Set(p, [job[p] EXCEPT !.next = Rec("MUTATION_INTENT_RECORDED", 1, NoAction)]) /\ Goto(p, "append")
      BY <2>0, <2>2 DEF AfterRecord
    <3>2. \E j \in Job : GoesOn(p, "append", j) /\ j.next.state = "MUTATION_INTENT_RECORDED"
      BY <1>a, <3>1 DEF DurableStates
    <3> QED
      BY <1>1, <2>0, <2>2, <3>2 DEF HeadMoves
  <2>3. CASE s = "MUTATION_INTENT_RECORDED"
    <3>1. Goto(p, IF job[p].action = NoAction THEN "observe" ELSE "select") /\ UNCHANGED job
      BY <2>0, <2>3 DEF AfterRecord
    <3>2. CASE job[p].action = NoAction
      <4>1. GoesOn(p, "observe", job[p])
        BY <3>1, <3>2, GotoGoesOn
      <4> QED
        BY <1>0, <1>1, <2>0, <2>3, <4>1 DEF HeadMoves
    <3>3. CASE job[p].action # NoAction
      <4>1. GoesOn(p, "select", job[p])
        BY <3>1, <3>3, GotoGoesOn
      <4> QED
        BY <1>0, <1>1, <2>0, <2>3, <4>1 DEF HeadMoves
    <3> QED
      BY <3>2, <3>3
  <2>4. CASE s = "FINAL_VERIFICATION_PENDING"
    <3>1. Set(p, [job[p] EXCEPT !.next = Rec("COMPLETED", 1, NoAction)]) /\ Goto(p, "append")
      BY <2>0, <2>4 DEF AfterRecord
    <3>2. \E j \in Job : GoesOn(p, "append", j) /\ j.next.state = "COMPLETED"
      BY <1>a, <3>1 DEF DurableStates
    <3> QED
      BY <1>1, <2>0, <2>4, <3>2 DEF HeadMoves
  <2>5. CASE s = "COMPLETED"
    <3>1. Goto(p, "release") /\ UNCHANGED job
      BY <2>0, <2>5 DEF AfterRecord
    <3>2. GoesOn(p, "release", job[p])
      BY <3>1, GotoGoesOn
    <3> QED
      BY <1>0, <1>1, <2>0, <2>5, <3>2 DEF HeadMoves
  <2>6. CASE s \notin {"CREATED", "PRE_SEND_READY", "MUTATION_INTENT_RECORDED",
                       "FINAL_VERIFICATION_PENDING", "COMPLETED"}
    <3>1. EndProcess(p)
      BY <2>0, <2>6 DEF AfterRecord
    <3> QED
      BY <1>1, <2>0, <3>1
  <2> QED
    BY <2>1, <2>2, <2>3, <2>4, <2>5, <2>6
<1> QED
  BY <1>2, <1>3, <1>4, <1>5 DEF JournalStep

LEMMA PersistMoves ==
  ASSUME TypeInv, NEW p \in Procs, PersistKey(p) \/ PersistFails(p)
  PROVE  /\ UNCHANGED <<journal, account, keys, inflight, drawn>> /\ pc[p] = "persist"
         /\ \/ EndProcess(p) /\ UNCHANGED custody
            \/ /\ custody[job[p].profile] = NoKey
               /\ custody' = [custody EXCEPT ![job[p].profile] = job[p].op]
               /\ Succeed(p)
BY PersistShape DEF PersistKey, PersistFails, appliance

-----------------------------------------------------------------------------
(* Where a command is in its journal.                                      *)

RecordLabels == {"head", "append"} \cup EngineLabels \cup RecoveryLabels

\* A command past its first record has its journal; while it works on the
\* appliance the latest record is its intent, and the record that closes the
\* journal follows that intent.
Begun(l, j) ==
  /\ l \in RecordLabels => j.ns \in DOMAIN journal /\ journal[j.ns].op = j.op
  /\ l \in EngineLabels \cup RecoveryLabels => Latest(j.ns).state = "MUTATION_INTENT_RECORDED"
  /\ l \in {"append", "head"} =>
       j.next.state \in {"PRE_SEND_READY", "MUTATION_INTENT_RECORDED", "MUTATION_RESULT_UNKNOWN",
                         "FINAL_VERIFICATION_PENDING", "COMPLETED"}
  /\ l = "append" /\ j.next.state \in {"MUTATION_RESULT_UNKNOWN", "FINAL_VERIFICATION_PENDING"} =>
       Latest(j.ns).state = "MUTATION_INTENT_RECORDED"
  /\ l = "head" =>
       \/ Latest(j.ns).state = j.next.state
       \/ Latest(j.ns).state = "CREATED" /\ j.next.state = "PRE_SEND_READY"

RecordInv == \A p \in Procs : Begun(pc[p], job[p])

LEMMA BegunKept ==
  ASSUME NEW l, NEW j, Begun(l, j), UNCHANGED journal
  PROVE  Begun(l, j)'
BY DEF Begun, Latest

LEMMA BegunElsewhere ==
  ASSUME NEW l, NEW j, Begun(l, j), DOMAIN journal \subseteq DOMAIN journal',
         l \in RecordLabels /\ j.ns \in DOMAIN journal => journal'[j.ns] = journal[j.ns]
  PROVE  Begun(l, j)'
BY DEF Begun, Latest, RecordLabels

\* a label that says nothing about the journal
LEMMA BegunNothing ==
  ASSUME NEW l, NEW j, l \notin RecordLabels
  PROVE  Begun(l, j)'
BY DEF Begun, RecordLabels

LEMMA FlowOut ==
  /\ \A l1, l2 : <<l1, l2>> \in LockFlow => l2 \notin RecordLabels /\ l1 \notin RecordLabels
  /\ {"idle", "acquire", "classify", "release", "create", "inspect"} \cap RecordLabels = {}
BY DEF LockFlow, RecordLabels, EngineLabels, BootstrapLabels, RecoveryLabels

\* the process that moves keeps up with its journal
LEMMA RecordMover ==
  ASSUME TypeInv, RecordInv, NEW p \in Procs, CommandStep(p) \/ Crash(p)
  PROVE  Begun(pc[p], job[p])'
<1>0. /\ job[p] \in Job /\ JobOK(p) /\ pc \in [Procs -> Labels] /\ job \in [Procs -> Job]
      /\ Begun(pc[p], job[p])
  BY DEF TypeInv, ProcessType, RecordInv
<1>1. ASSUME EndProcess(p) PROVE Begun(pc[p], job[p])'
  <2>1. pc'[p] = "idle"
    BY <1>0, <1>1 DEF EndProcess
  <2> QED
    BY <2>1, FlowOut DEF Begun, RecordLabels, EngineLabels, BootstrapLabels, RecoveryLabels
<1>2. ASSUME NEW l, NEW j, GoesOn(p, l, j), Begun(l, j)' PROVE Begun(pc[p], job[p])'
  <2>1. pc'[p] = l /\ job'[p] = j
    BY <1>0, <1>2 DEF GoesOn
  <2> QED
    BY <1>2, <2>1 DEF Begun, Latest
<1>3. CASE LockStep(p) \/ ClassifyLoad(p) \/ ClassifyInspect(p) \/ CheckReadOnly(p) \/ Crash(p)
  <2>1. CASE EndProcess(p)
    BY <1>1, <2>1
  <2>2. CASE ~EndProcess(p)
    <3>1. PICK l \in Labels \ {"idle"}, j \in Job : GoesOn(p, l, j) /\ <<pc[p], l>> \in LockFlow
      BY <1>3, <2>2, LockMoves
    <3>2. Begun(l, j)'
      BY <3>1, FlowOut, BegunNothing
    <3> QED
      BY <1>2, <3>1, <3>2
  <2> QED
    BY <2>1, <2>2
<1>4. ASSUME Fail(p) \/ Succeed(p), UNCHANGED journal, pc[p] \in EngineLabels \cup RecoveryLabels
      PROVE  Begun(pc[p], job[p])'
  <2>1. PICK j \in Job : /\ GoesOn(p, "append", j)
                         /\ j.next.state \in {"MUTATION_RESULT_UNKNOWN", "FINAL_VERIFICATION_PENDING"}
    BY <1>4, FailGoesOn
  <2>2. j.ns = job[p].ns /\ j.op = job[p].op
    BY <2>1 DEF GoesOn, Same
  <2>3. /\ j.ns \in DOMAIN journal /\ journal[j.ns].op = j.op
        /\ Latest(j.ns).state = "MUTATION_INTENT_RECORDED"
    BY <1>0, <1>4, <2>2 DEF Begun, RecordLabels
  <2>4. Begun("append", j)
    BY <2>1, <2>3 DEF Begun, RecordLabels, EngineLabels, BootstrapLabels, RecoveryLabels
  <2>5. Begun("append", j)'
    BY <1>4, <2>4, BegunKept
  <2> QED
    BY <1>2, <2>1, <2>5
<1>5. ASSUME NEW l, NEW j \in Job, Flows(p, l, j), UNCHANGED journal
      PROVE  Begun(pc[p], job[p])'
  <2>1. /\ pc[p] \in EngineLabels \cup RecoveryLabels /\ l \in EngineLabels \cup RecoveryLabels
        /\ GoesOn(p, l, j)
    BY <1>5, FlowLabels DEF Flows
  <2>2. j.ns = job[p].ns /\ j.op = job[p].op
    BY <2>1 DEF GoesOn, Same
  <2>3. Begun(l, j)
    BY <1>0, <2>1, <2>2 DEF Begun, RecordLabels, EngineLabels, BootstrapLabels, RecoveryLabels
  <2>4. Begun(l, j)'
    BY <1>5, <2>3, BegunKept
  <2> QED
    BY <1>2, <2>1, <2>4
<1>6. CASE ReadingStep(p)
  <2>1. UNCHANGED journal
    BY <1>6, ReadingSteps DEF storage
  <2>2. pc[p] \in EngineLabels \cup RecoveryLabels
    BY <1>6 DEF ReadingStep, Observe, SyncRead, SyncVerify, VerifyCreated, VerifyGranted, VerifyRevoked,
                Verify, Select, VerifyDeleted, EngineLabels, BootstrapLabels, RecoveryLabels
  <2> QED
    BY <1>4, <1>5, <1>6, <2>1, <2>2, ReadingMoves
<1>7. CASE SendingStep(p)
  <2>1. UNCHANGED journal /\ pc[p] \in SendingLabels
    BY <1>7, SendingSteps DEF SendingStep, storage
  <2>2. pc[p] \in EngineLabels \cup RecoveryLabels
    BY <2>1 DEF SendingLabels, EngineLabels, BootstrapLabels, RecoveryLabels
  <2> QED
    BY <1>4, <1>5, <1>7, <2>1, <2>2, SendingMoves
<1>8. CASE PersistKey(p) \/ PersistFails(p)
  <2>1. UNCHANGED journal /\ (EndProcess(p) \/ Succeed(p)) /\ pc[p] \in EngineLabels
    BY <1>8, PersistMoves DEF EngineLabels, BootstrapLabels
  <2> QED
    BY <1>1, <1>4, <2>1
<1>9. CASE JournalStep(p)
  <2>1. CASE EndProcess(p)
    BY <1>1, <2>1
  <2>2. CASE /\ pc[p] = "create" /\ JournalCreate(job[p].ns, job[p].op)
             /\ \E j \in Job : GoesOn(p, "head", j) /\ j.next.state = "PRE_SEND_READY"
    <3>1. PICK j \in Job : GoesOn(p, "head", j) /\ j.next.state = "PRE_SEND_READY"
      BY <2>2
    <3>2. j.ns = job[p].ns /\ j.op = job[p].op /\ j.ns \in Ns /\ j.op \in Id /\ j.op # <<>>
      BY <1>0, <2>2, <3>1 DEF GoesOn, Same, JobOK, Started, Job
    <3>3. /\ DOMAIN journal' = DOMAIN journal \cup {j.ns} /\ journal'[j.ns].op = j.op
          /\ Latest(j.ns)' = Rec("CREATED", 0, NoAction)
      BY <2>2, <3>2, CreateEffect
    <3>4. Begun("head", j)'
      BY <3>1, <3>3 DEF Begun, Rec, RecordLabels, EngineLabels, BootstrapLabels, RecoveryLabels
    <3> QED
      BY <1>2, <3>1, <3>4
  <2>3. CASE pc[p] = "append" /\ GoesOn(p, "head", job[p]) /\ AppendRecord(p)
    <3>1. PICK j \in Job : j = job[p]
      BY <1>0
    <3>2. /\ j.ns \in DOMAIN journal /\ journal[j.ns].op = j.op
          /\ ValidTransition(Latest(j.ns), j.next) /\ j.next \in Record
          /\ journal' = [journal EXCEPT ![j.ns].recs = Append(@, j.next)]
      BY <2>3, <3>1 DEF AppendRecord, CanAppend, Loadable, Exists, JournalAppend, Job
    <3>3. /\ DOMAIN journal' = DOMAIN journal /\ journal'[j.ns].op = journal[j.ns].op
          /\ Latest(j.ns)' = j.next
      BY <3>2, AppendEffect
    <3>4. Begun("head", j)'
      BY <1>0, <2>3, <3>1, <3>2, <3>3 DEF Begun, RecordLabels, EngineLabels, BootstrapLabels, RecoveryLabels
    <3>5. GoesOn(p, "head", j)
      BY <2>3, <3>1
    <3> QED
      BY <1>2, <3>4, <3>5
  <2>4. CASE /\ pc[p] = "head" /\ UNCHANGED journal
             /\ \E l \in Labels \ {"idle"}, j \in Job : GoesOn(p, l, j) /\ HeadMoves(p, l, j)
    <3>1. PICK l \in Labels \ {"idle"}, j \in Job : GoesOn(p, l, j) /\ HeadMoves(p, l, j)
      BY <2>4
    <3>2. j.ns = job[p].ns /\ j.op = job[p].op
      BY <3>1 DEF GoesOn, Same
    <3>3. j.ns \in DOMAIN journal /\ journal[j.ns].op = j.op
      BY <1>0, <2>4, <3>2 DEF Begun, RecordLabels
    <3>4. /\ \/ Latest(j.ns).state = job[p].next.state
             \/ Latest(j.ns).state = "CREATED" /\ job[p].next.state = "PRE_SEND_READY"
          /\ job[p].next.state # "CREATED"
      BY <1>0, <2>4, <3>2 DEF Begun
    <3>5. Begun(l, j)
      BY <3>1, <3>2, <3>3, <3>4 DEF HeadMoves, Begun, RecordLabels, EngineLabels, BootstrapLabels, RecoveryLabels
    <3>6. Begun(l, j)'
      BY <2>4, <3>5, BegunKept
    <3> QED
      BY <1>2, <3>1, <3>6
  <2> QED
    BY <1>9, <2>1, <2>2, <2>3, <2>4, JournalMoves
<1> QED
  BY <1>3, <1>6, <1>7, <1>8, <1>9, CommandSteps

\* a command's step leaves the other processes alone
LEMMA CommandOthers ==
  ASSUME TypeInv, NEW p \in Procs, CommandStep(p) \/ Crash(p), NEW q \in Procs \ {p}
  PROVE  pc'[q] = pc[q] /\ job'[q] = job[q]
<1>1. Shape(p)
  BY CommandSteps, LockShape, JournalShape, EngineOrRecovery, PersistShape
<1>2. pc \in [Procs -> Labels] /\ job \in [Procs -> Job]
  BY DEF TypeInv, ProcessType
<1> QED
  BY <1>1, <1>2 DEF Shape, EndProcess, Set, GoesOn

LEMMA CommandJournal ==
  ASSUME TypeInv, NEW p \in Procs, CommandStep(p) \/ Crash(p)
  PROVE  \/ UNCHANGED journal
         \/ JournalCreate(job[p].ns, job[p].op) /\ pc[p] = "create"
         \/ AppendRecord(p)
<1>1. CASE JournalStep(p)
  BY <1>1, JournalMoves
<1>2. CASE ReadingStep(p) \/ SendingStep(p)
  BY <1>2, EngineOrRecovery DEF storage
<1> QED
  BY <1>1, <1>2, CommandSteps, LockShape, PersistShape

LEMMA RecordNext == TypeInv /\ LockInv /\ RecordInv /\ [Next]_vars => RecordInv'
<1> SUFFICES ASSUME TypeInv, LockInv, RecordInv, [Next]_vars PROVE RecordInv'
  OBVIOUS
<1>0. pc \in [Procs -> Labels] /\ job \in [Procs -> Job]
  BY DEF TypeInv, ProcessType
<1>a. ASSUME NEW q \in Procs, pc'[q] = pc[q], job'[q] = job[q],
             DOMAIN journal \subseteq DOMAIN journal',
             pc[q] \in RecordLabels /\ job[q].ns \in DOMAIN journal => journal'[job[q].ns] = journal[job[q].ns]
      PROVE  Begun(pc[q], job[q])'
  <2>1. PICK l, j : l = pc[q] /\ j = job[q]
    OBVIOUS
  <2>2. Begun(l, j)'
    BY <1>a, <2>1, BegunElsewhere DEF RecordInv
  <2>3. l = pc'[q] /\ j = job'[q]
    BY <1>a, <2>1
  <2> QED
    BY <2>2, <2>3 DEF Begun, Latest
<1>1. ASSUME UNCHANGED <<journal, pc, job>> PROVE RecordInv'
  BY <1>1, <1>a DEF RecordInv
<1>2. CASE UNCHANGED vars
  BY <1>1, <1>2 DEF vars
<1>3. ASSUME NEW p \in Procs, CommandStep(p) \/ Crash(p) PROVE RecordInv'
  <2>1. Begun(pc[p], job[p])'
    BY <1>3, RecordMover
  <2>2. ASSUME NEW q \in Procs \ {p} PROVE Begun(pc[q], job[q])'
    <3>1. pc'[q] = pc[q] /\ job'[q] = job[q]
      BY <1>3, CommandOthers
    <3>2. CASE UNCHANGED journal
      BY <1>a, <3>1, <3>2
    <3>3. CASE JournalCreate(job[p].ns, job[p].op) /\ pc[p] = "create"
      <4>1. job[p].ns \in Ns /\ job[p].op \in Id /\ job[p].op # <<>>
        BY <1>0, <3>3 DEF TypeInv, JobOK, Started, Job
      <4>2. DOMAIN journal \subseteq DOMAIN journal' /\ \A x \in DOMAIN journal : journal'[x] = journal[x]
        BY <3>3, <4>1, CreateEffect
      <4> QED
        BY <1>a, <3>1, <4>2
    <3>4. CASE AppendRecord(p)
      <4>1. PICK ns \in DOMAIN journal, rec \in Record :
                   /\ ns = job[p].ns /\ ValidTransition(Latest(ns), rec)
                   /\ journal' = [journal EXCEPT ![ns].recs = Append(@, rec)]
        BY <1>0, <3>4 DEF AppendRecord, CanAppend, Loadable, Exists, JournalAppend, Job
      <4>2. DOMAIN journal \subseteq DOMAIN journal' /\ \A x \in DOMAIN journal : x # ns => journal'[x] = journal[x]
        BY <4>1, AppendEffect
      <4>3. pc[q] \in RecordLabels => job[q].ns # ns
        <5>1. pc[p] = "append" /\ flock[ns] = p
          BY <3>4, <4>1 DEF AppendRecord, LockInv, HoldsFlock
        <5>2. pc[q] \in RecordLabels => flock[job[q].ns] = q
          BY FlowOut DEF LockInv, HoldsFlock
        <5> QED
          BY <5>1, <5>2
      <4> QED
        BY <1>a, <3>1, <4>2, <4>3
    <3> QED
      BY <1>3, <3>2, <3>3, <3>4, CommandJournal
  <2> QED
    BY <2>1, <2>2 DEF RecordInv
<1>4. ASSUME NEW p \in Procs, NEW f \in Profiles, StartBootstrap(p, f) \/ StartRecovery(p, f) PROVE RecordInv'
  <2>1. UNCHANGED journal /\ pc'[p] \in {"classify", "acquire"} /\ \A q \in Procs \ {p} : pc'[q] = pc[q] /\ job'[q] = job[q]
    BY <1>0, <1>4, StartBootstrapEffect, StartRecoveryEffect DEF storage
  <2>2. Begun(pc[p], job[p])'
    BY <2>1, FlowOut DEF Begun, RecordLabels, EngineLabels, BootstrapLabels, RecoveryLabels
  <2> QED
    BY <1>a, <2>1, <2>2 DEF RecordInv
<1>5. ASSUME NEW p \in Procs, NEW f \in Profiles, InspectIncident(p, f) PROVE RecordInv'
  BY <1>1, <1>5 DEF InspectIncident, storage
<1>6. ASSUME NEW r \in inflight, Land(r) PROVE RecordInv'
  BY <1>1, <1>6 DEF Land, storage
<1>7. ASSUME NEW f \in Profiles, Administer(f) PROVE RecordInv'
  BY <1>1, <1>7 DEF Administer, storage
<1>8. ASSUME NEW ns \in DOMAIN journal, NEW a \in {"REVOKE_ORPHAN_KEY", "DELETE_DEDICATED_USER"},
             RecordRecoveryRequired(ns, a)
      PROVE  RecordInv'
  <2>1. UNCHANGED <<pc, job>> /\ \A q \in Procs : pc[q] = "idle"
    BY <1>8, RecordEffect DEF Quiet
  <2> QED
    BY <2>1, FlowOut DEF RecordInv, Begun, RecordLabels, EngineLabels, BootstrapLabels, RecoveryLabels
<1> QED
  BY <1>2, <1>3, <1>4, <1>5, <1>6, <1>7, <1>8, NextCases

LEMMA RecordInit == Init => RecordInv
BY DEF Init, RecordInv, Begun, RecordLabels, EngineLabels, BootstrapLabels, RecoveryLabels

-----------------------------------------------------------------------------
(* What the journals account for.                                          *)

Boot(p) == pc[p] # "idle" /\ job[p].action = NoAction

OpenFor(f, id) == \E ns \in Incidents(f) : journal[ns].op = id /\ Latest(ns).state \in Open

\* a request that leaves the temporary privilege or a key behind
Marks(r) == "temp" \in r.priv \/ r.kind = "create_key"

\* the engine gave up, and says so in the record it is about to add
Failing(l, j) == l \in {"append", "head"} /\ j.next.state = "MUTATION_RESULT_UNKNOWN"

Granted == {"verify_granted", "create_key", "revoke"}
Keyed == {"revoke", "verify_revoked", "persist"}

\* A bootstrap that has not given up has left nothing of its own behind that
\* it does not know of.
Clean(l, j) ==
  /\ \A r \in inflight : Marks(r) /\ r.profile = j.profile /\ r.id = j.op => Failing(l, j)
  /\ account[j.profile].id = j.op /\ "temp" \in account[j.profile].priv => l \in Granted \/ Failing(l, j)
  /\ j.op \in keys[j.profile] => l \in Keyed \/ Failing(l, j) \/ custody[j.profile] = j.op
  /\ l = "sync" => "temp" \notin j.seen.priv

CleanInv == \A p \in Procs : Boot(p) => Clean(pc[p], job[p])

OneOperation == \A p, q \in Procs : p # q /\ Boot(p) /\ Boot(q) => job[p].op # job[q].op

\* Everything a bootstrap left on the appliance, or may still leave there,
\* names an operation whose journal is open.
TracedInv ==
  /\ \A f \in Profiles : "temp" \in account[f].priv => OpenFor(f, account[f].id)
  /\ \A r \in inflight : Marks(r) => OpenFor(r.profile, r.id)
  /\ \A f \in Profiles : \A k \in keys[f] :
       (custody[f] = k \/ OpenFor(f, k)) /\ \E n \in 1..drawn : k = <<n>>

AccountInv == CleanInv /\ OneOperation /\ TracedInv

LEMMA ApplyEffect ==
  ASSUME TypeInv, NEW r \in RequestType, Apply(r), NEW f \in Profiles
  PROVE  /\ \/ account'[f] = account[f]
            \/ account'[f] = NoAccount
            \/ f = r.profile /\ account'[f].id = r.id /\ account'[f].priv = r.priv
         /\ \A k \in keys'[f] : k \in keys[f] \/ (k = r.id /\ f = r.profile /\ r.kind = "create_key")
         /\ r.kind = "update_priv" /\ f = r.profile /\ account[f].id = r.id => account'[f].priv = r.priv
<1>0. /\ account \in [Profiles -> Account] /\ keys \in [Profiles -> SUBSET Id]
      /\ r.profile \in Profiles /\ r.id \in Id /\ r.priv \in SUBSET Privileges
      /\ r.kind \in {"create_user", "update_priv", "create_key", "delete_key", "delete_user"}
  BY DEF TypeInv, ApplianceType, RequestType
<1>1. CASE r.kind = "create_user"
  BY <1>0, <1>1 DEF Apply
<1>2. CASE r.kind = "update_priv"
  <2>1. /\ account' = [account EXCEPT ![r.profile] = IF @.id = r.id THEN [@ EXCEPT !.priv = r.priv] ELSE @]
        /\ UNCHANGED keys
    BY <1>2 DEF Apply
  <2>2. PICK a \in Account : a = account[r.profile]
    BY <1>0
  <2> DEFINE b == [a EXCEPT !.priv = r.priv]
  <2>3. b.id = a.id /\ b.priv = r.priv
    BY <2>2 DEF Account
  <2>4. account' = [account EXCEPT ![r.profile] = IF a.id = r.id THEN b ELSE a]
    BY <2>1, <2>2
  <2> HIDE DEF b
  <2> QED
    BY <1>0, <1>2, <2>1, <2>2, <2>3, <2>4
<1>3. CASE r.kind = "create_key"
  BY <1>0, <1>3 DEF Apply
<1>4. CASE r.kind = "delete_key"
  BY <1>0, <1>4 DEF Apply
<1>5. CASE r.kind = "delete_user"
  BY <1>0, <1>5 DEF Apply
<1> QED
  BY <1>0, <1>1, <1>2, <1>3, <1>4, <1>5

\* which requests of a command leave something behind
LEMMA RequestMarks ==
  ASSUME TypeInv, NEW p \in Procs, pc[p] \in SendingLabels
  PROVE  /\ RequestOf(p).profile = job[p].profile
         /\ Marks(RequestOf(p)) =>
              \/ pc[p] \in {"grant", "create_key"} /\ RequestOf(p).id = job[p].op
              \/ pc[p] = "sync" /\ "temp" \in job[p].seen.priv
         /\ pc[p] = "revoke" => /\ RequestOf(p).kind = "update_priv" /\ RequestOf(p).id = job[p].op
                                /\ RequestOf(p).priv = {"expected"}
         /\ RequestOf(p).kind = "create_key" => pc[p] = "create_key"
BY DEF SendingLabels, RequestOf, Request, Marks

\* a bootstrap at work has its journal, and it is open
LEMMA WorkIsOpen ==
  ASSUME TypeInv, RecordInv, NEW p \in Procs, Boot(p), pc[p] \in EngineLabels
  PROVE  OpenFor(job[p].profile, job[p].op)
<1>1. /\ job[p].ns \in DOMAIN journal /\ journal[job[p].ns].op = job[p].op
      /\ Latest(job[p].ns).state = "MUTATION_INTENT_RECORDED"
  BY DEF RecordInv, Begun, RecordLabels
<1>2. job[p].ns[1] = job[p].profile /\ job[p].ns[2] = "bootstrap"
  BY DEF TypeInv, JobOK, Started, Boot
<1> QED
  BY <1>1, <1>2 DEF OpenFor, Incidents, Open

LEMMA OpenIsDrawn ==
  ASSUME TypeInv, ChainInv, NEW f, NEW id, OpenFor(f, id)
  PROVE  \E n \in 1..drawn : id = <<n>>
BY DEF OpenFor, Incidents, ChainInv

\* An open journal is closed only by the bootstrap it belongs to, with the
\* record that its engine succeeded.
LEMMA OpenForLasts ==
  ASSUME TypeInv, RecordInv, [Next]_vars, NEW f, NEW id, OpenFor(f, id)
  PROVE  \/ OpenFor(f, id)'
         \/ \E p \in Procs : /\ AppendRecord(p) /\ Boot(p) /\ job[p].profile = f /\ job[p].op = id
                             /\ pc[p] = "append" /\ job[p].next.state = "FINAL_VERIFICATION_PENDING"
<1>1. PICK ns \in Incidents(f) : journal[ns].op = id /\ Latest(ns).state \in Open
  BY DEF OpenFor
<1>2. ns \in DOMAIN journal /\ ns[1] = f /\ ns[2] = "bootstrap"
  BY <1>1 DEF Incidents
<1>3. ns \in DOMAIN journal' /\ journal'[ns].op = id
  BY <1>1, <1>2, JournalMonotone
<1>4. ASSUME Latest(ns)'.state \in Open PROVE OpenFor(f, id)'
  BY <1>2, <1>3, <1>4 DEF OpenFor, Incidents, Latest
<1>5. CASE journal'[ns] = journal[ns]
  <2>1. Latest(ns)' = Latest(ns)
    BY <1>5 DEF Latest
  <2> QED
    BY <1>1, <1>4, <2>1
<1>6. CASE journal'[ns] # journal[ns]
  <2>0. journal' # journal /\ ~UNCHANGED vars
    BY <1>6 DEF vars
  <2>1. CASE \E p \in Procs : CommandStep(p) \/ Crash(p)
    <3>1. PICK p \in Procs : CommandStep(p) \/ Crash(p)
      BY <2>1
    <3>2. job[p] \in Job /\ JobOK(p)
      BY DEF TypeInv, ProcessType
    <3>3. ~(JournalCreate(job[p].ns, job[p].op) /\ pc[p] = "create")
      <4> SUFFICES ASSUME JournalCreate(job[p].ns, job[p].op), pc[p] = "create" PROVE FALSE
        OBVIOUS
      <4>1. job[p].ns \in Ns /\ job[p].op \in Id /\ job[p].op # <<>>
        BY <3>2 DEF JobOK, Started, Job
      <4> QED
        BY <1>2, <1>6, <4>1, CreateEffect
    <3>4. AppendRecord(p)
      BY <2>0, <3>1, <3>3, CommandJournal
    <3>5. PICK n \in DOMAIN journal, rec \in Record :
                 /\ n = job[p].ns /\ ValidTransition(Latest(n), rec) /\ rec = job[p].next
                 /\ journal' = [journal EXCEPT ![n].recs = Append(@, rec)]
      BY <3>2, <3>4 DEF AppendRecord, CanAppend, Loadable, Exists, JournalAppend, Job
    <3>6. n = ns /\ Latest(n)' = rec
      BY <1>2, <1>6, <3>5, AppendEffect
    <3>7. pc[p] = "append" /\ job[p].profile = f /\ job[p].action = NoAction
      BY <1>2, <3>2, <3>4, <3>5, <3>6 DEF AppendRecord, JobOK, Started
    <3>8. job[p].op = id
      BY <1>1, <3>4, <3>5, <3>6 DEF AppendRecord, CanAppend
    <3>9. rec.state \in {"PRE_SEND_READY", "MUTATION_INTENT_RECORDED", "MUTATION_RESULT_UNKNOWN",
                         "FINAL_VERIFICATION_PENDING", "COMPLETED"}
      BY <3>5, <3>7 DEF RecordInv, Begun
    <3>10. rec.state \in Allowed[Latest(n).state] /\ Latest(n).state \in Open
      BY <1>1, <3>5, <3>6 DEF ValidTransition
    <3>11. rec.state \in {"MUTATION_RESULT_UNKNOWN", "FINAL_VERIFICATION_PENDING"}
      BY <3>9, <3>10 DEF Allowed, Open, DurableStates
    <3>12. CASE rec.state = "MUTATION_RESULT_UNKNOWN"
      BY <1>4, <3>6, <3>12 DEF Open
    <3> QED
      BY <3>4, <3>5, <3>7, <3>8, <3>11, <3>12 DEF Boot
  <2>2. CASE \E m \in DOMAIN journal, a \in {"REVOKE_ORPHAN_KEY", "DELETE_DEDICATED_USER"} :
               RecordRecoveryRequired(m, a)
    <3>1. PICK m \in DOMAIN journal, a \in {"REVOKE_ORPHAN_KEY", "DELETE_DEDICATED_USER"} :
                 RecordRecoveryRequired(m, a)
      BY <2>2
    <3>2. PICK rec \in Record :
               /\ rec = Rec("RECOVERY_REQUIRED", 1, a)
               /\ ValidTransition(Latest(m), rec)
               /\ journal' = [journal EXCEPT ![m].recs = Append(@, rec)]
      BY <3>1, RecordEffect
    <3>3. m = ns /\ Latest(m)' = rec
      BY <1>2, <1>6, <3>2, AppendEffect
    <3>4. rec.state = "RECOVERY_REQUIRED"
      BY <3>2 DEF Rec
    <3> QED
      BY <1>4, <3>3, <3>4 DEF Open
  <2> QED
    BY <2>0, <2>1, <2>2, NextCases, StartBootstrapEffect, StartRecoveryEffect
       DEF InspectIncident, Land, Administer, storage
<1> QED
  BY <1>5, <1>6

LEMMA FailingIsClean ==
  ASSUME NEW l, NEW j, Failing(l, j)
  PROVE  Clean(l, j)'
BY DEF Failing, Clean

\* A step that applies or loses a request keeps a bootstrap clean, be it the
\* bootstrap's own step or another's.
LEMMA CleanStep ==
  ASSUME TypeInv, NEW l, NEW j \in Job, NEW m, NEW k \in Job, Same(j, k), Clean(l, j),
         j.op # <<>>, j.profile \in Profiles, NEW r \in RequestType,
         Apply(r) \/ UNCHANGED <<account, keys>>,
         inflight' \subseteq inflight \cup {r},
         custody'[j.profile] = custody[j.profile] \/ custody[j.profile] = NoKey,
         Marks(r) /\ r.profile = j.profile /\ r.id = j.op => Failing(m, k),
         Failing(l, j) => Failing(m, k),
         l \in Granted => m \in Granted \/ Failing(m, k),
         l \in Keyed => m \in Keyed \/ Failing(m, k),
         m = "sync" => "temp" \notin k.seen.priv
  PROVE  Clean(m, k)'
<1>1. CASE Failing(m, k)
  BY <1>1, FailingIsClean
<1>2. CASE ~Failing(m, k)
  <2>1. PICK f \in Profiles, op \in Id : f = j.profile /\ f = k.profile /\ op = j.op /\ op = k.op
    BY DEF Same, Job
  <2>2. \A x \in inflight' : ~(Marks(x) /\ x.profile = f /\ x.id = op)
    BY <1>2, <2>1 DEF Clean
  <2>3. account'[f].id = op /\ "temp" \in account'[f].priv => m \in Granted
    <3>1. \/ account'[f] = account[f] \/ account'[f] = NoAccount
          \/ f = r.profile /\ account'[f].id = r.id /\ account'[f].priv = r.priv
      BY ApplyEffect
    <3>2. CASE account'[f] = account[f]
      BY <1>2, <2>1, <3>2 DEF Clean
    <3>3. CASE account'[f] = NoAccount
      BY <3>3 DEF NoAccount
    <3>4. CASE f = r.profile /\ account'[f].id = r.id /\ account'[f].priv = r.priv
      BY <1>2, <2>1, <3>4 DEF Marks
    <3> QED
      BY <3>1, <3>2, <3>3, <3>4
  <2>4. op \in keys'[f] => m \in Keyed \/ custody'[f] = op
    <3>1. op \in keys'[f] => op \in keys[f]
      BY <1>2, <2>1, ApplyEffect DEF Marks
    <3>2. op \in keys[f] => l \in Keyed \/ custody[f] = op
      BY <1>2, <2>1 DEF Clean
    <3>3. custody[f] = op => custody'[f] = op
      BY <2>1 DEF NoKey
    <3> QED
      BY <1>2, <3>1, <3>2, <3>3
  <2> QED
    BY <1>2, <2>1, <2>2, <2>3, <2>4 DEF Clean, Marks
<1> QED
  BY <1>1, <1>2

LEMMA CleanKept ==
  ASSUME TypeInv, NEW l, NEW j \in Job, NEW m, NEW k \in Job, Same(j, k), Clean(l, j),
         j.op # <<>>, j.profile \in Profiles,
         UNCHANGED <<account, keys, inflight>>,
         custody'[j.profile] = custody[j.profile] \/ custody[j.profile] = NoKey,
         Failing(l, j) => Failing(m, k),
         l \in Granted => m \in Granted \/ Failing(m, k),
         l \in Keyed => m \in Keyed \/ Failing(m, k),
         m = "sync" => "temp" \notin k.seen.priv
  PROVE  Clean(m, k)'
<1>1. PICK f \in Profiles : f = j.profile
  OBVIOUS
<1> DEFINE r == Request("delete_key", f, <<>>, {})
<1>2. r \in RequestType /\ ~Marks(r)
  BY <1>1, NatIds DEF Request, RequestType, Marks
<1> HIDE DEF r
<1>3. inflight' \subseteq inflight \cup {r} /\ (Apply(r) \/ UNCHANGED <<account, keys>>)
  OBVIOUS
<1> QED
  BY <1>2, <1>3, CleanStep

\* the bootstrap that moves stays clean
LEMMA CleanMover ==
  ASSUME TypeInv, RecordInv, CleanInv, NEW p \in Procs, CommandStep(p) \/ Crash(p), Boot(p), pc'[p] # "idle"
  PROVE  Clean(pc[p], job[p])'
<1> USE DEF Granted, Keyed, Failing
<1>0. /\ job[p] \in Job /\ JobOK(p) /\ pc \in [Procs -> Labels] /\ job \in [Procs -> Job]
      /\ custody \in [Profiles -> Id] /\ keys \in [Profiles -> SUBSET Id]
      /\ account \in [Profiles -> Account]
  BY DEF TypeInv, ProcessType, ApplianceType
<1>1. PICK l \in Labels, j \in Job : l = pc[p] /\ j = job[p]
  BY <1>0
<1>2. /\ Clean(l, j) /\ j.op # <<>> /\ j.profile \in Profiles /\ Same(j, j) /\ Begun(l, j)
  BY <1>0, <1>1 DEF CleanInv, Boot, JobOK, Started, Same, RecordInv
<1>3. ~EndProcess(p)
  BY <1>0 DEF EndProcess
<1>4. ASSUME NEW m, NEW k, GoesOn(p, m, k), Clean(m, k)' PROVE Clean(pc[p], job[p])'
  <2>1. pc'[p] = m /\ job'[p] = k
    BY <1>0, <1>4 DEF GoesOn
  <2> QED
    BY <1>4, <2>1 DEF Clean
<1>5. CASE LockStep(p) \/ ClassifyLoad(p) \/ ClassifyInspect(p) \/ CheckReadOnly(p) \/ Crash(p)
  <2>1. PICK m \in Labels \ {"idle"}, k \in Job : GoesOn(p, m, k) /\ <<pc[p], m>> \in LockFlow
    BY <1>3, <1>5, LockMoves
  <2>2. UNCHANGED <<account, keys, inflight, custody>>
    BY <1>5, LockMoves DEF Settled
  <2>3. Same(j, k)
    BY <1>1, <2>1 DEF GoesOn
  <2>4. l \notin {"append", "head"} \cup Granted \cup Keyed /\ m # "sync"
    BY <1>1, <2>1 DEF LockFlow
  <2>5. Clean(m, k)'
    BY <1>2, <2>2, <2>3, <2>4, CleanKept
  <2> QED
    BY <1>4, <2>1, <2>5
<1>6. ASSUME Fail(p) PROVE Clean(pc[p], job[p])'
  <2>1. PICK k \in Job : GoesOn(p, "append", k) /\ k.next.state = "MUTATION_RESULT_UNKNOWN"
    BY <1>6, FailGoesOn
  <2>2. Clean("append", k)'
    BY <2>1, FailingIsClean
  <2> QED
    BY <1>4, <2>1, <2>2
<1>7. CASE ReadingStep(p)
  <2>1. UNCHANGED <<account, keys, inflight, custody>>
    BY <1>7, ReadingSteps DEF appliance
  <2>2. CASE Succeed(p) /\ pc[p] \in {"observe", "sync_verify", "select", "verify_deleted"}
    <3>1. PICK k \in Job : GoesOn(p, "append", k)
      BY <2>2, FailGoesOn
    <3>2. Same(j, k)
      BY <1>1, <3>1 DEF GoesOn
    <3>3. Clean("append", k)'
      BY <1>1, <1>2, <2>1, <2>2, <3>2, CleanKept
    <3> QED
      BY <1>4, <3>1, <3>3
  <2>3. CASE \E m \in Labels \ {"idle"}, k \in Job :
              /\ Flows(p, m, k)
              /\ m = "sync" => k.seen = account[job[p].profile] /\ "temp" \notin k.seen.priv
    <3>1. PICK m \in Labels \ {"idle"}, k \in Job :
              /\ Flows(p, m, k)
              /\ m = "sync" => k.seen = account[job[p].profile] /\ "temp" \notin k.seen.priv
      BY <2>3
    <3>2. Same(j, k) /\ GoesOn(p, m, k) /\ <<l, m>> \in EngineFlow
      BY <1>1, <3>1 DEF Flows, GoesOn
    <3>3. l \in {"observe", "sync_read", "sync_verify", "verify_created", "verify_granted", "verify_revoked",
                 "select", "verify_deleted"}
      BY <1>1, <1>7 DEF ReadingStep, Observe, SyncRead, SyncVerify, VerifyCreated, VerifyGranted,
                        VerifyRevoked, Verify, Select, VerifyDeleted
    <3>4. (l \in Granted => m \in Granted) /\ (l \in Keyed => m \in Keyed) /\ l \notin {"append", "head"}
      BY <3>2, <3>3 DEF EngineFlow
    <3>5. Clean(m, k)'
      BY <1>2, <2>1, <3>1, <3>2, <3>4, CleanKept
    <3> QED
      BY <1>4, <3>2, <3>5
  <2> QED
    BY <1>6, <1>7, <2>2, <2>3, ReadingMoves
<1>8. CASE JournalStep(p)
  <2>0. UNCHANGED <<account, keys, inflight, custody>>
    BY <1>8, JournalMoves
  <2>1. CASE pc[p] = "create" /\ \E k \in Job : GoesOn(p, "head", k) /\ k.next.state = "PRE_SEND_READY"
    <3>1. PICK k \in Job : GoesOn(p, "head", k)
      BY <2>1
    <3>2. Same(j, k)
      BY <1>1, <3>1 DEF GoesOn
    <3>3. Clean("head", k)'
      BY <1>1, <1>2, <2>0, <2>1, <3>2, CleanKept
    <3> QED
      BY <1>4, <3>1, <3>3
  <2>2. CASE pc[p] = "append" /\ GoesOn(p, "head", job[p])
    <3>1. Clean("head", j)'
      BY <1>1, <1>2, <2>0, <2>2, CleanKept
    <3> QED
      BY <1>1, <1>4, <2>2, <3>1
  <2>3. CASE /\ pc[p] = "head"
             /\ \E m \in Labels \ {"idle"}, k \in Job : GoesOn(p, m, k) /\ HeadMoves(p, m, k)
    <3>1. PICK m \in Labels \ {"idle"}, k \in Job : GoesOn(p, m, k) /\ HeadMoves(p, m, k)
      BY <2>3
    <3>2. Same(j, k)
      BY <1>1, <3>1 DEF GoesOn
    <3>3. l = "head" /\ j.next.state # "MUTATION_RESULT_UNKNOWN" /\ m # "sync"
      BY <1>1, <1>2, <2>3, <3>1 DEF Begun, HeadMoves
    <3>4. Clean(m, k)'
      BY <1>2, <2>0, <3>2, <3>3, CleanKept
    <3> QED
      BY <1>4, <3>1, <3>4
  <2> QED
    BY <1>3, <1>8, <2>1, <2>2, <2>3, JournalMoves
<1>9. CASE PersistKey(p) \/ PersistFails(p)
  <2>1. /\ UNCHANGED <<account, keys, inflight>> /\ l = "persist" /\ Succeed(p)
        /\ custody' = [custody EXCEPT ![j.profile] = j.op]
    BY <1>1, <1>3, <1>9, PersistMoves
  <2>2. PICK k \in Job : GoesOn(p, "append", k)
    BY <2>1, FailGoesOn
  <2>3. k.profile = j.profile /\ k.op = j.op
    BY <1>1, <2>2 DEF GoesOn, Same
  <2>4. custody'[j.profile] = j.op
    BY <1>0, <1>2, <2>1
  <2>5. Clean("append", k)'
    BY <1>2, <2>1, <2>3, <2>4 DEF Clean, Marks
  <2> QED
    BY <1>4, <2>2, <2>5
<1>10. CASE SendingStep(p)
  <2>0. UNCHANGED custody /\ l \in SendingLabels /\ RequestOf(p) \in RequestType
    BY <1>1, <1>10, SendingSteps, RequestOfType DEF SendingStep
  <2>1. CASE Fail(p)
    BY <1>6, <2>1
  <2>2. CASE ~Fail(p)
    <3>1. /\ Accepts(RequestOf(p)) /\ Apply(RequestOf(p)) /\ UNCHANGED inflight
          /\ \E m \in Labels \ {"idle"}, k \in Job : Flows(p, m, k)
      BY <1>10, <2>2, SendingMoves
    <3>2. PICK m \in Labels \ {"idle"}, k \in Job : Flows(p, m, k)
      BY <3>1
    <3>3. Same(j, k) /\ GoesOn(p, m, k) /\ <<l, m>> \in EngineFlow
      BY <1>1, <3>2 DEF Flows, GoesOn
    <3>4. PICK r \in RequestType : r = RequestOf(p)
      BY <2>0
    <3>5. PICK f \in Profiles, op \in Id : f = j.profile /\ f = k.profile /\ op = j.op /\ op = k.op
      BY <1>2, <3>3 DEF Same, Job
    <3>6. r.profile = f /\ (Marks(r) => l \in {"grant", "create_key"})
      BY <1>1, <1>2, <2>0, <3>4, <3>5, RequestMarks DEF Clean
    <3>7. \A x \in inflight' : ~(Marks(x) /\ x.profile = f /\ x.id = op)
      BY <1>2, <2>0, <3>1, <3>5 DEF Clean, SendingLabels
    <3>8. CASE l \in {"create_user", "sync", "delete"}
      <4>1. m \in {"verify_created", "sync_verify", "verify_deleted"}
        BY <3>3, <3>8 DEF EngineFlow
      <4>2. Clean(m, k)'
        BY <1>2, <2>0, <3>1, <3>3, <3>4, <3>6, <3>8, <4>1, CleanStep
      <4> QED
        BY <1>4, <3>3, <4>2
    <3>9. CASE l = "grant"
      <4>1. m = "verify_granted"
        BY <3>3, <3>9 DEF EngineFlow
      <4>2. op \in keys'[f] => custody'[f] = op
        <5>1. op \in keys'[f] => op \in keys[f]
          BY <1>1, <2>0, <3>1, <3>4, <3>5, <3>9, ApplyEffect, RequestMarks
        <5> QED
          BY <1>2, <2>0, <3>5, <3>9, <5>1 DEF Clean
      <4>3. Clean(m, k)'
        BY <3>5, <3>7, <4>1, <4>2 DEF Clean, Marks
      <4> QED
        BY <1>4, <3>3, <4>3
    <3>10. CASE l = "create_key"
      <4>1. m = "revoke"
        BY <3>3, <3>10 DEF EngineFlow
      <4>2. Clean(m, k)'
        BY <3>5, <3>7, <4>1 DEF Clean, Marks
      <4> QED
        BY <1>4, <3>3, <4>2
    <3>11. CASE l = "revoke"
      <4>1. m = "verify_revoked"
        BY <3>3, <3>11 DEF EngineFlow
      <4>2. r.kind = "update_priv" /\ r.id = op /\ r.priv = {"expected"}
        BY <1>1, <2>0, <3>4, <3>5, <3>11, RequestMarks
      <4>3. account[f].id = r.id
        BY <3>1, <3>4, <3>6, <4>2 DEF Accepts
      <4>4. account'[f].priv = {"expected"}
        BY <3>1, <3>4, <3>6, <4>2, <4>3, ApplyEffect
      <4>5. Clean(m, k)'
        BY <3>5, <3>7, <4>1, <4>4 DEF Clean, Marks
      <4> QED
        BY <1>4, <3>3, <4>5
    <3> QED
      BY <2>0, <3>8, <3>9, <3>10, <3>11 DEF SendingLabels
  <2> QED
    BY <2>1, <2>2
<1> QED
  BY <1>5, <1>7, <1>8, <1>9, <1>10, CommandSteps

LEMMA CommandShape ==
  ASSUME TypeInv, NEW p \in Procs, CommandStep(p) \/ Crash(p)
  PROVE  Shape(p) /\ pc[p] # "idle" /\ UNCHANGED <<issued, drawn>>
<1>1. CASE PersistKey(p) \/ PersistFails(p)
  BY <1>1, PersistShape
<1> QED
  BY <1>1, CommandSteps, LockShape, JournalShape, EngineOrRecovery

\* what a command's step does to the appliance and the custody file
LEMMA CommandEffect ==
  ASSUME TypeInv, NEW p \in Procs, CommandStep(p) \/ Crash(p)
  PROVE  /\ \/ UNCHANGED <<account, keys, inflight>>
            \/ /\ SendingStep(p) /\ pc[p] \in SendingLabels /\ RequestOf(p) \in RequestType
               /\ Apply(RequestOf(p)) \/ UNCHANGED <<account, keys>>
               /\ inflight' \subseteq inflight \cup {RequestOf(p)}
               /\ UNCHANGED <<journal, custody>>
         /\ \A f \in Profiles : custody'[f] = custody[f] \/ custody[f] = NoKey
<1>1. CASE SendingStep(p)
  <2>1. pc[p] \in SendingLabels /\ UNCHANGED <<journal, custody>> /\ RequestOf(p) \in RequestType
    BY <1>1, SendingSteps, RequestOfType DEF SendingStep, storage
  <2>2. /\ Apply(RequestOf(p)) \/ UNCHANGED <<account, keys>>
        /\ inflight' \subseteq inflight \cup {RequestOf(p)}
    BY <1>1, SendingMoves
  <2> QED
    BY <1>1, <2>1, <2>2
<1>2. CASE ReadingStep(p)
  BY <1>2, ReadingSteps DEF appliance
<1>3. CASE PersistKey(p) \/ PersistFails(p)
  <2>1. custody \in [Profiles -> Id]
    BY DEF TypeInv, ProcessType
  <2> QED
    BY <1>3, <2>1, PersistMoves
<1>4. CASE JournalStep(p)
  BY <1>4, JournalMoves
<1>5. CASE LockStep(p) \/ ClassifyLoad(p) \/ ClassifyInspect(p) \/ CheckReadOnly(p) \/ Crash(p)
  BY <1>5, LockMoves DEF Settled
<1> QED
  BY <1>1, <1>2, <1>3, <1>4, <1>5, CommandSteps

\* a marking request of one bootstrap is not another's
LEMMA MarksItsOwn ==
  ASSUME TypeInv, CleanInv, OneOperation, NEW p \in Procs, pc[p] \in SendingLabels, Marks(RequestOf(p))
  PROVE  /\ Boot(p) /\ pc[p] \in {"grant", "create_key"} /\ RequestOf(p).id = job[p].op
         /\ \A q \in Procs \ {p} : Boot(q) => RequestOf(p).id # job[q].op
<1>1. \/ pc[p] \in {"grant", "create_key"} /\ RequestOf(p).id = job[p].op
      \/ pc[p] = "sync" /\ "temp" \in job[p].seen.priv
  BY RequestMarks
<1>2. Boot(p)
  BY <1>1 DEF Boot, TypeInv, JobOK, BootstrapLabels
<1>3. pc[p] \in {"grant", "create_key"} /\ RequestOf(p).id = job[p].op
  BY <1>1, <1>2 DEF CleanInv, Clean
<1> QED
  BY <1>2, <1>3 DEF OneOperation

LEMMA CleanNext ==
  ASSUME TypeInv, ChainInv, RecordInv, AccountInv, [Next]_vars
  PROVE  CleanInv'
<1>0. /\ pc \in [Procs -> Labels] /\ job \in [Procs -> Job]
      /\ CleanInv /\ OneOperation /\ TracedInv /\ \A p \in Procs : JobOK(p)
      /\ inflight \subseteq RequestType
  BY DEF TypeInv, ProcessType, AccountInv, ApplianceType
<1> SUFFICES ASSUME NEW q \in Procs, Boot(q)' PROVE Clean(pc[q], job[q])'
  BY DEF CleanInv
<1>b. pc'[q] # "idle" /\ job'[q].action = NoAction
  BY DEF Boot
<1>1. ASSUME UNCHANGED <<pc, job, custody, account, keys, inflight>> PROVE Clean(pc[q], job[q])'
  <2>1. Clean(pc[q], job[q])
    BY <1>0, <1>1, <1>b DEF CleanInv, Boot
  <2> QED
    BY <1>1, <2>1 DEF Clean, Failing, Marks, Granted, Keyed
<1>2. ASSUME pc'[q] = pc[q], job'[q] = job[q]
      PROVE  /\ Boot(q) /\ Clean(pc[q], job[q]) /\ job[q].op # <<>> /\ job[q].profile \in Profiles
             /\ Same(job[q], job[q]) /\ (pc[q] = "sync" => "temp" \notin job[q].seen.priv)
             /\ \A l, j : (l = pc[q] /\ j = job[q] /\ Clean(l, j)') => Clean(pc[q], job[q])'
  <2>1. Boot(q) /\ Clean(pc[q], job[q])
    BY <1>0, <1>2, <1>b DEF CleanInv, Boot
  <2>2. job[q].op # <<>> /\ job[q].profile \in Profiles
    BY <1>0, <2>1 DEF Boot, JobOK, Started
  <2>3. pc[q] = "sync" => "temp" \notin job[q].seen.priv
    BY <2>1 DEF Clean
  <2>4. \A l, j : (l = pc[q] /\ j = job[q] /\ Clean(l, j)') => Clean(pc[q], job[q])'
    BY <1>2 DEF Clean
  <2> QED
    BY <2>1, <2>2, <2>3, <2>4 DEF Same
<1>3. ASSUME NEW p \in Procs, CommandStep(p) \/ Crash(p) PROVE Clean(pc[q], job[q])'
  <2>1. Shape(p) /\ pc[p] # "idle"
    BY <1>3, CommandShape
  <2>2. CASE q = p
    <3>1. Boot(p)
      BY <1>0, <1>b, <2>1, <2>2 DEF Shape, EndProcess, GoesOn, Same, Boot
    <3> QED
      BY <1>0, <1>3, <1>b, <2>2, <3>1, CleanMover
  <2>3. CASE q # p
    <3>1. pc'[q] = pc[q] /\ job'[q] = job[q]
      BY <1>3, <2>3, CommandOthers
    <3>2. PICK l \in Labels, j \in Job : l = pc[q] /\ j = job[q]
      BY <1>0
    <3>3. /\ Boot(q) /\ Clean(l, j) /\ j.op # <<>> /\ j.profile \in Profiles /\ Same(j, j)
          /\ l = "sync" => "temp" \notin j.seen.priv
      BY <1>2, <3>1, <3>2
    <3>4. custody'[j.profile] = custody[j.profile] \/ custody[j.profile] = NoKey
      BY <1>3, <3>3, CommandEffect
    <3>5. CASE UNCHANGED <<account, keys, inflight>>
      <4>1. Clean(l, j)'
        BY <3>3, <3>4, <3>5, CleanKept
      <4> QED
        BY <1>2, <3>1, <3>2, <4>1
    <3>6. CASE /\ pc[p] \in SendingLabels /\ RequestOf(p) \in RequestType
               /\ Apply(RequestOf(p)) \/ UNCHANGED <<account, keys>>
               /\ inflight' \subseteq inflight \cup {RequestOf(p)}
      <4>1. ~(Marks(RequestOf(p)) /\ RequestOf(p).id = j.op)
        BY <1>0, <2>3, <3>2, <3>3, <3>6, MarksItsOwn
      <4>2. Clean(l, j)'
        BY <3>3, <3>4, <3>6, <4>1, CleanStep
      <4> QED
        BY <1>2, <3>1, <3>2, <4>2
    <3> QED
      BY <1>3, <3>5, <3>6, CommandEffect
  <2> QED
    BY <2>2, <2>3
<1>4. ASSUME NEW p \in Procs, NEW f \in Profiles, StartBootstrap(p, f) PROVE Clean(pc[q], job[q])'
  <2>1. /\ UNCHANGED <<custody, account, keys, inflight, journal>> /\ pc' = [pc EXCEPT ![p] = "classify"]
    BY <1>4, StartBootstrapEffect DEF appliance, storage
  <2>a. PICK j \in Job : BootstrapJob(p, f, j)
    BY <1>4, StartBootstrapJob
  <2>2. job' = [job EXCEPT ![p] = j] /\ j.profile = f /\ j.op = <<drawn + 1>>
    BY <2>a DEF BootstrapJob
  <2>3. drawn \in Nat
    BY DEF TypeInv, ProcessType
  <2>4. \A n \in 1..drawn : j.op # <<n>>
    BY <2>2, <2>3, NatIds
  <2>5. CASE q = p
    <3>1. pc'[q] = "classify" /\ job'[q] = j
      BY <1>0, <2>1, <2>2, <2>5
    <3>2. \A id : OpenFor(f, id) => id # j.op
      BY <2>4, OpenIsDrawn
    <3>3. /\ \A r \in inflight : ~(Marks(r) /\ r.profile = f /\ r.id = j.op)
          /\ ~("temp" \in account[f].priv /\ account[f].id = j.op)
          /\ j.op \notin keys[f]
      BY <1>0, <2>4, <3>2 DEF TracedInv
    <3>4. Clean("classify", j)'
      BY <2>1, <2>2, <3>3 DEF Clean, Marks
    <3> QED
      BY <3>1, <3>4 DEF Clean
  <2>6. CASE q # p
    <3>1. pc'[q] = pc[q] /\ job'[q] = job[q]
      BY <1>0, <2>1, <2>2, <2>6
    <3>2. PICK l \in Labels, k \in Job : l = pc[q] /\ k = job[q]
      BY <1>0
    <3>3. Clean(l, k)'
      BY <1>2, <2>1, <3>1, <3>2, CleanKept
    <3> QED
      BY <1>2, <3>1, <3>2, <3>3
  <2> QED
    BY <2>5, <2>6
<1>5. ASSUME NEW p \in Procs, NEW f \in Profiles, StartRecovery(p, f) PROVE Clean(pc[q], job[q])'
  <2>1. /\ UNCHANGED <<custody, account, keys, inflight>> /\ pc' = [pc EXCEPT ![p] = "acquire"]
    BY <1>5, StartRecoveryEffect DEF appliance
  <2>2. PICK j \in Job : job' = [job EXCEPT ![p] = j] /\ j.action # NoAction
    BY <1>5, StartRecoveryEffect, RecordTypes
  <2>3. pc'[q] = pc[q] /\ job'[q] = job[q]
    BY <1>0, <1>b, <2>1, <2>2
  <2>4. PICK l \in Labels, k \in Job : l = pc[q] /\ k = job[q]
    BY <1>0
  <2>5. Clean(l, k)'
    BY <1>2, <2>1, <2>3, <2>4, CleanKept
  <2> QED
    BY <1>2, <2>3, <2>4, <2>5
<1>6. ASSUME NEW r \in inflight, Land(r) PROVE Clean(pc[q], job[q])'
  <2>1. /\ UNCHANGED <<pc, job, custody>> /\ inflight' \subseteq inflight \cup {r}
        /\ Apply(r) \/ UNCHANGED <<account, keys>>
    BY <1>6 DEF Land
  <2>2. PICK l \in Labels, k \in Job : l = pc[q] /\ k = job[q]
    BY <1>0
  <2>3. r \in RequestType /\ pc'[q] = pc[q] /\ job'[q] = job[q]
    BY <1>0, <2>1
  <2>4. /\ Clean(l, k) /\ k.op # <<>> /\ k.profile \in Profiles /\ Same(k, k)
        /\ l = "sync" => "temp" \notin k.seen.priv
    BY <1>2, <2>2, <2>3
  <2>5. Marks(r) /\ r.profile = k.profile /\ r.id = k.op => Failing(l, k)
    BY <2>4 DEF Clean
  <2>6. Clean(l, k)'
    BY <2>1, <2>3, <2>4, <2>5, CleanStep
  <2> QED
    BY <1>2, <2>2, <2>3, <2>6
<1>7. ASSUME NEW f \in Profiles, Administer(f) PROVE Clean(pc[q], job[q])'
  BY <1>0, <1>7, <1>b DEF Administer, Quiet
<1>8. CASE UNCHANGED vars
  BY <1>1, <1>8 DEF vars
<1>9. ASSUME NEW p \in Procs, NEW f \in Profiles, InspectIncident(p, f) PROVE Clean(pc[q], job[q])'
  BY <1>1, <1>9 DEF InspectIncident, appliance
<1>10. ASSUME NEW ns \in DOMAIN journal, NEW a \in {"REVOKE_ORPHAN_KEY", "DELETE_DEDICATED_USER"},
              RecordRecoveryRequired(ns, a)
       PROVE  Clean(pc[q], job[q])'
  BY <1>1, <1>10 DEF RecordRecoveryRequired, appliance
<1> QED
  BY <1>3, <1>4, <1>5, <1>6, <1>7, <1>8, <1>9, <1>10, NextCases

LEMMA OneOperationNext ==
  ASSUME TypeInv, OneOperation, [Next]_vars
  PROVE  OneOperation'
<1> SUFFICES ASSUME NEW p \in Procs, NEW q \in Procs, p # q, Boot(p)', Boot(q)' PROVE job'[p].op # job'[q].op
  BY DEF OneOperation
<1>0. /\ pc \in [Procs -> Labels] /\ job \in [Procs -> Job] /\ drawn \in Nat
      /\ \A x \in Procs : JobOK(x)
  BY DEF TypeInv, ProcessType
<1>1. ASSUME NEW x \in Procs, Boot(x)'
      PROVE  \/ Boot(x) /\ job'[x].op = job[x].op
             \/ \E f \in Profiles : StartBootstrap(x, f)
  <2>1. pc'[x] # "idle" /\ job'[x].action = NoAction
    BY <1>1 DEF Boot
  <2>2. CASE \E f \in Profiles : StartRecovery(x, f)
    <3>1. PICK f \in Profiles : StartRecovery(x, f)
      BY <2>2
    <3>2. PICK j \in Job : job' = [job EXCEPT ![x] = j] /\ j.action \in RecoveryActions
      BY <3>1, StartRecoveryEffect
    <3> QED
      BY <1>0, <2>1, <3>2, RecordTypes
  <2> QED
    BY <2>1, <2>2, ProcessSteps DEF Same, Boot
<1>2. ASSUME NEW x \in Procs, NEW y \in Procs, x # y, NEW f \in Profiles, StartBootstrap(x, f), Boot(y)'
      PROVE  job'[x].op # job'[y].op
  <2>1. PICK j \in Job : BootstrapJob(x, f, j)
    BY <1>2, StartBootstrapJob
  <2>2. job' = [job EXCEPT ![x] = j] /\ j.op = <<drawn + 1>>
    BY <2>1 DEF BootstrapJob
  <2>3. pc' = [pc EXCEPT ![x] = "classify"]
    BY <1>2, StartBootstrapEffect
  <2>4. job'[x].op = <<drawn + 1>> /\ job'[y] = job[y] /\ pc'[y] = pc[y]
    BY <1>0, <1>2, <2>2, <2>3
  <2>5. \E n \in 1..drawn : job[y].op = <<n>>
    BY <1>0, <1>2, <2>4 DEF Boot, JobOK, Started
  <2> QED
    BY <1>0, <2>4, <2>5, NatIds
<1>3. CASE \E f \in Profiles : StartBootstrap(p, f)
  BY <1>2, <1>3
<1>4. CASE \E f \in Profiles : StartBootstrap(q, f)
  BY <1>2, <1>4
<1>5. CASE ~(\E f \in Profiles : StartBootstrap(p, f) \/ StartBootstrap(q, f))
  BY <1>1, <1>5 DEF OneOperation
<1> QED
  BY <1>3, <1>4, <1>5

\* The appliance as a step leaves it: a request was applied or lost, of a
\* command or of the network, or the administrator was there.
LEMMA ApplianceSteps ==
  ASSUME TypeInv, [Next]_vars
  PROVE  /\ \A f \in Profiles : custody'[f] = custody[f] \/ custody[f] = NoKey
         /\ \/ UNCHANGED <<account, keys, inflight>>
            \/ \E p \in Procs :
                 /\ SendingStep(p) /\ pc[p] \in SendingLabels /\ RequestOf(p) \in RequestType
                 /\ Apply(RequestOf(p)) \/ UNCHANGED <<account, keys>>
                 /\ inflight' \subseteq inflight \cup {RequestOf(p)}
                 /\ UNCHANGED <<journal, custody, drawn>>
            \/ \E r \in inflight :
                 /\ Apply(r) \/ UNCHANGED <<account, keys>>
                 /\ inflight' = inflight \ {r}
                 /\ UNCHANGED <<journal, custody, drawn>>
            \/ \E f \in Profiles : Administer(f)
<1>1. ASSUME NEW p \in Procs, CommandStep(p) \/ Crash(p)
      PROVE  /\ \A f \in Profiles : custody'[f] = custody[f] \/ custody[f] = NoKey
             /\ \/ UNCHANGED <<account, keys, inflight>>
                \/ /\ SendingStep(p) /\ pc[p] \in SendingLabels /\ RequestOf(p) \in RequestType
                   /\ Apply(RequestOf(p)) \/ UNCHANGED <<account, keys>>
                   /\ inflight' \subseteq inflight \cup {RequestOf(p)}
                   /\ UNCHANGED <<journal, custody, drawn>>
  BY <1>1, CommandEffect, CommandShape
<1>2. ASSUME NEW p \in Procs, NEW f \in Profiles, StartBootstrap(p, f) \/ InspectIncident(p, f) \/ StartRecovery(p, f)
      PROVE  UNCHANGED <<custody, account, keys, inflight>>
  BY <1>2 DEF StartBootstrap, InspectIncident, StartRecovery, appliance
<1>3. ASSUME NEW r \in inflight, Land(r)
      PROVE  /\ Apply(r) \/ UNCHANGED <<account, keys>>
             /\ inflight' = inflight \ {r}
             /\ UNCHANGED <<journal, custody, drawn>>
  BY <1>3 DEF Land, storage
<1>4. ASSUME NEW f \in Profiles, Administer(f) PROVE UNCHANGED custody
  BY <1>4 DEF Administer
<1>5. ASSUME NEW ns, NEW a, RecordRecoveryRequired(ns, a)
      PROVE  UNCHANGED <<custody, account, keys, inflight>>
  BY <1>5 DEF RecordRecoveryRequired, appliance
<1>6. CASE UNCHANGED vars
  BY <1>6 DEF vars
<1>7. CASE \E p \in Procs : CommandStep(p) \/ Crash(p)
  BY <1>1, <1>7
<1>8. CASE \E r \in inflight : Land(r)
  BY <1>3, <1>8
<1>9. CASE \E f \in Profiles : Administer(f)
  BY <1>4, <1>9
<1> QED
  BY <1>2, <1>5, <1>6, <1>7, <1>8, <1>9, NextCases

\* the same with what is known of the request
LEMMA TracedSteps ==
  ASSUME TypeInv, RecordInv, AccountInv, [Next]_vars
  PROVE  \/ UNCHANGED <<account, keys, inflight>>
         \/ \E r \in RequestType :
              /\ Apply(r) \/ UNCHANGED <<account, keys>>
              /\ inflight' \subseteq inflight \cup {r}
              /\ UNCHANGED <<journal, custody, drawn>>
              /\ Marks(r) => OpenFor(r.profile, r.id)
         \/ \E f \in Profiles : Administer(f)
<1>1. ASSUME NEW p \in Procs, pc[p] \in SendingLabels
      PROVE  Marks(RequestOf(p)) => OpenFor(RequestOf(p).profile, RequestOf(p).id)
  <2> SUFFICES ASSUME Marks(RequestOf(p)) PROVE OpenFor(RequestOf(p).profile, RequestOf(p).id)
    OBVIOUS
  <2>1. Boot(p) /\ pc[p] \in {"grant", "create_key"} /\ RequestOf(p).id = job[p].op
    BY <1>1, MarksItsOwn DEF AccountInv
  <2>2. OpenFor(job[p].profile, job[p].op)
    BY <2>1, WorkIsOpen DEF EngineLabels, BootstrapLabels
  <2> QED
    BY <1>1, <2>1, <2>2, RequestMarks
<1>2. \A r \in inflight : r \in RequestType /\ (Marks(r) => OpenFor(r.profile, r.id))
  BY DEF TypeInv, ApplianceType, AccountInv, TracedInv
<1>3. CASE \E p \in Procs :
                 /\ SendingStep(p) /\ pc[p] \in SendingLabels /\ RequestOf(p) \in RequestType
                 /\ Apply(RequestOf(p)) \/ UNCHANGED <<account, keys>>
                 /\ inflight' \subseteq inflight \cup {RequestOf(p)}
                 /\ UNCHANGED <<journal, custody, drawn>>
  BY <1>1, <1>3
<1>4. CASE \E r \in inflight :
                 /\ Apply(r) \/ UNCHANGED <<account, keys>>
                 /\ inflight' = inflight \ {r}
                 /\ UNCHANGED <<journal, custody, drawn>>
  <2>1. PICK r \in inflight :
                 /\ Apply(r) \/ UNCHANGED <<account, keys>>
                 /\ inflight' = inflight \ {r}
                 /\ UNCHANGED <<journal, custody, drawn>>
    BY <1>4
  <2>2. inflight' \subseteq inflight \cup {r}
    BY <2>1
  <2> QED
    BY <1>2, <2>1, <2>2
<1> QED
  BY <1>3, <1>4, ApplianceSteps

\* A journal that accounts for something is not closed.
LEMMA OpenStays ==
  ASSUME TypeInv, RecordInv, CleanInv, [Next]_vars, NEW f, NEW id, OpenFor(f, id),
         \/ "temp" \in account[f].priv /\ account[f].id = id
         \/ \E r \in inflight : Marks(r) /\ r.profile = f /\ r.id = id
         \/ id \in keys[f] /\ custody[f] # id
  PROVE  OpenFor(f, id)'
<1> SUFFICES ASSUME NEW p \in Procs, Boot(p), job[p].profile = f, job[p].op = id, pc[p] = "append",
                    job[p].next.state = "FINAL_VERIFICATION_PENDING"
             PROVE  FALSE
  BY OpenForLasts
<1>1. Clean("append", job[p]) /\ ~Failing("append", job[p])
  BY DEF CleanInv, Failing
<1> QED
  BY <1>1 DEF Clean, Granted, Keyed

LEMMA OpenKept ==
  ASSUME NEW f, NEW id, OpenFor(f, id), UNCHANGED journal
  PROVE  OpenFor(f, id)'
BY DEF OpenFor, Incidents, Latest

LEMMA TracedNext ==
  ASSUME TypeInv, ChainInv, RecordInv, AccountInv, [Next]_vars
  PROVE  TracedInv'
<1>0. /\ CleanInv /\ TracedInv
      /\ account \in [Profiles -> Account] /\ keys \in [Profiles -> SUBSET Id]
  BY DEF AccountInv, TypeInv, ApplianceType
<1>a. drawn \in Nat /\ drawn' \in Nat /\ drawn <= drawn'
  BY DrawnGrows
<1>b. \A f \in Profiles : custody'[f] = custody[f] \/ custody[f] = NoKey
  BY ApplianceSteps
<1>c. ASSUME NEW f \in Profiles, NEW k \in keys[f]
      PROVE  custody'[f] = k \/ OpenFor(f, k)'
  <2>1. custody[f] = k \/ OpenFor(f, k)
    BY <1>0, <1>c DEF TracedInv
  <2>2. k # NoKey
    BY <1>0, <1>c, <1>a, NatIds DEF TracedInv, NoKey
  <2>3. CASE custody[f] = k
    BY <1>b, <2>2, <2>3
  <2>4. CASE custody[f] # k
    BY <1>0, <1>c, <2>1, <2>4, OpenStays
  <2> QED
    BY <2>3, <2>4
<1>d. ASSUME NEW f \in Profiles, NEW k \in keys[f] PROVE \E n \in 1..drawn' : k = <<n>>
  BY <1>0, <1>a, <1>d DEF TracedInv
<1>e. ASSUME NEW f \in Profiles, account'[f] = account[f], "temp" \in account'[f].priv
      PROVE  OpenFor(f, account[f].id)'
  <2>1. PICK id : id = account[f].id
    OBVIOUS
  <2>2. OpenFor(f, id)'
    BY <1>0, <1>e, <2>1, OpenStays DEF TracedInv
  <2>3. id = account'[f].id
    BY <1>e, <2>1
  <2> QED
    BY <2>2, <2>3 DEF OpenFor, Incidents, Latest
<1>f. ASSUME NEW r \in inflight, Marks(r) PROVE OpenFor(r.profile, r.id)'
  BY <1>0, <1>f, OpenStays DEF TracedInv
<1>1. CASE UNCHANGED <<account, keys, inflight>>
  BY <1>1, <1>c, <1>d, <1>e, <1>f DEF TracedInv, Marks
<1>2. CASE \E r \in RequestType :
              /\ Apply(r) \/ UNCHANGED <<account, keys>>
              /\ inflight' \subseteq inflight \cup {r}
              /\ UNCHANGED <<journal, custody, drawn>>
              /\ Marks(r) => OpenFor(r.profile, r.id)
  <2>1. PICK r \in RequestType :
              /\ Apply(r) \/ UNCHANGED <<account, keys>>
              /\ inflight' \subseteq inflight \cup {r}
              /\ UNCHANGED <<journal, custody, drawn>>
              /\ Marks(r) => OpenFor(r.profile, r.id)
    BY <1>2
  <2>2. Marks(r) => OpenFor(r.profile, r.id)' /\ \E n \in 1..drawn : r.id = <<n>>
    BY <2>1, OpenKept, OpenIsDrawn
  <2>3. ASSUME NEW f \in Profiles, "temp" \in account'[f].priv PROVE OpenFor(f, account[f].id)'
    <3>1. CASE account'[f] = account[f]
      BY <1>e, <2>3, <3>1
    <3>2. CASE account'[f] = NoAccount
      BY <2>3, <3>2 DEF NoAccount
    <3>3. CASE f = r.profile /\ account'[f].id = r.id /\ account'[f].priv = r.priv
      <4>1. OpenFor(r.profile, r.id)'
        BY <2>2, <2>3, <3>3 DEF Marks
      <4> QED
        BY <3>3, <4>1 DEF OpenFor, Incidents, Latest
    <3> QED
      BY <2>1, <3>1, <3>2, <3>3, ApplyEffect
  <2>4. ASSUME NEW x \in inflight', Marks(x) PROVE OpenFor(x.profile, x.id)'
    BY <1>f, <2>1, <2>2, <2>4
  <2>5. ASSUME NEW f \in Profiles, NEW k \in keys'[f]
        PROVE  (custody'[f] = k \/ OpenFor(f, k)') /\ \E n \in 1..drawn' : k = <<n>>
    <3>1. k \in keys[f] \/ (k = r.id /\ f = r.profile /\ Marks(r))
      BY <2>1, <2>5, ApplyEffect DEF Marks
    <3>2. CASE k \in keys[f]
      BY <1>c, <1>d, <3>2
    <3>3. CASE k = r.id /\ f = r.profile /\ Marks(r)
      BY <2>1, <2>2, <3>3
    <3> QED
      BY <3>1, <3>2, <3>3
  <2> QED
    BY <2>3, <2>4, <2>5 DEF TracedInv, Marks
<1>3. CASE \E f \in Profiles : Administer(f)
  <2>1. PICK g \in Profiles : Administer(g)
    BY <1>3
  <2>2. PICK a \in InitialAccounts : account' = [account EXCEPT ![g] = a]
    BY <2>1 DEF Administer
  <2>3. "temp" \notin a.priv
    BY <2>2, BootstrapAssumption
  <2>4. keys' = [keys EXCEPT ![g] = {}] /\ UNCHANGED inflight
    BY <2>1 DEF Administer
  <2>5. ASSUME NEW f \in Profiles, "temp" \in account'[f].priv PROVE OpenFor(f, account[f].id)'
    <3>1. account'[f] = account[f]
      BY <1>0, <2>2, <2>3, <2>5
    <3> QED
      BY <1>e, <2>5, <3>1
  <2>6. ASSUME NEW f \in Profiles, NEW k \in keys'[f]
        PROVE  (custody'[f] = k \/ OpenFor(f, k)') /\ \E n \in 1..drawn' : k = <<n>>
    <3>1. k \in keys[f]
      BY <1>0, <2>4, <2>6
    <3> QED
      BY <1>c, <1>d, <3>1
  <2> QED
    BY <1>f, <2>4, <2>5, <2>6 DEF TracedInv, Marks
<1> QED
  BY <1>1, <1>2, <1>3, TracedSteps

LEMMA AccountInit == Init => AccountInv
<1> SUFFICES ASSUME Init PROVE AccountInv
  OBVIOUS
<1>1. \A f \in Profiles : account[f] \in InitialAccounts
  BY DEF Init
<1>2. \A f \in Profiles : "temp" \notin account[f].priv
  BY <1>1, BootstrapAssumption
<1> QED
  BY <1>2 DEF Init, AccountInv, CleanInv, OneOperation, TracedInv, Boot

LEMMA AccountMeaning ==
  ASSUME TypeInv, ChainInv, AccountInv
  PROVE  JournalAccounts
<1>1. TempPrivilegeOnRecord
  BY DEF AccountInv, TracedInv, OpenFor, TempPrivilegeOnRecord
<1>2. OrphanKeyOnRecord
  BY DEF AccountInv, TracedInv, OpenFor, OrphanKeyOnRecord
<1> QED
  BY <1>1, <1>2, ChainMeaning DEF JournalAccounts

\* run_bootstrap() and locate_bootstrap_chain_frontier(): whichever request
\* failed, was lost or landed late, and whichever process died, a temporary
\* privilege, a key nobody keeps and a retry are each accounted for by a
\* journal that says so.
THEOREM JournalsAccountForAll == Spec => []JournalAccounts
<1>1. Init => TypeInv /\ LockInv /\ ChainInv /\ RecordInv /\ AccountInv
  BY InitType, LockInit, ChainInit, RecordInit, AccountInit
<1>2. TypeInv /\ LockInv /\ ChainInv /\ RecordInv /\ AccountInv /\ [Next]_vars
        => (TypeInv /\ LockInv /\ ChainInv /\ RecordInv /\ AccountInv)'
  <2> SUFFICES ASSUME TypeInv, LockInv, ChainInv, RecordInv, AccountInv, [Next]_vars
               PROVE  (TypeInv /\ LockInv /\ ChainInv /\ RecordInv /\ AccountInv)'
    OBVIOUS
  <2>1. TypeInv' /\ LockInv' /\ ChainInv' /\ RecordInv'
    BY NextType, LockNext, ChainNext, RecordNext
  <2>2. AccountInv'
    BY CleanNext, OneOperationNext, TracedNext DEF AccountInv
  <2> QED
    BY <2>1, <2>2
<1>3. TypeInv /\ LockInv /\ ChainInv /\ RecordInv /\ AccountInv => JournalAccounts
  BY AccountMeaning
<1> QED
  BY <1>1, <1>2, <1>3, PTL DEF Spec

-----------------------------------------------------------------------------
(* What a recovery deletes.                                                *)

Deletions == {"REVOKE_ORPHAN_KEY", "DELETE_DEDICATED_USER"}

\* an incident of the profile waits for a revocation or a deletion
Waits(f) == \E ns \in Incidents(f) : Latest(ns).action # NoAction

\* Then a bootstrap gets no further than its classification, and no request
\* that could make something new is under way.
Stopped(l, j) ==
  /\ l \in {"classify", "inspect"}
  /\ j.ns \in DOMAIN journal
  /\ l = "inspect" => j.snap.kind # "none"

WaitInv ==
  \A f \in Profiles : Waits(f) =>
    /\ \A p \in Procs : Boot(p) /\ job[p].profile = f => Stopped(pc[p], job[p])
    /\ \A r \in inflight : r.profile = f => r.kind \in {"delete_key", "delete_user"}

\* So the object named by the token is the only one there can be.
Confirmed(l, j) ==
  /\ l # "idle" /\ j.action \in Deletions =>
       /\ Waits(j.profile)
       /\ j.action = "REVOKE_ORPHAN_KEY" => keys[j.profile] \subseteq {j.token.object}
       /\ j.action = "DELETE_DEDICATED_USER" =>
            account[j.profile] = NoAccount \/ account[j.profile].id = j.token.object
  /\ l = "delete" => j.action \in Deletions /\ j.seen.id = j.token.object

ConfirmInv == \A p \in Procs : Confirmed(pc[p], job[p])

LEMMA CleanNeedsNone ==
  ASSUME NEW snap, NEW lock, NEW k, NEW o,
         ClassifyRestart(snap, lock, k, o).classification = "CLEAN_NO_OPERATION"
  PROVE  snap.kind = "none"
BY DEF ClassifyRestart, Decision

LEMMA WaitsStays ==
  ASSUME TypeInv, [Next]_vars, NEW f, Waits(f)
  PROVE  Waits(f)'
<1>1. PICK ns \in Incidents(f) : Latest(ns).action # NoAction
  BY DEF Waits
<1>2. ns \in DOMAIN journal /\ ns[1] = f /\ ns[2] = "bootstrap"
  BY <1>1 DEF Incidents
<1>3. Latest(ns).state = "RECOVERY_REQUIRED"
  BY <1>1, <1>2 DEF TypeInv, StorageType, JournalOK, Latest
<1>4. ns \in DOMAIN journal' /\ Latest(ns)' = Latest(ns)
  BY <1>2, <1>3, CompletedIsFinal
<1> QED
  BY <1>1, <1>2, <1>4 DEF Waits, Incidents, Latest

\* no command starts the waiting
LEMMA WaitsBegins ==
  ASSUME TypeInv, RecordInv, [Next]_vars, NEW f \in Profiles, Waits(f)', ~Waits(f)
  PROVE  Quiet /\ UNCHANGED <<pc, job, inflight>>
<1>1. PICK ns \in Incidents(f)' : (Latest(ns).action # NoAction)'
  BY DEF Waits
<1>2. ns \in DOMAIN journal' /\ ns[1] = f /\ ns[2] = "bootstrap"
  BY <1>1 DEF Incidents
<1>3. Latest(ns)'.action # NoAction
  BY <1>1 DEF Latest
<1>4. ~(ns \in DOMAIN journal /\ journal'[ns] = journal[ns])
  BY <1>2, <1>3 DEF Waits, Incidents, Latest
<1>5. journal' # journal /\ ~UNCHANGED vars
  BY <1>2, <1>4 DEF vars
<1>6. ASSUME NEW p \in Procs, CommandStep(p) \/ Crash(p) PROVE FALSE
  <2>1. job[p] \in Job /\ JobOK(p)
    BY DEF TypeInv, ProcessType
  <2>2. CASE JournalCreate(job[p].ns, job[p].op) /\ pc[p] = "create"
    <3>1. job[p].ns \in Ns /\ job[p].op \in Id /\ job[p].op # <<>>
      BY <2>1, <2>2 DEF JobOK, Started, Job
    <3>2. PICK n \in Ns : n = job[p].ns
      BY <3>1
    <3>3. /\ DOMAIN journal' = DOMAIN journal \cup {n} /\ \A x \in DOMAIN journal : journal'[x] = journal[x]
          /\ Latest(n)' = Rec("CREATED", 0, NoAction)
      BY <2>2, <3>1, <3>2, CreateEffect
    <3>4. n = ns
      BY <1>2, <1>4, <3>3
    <3> QED
      BY <1>3, <3>3, <3>4 DEF Rec
  <2>3. CASE AppendRecord(p)
    <3>1. PICK n \in DOMAIN journal, rec \in Record :
                 /\ n = job[p].ns /\ ValidTransition(Latest(n), rec) /\ rec = job[p].next
                 /\ journal' = [journal EXCEPT ![n].recs = Append(@, rec)]
      BY <2>1, <2>3 DEF AppendRecord, CanAppend, Loadable, Exists, JournalAppend, Job
    <3>2. /\ DOMAIN journal' = DOMAIN journal /\ \A x \in DOMAIN journal : x # n => journal'[x] = journal[x]
          /\ Latest(n)' = rec
      BY <3>1, AppendEffect
    <3>3. n = ns
      BY <1>2, <1>4, <3>2
    <3>4. rec.state # "RECOVERY_REQUIRED"
      BY <2>3, <3>1 DEF AppendRecord, RecordInv, Begun
    <3>5. rec.action = NoAction
      BY <3>1, <3>4 DEF ValidTransition
    <3> QED
      BY <1>3, <3>2, <3>3, <3>5
  <2> QED
    BY <1>5, <1>6, <2>2, <2>3, CommandJournal
<1>7. ASSUME NEW m \in DOMAIN journal, NEW a \in {"REVOKE_ORPHAN_KEY", "DELETE_DEDICATED_USER"},
             RecordRecoveryRequired(m, a)
      PROVE  Quiet /\ UNCHANGED <<pc, job, inflight>>
  BY <1>7 DEF RecordRecoveryRequired, appliance
<1> QED
  BY <1>5, <1>6, <1>7, NextCases, StartBootstrapEffect, StartRecoveryEffect
     DEF InspectIncident, Land, Administer, storage

LEMMA ClassifyingSteps ==
  ASSUME NEW p \in Procs, CommandStep(p), pc[p] \in {"classify", "inspect"}
  PROVE  ClassifyLoad(p) \/ ClassifyInspect(p)
<1>1. ~LockStep(p)
  BY DEF LockStep, AcquireRefused, AcquireFlock, AcquireWrite, ReleaseTruncate, ReleaseWrite
<1>2. ~JournalStep(p)
  BY DEF JournalStep, CreateRefused, CreateJournal, AppendRecord, RecordHead
<1>3. ~EngineStep(p)
  BY DEF EngineStep, Observe, SyncRead, Sync, SyncVerify, CreateUser, VerifyCreated, Grant, VerifyGranted,
         CreateKey, Revoke, VerifyRevoked, Verify, NewAccountStep
<1>4. ~(CheckReadOnly(p) \/ PersistKey(p) \/ PersistFails(p) \/ Select(p) \/ Delete(p) \/ VerifyDeleted(p))
  BY DEF CheckReadOnly, PersistKey, PersistFails, Select, Delete, VerifyDeleted
<1> QED
  BY <1>1, <1>2, <1>3, <1>4 DEF CommandStep

\* a bootstrap that finds a journal in its namespace gives up
LEMMA StoppedMover ==
  ASSUME TypeInv, NEW p \in Procs, CommandStep(p) \/ Crash(p), Stopped(pc[p], job[p]),
         DOMAIN journal \subseteq DOMAIN journal'
  PROVE  pc'[p] = "idle" \/ Stopped(pc[p], job[p])'
<1>0. /\ pc \in [Procs -> Labels] /\ job \in [Procs -> Job] /\ job[p] \in Job
      /\ pc[p] \in {"classify", "inspect"} /\ job[p].ns \in DOMAIN journal
  BY DEF TypeInv, ProcessType, Stopped
<1>1. CASE EndProcess(p)
  BY <1>0, <1>1 DEF EndProcess
<1>2. CASE ClassifyLoad(p)
  <2>0. Snapshot(job[p].ns).kind # "none"
    BY <1>0, SnapshotTypes DEF Exists
  <2>1. PICK s : s = Snapshot(job[p].ns) /\ s.kind # "none"
    BY <2>0
  <2>2. ~EndProcess(p) => Goto(p, "inspect") /\ Set(p, [job[p] EXCEPT !.snap = s])
    BY <1>2, <2>1, CleanNeedsNone DEF ClassifyLoad
  <2> DEFINE j == [job[p] EXCEPT !.snap = s]
  <2>3. j.ns = job[p].ns /\ j.snap = s
    BY <1>0 DEF Job
  <2>4. ~EndProcess(p) => pc'[p] = "inspect" /\ job'[p] = j
    BY <1>0, <2>2 DEF Goto, Set
  <2> HIDE DEF j
  <2> QED
    BY <1>0, <1>1, <2>1, <2>3, <2>4 DEF Stopped
<1>3. CASE ClassifyInspect(p)
  <2>1. job[p].snap.kind # "none"
    BY <1>3 DEF ClassifyInspect, Stopped
  <2> QED
    BY <1>1, <1>3, <2>1, CleanNeedsNone DEF ClassifyInspect
<1>4. CASE Crash(p)
  BY <1>1, <1>4 DEF Crash
<1> QED
  BY <1>0, <1>2, <1>3, <1>4, ClassifyingSteps

\* a request sent while an incident waits deletes something
LEMMA WaitingRequests ==
  ASSUME TypeInv, WaitInv, NEW p \in Procs, pc[p] \in SendingLabels, Waits(job[p].profile)
  PROVE  pc[p] = "delete" /\ RequestOf(p).kind \in {"delete_key", "delete_user"}
<1>1. job[p].profile \in Profiles /\ (pc[p] # "delete" => job[p].action = NoAction)
  BY DEF TypeInv, JobOK, Started, SendingLabels, BootstrapLabels
<1>2. pc[p] # "delete" => Boot(p)
  BY <1>1 DEF Boot, SendingLabels
<1>3. pc[p] = "delete"
  BY <1>1, <1>2 DEF WaitInv, Stopped, SendingLabels
<1> QED
  BY <1>3 DEF RequestOf, Request

LEMMA WaitNext ==
  ASSUME TypeInv, ChainInv, RecordInv, WaitInv, [Next]_vars
  PROVE  WaitInv'
<1> SUFFICES ASSUME NEW f \in Profiles, Waits(f)'
             PROVE  /\ \A q \in Procs : Boot(q)' /\ job'[q].profile = f => Stopped(pc[q], job[q])'
                    /\ \A r \in inflight' : r.profile = f => r.kind \in {"delete_key", "delete_user"}
  BY DEF WaitInv
<1>1. CASE ~Waits(f)
  <2>1. Quiet /\ UNCHANGED <<pc, job, inflight>>
    BY <1>1, WaitsBegins
  <2> QED
    BY <2>1 DEF Quiet, Boot
<1>2. CASE Waits(f)
  <2>0. /\ pc \in [Procs -> Labels] /\ job \in [Procs -> Job]
        /\ DOMAIN journal \subseteq DOMAIN journal'
    BY JournalMonotone DEF TypeInv, ProcessType
  <2>1. ASSUME NEW r \in inflight', r.profile = f PROVE r.kind \in {"delete_key", "delete_user"}
    <3>1. \A x \in inflight : x.profile = f => x.kind \in {"delete_key", "delete_user"}
      BY <1>2 DEF WaitInv
    <3>2. ASSUME NEW p \in Procs, pc[p] \in SendingLabels, r = RequestOf(p)
          PROVE  r.kind \in {"delete_key", "delete_user"}
      BY <1>2, <2>1, <3>2, WaitingRequests, RequestMarks
    <3>3. CASE \E p \in Procs : pc[p] \in SendingLabels /\ inflight' \subseteq inflight \cup {RequestOf(p)}
      BY <2>1, <3>1, <3>2, <3>3
    <3>4. CASE inflight' \subseteq inflight
      BY <2>1, <3>1, <3>4
    <3> QED
      BY <3>3, <3>4, ApplianceSteps DEF Administer
  <2>2. ASSUME NEW q \in Procs, Boot(q)', job'[q].profile = f PROVE Stopped(pc[q], job[q])'
    <3>0. pc'[q] # "idle" /\ job'[q].action = NoAction
      BY <2>2 DEF Boot
    <3>1. ASSUME pc[q] # "idle", Same(job[q], job'[q]) PROVE Stopped(pc[q], job[q])
      BY <1>2, <2>2, <3>0, <3>1 DEF WaitInv, Boot, Same
    <3>2. ASSUME Stopped(pc[q], job[q]), pc'[q] = pc[q], job'[q] = job[q] PROVE Stopped(pc[q], job[q])'
      BY <2>0, <3>2 DEF Stopped
    <3>3. ASSUME NEW p \in Procs, CommandStep(p) \/ Crash(p), pc[q] # "idle", Same(job[q], job'[q])
          PROVE  Stopped(pc[q], job[q])'
      <4>1. CASE p = q
        BY <2>0, <3>0, <3>1, <3>3, <4>1, StoppedMover
      <4>2. CASE p # q
        BY <3>1, <3>2, <3>3, <4>2, CommandOthers
      <4> QED
        BY <4>1, <4>2
    <3>5. ASSUME NEW p \in Procs, NEW g \in Profiles, StartBootstrap(p, g) PROVE Stopped(pc[q], job[q])'
      <4>1. pc' = [pc EXCEPT ![p] = "classify"] /\ pc[p] = "idle" /\ UNCHANGED journal
        BY <3>5, StartBootstrapEffect DEF storage
      <4>2. PICK j \in Job : BootstrapJob(p, g, j)
        BY <3>5, StartBootstrapJob
      <4>3. job' = [job EXCEPT ![p] = j] /\ j.profile = g /\ j.ns = <<g, "bootstrap", Frontier(p, g)>>
        BY <4>2 DEF BootstrapJob
      <4>4. CASE p = q
        <5>1. pc'[q] = "classify" /\ job'[q] = j /\ g = f
          BY <2>0, <2>2, <4>1, <4>3, <4>4
        <5>2. PICK ns \in Incidents(f) : Latest(ns).action # NoAction
          BY <1>2 DEF Waits
        <5>3. j.ns \in DOMAIN journal
          BY <4>3, <5>1, <5>2, ActionBlocksFrontier
        <5> QED
          BY <4>1, <5>1, <5>3 DEF Stopped
      <4>5. CASE p # q
        <5>1. pc'[q] = pc[q] /\ job'[q] = job[q]
          BY <2>0, <4>1, <4>3, <4>5
        <5>2. Boot(q) /\ job[q].profile = f
          BY <2>2, <3>0, <5>1 DEF Boot
        <5> QED
          BY <1>2, <3>2, <5>1, <5>2 DEF WaitInv
      <4> QED
        BY <4>4, <4>5
    <3>6. ASSUME NEW p \in Procs, NEW g \in Profiles, StartRecovery(p, g) PROVE Stopped(pc[q], job[q])'
      <4>1. PICK j \in Job : job' = [job EXCEPT ![p] = j] /\ j.action \in RecoveryActions
        BY <3>6, StartRecoveryEffect
      <4>2. pc' = [pc EXCEPT ![p] = "acquire"]
        BY <3>6, StartRecoveryEffect
      <4>3. p # q
        BY <2>0, <3>0, <4>1 DEF RecoveryActions, NoAction
      <4>4. pc'[q] = pc[q] /\ job'[q] = job[q]
        BY <2>0, <4>1, <4>2, <4>3
      <4>5. Boot(q) /\ job[q].profile = f
        BY <2>2, <3>0, <4>4 DEF Boot
      <4> QED
        BY <1>2, <3>2, <4>4, <4>5 DEF WaitInv
    <3>7. CASE UNCHANGED <<pc, job>>
      <4>1. Boot(q) /\ job[q].profile = f /\ pc'[q] = pc[q] /\ job'[q] = job[q]
        BY <2>2, <3>0, <3>7 DEF Boot
      <4> QED
        BY <1>2, <3>2, <4>1 DEF WaitInv
    <3>8. CASE \E p \in Procs : CommandStep(p) \/ Crash(p)
      <4>1. PICK p \in Procs : CommandStep(p) \/ Crash(p)
        BY <3>8
      <4>2. pc[q] # "idle" /\ Same(job[q], job'[q])
        <5>1. Shape(p) /\ pc[p] # "idle"
          BY <4>1, CommandShape
        <5>2. CASE q # p
          <6>1. pc'[q] = pc[q] /\ job'[q] = job[q]
            BY <4>1, <5>2, CommandOthers
          <6> QED
            BY <3>0, <6>1, <2>0 DEF Same
        <5>3. CASE q = p
          BY <2>0, <3>0, <5>1, <5>3 DEF Shape, EndProcess, GoesOn
        <5> QED
          BY <5>2, <5>3
      <4> QED
        BY <3>3, <4>1, <4>2
    <3> QED
      BY <3>5, <3>6, <3>7, <3>8, NextCases
         DEF InspectIncident, Land, Administer, RecordRecoveryRequired, vars
  <2> QED
    BY <2>1, <2>2
<1> QED
  BY <1>1, <1>2

-----------------------------------------------------------------------------
LEMMA CandidateMeans ==
  ASSUME TypeInv, NEW f \in Profiles, NEW o
  PROVE  /\ o \in Candidate(f, "REVOKE_ORPHAN_KEY") => keys[f] = {o}
         /\ o \in Candidate(f, "DELETE_DEDICATED_USER") => account[f].id = o /\ account[f] # NoAccount
<1>1. account[f].owned => account[f] # NoAccount
  BY DEF NoAccount
<1> QED
  BY <1>1 DEF Candidate, OrphanKey, DedicatedUser, Exact

\* while an incident waits and a command runs, nothing is made
LEMMA OnlyDeleted ==
  ASSUME TypeInv, WaitInv, [Next]_vars, ~Quiet, NEW f \in Profiles, Waits(f)
  PROVE  /\ keys'[f] \subseteq keys[f]
         /\ account'[f] = account[f] \/ account'[f] = NoAccount
<1>1. ASSUME NEW r \in RequestType, Apply(r), r.profile = f => r.kind \in {"delete_key", "delete_user"}
      PROVE  /\ keys'[f] \subseteq keys[f]
             /\ account'[f] = account[f] \/ account'[f] = NoAccount
  <2>0. /\ account \in [Profiles -> Account] /\ keys \in [Profiles -> SUBSET Id]
        /\ r.profile \in Profiles
        /\ r.kind \in {"create_user", "update_priv", "create_key", "delete_key", "delete_user"}
    BY DEF TypeInv, ApplianceType, RequestType
  <2>1. CASE r.profile # f
    BY <1>1, <2>0, <2>1 DEF Apply
  <2>2. CASE r.profile = f
    BY <1>1, <2>0, <2>2 DEF Apply
  <2> QED
    BY <2>1, <2>2
<1>2. CASE UNCHANGED <<account, keys, inflight>>
  BY <1>2
<1>3. CASE \E p \in Procs :
                 /\ SendingStep(p) /\ pc[p] \in SendingLabels /\ RequestOf(p) \in RequestType
                 /\ Apply(RequestOf(p)) \/ UNCHANGED <<account, keys>>
                 /\ inflight' \subseteq inflight \cup {RequestOf(p)}
                 /\ UNCHANGED <<journal, custody, drawn>>
  <2>1. PICK p \in Procs : /\ pc[p] \in SendingLabels /\ RequestOf(p) \in RequestType
                           /\ Apply(RequestOf(p)) \/ UNCHANGED <<account, keys>>
    BY <1>3
  <2>2. RequestOf(p).profile = f => RequestOf(p).kind \in {"delete_key", "delete_user"}
    BY <2>1, WaitingRequests, RequestMarks
  <2>3. PICK r \in RequestType : r = RequestOf(p)
    BY <2>1
  <2>4. CASE UNCHANGED <<account, keys>>
    BY <2>4
  <2>5. CASE Apply(RequestOf(p))
    BY <1>1, <2>2, <2>3, <2>5
  <2> QED
    BY <2>1, <2>4, <2>5
<1>4. CASE \E r \in inflight :
                 /\ Apply(r) \/ UNCHANGED <<account, keys>>
                 /\ inflight' = inflight \ {r}
                 /\ UNCHANGED <<journal, custody, drawn>>
  <2>1. PICK r \in inflight : Apply(r) \/ UNCHANGED <<account, keys>>
    BY <1>4
  <2>2. r \in RequestType /\ (r.profile = f => r.kind \in {"delete_key", "delete_user"})
    BY DEF TypeInv, ApplianceType, WaitInv
  <2> QED
    BY <1>1, <2>1, <2>2
<1>5. ~ \E g \in Profiles : Administer(g)
  BY DEF Administer
<1> QED
  BY <1>2, <1>3, <1>4, <1>5, ApplianceSteps

LEMMA ConfirmedKept ==
  ASSUME TypeInv, WaitInv, [Next]_vars, NEW p \in Procs, pc[p] # "idle", Confirmed(pc[p], job[p]),
         NEW l, NEW j, Same(job[p], j), l = "delete" => j.action \in Deletions /\ j.seen.id = j.token.object
  PROVE  Confirmed(l, j)'
<1>0. job[p].profile \in Profiles /\ ~Quiet
  BY DEF TypeInv, JobOK, Quiet, Started
<1> SUFFICES ASSUME j.action \in Deletions
             PROVE  /\ Waits(j.profile)'
                    /\ j.action = "REVOKE_ORPHAN_KEY" => keys'[j.profile] \subseteq {j.token.object}
                    /\ j.action = "DELETE_DEDICATED_USER" =>
                         account'[j.profile] = NoAccount \/ account'[j.profile].id = j.token.object
  BY DEF Confirmed
<1>1. PICK f \in Profiles : f = j.profile
  BY <1>0 DEF Same
<1>2. /\ Waits(f)
      /\ j.action = "REVOKE_ORPHAN_KEY" => keys[f] \subseteq {j.token.object}
      /\ j.action = "DELETE_DEDICATED_USER" => account[f] = NoAccount \/ account[f].id = j.token.object
  BY <1>1 DEF Same, Confirmed
<1>3. Waits(f)'
  BY <1>2, WaitsStays
<1>4. /\ keys'[f] \subseteq keys[f]
      /\ account'[f] = account[f] \/ account'[f] = NoAccount
  BY <1>0, <1>2, OnlyDeleted
<1> QED
  BY <1>1, <1>2, <1>3, <1>4

\* the object selected afresh is the one the token names
LEMMA SelectsConfirmed ==
  ASSUME TypeInv, NEW p \in Procs, Confirmed(pc[p], job[p]), pc[p] # "idle",
         job[p].action # NoAction, job[p].action # "RESOLVE_UNPROVISIONED_INCIDENT",
         NEW o \in Candidate(job[p].profile, job[p].action)
  PROVE  job[p].action \in Deletions /\ o = job[p].token.object
<1>1. job[p].profile \in Profiles /\ job[p].action \in Action
  BY DEF TypeInv, ProcessType, JobOK, Started, Job
<1>2. job[p].action \in Deletions
  BY <1>1 DEF Action, RecoveryActions, Deletions
<1>3. CASE job[p].action = "REVOKE_ORPHAN_KEY"
  BY <1>1, <1>2, <1>3, CandidateMeans DEF Confirmed
<1>4. CASE job[p].action = "DELETE_DEDICATED_USER"
  BY <1>1, <1>2, <1>4, CandidateMeans DEF Confirmed
<1> QED
  BY <1>2, <1>3, <1>4 DEF Deletions

LEMMA ConfirmMover ==
  ASSUME TypeInv, WaitInv, ConfirmInv, [Next]_vars, NEW p \in Procs, CommandStep(p) \/ Crash(p)
  PROVE  Confirmed(pc[p], job[p])'
<1>0. /\ job[p] \in Job /\ JobOK(p) /\ pc \in [Procs -> Labels] /\ job \in [Procs -> Job]
      /\ Confirmed(pc[p], job[p]) /\ pc[p] # "idle"
  BY CommandShape DEF TypeInv, ProcessType, ConfirmInv
<1>1. ASSUME EndProcess(p) PROVE Confirmed(pc[p], job[p])'
  BY <1>0, <1>1 DEF EndProcess, Confirmed
<1>2. ASSUME NEW l \in Labels, NEW j \in Job, GoesOn(p, l, j),
             l = "delete" => j.action \in Deletions /\ j.seen.id = j.token.object
      PROVE  Confirmed(pc[p], job[p])'
  <2>1. pc'[p] = l /\ job'[p] = j /\ Same(job[p], j)
    BY <1>0, <1>2 DEF GoesOn
  <2>2. Confirmed(l, j)'
    BY <1>0, <1>2, <2>1, ConfirmedKept
  <2> QED
    BY <2>1, <2>2 DEF Confirmed, Waits, Incidents, Latest
<1>3. CASE LockStep(p) \/ ClassifyLoad(p) \/ ClassifyInspect(p) \/ CheckReadOnly(p) \/ Crash(p)
  <2>1. CASE EndProcess(p)
    BY <1>1, <2>1
  <2>2. CASE \E l \in Labels \ {"idle"}, j \in Job : GoesOn(p, l, j) /\ <<pc[p], l>> \in LockFlow
    BY <1>2, <2>2 DEF LockFlow
  <2> QED
    BY <1>3, <2>1, <2>2, LockMoves
<1>4. CASE JournalStep(p)
  <2>1. CASE EndProcess(p)
    BY <1>1, <2>1
  <2>2. CASE \E j \in Job : GoesOn(p, "head", j)
    BY <1>2, <2>2 DEF Labels, SharedLabels
  <2>3. CASE \E l \in Labels \ {"idle"}, j \in Job : GoesOn(p, l, j) /\ HeadMoves(p, l, j)
    BY <1>2, <2>3 DEF HeadMoves
  <2> QED
    BY <1>0, <1>4, <2>1, <2>2, <2>3, JournalMoves
<1>5. ASSUME Fail(p) \/ Succeed(p) PROVE Confirmed(pc[p], job[p])'
  <2>1. PICK j \in Job : GoesOn(p, "append", j)
    BY <1>0, <1>5, FailGoesOn
  <2> QED
    BY <1>2, <2>1 DEF Labels, SharedLabels
<1>6. CASE SendingStep(p)
  <2>1. pc[p] # "select"
    BY <1>6, SendingSteps DEF SendingStep, SendingLabels
  <2>2. CASE \E l \in Labels \ {"idle"}, j \in Job : Flows(p, l, j)
    BY <1>2, <2>1, <2>2 DEF Flows, EngineFlow
  <2> QED
    BY <1>5, <1>6, <2>2, SendingMoves
<1>7. CASE ReadingStep(p)
  <2>1. CASE \E l \in Labels \ {"idle"}, j \in Job :
              /\ Flows(p, l, j)
              /\ l = "sync" => j.seen = account[job[p].profile] /\ "temp" \notin j.seen.priv
              /\ l = "delete" => /\ job[p].action # "RESOLVE_UNPROVISIONED_INCIDENT"
                                 /\ j.seen.id \in Candidate(job[p].profile, job[p].action)
    <3>1. PICK l \in Labels, j \in Job :
              /\ Flows(p, l, j)
              /\ l = "delete" => /\ job[p].action # "RESOLVE_UNPROVISIONED_INCIDENT"
                                 /\ j.seen.id \in Candidate(job[p].profile, job[p].action)
      BY <2>1
    <3>2. GoesOn(p, l, j) /\ Same(job[p], j) /\ (l = "delete" => job[p].action # NoAction)
      BY <3>1 DEF Flows, GoesOn, RecoveryLabels
    <3>3. l = "delete" => job[p].action \in Deletions /\ j.seen.id = job[p].token.object
      BY <1>0, <3>1, <3>2, SelectsConfirmed
    <3> QED
      BY <1>2, <3>2, <3>3 DEF Same
  <2> QED
    BY <1>5, <1>7, <2>1, ReadingMoves
<1>8. CASE PersistKey(p) \/ PersistFails(p)
  BY <1>1, <1>5, <1>8, PersistMoves
<1> QED
  BY <1>3, <1>4, <1>6, <1>7, <1>8, CommandSteps

LEMMA ConfirmNext ==
  ASSUME TypeInv, WaitInv, ConfirmInv, [Next]_vars
  PROVE  ConfirmInv'
<1> SUFFICES ASSUME NEW q \in Procs PROVE Confirmed(pc[q], job[q])'
  BY DEF ConfirmInv
<1>0. /\ pc \in [Procs -> Labels] /\ job \in [Procs -> Job] /\ Confirmed(pc[q], job[q])
  BY DEF TypeInv, ProcessType, ConfirmInv
<1>1. ASSUME pc'[q] = pc[q], job'[q] = job[q] PROVE Confirmed(pc[q], job[q])'
  <2>1. CASE pc[q] = "idle"
    BY <1>1, <2>1 DEF Confirmed
  <2>2. CASE pc[q] # "idle"
    <3>1. PICK l \in Labels, j \in Job : l = pc[q] /\ j = job[q]
      BY <1>0
    <3>2. Same(job[q], j) /\ (l = "delete" => j.action \in Deletions /\ j.seen.id = j.token.object)
      BY <1>0, <3>1 DEF Same, Confirmed
    <3>3. Confirmed(l, j)'
      BY <1>0, <2>2, <3>2, ConfirmedKept
    <3>4. l = pc'[q] /\ j = job'[q]
      BY <1>1, <3>1
    <3> QED
      BY <3>3, <3>4 DEF Confirmed, Waits, Incidents, Latest
  <2> QED
    BY <2>1, <2>2
<1>2. ASSUME NEW p \in Procs, CommandStep(p) \/ Crash(p) PROVE Confirmed(pc[q], job[q])'
  <2>1. CASE p = q
    BY <1>2, <2>1, ConfirmMover
  <2>2. CASE p # q
    BY <1>1, <1>2, <2>2, CommandOthers
  <2> QED
    BY <2>1, <2>2
<1>3. ASSUME NEW p \in Procs, NEW f \in Profiles, StartBootstrap(p, f) PROVE Confirmed(pc[q], job[q])'
  <2>1. pc' = [pc EXCEPT ![p] = "classify"]
    BY <1>3, StartBootstrapEffect
  <2>2. PICK j \in Job : BootstrapJob(p, f, j)
    BY <1>3, StartBootstrapJob
  <2>3. job' = [job EXCEPT ![p] = j] /\ j.action = NoAction
    BY <2>2 DEF BootstrapJob
  <2>4. CASE p = q
    <3>1. pc'[q] = "classify" /\ job'[q] = j
      BY <1>0, <2>1, <2>3, <2>4
    <3> QED
      BY <2>3, <3>1 DEF Confirmed, Deletions, NoAction
  <2>5. CASE p # q
    BY <1>0, <1>1, <2>1, <2>3, <2>5
  <2> QED
    BY <2>4, <2>5
<1>4. ASSUME NEW p \in Procs, NEW f \in Profiles, StartRecovery(p, f) PROVE Confirmed(pc[q], job[q])'
  <2>1. pc' = [pc EXCEPT ![p] = "acquire"] /\ UNCHANGED <<journal, account, keys>>
    BY <1>4, StartRecoveryEffect DEF storage, appliance
  <2>2. PICK j \in Job :
              /\ job' = [job EXCEPT ![p] = j] /\ j.profile = f
              /\ j.token.object \in Candidate(f, j.action)
              /\ j.action # "RESOLVE_UNPROVISIONED_INCIDENT" =>
                   \E ns \in Incidents(f) : Latest(ns).action # NoAction
    BY <1>4, StartRecoveryEffect
  <2>3. CASE p = q
    <3>1. pc'[q] = "acquire" /\ job'[q] = j
      BY <1>0, <2>1, <2>2, <2>3
    <3>2. ASSUME j.action \in Deletions
          PROVE  /\ Waits(f)'
                 /\ j.action = "REVOKE_ORPHAN_KEY" => keys[f] \subseteq {j.token.object}
                 /\ j.action = "DELETE_DEDICATED_USER" =>
                      account[f] = NoAccount \/ account[f].id = j.token.object
      <4>1. \E ns \in Incidents(f) : Latest(ns).action # NoAction
        BY <2>2, <3>2 DEF Deletions
      <4>2. Waits(f)'
        BY <2>1, <4>1 DEF Waits, Incidents, Latest
      <4> QED
        BY <2>2, <3>2, <4>2, CandidateMeans DEF Deletions
    <3> QED
      BY <2>1, <2>2, <3>1, <3>2 DEF Confirmed, Waits, Incidents, Latest
  <2>4. CASE p # q
    BY <1>0, <1>1, <2>1, <2>2, <2>4
  <2> QED
    BY <2>3, <2>4
<1>5. CASE UNCHANGED <<pc, job>>
  BY <1>1, <1>5
<1> QED
  BY <1>2, <1>3, <1>4, <1>5, NextCases
     DEF InspectIncident, Land, Administer, RecordRecoveryRequired, vars

LEMMA WaitInit == Init => WaitInv /\ ConfirmInv
BY DEF Init, WaitInv, ConfirmInv, Confirmed, Boot

\* run_recovery_from_environment() with --execute: the object that is
\* deleted, although selected afresh after the lock was taken and the intent
\* recorded, is the one the operator's token was derived from. It rests on
\* the chain of generations: while an incident waits for its action every
\* bootstrap is refused, so nothing new can take the object's place.
THEOREM RecoveryDeletesTheConfirmed == Spec => []DeletesConfirmedObject
<1> DEFINE RecoveryInv == TypeInv /\ LockInv /\ ChainInv /\ RecordInv /\ WaitInv /\ ConfirmInv
<1>1. Init => RecoveryInv
  BY InitType, LockInit, ChainInit, RecordInit, WaitInit
<1>2. RecoveryInv /\ [Next]_vars => RecoveryInv'
  <2> SUFFICES ASSUME RecoveryInv, [Next]_vars PROVE RecoveryInv'
    OBVIOUS
  <2>1. TypeInv' /\ LockInv' /\ ChainInv' /\ RecordInv'
    BY NextType, LockNext, ChainNext, RecordNext
  <2>2. WaitInv' /\ ConfirmInv'
    BY WaitNext, ConfirmNext
  <2> QED
    BY <2>1, <2>2
<1>3. RecoveryInv => DeletesConfirmedObject
  BY DEF ConfirmInv, Confirmed, DeletesConfirmedObject
<1> HIDE DEF RecoveryInv
<1> QED
  BY <1>1, <1>2, <1>3, PTL DEF Spec

-----------------------------------------------------------------------------
(* Privileges a command knows nothing of.                                  *)

\* the identities of accounts made by commands
Drawn == {<<n>> : n \in 1..MaxOps}

\* an account a command made has no unrelated privilege
Fresh(id, priv) == id \in Drawn => "extra" \notin priv

\* what is about to be written back to an account agrees with what it has
Agrees(f, id, priv) ==
  id # <<>> /\ account[f].id = id => ("extra" \in priv <=> "extra" \in account[f].priv)

Careful(r) ==
  /\ r.kind = "create_user" => r.id \in Drawn /\ "extra" \notin r.priv
  /\ r.kind = "update_priv" => Fresh(r.id, r.priv) /\ Agrees(r.profile, r.id, r.priv)

SyncAgrees(l, j) ==
  l = "sync" => Fresh(j.seen.id, j.seen.priv) /\ Agrees(j.profile, j.seen.id, j.seen.priv)

ExtraInv ==
  /\ \A f \in Profiles : Fresh(account[f].id, account[f].priv)
  /\ \A r \in inflight : Careful(r)
  /\ \A p \in Procs : SyncAgrees(pc[p], job[p])

\* an account keeps its identity and its unrelated privilege, is removed, or
\* is made by a command
KeptOrMade(f) ==
  \/ account'[f].id = account[f].id /\ ("extra" \in account'[f].priv <=> "extra" \in account[f].priv)
  \/ account[f].id # <<>> /\ account'[f] = NoAccount
  \/ account[f] = NoAccount /\ account'[f].id \in Drawn /\ "extra" \notin account'[f].priv

LEMMA RequestCareful ==
  ASSUME TypeInv, ExtraInv, NEW p \in Procs, pc[p] \in SendingLabels
  PROVE  Careful(RequestOf(p))
<1>0. job[p].profile \in Profiles
  BY DEF TypeInv, JobOK, Started, SendingLabels
<1>1. pc[p] # "delete" => job[p].op \in Drawn
  <2> SUFFICES ASSUME pc[p] # "delete" PROVE job[p].op \in Drawn
    OBVIOUS
  <2>1. job[p].action = NoAction /\ pc[p] # "idle"
    BY DEF TypeInv, JobOK, SendingLabels, BootstrapLabels
  <2>2. PICK n \in 1..drawn : job[p].op = <<n>>
    BY <2>1 DEF TypeInv, JobOK, Started
  <2>3. drawn \in 0..MaxOps /\ MaxOps \in Nat
    BY BootstrapAssumption DEF TypeInv, ProcessType
  <2>4. n \in 1..MaxOps
    BY <2>2, <2>3
  <2> QED
    BY <2>2, <2>4 DEF Drawn
<1>2. CASE pc[p] \in {"create_user", "create_key", "delete"}
  BY <1>1, <1>2 DEF RequestOf, Request, Careful
<1>3. CASE pc[p] \in {"grant", "revoke"}
  <2>1. /\ RequestOf(p).kind = "update_priv" /\ RequestOf(p).profile = job[p].profile
        /\ RequestOf(p).id = job[p].op /\ "extra" \notin RequestOf(p).priv
    BY <1>3 DEF RequestOf, Request
  <2>2. Fresh(account[job[p].profile].id, account[job[p].profile].priv)
    BY <1>0 DEF ExtraInv
  <2> QED
    BY <1>1, <1>3, <2>1, <2>2 DEF Careful, Fresh, Agrees
<1>4. CASE pc[p] = "sync"
  <2>1. /\ RequestOf(p).kind = "update_priv" /\ RequestOf(p).profile = job[p].profile
        /\ RequestOf(p).id = job[p].seen.id /\ RequestOf(p).priv = job[p].seen.priv \cup {"expected"}
    BY <1>4 DEF RequestOf, Request
  <2>2. SyncAgrees("sync", job[p])
    BY <1>4 DEF ExtraInv
  <2> QED
    BY <2>1, <2>2 DEF Careful, Fresh, Agrees, SyncAgrees
<1> QED
  BY <1>2, <1>3, <1>4 DEF SendingLabels

LEMMA ApplyCareful ==
  ASSUME TypeInv, NEW r \in RequestType, Careful(r), Accepts(r), Apply(r), NEW f \in Profiles
  PROVE  KeptOrMade(f)
<1>0. /\ account \in [Profiles -> Account]
      /\ r.profile \in Profiles
      /\ r.kind \in {"create_user", "update_priv", "create_key", "delete_key", "delete_user"}
  BY DEF TypeInv, ApplianceType, RequestType
<1>1. CASE account'[f] = account[f]
  BY <1>1 DEF KeptOrMade
<1>2. CASE r.kind = "create_user" /\ f = r.profile
  BY <1>0, <1>2 DEF Apply, Accepts, KeptOrMade, Careful
<1>3. CASE r.kind = "update_priv" /\ f = r.profile
  <2>1. account[f].id = r.id /\ r.id # <<>>
    BY <1>3 DEF Accepts
  <2>2. account' = [account EXCEPT ![r.profile] = IF @.id = r.id THEN [@ EXCEPT !.priv = r.priv] ELSE @]
    BY <1>3 DEF Apply
  <2>3. PICK a \in Account : a = account[f]
    BY <1>0
  <2> DEFINE b == [a EXCEPT !.priv = r.priv]
  <2>4. b.id = a.id /\ b.priv = r.priv
    BY <2>3 DEF Account
  <2>5. account'[f] = b
    BY <1>0, <1>3, <2>1, <2>2, <2>3
  <2> HIDE DEF b
  <2> QED
    BY <1>3, <2>1, <2>3, <2>4, <2>5 DEF KeptOrMade, Careful, Agrees
<1>4. CASE r.kind = "delete_user" /\ f = r.profile
  BY <1>0, <1>4 DEF Apply, Accepts, KeptOrMade
<1>5. r.kind \in {"create_key", "delete_key"} \/ f # r.profile => account'[f] = account[f]
  BY <1>0 DEF Apply
<1> QED
  BY <1>0, <1>1, <1>2, <1>3, <1>4, <1>5

LEMMA ExtraSteps ==
  ASSUME TypeInv, ExtraInv, [Next]_vars
  PROVE  \/ /\ \A f \in Profiles : KeptOrMade(f)
            /\ \A r \in inflight' : Careful(r)
         \/ \E f \in Profiles : Administer(f)
<1>0. \A r \in inflight : Careful(r) /\ r \in RequestType
  BY DEF ExtraInv, TypeInv, ApplianceType
<1>1. ASSUME UNCHANGED account PROVE \A f \in Profiles : KeptOrMade(f)
  BY <1>1 DEF KeptOrMade
<1>2. CASE UNCHANGED <<account, inflight>>
  BY <1>0, <1>1, <1>2
<1>3. ASSUME NEW p \in Procs, SendingStep(p)
      PROVE  (\A f \in Profiles : KeptOrMade(f)) /\ \A r \in inflight' : Careful(r)
  <2>1. pc[p] \in SendingLabels
    BY <1>3, SendingSteps DEF SendingStep
  <2>2. PICK r \in RequestType : r = RequestOf(p)
    BY <2>1, RequestOfType
  <2>3. Careful(r)
    BY <2>1, <2>2, RequestCareful
  <2>4. CASE Accepts(RequestOf(p)) /\ Apply(RequestOf(p)) /\ UNCHANGED inflight
    BY <1>0, <2>2, <2>3, <2>4, ApplyCareful
  <2>5. CASE UNCHANGED <<account, keys>> /\ inflight' \in {inflight, inflight \cup {RequestOf(p)}}
    BY <1>0, <1>1, <2>2, <2>3, <2>5
  <2> QED
    BY <1>3, <2>4, <2>5, SendingMoves
<1>4. ASSUME NEW r \in inflight, Land(r)
      PROVE  (\A f \in Profiles : KeptOrMade(f)) /\ \A x \in inflight' : Careful(x)
  <2>1. inflight' \subseteq inflight /\ (IF Accepts(r) THEN Apply(r) ELSE UNCHANGED <<account, keys>>)
    BY <1>4 DEF Land
  <2>2. \A f \in Profiles : KeptOrMade(f)
    BY <1>0, <1>1, <2>1, ApplyCareful
  <2> QED
    BY <1>0, <2>1, <2>2
<1>5. ASSUME NEW p \in Procs, CommandStep(p) \/ Crash(p)
      PROVE  SendingStep(p) \/ UNCHANGED <<account, inflight>>
  BY <1>5, CommandEffect
<1>6. ASSUME NEW p \in Procs, NEW f \in Profiles,
             StartBootstrap(p, f) \/ InspectIncident(p, f) \/ StartRecovery(p, f)
      PROVE  UNCHANGED <<account, inflight>>
  BY <1>6 DEF StartBootstrap, InspectIncident, StartRecovery, appliance
<1>7. ASSUME NEW ns, NEW a, RecordRecoveryRequired(ns, a) PROVE UNCHANGED <<account, inflight>>
  BY <1>7 DEF RecordRecoveryRequired, appliance
<1>8. CASE UNCHANGED vars
  BY <1>2, <1>8 DEF vars
<1> QED
  BY <1>2, <1>3, <1>4, <1>5, <1>6, <1>7, <1>8, NextCases

LEMMA AgreesKept ==
  ASSUME NEW f, NEW id, NEW priv, KeptOrMade(f), Fresh(id, priv), Agrees(f, id, priv)
  PROVE  Agrees(f, id, priv)'
BY DEF KeptOrMade, Fresh, Agrees, NoAccount

\* the process that moves
LEMMA SyncMover ==
  ASSUME TypeInv, ExtraInv, NEW p \in Procs, CommandStep(p) \/ Crash(p)
  PROVE  SyncAgrees(pc[p], job[p])'
<1>0. /\ job[p] \in Job /\ JobOK(p) /\ pc \in [Procs -> Labels] /\ job \in [Procs -> Job]
      /\ pc[p] # "idle" /\ job[p].profile \in Profiles
  BY CommandShape DEF TypeInv, ProcessType, JobOK, Started
<1>1. ASSUME EndProcess(p) PROVE SyncAgrees(pc[p], job[p])'
  BY <1>0, <1>1 DEF EndProcess, SyncAgrees
<1>2. ASSUME NEW l \in Labels, NEW j \in Job, GoesOn(p, l, j), l # "sync"
      PROVE  SyncAgrees(pc[p], job[p])'
  BY <1>0, <1>2 DEF GoesOn, SyncAgrees
<1>3. CASE LockStep(p) \/ ClassifyLoad(p) \/ ClassifyInspect(p) \/ CheckReadOnly(p) \/ Crash(p)
  <2>1. CASE \E l \in Labels \ {"idle"}, j \in Job : GoesOn(p, l, j) /\ <<pc[p], l>> \in LockFlow
    BY <1>2, <2>1 DEF LockFlow
  <2> QED
    BY <1>1, <1>3, <2>1, LockMoves
<1>4. CASE JournalStep(p)
  <2>2. CASE \E j \in Job : GoesOn(p, "head", j)
    BY <1>2, <2>2 DEF Labels, SharedLabels
  <2>3. CASE \E l \in Labels \ {"idle"}, j \in Job : GoesOn(p, l, j) /\ HeadMoves(p, l, j)
    BY <1>2, <2>3 DEF HeadMoves
  <2> QED
    BY <1>0, <1>1, <1>4, <2>2, <2>3, JournalMoves
<1>5. ASSUME Fail(p) \/ Succeed(p) PROVE SyncAgrees(pc[p], job[p])'
  <2>1. PICK j \in Job : GoesOn(p, "append", j)
    BY <1>5, FailGoesOn
  <2> QED
    BY <1>2, <2>1 DEF Labels, SharedLabels
<1>6. CASE SendingStep(p)
  <2>1. pc[p] # "sync_read"
    BY <1>6, SendingSteps DEF SendingStep, SendingLabels
  <2>2. CASE \E l \in Labels \ {"idle"}, j \in Job : Flows(p, l, j)
    BY <1>2, <2>1, <2>2 DEF Flows, EngineFlow
  <2> QED
    BY <1>5, <1>6, <2>2, SendingMoves
<1>7. CASE ReadingStep(p)
  <2>0. UNCHANGED account
    BY <1>7, ReadingSteps DEF appliance
  <2>1. CASE \E l \in Labels \ {"idle"}, j \in Job :
              Flows(p, l, j) /\ (l = "sync" => j.seen = account[job[p].profile])
    <3>1. PICK l \in Labels, j \in Job :
              Flows(p, l, j) /\ (l = "sync" => j.seen = account[job[p].profile])
      BY <2>1
    <3>2. pc'[p] = l /\ job'[p] = j /\ j.profile = job[p].profile
      BY <1>0, <3>1 DEF Flows, GoesOn, Same
    <3>3. Fresh(account[job[p].profile].id, account[job[p].profile].priv)
      BY <1>0 DEF ExtraInv
    <3> QED
      BY <2>0, <3>1, <3>2, <3>3 DEF SyncAgrees, Agrees, Fresh
  <2> QED
    BY <1>5, <1>7, <2>1, ReadingMoves
<1>8. CASE PersistKey(p) \/ PersistFails(p)
  BY <1>1, <1>5, <1>8, PersistMoves
<1> QED
  BY <1>3, <1>4, <1>6, <1>7, <1>8, CommandSteps

LEMMA ExtraNext == TypeInv /\ ExtraInv /\ [Next]_vars => ExtraInv'
<1> SUFFICES ASSUME TypeInv, ExtraInv, [Next]_vars PROVE ExtraInv'
  OBVIOUS
<1>0. pc \in [Procs -> Labels] /\ job \in [Procs -> Job] /\ account \in [Profiles -> Account]
  BY DEF TypeInv, ProcessType, ApplianceType
<1>1. CASE \E f \in Profiles : Administer(f)
  <2>1. PICK g \in Profiles, a \in InitialAccounts :
              Administer(g) /\ account' = [account EXCEPT ![g] = a]
    BY <1>1 DEF Administer
  <2>2. inflight' = {} /\ \A p \in Procs : pc'[p] = "idle"
    BY <2>1 DEF Administer, Quiet
  <2>3. a.id \notin Drawn
    BY BootstrapAssumption DEF Drawn
  <2>4. \A f \in Profiles : Fresh(account'[f].id, account'[f].priv)
    BY <1>0, <2>1, <2>3 DEF ExtraInv, Fresh
  <2> QED
    BY <2>2, <2>4 DEF ExtraInv, Fresh, SyncAgrees
<1>2. CASE (\A f \in Profiles : KeptOrMade(f)) /\ \A r \in inflight' : Careful(r)
  <2>1. ASSUME NEW f \in Profiles PROVE Fresh(account[f].id, account[f].priv)'
    <3>1. KeptOrMade(f) /\ Fresh(account[f].id, account[f].priv)
      BY <1>2 DEF ExtraInv
    <3> QED
      BY <3>1 DEF KeptOrMade, Fresh, NoAccount
  <2>2. ASSUME NEW r \in inflight' PROVE Careful(r)'
    <3>1. r.profile \in Profiles
      BY NextType DEF TypeInv, ApplianceType, RequestType
    <3>2. Careful(r) /\ KeptOrMade(r.profile)
      BY <1>2, <3>1
    <3> QED
      BY <3>2, AgreesKept DEF Careful, Fresh
  <2>3. ASSUME NEW q \in Procs, pc'[q] = pc[q], job'[q] = job[q] PROVE SyncAgrees(pc[q], job[q])'
    <3>1. CASE pc[q] # "sync"
      BY <2>3, <3>1 DEF SyncAgrees
    <3>2. CASE pc[q] = "sync"
      <4>1. PICK f \in Profiles, j \in Job : j = job[q] /\ f = j.profile
        BY <1>0, <3>2 DEF TypeInv, JobOK, Started
      <4>2. Fresh(j.seen.id, j.seen.priv) /\ Agrees(f, j.seen.id, j.seen.priv) /\ KeptOrMade(f)
        BY <1>2, <3>2, <4>1 DEF ExtraInv, SyncAgrees
      <4>3. Agrees(f, j.seen.id, j.seen.priv)'
        BY <4>2, AgreesKept
      <4>4. j = job'[q]
        BY <2>3, <4>1
      <4> QED
        BY <4>1, <4>2, <4>3, <4>4 DEF SyncAgrees, Agrees, Fresh
    <3> QED
      BY <3>1, <3>2
  <2>4. ASSUME NEW q \in Procs PROVE SyncAgrees(pc[q], job[q])'
    <3>1. ASSUME NEW p \in Procs, CommandStep(p) \/ Crash(p) PROVE SyncAgrees(pc[q], job[q])'
      <4>1. CASE p = q
        BY <3>1, <4>1, SyncMover
      <4>2. CASE p # q
        BY <2>3, <3>1, <4>2, CommandOthers
      <4> QED
        BY <4>1, <4>2
    <3>2. ASSUME NEW p \in Procs, NEW f \in Profiles, StartBootstrap(p, f) PROVE SyncAgrees(pc[q], job[q])'
      <4>1. pc' = [pc EXCEPT ![p] = "classify"]
        BY <3>2, StartBootstrapEffect
      <4>2. PICK j \in Job : BootstrapJob(p, f, j)
        BY <3>2, StartBootstrapJob
      <4>3. job' = [job EXCEPT ![p] = j]
        BY <4>2 DEF BootstrapJob
      <4>4. CASE p = q
        BY <1>0, <4>1, <4>4 DEF SyncAgrees
      <4>5. CASE p # q
        BY <1>0, <2>3, <4>1, <4>3, <4>5
      <4> QED
        BY <4>4, <4>5
    <3>3. ASSUME NEW p \in Procs, NEW f \in Profiles, StartRecovery(p, f) PROVE SyncAgrees(pc[q], job[q])'
      <4>1. pc' = [pc EXCEPT ![p] = "acquire"]
        BY <3>3, StartRecoveryEffect
      <4>2. PICK j \in Job : job' = [job EXCEPT ![p] = j]
        BY <3>3, StartRecoveryEffect
      <4>3. CASE p = q
        BY <1>0, <4>1, <4>3 DEF SyncAgrees
      <4>4. CASE p # q
        BY <1>0, <2>3, <4>1, <4>2, <4>4
      <4> QED
        BY <4>3, <4>4
    <3>4. CASE UNCHANGED <<pc, job>>
      BY <2>3, <3>4
    <3> QED
      BY <3>1, <3>2, <3>3, <3>4, NextCases
         DEF InspectIncident, Land, Administer, RecordRecoveryRequired, vars
  <2> QED
    BY <2>1, <2>2, <2>4 DEF ExtraInv
<1> QED
  BY <1>1, <1>2, ExtraSteps

LEMMA ExtraInit == Init => ExtraInv
<1> SUFFICES ASSUME Init PROVE ExtraInv
  OBVIOUS
<1>1. \A f \in Profiles : account[f] \in InitialAccounts
  BY DEF Init
<1>2. \A f \in Profiles : account[f].id \notin Drawn
  BY <1>1, BootstrapAssumption DEF Drawn
<1> QED
  BY <1>2 DEF Init, ExtraInv, Fresh, SyncAgrees

\* _provision_existing_account(): no step of a command, and no request of one
\* that lands late, takes an unrelated privilege away from an account that
\* stays, whatever else is under way for the same account.
THEOREM UnrelatedPrivilegesKept == Spec => ForeignPrivilegesKept
<1>1. Init => TypeInv /\ ExtraInv
  BY InitType, ExtraInit
<1>2. TypeInv /\ ExtraInv /\ [Next]_vars => (TypeInv /\ ExtraInv)'
  BY NextType, ExtraNext
<1>3. TypeInv /\ ExtraInv /\ [Next]_vars =>
        [~Quiet => \A f \in Profiles :
           ("extra" \in account[f].priv /\ account'[f].id = account[f].id)
             => "extra" \in account'[f].priv]_vars
  <2> SUFFICES ASSUME TypeInv, ExtraInv, [Next]_vars, ~Quiet, NEW f \in Profiles,
                      "extra" \in account[f].priv, account'[f].id = account[f].id
               PROVE  "extra" \in account'[f].priv
    OBVIOUS
  <2>1. KeptOrMade(f)
    BY ExtraSteps DEF Administer
  <2> QED
    BY <2>1 DEF KeptOrMade, NoAccount
<1> QED
  BY <1>1, <1>2, <1>3, PTL DEF Spec, ForeignPrivilegesKept
=============================================================================
