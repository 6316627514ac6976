# A formal model of the pfSense MCP server

This directory holds TLA+ modules that model the pfSense MCP server and the
programs around it, TLC configurations that check them on small instances, and
TLAPS proofs of the most important results for every value of the constants. Paths
below are relative to the repository; `tier1/` stands for `src/pfsense_mcp/tier1/`
and other bare names for files of `src/pfsense_mcp/`.

## 1. The system

The server exposes about 130 tools to a model client; nearly all are reads. The
rest of the code exists so that the few writes happen exactly as authorised, at most
once, and that what happened is never misreported.

**The write path**

1. *Write coordination* (`tier1_write_bridge.py`, `tier1/production_runtime.py`,
   `tier1/write_execution_core.py`). Each call builds a fresh runtime, reads the
   alias, looks for a contract by idempotency key, and either resumes it or spends a
   signed authorisation and creates one; it then delivers a confirmation request,
   picks up the signed confirmation and calls the executor. *State:* four fixed files,
   per-call memory, one row per spent authorisation.
2. *Recovery contract store* (`tier1/store.py`, `contract.py`, `state_machine.py`,
   `rate_policy.py`). *State:* contracts with state and version, one reservation per
   target, an audit chain per contract, cooldowns and the high-water mark, in one
   SQLite file that several processes open.
3. *Mutation executor* (`tier1/executor.py`, `faults.py`, `transport/`): re-reads the
   target, sends one PATCH, classifies what is known about its effect, reads back.
   On construction it sweeps interrupted contracts to RECONCILIATION.
4. *Anti-rollback witness* (`tier1/anti_rollback*.py`, `witness_daemon/`): a TPM
   counter behind an HTTP daemon; the store may start executing only if the counter
   equals its mark, and advances both.
5. *Key lifecycle* (`tier1/key_lifecycle.py`): the file counter behind AES-GCM nonces
   and the rotation of stored artifacts.
6. *Batch-1 writes* (`tier1/write_batch1_production_runtime.py`, `shape_a_*.py`,
   `sealed_write_approval.py`) and the *owner's signing programs* (`signing/`): one
   request at a time, carried by hand between two hosts in files with fixed names,
   signed singly or as a batch; the *adapters* that read, patch and check one setting.

**Administration**

7. *Bootstrap and recovery* (`security_bootstrap_*.py`, `security_recovery_*.py`,
   `security_operation_journal.py`): a service account, its privileges and its key are
   made over the network under an authenticated journal and an exclusive lock, and
   what an incident left is revoked, deleted or resolved. *State:* journals with their
   heads, lock files, the custody file, the appliance.
8. *Posture* (`security_plan*.py`, `security_authorization*.py`,
   `security_discovery*.py`, `security_doctor.py`, `tier1/execution_coordinator.py`):
   the posture is discovered, a plan derived and signed, and its steps granted once.
9. *Setup* (`security_cli.py`, `security_setup_*.py`,
   `security_client_config_write.py`): a wizard, a plan confirmed in a second run, and
   the entry written into the client's configuration file.
10. *Authentication transition* and *laboratory ceremony*: two sequences of requests
    that change how and as whom the appliance is reached.

**Reading**

11. *Server and read tools* (`application.py`, `config.py`, `profiles.py`,
    `tools/registry.py`, `pfsense_client.py`, `models/`): start-up, registration by
    capability and allow list, a call from its audit record to its answer.
12. *API guidance* (`pfrest_docs/`, `tools/read/api_guidance.py`): a document cache, the
    index parsed from it and the appliance's own schema.

What is hard here: two processes between the load and the commit of a store method;
a crash between any two durable steps; requests that time out and land later; a
witness reply lost after the counter moved; an older copy of the store file; an
administrator who edits meanwhile; files left behind by an earlier operation or
written anew while somebody looks at them; what was read before a lock and used after
it; answers that survive going back. `PROJECT.json` lists the hazards at their lines,
each with the properties that would catch it.

## 2. Modules

| module | models | composed of |
|---|---|---|
| `RecoveryStates` | state machine, fault classification, outcome table | |
| `RecoveryStore` | store, rate policy, gate; several processes | `RecoveryStates` |
| `Executor` | executor, wire, appliance, administrator, operator | `RecoveryStates` |
| `WriteFlow` | one alias call from request to hand-off; files, owner, clock | `RecoveryStates` |
| `AnchorSpec` | what an anti-rollback anchor promises | |
| `Witness` | gates, HTTP, daemon, TPM, backup and restore | instance of `AnchorSpec` |
| `NonceCounter` | the counter file, system call by system call | |
| `ShapeACeremony` | the Batch-1 server and its files | `RecoveryStates` |
| `ShapeASigning` | the owner's programs, files, posture and settings around it | `ShapeACeremony` |
| `WriteAdapters` | the adapters of several contracts on shared settings | |
| `OperationJournal` | journal, head, lock file and flock | |
| `Bootstrap` | provisioning, network and appliance | `OperationJournal` |
| `AdminCommands` | recovery, crashes, administrator; the whole | `Bootstrap` |
| `SecurityPlan` | plans, steps, digest: pure operators | |
| `PostureLifecycle` | discovery, doctor, authorisations, coordinators, operator | `SecurityPlan` |
| `SetupWizard`, `SetupCommands` | the wizard; apply, client file, confirmation key | |
| `AuthTransition`, `LabCredential` | the two request sequences | |
| `ReadModels`, `ReadCatalogue` | response models; table of reads and capabilities | |
| `ReadServer` | start-up, registration, a call | the two above |
| `PfrestDocs` | caches and evidence of the guidance tool | |
| `RecoveryStoreProofs`, `WitnessProofs`, `ExecutorProofs`, `WriteFlowProofs`, `AdminCommandsProofs`, `PostureProofs` | theorems, section 4 | the module named |
| `CeremonyProofs` | the same for the Batch-1 ceremony | `ShapeASigning` |
| `OperationsProofs` | the same for the eight programs of `MCOperations` | those modules |
| `MC*` | constants for TLC; `MCOperations` also the sum of eight programs | the module named |

**RecoveryStore.** Every method of the code loads a contract, checks it, builds the
new one in memory and commits it in a compare-and-set transaction (`_replace`).
`Begin...` is the first half, with the method's own guards; `Replace` or
`RefuseReplace` is the second, with the reservation, the audit event and the
cooldown that the same transaction writes. `call[p]` is what the process carries in
between, so any other process can act there. The transition to EXECUTING has its
own transaction first (`OpenGate`, `AdvanceAnchor`, `CommitGate`, and the
exceptions), which holds SQLite's write lock in `writer`. `LoadRow`,
`LoadReservation` and `LoadAudit` are the three SELECTs of `load()`, which runs
without a transaction. A `Begin...` reads the row in one step although the code
reads it with such a `load()`: `LoadReturnsCurrentRow` is the justification, and it
is proved. MACs are not modelled: a file nobody tampers with always carries valid
ones.

**Executor.** A store method is one step here, which `CompareAndSetSuffices` and
`SingleFlight` justify. A server goes through `gate`, `pre`, `send`, `wait`, `post`
and `finish`; a request stays in `wire` until the appliance applies or ignores it,
whether or not its server is still waiting. The alias table is addressed by
position, as the API addresses it, so reordering it matters. `PatientOperator` says
that an operator resolves a doubt only once nothing can land any more, as the
procedure asks. `ResetAfterSend` says whether a connection may break after the
request was written (section 5). `touched` is history: since a
contract's last read an administrator edited the table, or a request that such an
edit had overtaken took effect. `rollback()` is modelled although no production
call site uses it (ADR-037).

**WriteFlow.** One program counter per server, one action per durable step of
`request_alias_description_change`. The call keeps the time at which it began
(`now`) and the code's checks use it or the clock, whichever the code uses. A store
method that reads the clock is two steps, the check and the commit, as in
`RecoveryStore`: time may pass in between, and no commit looks at the clock again.
`at` and `confirmedAt` keep the instant of the check. `Ask`
includes the sweep that building a runtime performs. The exchange with the
appliance is one step (`Run`), refined by `Executor`. Signatures are perfect: a
grant or confirmation exists only if the owner signed it.

**Witness.** Requests are numbered; `ask` and `reply` outlive the client. The
daemon serves one at a time, `Check`, `Increment` and `Reread` under its lock.
`Crash` stands for a dead process and for a rate refusal after the advance, which
both roll back the mark and leave the counter. `Backup` and `Restore` copy a store
file. The history variables `moved`, `sent`, `disturbed`, `refused` are read by no
action except that `Create` uses `sent` to keep identifiers fresh and `moved` is
the abstract counter's own state.

**NonceCounter.** Read, truncate, write and sync are separate steps, and a power
loss leaves the old content, the new one or a torn file.

**ShapeACeremony and ShapeASigning.** One action per durable step of a Batch-1
request and one per file a signing program reads, shows, signs or writes. A batch
shows all previews, takes one yes, and reads each file again before signing it; that
gap is the point of the module. A file has a body and the body its MAC was made for,
so a damaged file is a difference between the two. Authorisations live as long as
`Validity`; the order in which a command takes its capabilities is left open.
Production wires neither a source of sealed approvals nor their authorities, so there
every STANDARD_SEALED_WRITE contract ends FAILED; the model gives it a source, as the
tests do.

**OperationJournal, Bootstrap, AdminCommands.** A record and the head that
authenticates it are two durable writes; the lock is a flock plus metadata that is
truncated and rewritten. A request to the appliance stays in `inflight` until it is
served or lost. The walk over the generations that a command makes before it takes
the lock is one step, and what it saw may be stale. Object ids are unique although
pfSense numbers by position. An administrator edits only while no command runs. An
operator holds the last token printed for him. Shipped code never appends
RECOVERY_REQUIRED, so revocation and deletion are reached through
`RecordRecoveryRequired`, which is marked external.

**SecurityPlan and PostureLifecycle.** A plan is a pure function of a discovery and a
target; the digest is modelled by what it covers. Discovery reads store, export and
witness at different steps while a gate may run. Two coordinators spend the same
authorisations. The operator carries out the steps of a plan in its order.

**SetupWizard and SetupCommands.** The wizard is one action per screen, with every
combination of flags as an initial state. A setup command is one action per system
call on the client file, its backup and the key, next to an editor of the same file
and an operator who removes files by hand. A command that undoes its key file compares
the file by name (`CheckKeyFile`) and unlinks by name (`UndoKeyFile`); `handRemoved`
says that an operator removed the file in between. The backup's one `os.write` may be
short. `lost` collects what is in neither the file nor the backup any more, except
what somebody wrote after the command had taken its backup and what a short write left
out (the command is `uncovered`).

**AuthTransition, LabCredential, WriteAdapters.** One action per request and one per
effect, which may come late, never, or between a later request and its observation.
In `WriteAdapters` two contracts work on settings of which two belong to one object
and one to a list that can shift. The administrator sets any field to any value,
changes any prefer flag, removes any server, the target too, and enters one anywhere,
the target again included; `touched` are the contracts whose own value he set in their
course.

**ReadModels, ReadCatalogue, ReadServer.** One definition per response model, saying
what it demands of an entry and what it withholds, and one row per read. `ReadServer`
starts the process through every refusal of configuration and key file, registers
tools and carries a call from its audit record through status, shape and validation to
its answer. Names and types of single fields are left out.

**PfrestDocs.** Documents are their content hash. Time, upstream and appliance move
while a fetch is under way; lookup, fetch and the appliance's schema are separate
steps of a call.

## 3. Runs

`tlc -config X.cfg MODULE`; three minutes or less each on two workers.

| run | states | question |
|---|---|---|
| `store_contention` | 0.5M | two processes, two contracts of one target, anchor and rate policy, crashes: single flight, reservations, idempotency, confirmation, anchor accounting, creation limits |
| `store_rotation` | 1.4M | key rotation and a three-snapshot reader against every other method: no lost update, current loads, resolutions that fit their origin |
| `executor_shared` | 3.3M | two servers, two contracts on one alias with a neighbour, one edit or reordering, one crash: sent once, reservation kept, no blind overwrite, outcomes true |
| `executor_live` | 13k | two crashes, fairness: an interrupted contract is always reconciled |
| `executor_reset` | | a disagreement, section 5 |
| `flow_shared` | 3.2M | two servers through the same files, failing stores, one crash or edit: nothing used twice, handed off as authorised and confirmed, confirmation and execution decided in time |
| `witness_restore` | 412k | timeouts, crashes, an outage, a restore: executed once; refinement of `AnchorSpec` |
| `witness_vanish` | 462k | increments without effect, backup at any time: marks never ahead, no refusal without a cause |
| `ceremony_shared` | 3.1M | two settings, three calls, two signing commands, one removed or damaged file: the owner signs what he saw, executed is what was approved |
| `admin_bootstrap` | 250k | two processes bootstrap and recover, crash anywhere, answers land late: the lock excludes, journals only grow and account for what is on the appliance, only the confirmed object is deleted, foreign privileges survive |
| `posture_shared` | 1.2M | two commands discover, plan, spend while the deployment changes: verified was true, grants as reviewed, once and within risk, the anchor outlives writing |
| `operations` | 2.6M | eight programs that share no state, one per behaviour: wizard, setup, authentication transition, laboratory ceremony, adapters, nonce counter, read server, guidance |

Several properties are conjunctions of named parts, each with its own comment beside
it: `AtMostOnce`, `HandedOffAsApproved`, `OwnerSignsWhatHeSaw`, `ExecutedAsApproved`,
`JournalAccounts`, `JournalHistory`, `GrantsSound`, `WizardFaithful`, `SetupFaithful`,
`TransitionSound`, `AdaptersSound`, `ServerSound`, `GuidanceSound`. Type invariants
other than the store's, `AuditMatchesState`, `OnlyLegalTransitions` and
`UsedIsDurable` are true of the same instances and not repeated in the
configurations; the last three follow from theorems.

**Why the bounds are enough.** Races in the store are pairwise: a conflict is
between a process that loaded and one that committed since, on one contract, one key
or one target. Two processes, two contracts and one target reach every combination; a
version bound of 6 or 7 lets a contract go through execution, doubt, resolution and
rollback. One tick suffices for a validity window to close and for a cooldown to pass,
and it falls anywhere between the reading of the clock and the commit. One outstanding
PREPARED contract per target is allowed in `store_contention`, so that the limit binds
with two. In `Executor`,
two contracts that want different descriptions of one alias are the smallest case in
which one can overwrite the other; the neighbour allows a reordering, and the
administrator sets the description one of them wants and the other does not. In
`WriteFlow` two grants and two contracts let files of one operation meet the next. In
`Witness`, six calls are three gates. In the ceremony, two capabilities make a batch,
one of them sealed; three calls let a second request for one setting meet the files of
the first while a batch is being signed. Two generations of a bootstrap are an
incident, its resolution and the retry; two operations let a second process come in
anywhere. One authorisation and two coordinators race for it; three acts suffice to
change the deployment between discovery, signature and use, and back. Four setup
commands are two confirmations of two runs each. The guidance instance has one cache
entry, so that a topic evicts the document, a second document, a body that does not
parse, and three ticks, enough for an entry to pass its lifetime and its grace period.
The proofs remove these bounds where they apply. Bounds on clock, versions, calls,
crashes and edits end behaviours that the system would continue, which is why
deadlock is not checked.

**Symmetry** is used only where the permuted constants occur alike in every
definition and never in a run with a liveness property.

**Fairness.** `executor_live` assumes that a call that began takes further steps
(reads and sends end in their timeouts) and that a stopped server is started again;
nothing is assumed of the appliance, the operator or the administrator.

## 4. Proofs

Eight modules hold the proofs; the theorems hold for every value of the constants.
"Assuming" lists hypotheses beyond the named assumptions on constants.

| theorem | statement | assuming |
|---|---|---|
| *RecoveryStoreProofs* | | |
| `StoreInvariant`, `TypeCorrect` | `StoreInv` is inductive; types | |
| `SingleFlight` | at most one unsettled write per target | |
| `IntegrityChecksHold` | the checks of `load()` hold of every row, always | |
| `IdempotencyHolds` | at most one blocking contract per key | |
| `ConfirmedBeforeExecuted` | what was ever EXECUTING is confirmed | |
| `CompareAndSetSuffices` | `_replace` overwrites exactly the row that was loaded | |
| `StateMachineClosed` | only legal transitions | |
| `LoadLinearizes` | a successful `load()` returned a current row | |
| `ConclusionsFitTheOrigin` | a doubt is resolved only as its origin allows | |
| `EveryExecutionSpendsATick` | no more high-assurance executions than the mark, nor mark than anchor | |
| `ContainmentHoldsAtCommit` | no creation within a cooldown, the lockout or above the limit of PREPARED contracts, as of the commit | |
| `ResolvableUnlessRotated` | a contract in RECONCILIATION accepts some outcome | `~RotationEnabled` |
| *WitnessProofs* | | |
| `WitnessInvariant`, `MarksFollowCounter` | no mark is ahead of the counter | |
| `DaemonImplementsAnchor` | the daemon refines `AnchorSpec` | `~IncrementMayVanish` |
| `AdvanceReturnsTheNewValue` | `advance()` returns the value it moved the counter to | `~IncrementMayVanish` |
| `RestoreNeverReplays` | no contract is executed twice | `~HotBackup`, `~IncrementMayVanish` |
| `NoRefusalWithoutCause` | a rollback alarm has a cause in the store's past | one store on the daemon |
| *ExecutorProofs* | | |
| `TypeCorrect`, `EveryMoveIsLegal`, `OneReservationPerTarget` | types, legal transitions, exclusive reservations | |
| `RequestsAreSentOnce` | one request per contract and direction | |
| `RequestsUnderWayReserve` | a request that may still land keeps its target reserved | `PatientOperator`, `~ResetAfterSend` |
| `NoContractOverwritesAnother` | a request changes only what its server had verified | the same |
| `RecordedOutcomesHold` | a recorded outcome is what happened | the same |
| `ProvenNoneUnlessReset` | what `_send` calls proven zero effect had and will have none | `~ResetAfterSend` |
| *WriteFlowProofs* | | |
| `TypeCorrect` | types | |
| `AuthorizationsAndContractsUsedOnce` | one contract per authorisation, one hand-off per contract | |
| `OwnerApprovedWhatIsHandedOff` | what is handed off was authorised and confirmed | |
| `NoLateDecision` | the instants at which confirmation and execution are decided lie within the contract's and the authorisation's time; the commit may come later | |
| *CeremonyProofs* | | |
| `CeremonyInvariant` | `CeremonyInv` is inductive | |
| `ExecutedOnlyAsApproved` | an executed change was approved at every stage | |
| `OwnerSignsOnlyWhatHeSaw` | a signature is for a body the owner was shown and said yes to | |
| *AdminCommandsProofs* | | |
| `TypeCorrect`, `LockIsExclusive` | types; the lock excludes | |
| `JournalsKeepTheirHistory` | journals only grow | |
| `JournalsAccountForAll` | temporary privileges, orphan keys and retries are on record | |
| `RecoveryDeletesTheConfirmed` | only the confirmed object is deleted | |
| `UnrelatedPrivilegesKept` | no command takes a foreign privilege from an account that stays | |
| *PostureProofs* | | |
| `VerifiedMeansAgreement` | an anchor reported verified agreed when read | |
| `GrantsAreSound` | a step is granted once, as reviewed, within the signed risk | |
| `WriteGoesBeforeAnchor` | the witness stays up while WRITE is on | |
| *OperationsProofs* | | |
| `TransitionIsSound` | each authentication change is sent once, and the report stays true | |
| `NonceNeverReused`, `UsedStaysDurable` | no nonce used twice; used values are on the disk | `Exclusive` |
| `CompletedCeremonyIsClean` | a completed laboratory ceremony left a stored, working key and exactly the final privileges | |
| `SetupIsFaithful` | what is done was shown; what is displaced is kept unless the command is `uncovered`; nobody else's key is unlinked unless `handRemoved` | |
| `AdaptersAreSound` | of contracts not `touched`: a settled one tells the truth about its own field, and a patch gone elsewhere is never verified | |
| `WizardIsFaithful` | Back retraces the way of the current mode; the plan generated is the one reviewed and accepted | |
| `ServerIsSound` | tools exactly as granted, identifying metadata only on record, everything the appliance sent or an error | |
| `GuidanceIsSound` | upstream labels do not overstate the age and hashes name the facts; an appliance schema is within its lifetime unless this call's read failed | |

**Assumptions on constants.** `StoreAssumption`, `WitnessAssumption`,
`NonceAssumption`, `FlowAssumption`, `ExecutorAssumption`, `PostureAssumption`,
`BootstrapAssumption`, `CeremonyAssumption`, `AdapterAssumption`, `SetupBounds`,
`SetupInputs`, `DocsAssumption`, `CeremonyBounds` and `UnrelatedBound` say that bounds are numbers, that sets have the
members the code names and that placeholders are not members; `CeremonyAssumption`
also that there are finitely many capabilities, since a batch numbers them.
`NoProcAssumption` keeps the free lock apart from a process, and `TableAssumption`
says that the appliance starts with a table of at least one alias. TLC evaluates each
of them in a run.

**Hypotheses.** `PatientOperator` is what the procedure asks of the operator and
`~ResetAfterSend` excludes the disagreement of section 5: `executor_reset` is the
counterexample without it, `ProvenNoneUnlessReset` shows that nothing else is needed to
exclude it, and `RequestsAreSentOnce`, legality and exclusive reservations need
neither. `~HotBackup`, `~IncrementMayVanish`, `~RotationEnabled`, `Exclusive` and the
single store exclude the cases that section 5 describes; each is about a
constant, so the run and the theorem agree about what is left out.

*Store.* None of the properties is inductive by itself, because a commit depends on
a row loaded earlier. `StoreInv` adds, for every copy a process or reader holds,
`Fresh`: its version is not above the stored one, and if the versions agree the
rows are equal. Versions only grow and every write increments them, so the
compare-and-set of `_replace` implies that the row is unchanged. `GoodUpdate` says
what a method may turn the copy into, which carries legality, the key and the
confirmation to the commit. Single flight then follows from the reservation check,
a function of the target. `LoadLinearizes` rests on the audit chain having one event
per version: if its length still fits, no version was written since the first
SELECT. `HistoryInv` adds what the past must look like. `TicksInv` counts the methods
that passed their gate and have not written EXECUTING yet (`Spending`) together with
the executions in the audit chains: together they are at most the mark, which a gate
transaction raises before it adds one. `ResolvesFit` says that a resolution whose
compare-and-set can still pass fits the last audit event. `DoubtInv` says that every
method about to write a contract in doubt takes it out of doubt, which rotation alone
does not.

*Witness.* `AdvanceReturnsTheNewValue` is a consequence of the refinement: it is proved of
the steps of `AnchorSpec`, which every step of the daemon is. The invariant relates the wire to the counter: an unanswered advance has
not moved it, except the one being served, and while one is served the counter is
either still what it expected or one above. For `RestoreNeverReplays` the
strengthening says that a copy of a store in which an executed contract is still
PREPARED carries a mark below the counter, and so does what any open gate has read
from it; the gate therefore cannot pass its comparison. For `NoRefusalWithoutCause`
it says that while nothing disturbed the store its mark is the counter, except in the
gate that is about to record its own advance, and no advance is under way whose client
gave up on it (`Calm`).

*Executor.* `ExecInv` ties a server's locals to the rows: past the gate a server is
either outdated (the row has a newer version, so its commit will be refused) or its
contract is in flight in its own direction. One server at most is on its way to the
request of a contract and direction, and a contract that has sent it is beyond the
gate that would open again (`Beyond`). `ReserveInv` adds that one request of a
contract at most is under way and that a server which is certain of the outcome and
still owns its contract has nothing pending. `TruthInv` adds that the entry a request
addresses is the one its server verified, unless `touched`; that an unedited alias
differs from the snapshot in its description alone; and what a verdict about to be
recorded says about `landed` and the table. `NoneInv` says that the request a server
gave up on was not sent, is past its gate, and has no other server on its way to it;
past a gate is past it for good (`BeyondForGood`), so nobody can send it later, even
if the operator resolved the doubt too early.

*WriteFlow.* The files carry the strengthening: what is in the inbox was granted,
what is in `signed` was confirmed, what is in `pending` is a contract. Between its
consumption and the contract made from it an authorisation belongs to one call
(`SpendInv`); between its confirmation and its execution a contract belongs to one
call and was not executed before (`HandoffInv`). `ExpiryInv` ties the contract's end
to the authorisation's, `TimeInv` every confirmed contract to evidence that was valid
at the instant it records, and `TimeOK` the same for the instant a call holds between
its check and its commit.

*Ceremony.* Names of files are reused and bodies may be damaged, so nothing can be
said about a body alone. `FilesInv` speaks about MACs: that of a request file is of
something the server asked under that name, that of a signed file of something the
tool signed. `SignedInv` leads every signature back to a yes of the owner, and
`ContractsInv` every contract to one yes and every executed one to two, and to a
sealed approval of its version where the capability asks for one.

*AdminCommands.* `TypeInv` includes which labels a bootstrap and which a recovery can
be at. `LockInv` says that a process inside the lock holds the flock. `ChainInv` says
that every incident but the first of a profile descends from one whose resolution is
recorded complete, begun by an earlier operation. For `JournalAccounts`, `AccountInv`
says that everything a bootstrap left on the appliance or may still leave there names
an operation whose journal is open (`TracedInv`), and that a bootstrap which has not
given up left nothing it does not know of (`CleanInv`). For the deletions, `WaitInv`
says that while an incident waits for one no bootstrap of the profile gets past its
classification and nothing new can appear, so that the object named by the token is
the only one there can be (`ConfirmInv`). The walk over the generations is a recursive
function; facts about it are proved with `SetInduction`, an induction over a set of
numbers from the library's theorem that one without a smallest element is empty.

*Posture.* The first part is about the planner alone: which steps a plan can hold,
what its digest determines, and that the deactivation of the anchor comes after that
of writing. `WorldInv` keeps the store's mark at or below the witness and `CommandOK`
the same for what a discovery has read so far; `SignedFor`, `Requested` and `Fresh`
carry the reviewed plan from the signature to the grant, and `TodoInv` the order of
what the operator still has to do.

*Operations.* The eight programs share no state. Authentication: a change is sent in
its own call, and the second only after the first was seen. Nonce: what the file and
the disk hold is at least every value used, or unreadable (`Covers`); the value in
memory is above every used one and on the disk before it is used (`HoldsFresh`).
Laboratory: `LabInv` says what a ceremony knows of account and file at each label.
Setup: `CommandInv` says that what a command confirmed was printed, and that until
somebody overtakes it the file is as it was when its backup was taken, or as it wrote
it; so `lost` stays empty; `KeyInv` says that a command about to unlink has its own
file under the name, as long as nobody removed it by hand: an exclusive creation cannot
replace it. Adapters: `PreferInv` says how far a contract for a list entry can be
believed at each state while the list shifts, and `Undisturbed` that only an edit that
marks a contract `touched` changes its own value under it. Wizard: `WizardInv` says
that at step `i` of the mode answered the history is the way of that mode to it
(`WayTo`, the earlier steps less those the flags answered) and that the fields earlier
steps ask for are answered; `WayGrows` and `WayBack` are the two directions. Read
server: the tables of reads, tools and capabilities are finite and are proved row by
row (`RegistryRows`, `RegistryComplete`); a process that is not serving has no call and
no answer, and one that is has registered what profile and allow list grant. Guidance:
`DocsInv` says that a cached copy was served when it was put (`ServedWithin`), that a
stale copy remembered by a lookup was within its grace when the call began, that an
index belongs to its hash, and that no schema was superseded before it was read.

**What the proofs changed.** Three properties that held in their runs were false in
general, and the attempts to prove them showed it. `NoBlindOverwrite` and
`OutcomesAreTrue` failed for contracts on different aliases: after an edit the first
request lands in the second one's position, so `Executor` now records `touched` per
contract and the properties speak about it. `SetupFaithful` failed with more commands
than the run has: a second command, not only an editor, can write the file after the
backup was taken; `SetupCommands` now marks every overtaken command.

**What the properties leave out.** `AdaptersSound` says nothing of `touched` contracts,
`SetupFaithful` nothing of what `uncovered` commands displace nor of a key unlinked
after `handRemoved`, `DecidedInTime` nothing of when a decision commits, `GuidanceSound`
nothing of two statements of the answer. In each case the code does otherwise and
section 5 says how; without its exclusion TLC finds the counterexample.

Two definitions were restated without a filter over a sequence, which the prover cannot
evaluate: the way to each of the five steps is written out in `WayTo`, and an entry
leaves the cache of `PfrestDocs` by its position. They mean what they meant.

**Only model-checked.** Every safety property a run checks is proved.
`InterruptedIsReconciled` is liveness under fairness, which this prover does not do.
What a recursive definition computes for every input would need induction over data.
The formulas of section 5 are false as they stand; three of them (`ProvenNoneIsProven`,
which `executor_reset` refutes, `ReconciliationResolvable` and `AdvanceReturnsNewValue`)
are proved once the step the code takes is excluded, so that step is the only cause.

## 5. Where the code and its documents disagree

A run that TLC must refute:

- **`executor_reset`**: a connection lost after the request was written is raised as
  `TransportConnectionError` and recorded as proof of no effect (`executor.py:739`).
  `executor_shared` excludes it with `ResetAfterSend = FALSE`, and
  `ProvenNoneUnlessReset` proves that this step alone makes it false.

Formulas that state what a document says and that fail when added to the
configuration named:

- `ReconciliationResolvable` (`store_rotation`): rotating the artifacts of a contract
  in RECONCILIATION appends an audit event from RECONCILIATION;
  `resolve_reconciliation` takes the origin of the doubt from the last event
  (`store.py:1120`) and refuses every outcome from then on. The target stays reserved.
  `ResolvableUnlessRotated` proves that nothing but rotation does this.
- `ConfirmedIsSettled` (`flow_shared` with `LiveSpec` and without symmetry): a confirmed contract whose
  `execute()` raised before EXECUTING can be neither confirmed, expired nor reconciled
  (`store.py:1067`), although clients ask again and the operator does what he can.
- `AdvanceReturnsNewValue` (`witness_vanish`): after an increment of unknown outcome
  `advance()` returns whatever it reads (`service.py:67`), also when nothing moved.
  `witness_restore` and three theorems exclude it with `IncrementMayVanish = FALSE`; one of
  them, `AdvanceReturnsTheNewValue`, proves the formula then.
- `ResolvedIncidentFrozen` (`admin_bootstrap`): the journal of a resolved incident
  "remains a permanent, immutable incident record", yet a process that was still
  running appends to it after the resolution (`security_recovery_orchestration.py:299`).
- `BatchMembership` (`ceremony_shared` with `MaxMishaps = 2`): a preview written anew for the same intent
  under another plan while the owner looks at the manifest is signed in the batch
  (`signing/write_batch1_signing.py:604`), and the signature then fails the membership
  check against the batch's own approval (`shape_a_batch_owner_approval.py:403`).
- `FinishedPlanDelivers` (`posture_shared`): a plan carried out to its end may not
  reach its posture: the provisioning document maps write_protected onto the engineer
  profile, which grants nothing (`profiles.py:42`).
- `FailedHadNoEffect` (`operations`): a 2xx answer that is not verified by the
  read-back ends FAILED although the change took effect (`executor.py:539`); ADR-037
  calls FAILED "proven zero effect", and it licenses a retry.

Others, which appear when a constant is changed or follow directly from the code:

- The in-flight limit is checked in one transaction and the row replaced in the next
  (`store.py:1318-1326`), and rollback is not checked, so more than
  `max_global_in_flight` can run; `docs/tier1/specs/rate_blast_radius_policy.md:28-30`
  says "bounded and enforced atomically".
- A counter ahead of the mark is refused (`anti_rollback.py:202`);
  `docs/tier1/specs/whole_store_anti_rollback.md:161` calls it safe to proceed. A rate
  refusal or crash after the advance therefore stops all further executions.
- `confirm()` and `transition()` read the clock, check the expiry and only then wait for
  the transaction, the witness too in the case of EXECUTING; `_replace` does not look
  again (`store.py:1087`, `1305`, `1378`). A contract can therefore be confirmed, or
  become EXECUTING, after it expired; "may only transition to EXPIRED" (`store.py:1311`)
  is true of the check alone.
- An NTP patch that the shifted list led to another server is recorded VERIFIED when an
  administrator sets the target's own flag to the wished value before the read-back
  (`executor.py:513-533` compares values, not what the patch did), also by removing and
  entering the server again.
- Asking again after the change was applied is refused by `prepare` before the
  lookup (`production_runtime.py:429-433`), so the answer has no contract id although
  a contract exists.
- With `HotBackup = TRUE` a copy taken between the two transactions of a gate has the
  new mark and the old row, and restoring it executes the contract again;
  `anti_rollback.py:196-198` speaks of the same transaction.
- The Batch-1 runtime may share the daemon with the alias store
  (`write_batch1_production_runtime.py:507`) although the anchor "must be dedicated to
  this store"; the constants `ProcsOfTwo` and `ContractsOfTwo` set this up, and
  `RefusalHasCause` then fails.
- With `Exclusive = FALSE` two processes obtain the same nonce
  (`key_lifecycle.py:172` takes no lock, each runtime opens its own counter);
  `docs/tier1/specs/key_lifecycle.md:29-30` says "structurally prevented".
- A crash between truncation and write leaves a counter file that nobody can read
  (`key_lifecycle.py:162`); the comment there says a crash can only skip values. No
  value is reused.
- A second bootstrap that loses its race for the lock leaves the metadata of its own
  operation in the lock file, and a crash can leave the file empty; inspection calls
  either CORRUPT from then on. A key in the custody file makes the recovery context
  CORRUPT as well. After a live `resolve` two provisioners may overlap.
- Artifacts of an abandoned Batch-1 request block the next one for the same setting
  until the operator removes them (`shape_a_acceptance_orchestration.py:332`). An
  approval has to name the version the contract has after its confirmation.
- `tier1_anchor_check.py:18` says the check opens the store read-only and never
  writes; `open_production_store` creates the file and its schema (`store.py:404`).
  The coordinator looks at neither `blocked` nor `safe_to_proceed`, and a lateral plan
  leaves its deactivation step unblocked although it is not safe to proceed.
  Deactivating an anchor leaves the store's record of it.
- In the wizard, Back from Connection or Review bounces off Firewall for ever when
  address and identity were both given by flags; advanced answers are dropped silently
  when one of them is locked by a flag. A plan generated with a schema or a declared
  version is always PLAN_STALE when applied.
- Two writers of a fresh client file: the failed read-back of the first unlinks the
  file of the second. An existing `.bak` blocks the next write. What the
  client, its user or another command writes after the backup was taken is lost, and
  so is the rest when the one write of the backup is short
  (`security_client_config_write.py:518`). `init-confirm-key` undoes its file by name
  after it compared its identity (`security_setup_confirm_key.py:202-204`, the descriptor
  closed before): when the file is removed by hand in between and another command
  creates its own, that one is unlinked, although the comment there says "never". A crash
  while the confirmation key is created leaves an empty file that `init-confirm-key`
  reports as ALREADY_EXISTS.
- `config.py:130` accepts only allow-list names that begin with `pfsense_`, so the
  write tool can never be listed (`docs/CONFIGURATION.md:22`). Four models
  (DHCPRelay, FreeRADIUSInterface, RESTAPIAccessListEntry, SystemDNS) read their
  identifying key only when it is asked for and so validate less otherwise.
- Guidance: evidence of the appliance is labelled FRESH while the appliance cannot be
  reached and an old index serves (`tools/read/api_guidance.py:200`, against
  `docs/TOOL_AND_GUIDANCE_REFERENCE.md:136`); when upstream cannot be reached the
  conflict still says "NOT found in the public document"; a model with 24 fields or
  more exceeds the 24 facts its evidence may hold and the call raises; a 200 body that
  does not parse replaces a good cached copy for its lifetime; an undecodable body
  leaves `fetch()` as an httpx exception that is not a FetchError.

Also worth knowing: every MCP call builds an executor and so sweeps a contract that
another call is executing (`tier1_write_bridge.py:177`, against "constructed once" in
`executor.py:143`). The models include this; the safety properties hold in spite of
it, because the late outcome is refused by the compare-and-set.

## 6. Not modelled

Cryptography, canonical encoding and signature checks are taken as perfect: equal
digests mean equal values, and only the holder of a key signs. JSON and HTTP formats,
file permissions, logging, wording and argument parsing carry no property here and are
left out, as are schema migration of old store files, the acceptance report, the
provisioning record of the anchor, generation and retirement of key files,
`schema_diff.py` and the static guidance texts. Laboratory, release and maintenance
scripts are one-shot operator programs whose effects on the store `RecoveryStore`
has. The directory entry of a newly created counter file is not synced by the code;
`NonceCounter` takes it as durable. The start-up comparison of `tier1_anchor_check`
only logs. `PROJECT.json` lists every component with its status.

## 7. Plan

Every subsystem with state of its own has a module, and every safety property that a
run checks is proved. What is left, in this order:

1. Three disagreements of section 5 are proved to need exactly the step they name. The
   same could be done for `BatchMembership` (without a preview written anew),
   `ResolvedIncidentFrozen` and `FailedHadNoEffect`, whose steps no constant switches off
   yet.
2. The three hazards without a property wait for the code: once the in-flight limit is
   checked in the transaction that starts the execution, a confirmed contract that was
   not executed can be settled, and the nonce counter has one user at a time, each is
   worth stating.
