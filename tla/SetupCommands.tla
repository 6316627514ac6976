--------------------------- MODULE SetupCommands ---------------------------
(***************************************************************************)
(* The commands that follow the setup wizard on the operator's machine:    *)
(* `setup init-confirm-key`, `setup apply` and `setup write-client-config`.*)
(* Several may run at once, each may die between two of its steps, and the *)
(* MCP client (or its user) edits the same configuration file meanwhile.   *)
(* A keyed digest is modelled by what it binds: a token is the record of   *)
(* its domain, the bound values and the key.  File contents are the entry  *)
(* of this server, the version of everything else, and whether it parses.  *)
(* Bootstrap and its recovery are AdminCommands; here only their outcomes. *)
(***************************************************************************)
EXTENDS Integers, FiniteSets

CONSTANTS
    Commands,       \* processes that run a command
    PlanChoices,    \* the target postures asked for on the command line
    MaxCommands,    \* bound: commands started
    MaxFileEdits,   \* bound: edits of the client's configuration
    MaxPostureEdits \* bound: changes of the state the plan is made from

ASSUME SetupBounds == {MaxCommands, MaxFileEdits, MaxPostureEdits} \subseteq Nat

VARIABLES
    posture,        \* what discovery finds, as a version
    key,            \* the confirmation key file
    config,         \* the client's configuration file
    backup,         \* its .bak
    cmds,           \* the commands in flight
    printed,        \* the confirmation tokens the operator has seen
    handRemoved,    \* a key file was removed by hand between a command's check and its unlink
    lost,           \* contents displaced by a command with no copy left
    spent           \* the bounds used up: commands, file edits, key files

setupVars == <<posture, key, config, backup, cmds, printed, handRemoved, lost, spent>>

NoFile == [kind |-> "absent"]
NoToken == [domain |-> "none"]
NoDigest == [choice |-> "none"]
NoEntry == [posture |-> "none"]
Unfilled == [kind |-> "unfilled"]
ConfigOf(entry, other, parses) == [kind |-> "config", entry |-> entry, other |-> other, parses |-> parses]
Idle == [pc |-> "idle"]

-----------------------------------------------------------------------------
(* The plan and the tokens.                                                 *)

\* The account mode applies to the read-only posture alone.
ChoiceValid(c) == c.posture = "write_protected" => c.account = "byo"

\* compute_setup_plan_digest: the choice and the discovered state.
SetupPlanDigest(c, discovered) == [choice |-> c, discovered |-> discovered]

\* A digest the operator may pass: one printed earlier, or none.
KnownDigests == { t.binding.plan : t \in printed } \cup {NoDigest}

\* A binding that leaves the plan's digest out.
ApplyBindingNoPlan(c, digest) == [plan |-> NoDigest, choice |-> c]

\* ApplyConfirmationBinding
ApplyBinding(c, digest) == [plan |-> digest, choice |-> c]

\* ClientConfigWriteBinding: both contents are bound, the path is fixed here.
WriteBinding(digest, existing, proposed) ==
    [plan |-> digest, existing |-> existing, proposed |-> proposed]

Token(domain, binding, keyId) == [domain |-> domain, binding |-> binding, key |-> keyId]

\* A key file that is missing or empty stops the command.
KeyUsable == key # NoFile /\ key.filled

\* _merge_json, _merge_toml: the entry is set, the rest of the file is kept; a
\* file that does not parse is refused before.
MergedEntry(existing, entry) ==
    IF existing = NoFile THEN ConfigOf(entry, 0, TRUE) ELSE [existing EXCEPT !.entry = entry]

-----------------------------------------------------------------------------
SetupInit ==
    /\ posture = 0
    /\ key = NoFile
    /\ config \in {NoFile, ConfigOf(NoEntry, 1, TRUE)}
    /\ backup = NoFile
    /\ cmds = [p \in Commands |-> Idle]
    /\ printed = {}
    /\ handRemoved = FALSE
    /\ lost = {}
    /\ spent = [commands |-> 0, edits |-> 0, keys |-> 0]

CommandAt(p, pc) == cmds[p].pc = pc
MoveTo(p, pc) == cmds' = [cmds EXCEPT ![p].pc = pc]
EndCommand(p) == cmds' = [cmds EXCEPT ![p] = Idle]

BeginCommand(p, command) ==
    /\ cmds[p] = Idle
    /\ spent.commands < MaxCommands
    /\ spent' = [spent EXCEPT !.commands = @ + 1]
    /\ cmds' = [cmds EXCEPT ![p] = command]

-----------------------------------------------------------------------------
(* setup init-confirm-key                                                   *)

\* The check by name comes before the exclusive creation.
InitConfirmKey(p) ==
    /\ key = NoFile             \* otherwise ALREADY_EXISTS, left untouched
    /\ BeginCommand(p, [pc |-> "key_create"])
    /\ UNCHANGED <<posture, key, config, backup, printed, lost>>

CreateKeyFile(p) ==
    /\ CommandAt(p, "key_create")
    /\ IF key # NoFile
       THEN EndCommand(p) /\ UNCHANGED <<key, spent>>
       ELSE /\ key' = [id |-> spent.keys + 1, filled |-> FALSE]
            /\ spent' = [spent EXCEPT !.keys = @ + 1]
            /\ cmds' = [cmds EXCEPT ![p] = [pc |-> "key_write", file |-> spent.keys + 1]]
    /\ UNCHANGED <<posture, config, backup, printed, lost>>

\* The bytes go to the descriptor: to the named file only while it is still the
\* one this command created.
WriteKeyFile(p) ==
    /\ CommandAt(p, "key_write")
    /\ key' = IF key # NoFile /\ key.id = cmds[p].file THEN [key EXCEPT !.filled = TRUE] ELSE key
    /\ MoveTo(p, "key_sync")
    /\ UNCHANGED <<posture, config, backup, printed, lost, spent>>

SyncKeyFile(p) ==
    /\ CommandAt(p, "key_sync")
    /\ EndCommand(p)
    /\ UNCHANGED <<posture, key, config, backup, printed, lost, spent>>

\* Storing the key fails: the file is to be removed when, looked up by name,
\* it is still this command's. The descriptor is closed by then.
CheckKeyFile(p) ==
    /\ cmds[p].pc \in {"key_write", "key_sync"}
    /\ IF key # NoFile /\ key.id = cmds[p].file THEN MoveTo(p, "key_unlink") ELSE EndCommand(p)
    /\ UNCHANGED <<posture, key, config, backup, printed, lost, spent>>

\* The unlink goes by the name alone; a missing file is not an error.
UndoKeyFile(p) ==
    /\ CommandAt(p, "key_unlink")
    /\ key' = NoFile
    /\ EndCommand(p)
    /\ UNCHANGED <<posture, config, backup, printed, lost, spent>>

-----------------------------------------------------------------------------
(* setup apply and setup write-client-config up to the confirmation.        *)

\* Both recompute the plan and refuse when the digest given is another one.
StartSetup(p, kind) ==
    \E c \in PlanChoices, token \in printed \cup {NoToken}, given \in KnownDigests :
        LET digest == SetupPlanDigest(c, posture)
        IN /\ ChoiceValid(c)
           /\ given \in {NoDigest, digest}      \* otherwise PLAN_STALE
           /\ BeginCommand(p, [pc |-> kind, choice |-> c, plan |-> digest, token |-> token])
           /\ UNCHANGED <<posture, key, config, backup, printed, lost>>

SetupApply(p) == StartSetup(p, "apply")
WriteClientConfig(p) == StartSetup(p, "read")

\* Prints the token when none was given, goes on when it is the expected one.
Confirm(p, token, next) ==
    IF cmds[p].token = NoToken
    THEN printed' = printed \cup {token} /\ EndCommand(p)
    ELSE /\ UNCHANGED printed
         /\ IF cmds[p].token = token
            THEN cmds' = [cmds EXCEPT ![p] = [@ EXCEPT !.pc = next, !.token = token]]
            ELSE EndCommand(p)

ConfirmApply(p) ==
    /\ CommandAt(p, "apply")
    /\ IF KeyUsable
       THEN Confirm(p, Token("apply", ApplyBinding(cmds[p].choice, cmds[p].plan), key.id), "confirmed")
       ELSE EndCommand(p) /\ UNCHANGED printed
    /\ UNCHANGED <<posture, key, config, backup, lost, spent>>

\* BootstrapOrchestrationOutcome and its mapping: a prior operation in the way
\* is inspected for recovery, never resolved.
MapBootstrapResult ==
    {"already_complete", "completed", "configuration_error", "lock_contention",
     "recovery_required", "corrupt_local_state", "preflight_derivation_failed", "provisioning_failed"}

\* The confirmed apply: the doctor first when a witness is wanted, then
\* bootstrap of the write-protected or the managed read-only account; with an
\* operator's own key only connectivity is verified.
ApplyOutcomes(c) ==
    (IF c.anchor = "hardware_witness" THEN {"doctor_not_ready"} ELSE {})
    \cup IF c.posture = "write_protected" \/ c.account = "managed"
         THEN MapBootstrapResult
         ELSE {"configuration_error", "connectivity_failed", "apply_completed"}

RunApply(p) ==
    /\ CommandAt(p, "confirmed")
    /\ \E outcome \in ApplyOutcomes(cmds[p].choice) :
         /\ EndCommand(p)
         /\ posture' = IF outcome \in {"completed", "provisioning_failed"} /\ posture < MaxPostureEdits
                       THEN posture + 1 ELSE posture
    /\ UNCHANGED <<key, config, backup, printed, lost, spent>>

-----------------------------------------------------------------------------
(* setup write-client-config, one file operation at a time.                 *)

\* The file is read and merged; a file that does not parse is refused.
ReadExisting(p) ==
    /\ CommandAt(p, "read")
    /\ IF config # NoFile /\ ~config.parses
       THEN EndCommand(p)
       ELSE cmds' = [cmds EXCEPT ![p] =
                [pc |-> "merge", choice |-> @.choice, plan |-> @.plan, token |-> @.token,
                 existing |-> config, proposed |-> MergedEntry(config, @.choice),
                 saved |-> FALSE, uncovered |-> FALSE]]
    /\ UNCHANGED <<posture, key, config, backup, printed, lost, spent>>

ConfirmWrite(p) ==
    /\ CommandAt(p, "merge")
    /\ IF KeyUsable
       THEN Confirm(p, Token("client", WriteBinding(cmds[p].plan, cmds[p].existing, cmds[p].proposed),
                             key.id), "parent")
       ELSE EndCommand(p) /\ UNCHANGED printed
    /\ UNCHANGED <<posture, key, config, backup, lost, spent>>

\* The directory is created when missing; an unsafe one ends the command.
EnsureParentDirectory(p) ==
    /\ CommandAt(p, "parent")
    /\ MoveTo(p, "backup") \/ EndCommand(p)
    /\ UNCHANGED <<posture, key, config, backup, printed, lost, spent>>

\* The backup is created exclusively, so one left behind refuses the write. A
\* file that has vanished, or never was, needs none.
CreateBackup(p) ==
    /\ CommandAt(p, "backup")
    /\ CASE config = NoFile -> MoveTo(p, "replace") /\ UNCHANGED backup
         [] config # NoFile /\ backup # NoFile -> EndCommand(p) /\ UNCHANGED backup
         [] OTHER -> backup' = Unfilled /\ MoveTo(p, "fill")
    /\ UNCHANGED <<posture, key, config, printed, lost, spent>>

\* A backup of what was confirmed, whatever the file holds by now.
FillFromConfirmed(p) ==
    /\ CommandAt(p, "fill")
    /\ backup' = cmds[p].existing
    /\ cmds' = [cmds EXCEPT ![p].pc = "replace", ![p].saved = TRUE]
    /\ UNCHANGED <<posture, key, config, printed, lost, spent>>

\* What a copy holds that was cut short.
Truncated == ConfigOf(NoEntry, 0, FALSE)

\* The backup is taken of the file as it is now, not as it was confirmed, with
\* a single write whose count is not looked at: it may have fallen short.
FillBackup(p) ==
    /\ CommandAt(p, "fill")
    /\ \/ config = NoFile /\ EndCommand(p) /\ UNCHANGED backup
       \/ \E short \in BOOLEAN :
            /\ config # NoFile
            /\ backup' = IF short THEN Truncated ELSE config
            /\ cmds' = [cmds EXCEPT ![p].pc = "replace", ![p].saved = TRUE, ![p].uncovered = short]
    /\ UNCHANGED <<posture, key, config, printed, lost, spent>>

\* The commands other than the writers whose backup is older than what is in
\* the file now: somebody wrote it after they had looked.
Overtaken(writers, content) ==
    [q \in Commands |->
        IF q \notin writers /\ cmds[q].pc \in {"replace", "verify"} /\ content # config
        THEN [cmds[q] EXCEPT !.uncovered = TRUE] ELSE cmds[q]]

\* What a command leaves neither in the file nor in the backup. A write that
\* came after the backup was taken is beyond what the backup can hold, and so
\* is what a short write left out.
Displaces(p, file, copy) ==
    { c.other : c \in { d \in {backup} \cup (IF cmds[p].uncovered THEN {} ELSE {config}) :
                          d.kind = "config" /\ \A e \in {file, copy} : e.kind # "config" \/ e.other # d.other } }

\* The temporary file is written, synced and renamed over the target.
ReplaceConfig(p) ==
    /\ CommandAt(p, "replace")
    /\ config' = cmds[p].proposed
    /\ lost' = lost \cup Displaces(p, cmds[p].proposed, backup)
    /\ cmds' = [Overtaken({p}, cmds[p].proposed) EXCEPT ![p].pc = "verify"]
    /\ UNCHANGED <<posture, key, backup, printed, spent>>

\* The result is read back. Anything else than what was written restores the
\* backup, or removes the file when there was none.
VerifyConfig(p) ==
    /\ CommandAt(p, "verify")
    /\ IF config = cmds[p].proposed \/ (cmds[p].saved /\ backup = NoFile)
       THEN UNCHANGED <<config, backup, lost>> /\ EndCommand(p)
       ELSE LET restored == IF cmds[p].saved THEN backup ELSE NoFile
                copy == IF cmds[p].saved THEN NoFile ELSE backup
            IN /\ config' = restored
               /\ backup' = copy
               /\ lost' = lost \cup Displaces(p, restored, copy)
               /\ cmds' = [Overtaken({p}, restored) EXCEPT ![p] = Idle]
    /\ UNCHANGED <<posture, key, printed, spent>>

-----------------------------------------------------------------------------
(* The surroundings.                                                        *)

\* A command dies: its files stay as they are.
DieSetup(p) ==
    /\ cmds[p] # Idle
    /\ EndCommand(p)
    /\ UNCHANGED <<posture, key, config, backup, printed, lost, spent>>

\* The MCP client or its user rewrites the file, or leaves it unparsable.
EditConfig ==
    /\ spent.edits < MaxFileEdits
    /\ spent' = [spent EXCEPT !.edits = @ + 1]
    /\ \E parses \in BOOLEAN :
         config' = ConfigOf(IF config = NoFile THEN NoEntry ELSE config.entry, spent.edits + 2, parses)
    /\ cmds' = Overtaken({}, config')
    /\ UNCHANGED <<posture, key, backup, printed, lost>>

ChangePosture ==
    /\ posture < MaxPostureEdits
    /\ posture' = posture + 1
    /\ UNCHANGED <<key, config, backup, cmds, printed, lost, spent>>

\* By hand, as the message of a refused write asks for.
RemoveBackup ==
    /\ backup # NoFile
    /\ \A p \in Commands : cmds[p] = Idle
    /\ backup' = NoFile
    /\ UNCHANGED <<posture, key, config, cmds, printed, lost, spent>>

\* By hand, at any time: the only way out of a key file left empty.
RemoveKey ==
    /\ key # NoFile /\ spent.keys < 2
    /\ key' = NoFile
    /\ handRemoved' = (handRemoved \/ \E p \in Commands : CommandAt(p, "key_unlink") /\ cmds[p].file = key.id)
    /\ UNCHANGED <<posture, config, backup, cmds, printed, lost, spent>>

SetupNext ==
    \/ /\ \/ \E p \in Commands :
               \/ InitConfirmKey(p) \/ CreateKeyFile(p) \/ WriteKeyFile(p) \/ SyncKeyFile(p)
               \/ CheckKeyFile(p) \/ UndoKeyFile(p)
               \/ SetupApply(p) \/ ConfirmApply(p) \/ RunApply(p)
               \/ WriteClientConfig(p) \/ ReadExisting(p) \/ ConfirmWrite(p) \/ EnsureParentDirectory(p)
               \/ CreateBackup(p) \/ FillBackup(p) \/ ReplaceConfig(p) \/ VerifyConfig(p) \/ DieSetup(p)
          \/ EditConfig \/ ChangePosture \/ RemoveBackup
       /\ UNCHANGED handRemoved
    \/ RemoveKey

SetupSpec == SetupInit /\ [][SetupNext]_setupVars

-----------------------------------------------------------------------------
(* Nothing is applied or written that the operator was not shown: a command *)
(* past its confirmation carries a token printed earlier, by another run,   *)
(* for the very plan this run recomputed and, for the client's file, the    *)
(* very contents it read and is about to write.                             *)
ShownBeforeDone ==
    \A p \in Commands :
        LET c == cmds[p] IN
        /\ c.pc = "confirmed" =>
             \E t \in printed : /\ t.domain = "apply" /\ t.binding.plan = c.plan
                                /\ t.binding.choice = c.choice
        /\ c.pc \in {"parent", "backup", "fill", "replace", "verify"} =>
             \E t \in printed : /\ t.domain = "client" /\ t.binding.plan = c.plan
                                /\ t.binding.existing = c.existing /\ t.binding.proposed = c.proposed

(* The rest of the client's configuration survives every write: an edit made *)
(* between the operator's confirmation and the write stays in the file or in *)
(* the backup, and a rollback puts back what the backup holds. Only what the *)
(* client, its user or another command writes after the backup was taken can *)
(* be displaced for good, and what a short write left out of the backup      *)
(* (security_client_config_write.py:518 looks at no count).                  *)
DisplacedIsKept == lost = {}

(* No command removes or fills a confirmation key it did not create, also    *)
(* when the file was removed by hand and created again under its name while  *)
(* the command was storing its own or failing to - unless the file was       *)
(* removed by hand between the check of a command's file and its unlink by   *)
(* name (security_setup_confirm_key.py:202-204): then the unlink may take    *)
(* the key another command has created since.                                *)
KeyOfAnotherKept ==
    key # NoFile /\ key' # key /\ ~RemoveKey /\ ~handRemoved =>
        \E p \in Commands : cmds[p].pc \in {"key_write", "key_unlink"} /\ cmds[p].file = key.id

(* The setup commands do what was shown, and destroy nothing of others       *)
(* while they do it, but for the windows named above                         *)
(* (security_setup_apply.py, security_client_config_write.py).               *)
SetupFaithful == [][(ShownBeforeDone /\ DisplacedIsKept)' /\ KeyOfAnotherKept]_setupVars
=============================================================================
