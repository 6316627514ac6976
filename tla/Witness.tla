------------------------------ MODULE Witness ------------------------------
(***************************************************************************)
(* The whole-store anti-rollback check: the recovery stores with their     *)
(* high-water marks on one side, the host witness daemon and its TPM       *)
(* counter on the other, HTTP requests that outlive their clients in       *)
(* between.                                                                *)
(*                                                                         *)
(* A process that wants to move a contract to EXECUTING compares the       *)
(* counter with its store's mark, advances the counter, commits the new    *)
(* mark, and in a second transaction replaces the row.  Processes crash,   *)
(* requests time out and are served late, the daemon dies, the TPM refuses *)
(* or loses an increment, and a store file is backed up and restored.      *)
(*                                                                         *)
(* Only contracts whose policy takes part in the witness check are         *)
(* modelled; the other guards of the transition are in RecoveryStore.      *)
(***************************************************************************)
EXTENDS Integers

CONSTANTS
  Store,         \* store files whose runtimes are pointed at the one daemon
  Proc,          \* processes
  StoreOf,       \* [Proc -> Store]
  Contract,
  HomeOf,        \* [Contract -> Store]
  NoContract,
  Baseline,      \* value of the counter after the TPM index was defined
  IncrementMayVanish,  \* an increment of unknown outcome may have had no effect
  HotBackup,     \* a backup may fall between the two transactions of a gate
  MaxCalls, MaxCrashes, MaxRestores, MaxOutages   \* bounds

ASSUME WitnessAssumption ==
  /\ StoreOf \in [Proc -> Store] /\ HomeOf \in [Contract -> Store]
  /\ NoContract \notin Contract
  /\ Baseline \in Nat
  /\ IncrementMayVanish \in BOOLEAN /\ HotBackup \in BOOLEAN
  /\ MaxCalls \in Nat /\ MaxCrashes \in Nat /\ MaxRestores \in Nat /\ MaxOutages \in Nat

VARIABLES
  tpm,        \* the TPM's NV counter
  ask,        \* requests made of the daemon
  reply,      \* its responses
  serving,    \* the advance() the daemon is in: call and step
  file,       \* per store: mark, provisioned contracts' rows
  backup,     \* per store: a copy of an earlier file
  observed,   \* per store: the counter value the operator wrote down
  gate,       \* per process: where it is in the EXECUTING transition
  crashes, restores, outages,
  moved,      \* history: calls that incremented the counter
  sent,       \* history: per contract, transitions to EXECUTING
  disturbed,  \* history: stores restored, or with an advance they did not record
  refused     \* history: stores told WholeStoreRollbackDetected

vars == <<tpm, ask, reply, serving, file, backup, observed, gate, crashes, restores, outages,
          moved, sent, disturbed, refused>>
daemon == <<tpm, serving, moved>>
wire == <<ask, reply>>
disk == <<file, backup, observed>>
environment == <<crashes, restores, outages>>
history == <<sent, disturbed, refused>>

CallId == 1..MaxCalls
NoCall == 0

NotAsked == [kind |-> "none", expected |-> 0, since |-> 0]
NoReply == -1
Conflict == -2       \* 409
Unavailable == -3    \* any other status than 200

Unseeded == -1
File == [mark : Nat \cup {Unseeded}, prepared : SUBSET Contract, executing : SUBSET Contract]

Gate == [pc : {"idle", "read", "advance", "commit", "replace"}, contract : Contract \cup {NoContract},
         call : CallId \cup {NoCall}, persisted : Nat \cup {Unseeded}]
Idle == [pc |-> "idle", contract |-> NoContract, call |-> NoCall, persisted |-> 0]

NotServing == [call |-> NoCall, pc |-> "idle"]

Init ==
  /\ tpm = Baseline
  /\ ask = [c \in CallId |-> NotAsked]
  /\ reply = [c \in CallId |-> NoReply]
  /\ serving = NotServing
  /\ file = [s \in Store |-> [mark |-> Unseeded, prepared |-> {}, executing |-> {}]]
  /\ backup = file
  /\ observed = [s \in Store |-> Unseeded]
  /\ gate = [p \in Proc |-> Idle]
  /\ crashes = 0 /\ restores = 0 /\ outages = 0
  /\ moved = {}
  /\ sent = [x \in Contract |-> 0]
  /\ disturbed = {} /\ refused = {}

-----------------------------------------------------------------------------
(* The witness daemon: one request at a time. *)

\* A request the daemon has not answered yet; its client may be gone.
Waiting(c) == ask[c] # NotAsked /\ reply[c] = NoReply

Respond(c, r) == reply' = [reply EXCEPT ![c] = r]

\* read_counter() raises, for do_GET, the check or the re-read.
TpmFails ==
  /\ outages < MaxOutages
  /\ outages' = outages + 1

\* GET /anchor/read
ServeRead(c) ==
  /\ serving = NotServing
  /\ Waiting(c) /\ ask[c].kind = "read"
  /\ \/ Respond(c, tpm) /\ UNCHANGED outages
     \/ TpmFails /\ Respond(c, Unavailable)
  /\ UNCHANGED <<daemon, ask, disk, gate, crashes, restores, history>>

\* Faulty compare: the increment is left to the TPM to refuse.
MatchesAny(c) == ask[c].kind = "advance"

\* POST /anchor/advance up to the compare; the lock is held from here on.
Matches(c) == ask[c].expected = tpm

Check(c) ==
  /\ serving = NotServing
  /\ Waiting(c) /\ ask[c].kind = "advance"
  /\ \/ /\ Matches(c)
        /\ serving' = [call |-> c, pc |-> "increment"]
        /\ UNCHANGED <<reply, outages>>
     \/ /\ ~Matches(c)
        /\ Respond(c, Conflict)
        /\ UNCHANGED <<serving, outages>>
     \/ TpmFails /\ Respond(c, Unavailable) /\ UNCHANGED serving
  /\ UNCHANGED <<tpm, moved, ask, disk, gate, crashes, restores, history>>

\* tpm2_nvincrement: done; rejected, with an answer; or timed out or never run,
\* which leaves it to the re-read to tell whether it was done.
Increment ==
  /\ serving.pc = "increment"
  /\ \/ /\ tpm' = tpm + 1
        /\ moved' = moved \cup {serving.call}
        /\ serving' = [serving EXCEPT !.pc = "reread"]
        /\ UNCHANGED <<reply, outages>>
     \/ /\ TpmFails
        /\ Respond(serving.call, Unavailable)
        /\ serving' = NotServing
        /\ UNCHANGED <<tpm, moved>>
     \/ /\ IncrementMayVanish /\ TpmFails
        /\ serving' = [serving EXCEPT !.pc = "reread"]
        /\ UNCHANGED <<tpm, moved, reply>>
  /\ UNCHANGED <<ask, disk, gate, crashes, restores, history>>

\* Faulty re-read: an answer assumed rather than read.
RereadAssumed ==
  /\ serving.pc = "reread"
  /\ Respond(serving.call, ask[serving.call].expected + 1)
  /\ serving' = NotServing
  /\ UNCHANGED <<tpm, moved, ask, disk, gate, environment, history>>

Reread ==
  /\ serving.pc = "reread"
  /\ \/ Respond(serving.call, tpm) /\ UNCHANGED outages
     \/ TpmFails /\ Respond(serving.call, Unavailable)
  /\ serving' = NotServing
  /\ UNCHANGED <<tpm, moved, ask, disk, gate, crashes, restores, history>>

\* The daemon dies in the middle of a request and is restarted.
DaemonCrash ==
  /\ serving # NotServing
  /\ outages < MaxOutages
  /\ outages' = outages + 1
  /\ Respond(serving.call, Unavailable)
  /\ serving' = NotServing
  /\ UNCHANGED <<tpm, moved, ask, disk, gate, crashes, restores, history>>

-----------------------------------------------------------------------------
(* The store side. *)

Unused == {c \in CallId : ask[c] = NotAsked}
NextCall == CHOOSE c \in CallId : ask[c] = NotAsked

\* A new request on the wire, and the gate of p waiting for its response.
Request(p, kind, expected, g) ==
  /\ Unused # {}
  /\ ask' = [ask EXCEPT ![NextCall] = [kind |-> kind, expected |-> expected, since |-> tpm]]
  /\ gate' = [gate EXCEPT ![p] = [g EXCEPT !.pc = kind, !.call = NextCall]]
  /\ UNCHANGED reply

\* BEGIN IMMEDIATE: one gate transaction of a store at a time.
Locked(s) == \E q \in Proc : StoreOf[q] = s /\ gate[q].pc \in {"read", "advance", "commit"}

\* The transition has loaded a PREPARED row; the gate reads the mark and asks
\* for the counter.
BeginGate(p, x) ==
  LET s == StoreOf[p] IN
  /\ gate[p] = Idle
  /\ HomeOf[x] = s
  /\ x \in file[s].prepared
  /\ ~Locked(s)
  /\ Request(p, "read", 0, [Idle EXCEPT !.contract = x, !.persisted = file[s].mark])
  /\ UNCHANGED <<daemon, disk, environment, history>>

\* The gate is left by an exception, and its transaction rolled back.
Leave(p) == gate' = [gate EXCEPT ![p] = Idle]

\* Faulty compare: only an anchor behind the mark is an anomaly.
NotBehind(p) == reply[gate[p].call] >= gate[p].persisted

Agrees(p) == reply[gate[p].call] = gate[p].persisted

\* The counter has been read: compare, and ask for the advance.
Compare(p) ==
  LET r == reply[gate[p].call] IN
  /\ gate[p].pc = "read"
  /\ r # NoReply
  /\ \/ r = Unavailable /\ Leave(p) /\ UNCHANGED <<wire, refused>>
     \/ /\ r # Unavailable /\ ~Agrees(p)
        /\ Leave(p)
        /\ refused' = refused \cup {StoreOf[p]}
        /\ UNCHANGED wire
     \/ /\ r # Unavailable /\ Agrees(p)
        /\ Request(p, "advance", r, gate[p])
        /\ UNCHANGED refused
  /\ UNCHANGED <<daemon, disk, environment, sent, disturbed>>

\* advance() returns or raises.
Advanced(p) ==
  LET r == reply[gate[p].call] IN
  /\ gate[p].pc = "advance"
  /\ r # NoReply
  /\ IF r \in Nat THEN gate' = [gate EXCEPT ![p].pc = "commit"] /\ UNCHANGED disturbed
                  ELSE Leave(p) /\ disturbed' = disturbed \cup {StoreOf[p]}
  /\ UNCHANGED <<daemon, wire, disk, environment, sent, refused>>

\* Faulty commit: the advanced value is not written to the mark.
NotPersisted(p) == UNCHANGED file

\* _persist() and the commit of the gate's transaction.
Persist(p) == file' = [file EXCEPT ![StoreOf[p]].mark = reply[gate[p].call]]

CommitGate(p) ==
  /\ gate[p].pc = "commit"
  /\ Persist(p)
  /\ gate' = [gate EXCEPT ![p].pc = "replace", ![p].call = NoCall]
  /\ UNCHANGED <<daemon, wire, backup, observed, environment, history>>

\* _replace(): the second transaction; another process may have been first.
Replace(p) ==
  LET s == StoreOf[p]
      x == gate[p].contract IN
  /\ gate[p].pc = "replace"
  /\ IF x \in file[s].prepared
       THEN /\ file' = [file EXCEPT ![s].prepared = @ \ {x}, ![s].executing = @ \cup {x}]
            /\ sent' = [sent EXCEPT ![x] = @ + 1]
       ELSE UNCHANGED <<file, sent>>
  /\ Leave(p)
  /\ UNCHANGED <<daemon, wire, backup, observed, environment, disturbed, refused>>

\* The client's timeout: AnchorUnavailableError, while the request may still be
\* served.
Timeout(p) ==
  /\ gate[p].pc \in {"read", "advance"}
  /\ reply[gate[p].call] = NoReply
  /\ crashes < MaxCrashes
  /\ crashes' = crashes + 1
  /\ Leave(p)
  /\ disturbed' = disturbed \cup {StoreOf[p]}
  /\ UNCHANGED <<daemon, wire, disk, restores, outages, sent, refused>>

\* The process dies in its gate, or the rate policy refuses after the advance;
\* either way the gate's transaction is rolled back.
Crash(p) ==
  /\ gate[p] # Idle
  /\ crashes < MaxCrashes
  /\ crashes' = crashes + 1
  /\ Leave(p)
  /\ disturbed' = disturbed \cup {StoreOf[p]}
  /\ UNCHANGED <<daemon, wire, disk, restores, outages, sent, refused>>

-----------------------------------------------------------------------------
(* The operator. *)

\* The counter is read for provisioning ...
Observe(s) ==
  /\ file[s].mark = Unseeded
  /\ observed[s] # tpm
  /\ observed' = [observed EXCEPT ![s] = tpm]
  /\ UNCHANGED <<daemon, wire, file, backup, gate, environment, history>>

\* ... and provision_anchor_baseline() seeds the mark with it, once.
Provision(s) ==
  /\ file[s].mark = Unseeded
  /\ observed[s] # Unseeded
  /\ file' = [file EXCEPT ![s].mark = observed[s]]
  /\ UNCHANGED <<daemon, wire, backup, observed, gate, environment, history>>

\* A contract of a provisioned store is created and confirmed.  Its id is fresh.
Create(x) ==
  LET s == HomeOf[x] IN
  /\ file[s].mark # Unseeded
  /\ \A f \in {file[s], backup[s]} : x \notin f.prepared \cup f.executing
  /\ sent[x] = 0
  /\ file' = [file EXCEPT ![s].prepared = @ \cup {x}]
  /\ UNCHANGED <<daemon, wire, backup, observed, gate, environment, history>>

Backup(s) ==
  /\ backup[s] # file[s]
  /\ restores < MaxRestores
  /\ HotBackup \/ \A p \in Proc : StoreOf[p] = s => gate[p].pc # "replace"
  /\ backup' = [backup EXCEPT ![s] = file[s]]
  /\ UNCHANGED <<daemon, wire, file, observed, gate, environment, history>>

\* The file is replaced by the copy and its processes are restarted.
Restore(s) ==
  /\ backup[s] # file[s]
  /\ restores < MaxRestores
  /\ restores' = restores + 1
  /\ file' = [file EXCEPT ![s] = backup[s]]
  /\ gate' = [p \in Proc |-> IF StoreOf[p] = s THEN Idle ELSE gate[p]]
  /\ disturbed' = disturbed \cup {s}
  /\ UNCHANGED <<daemon, wire, backup, observed, crashes, outages, sent, refused>>

-----------------------------------------------------------------------------
DaemonStep ==
  \/ \E c \in CallId : ServeRead(c) \/ Check(c)
  \/ Increment \/ Reread \/ DaemonCrash

ProcStep(p) ==
  \/ \E x \in Contract : BeginGate(p, x)
  \/ Compare(p) \/ Advanced(p) \/ CommitGate(p) \/ Replace(p)
  \/ Timeout(p) \/ Crash(p)

OperatorStep ==
  \/ \E s \in Store : Observe(s) \/ Provision(s) \/ Backup(s) \/ Restore(s)
  \/ \E x \in Contract : Create(x)

Next == DaemonStep \/ OperatorStep \/ \E p \in Proc : ProcStep(p)

Spec == Init /\ [][Next]_vars

-----------------------------------------------------------------------------
TypeOK ==
  /\ tpm \in Nat
  /\ ask \in [CallId -> [kind : {"none", "read", "advance"}, expected : Nat, since : Nat]]
  /\ reply \in [CallId -> Nat \cup {NoReply, Conflict, Unavailable}]
  /\ serving \in [call : CallId \cup {NoCall}, pc : {"idle", "increment", "reread"}]
  /\ file \in [Store -> File] /\ backup \in [Store -> File]
  /\ observed \in [Store -> Nat \cup {Unseeded}]
  /\ gate \in [Proc -> Gate]
  /\ crashes \in 0..MaxCrashes /\ restores \in 0..MaxRestores /\ outages \in 0..MaxOutages
  /\ moved \subseteq CallId
  /\ sent \in [Contract -> Nat]
  /\ disturbed \subseteq Store /\ refused \subseteq Store

\* No contract is moved to EXECUTING twice, whatever copy of the store the
\* second attempt is made from: the gate that the second attempt must pass
\* sees a counter that the first one moved (HighWaterMark
\* .before_executing_transition).
ExecutedOnce == \A x \in Contract : sent[x] <= 1

\* A store never remembers a value the counter has not reached, in its file or
\* in a backup: a mark ahead of the counter could only come from a reset TPM.
MarkNotAhead == \A s \in Store : \A f \in {file[s], backup[s]} : f.mark <= tpm

\* WholeStoreRollbackDetected is never raised without a cause: the store was
\* restored, or one of its own advances was not recorded by it.
\* before_executing_transition: "Under normal single-writer operation these two
\* values are always equal immediately before a new EXECUTING attempt".
RefusalHasCause == refused \subseteq disturbed

\* advance(): "Atomically advance the anchor past expected_current and return
\* the new value".
AdvanceReturnsNewValue ==
  \A c \in CallId : ask[c].kind = "advance" /\ reply[c] \in Nat => reply[c] = ask[c].expected + 1

\* The daemon, over its two HTTP routes and with clients that give up, is the
\* counter the AntiRollbackAnchor protocol promises.
Anchor == INSTANCE AnchorSpec WITH Call <- CallId, value <- tpm
ImplementsAnchor == Anchor!Spec
=============================================================================
