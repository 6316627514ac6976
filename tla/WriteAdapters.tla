--------------------------- MODULE WriteAdapters ---------------------------
(***************************************************************************)
(* What the Batch-1 write adapters do to the appliance's settings between  *)
(* two reads. The appliance is shared: several contracts are carried out   *)
(* at once, two adapters own different fields of one object (log display   *)
(* and log retention), an NTP server is patched by its position in a list, *)
(* and administrators change the same settings at any time. The contract's *)
(* own life (authorization, store, audit) is Executor and RecoveryStore;   *)
(* here a contract is its snapshot, its wish and how far it got.           *)
(***************************************************************************)
EXTENDS Integers, Sequences, SequencesExt, FiniteSets

CONSTANTS
    Contracts,          \* contracts carried out
    Capabilities,       \* the adapters used, among AllCapabilities
    MaxAdminEdits       \* bound: an administrator's changes

AllCapabilities ==
    {"log_display", "log_retention", "ntp_settings", "timezone", "ntp_prefer"}

ASSUME AdapterAssumption == Capabilities \subseteq AllCapabilities /\ MaxAdminEdits \in Nat

VARIABLES
    settings,           \* the settings objects, field by field
    servers,            \* the NTP servers, in the order of their ids
    contracts,          \* per contract
    took,               \* contracts whose change took effect on the appliance
    misdirected,        \* contracts whose patch hit another server
    touched,            \* contracts whose own value an administrator set in their course
    adminEdits

adapterVars == <<settings, servers, contracts, took, misdirected, touched, adminEdits>>

-----------------------------------------------------------------------------
(* The adapters: which object they read and which of its fields they own.   *)

ObjectOf ==
    [log_display |-> "logs", log_retention |-> "logs", ntp_settings |-> "ntp", timezone |-> "system"]
OwnField ==
    [log_display |-> "display", log_retention |-> "retention", ntp_settings |-> "observability",
     timezone |-> "timezone"]
FieldsOf ==
    [logs |-> {"display", "retention", "other"}, ntp |-> {"observability", "other"}, system |-> {"timezone"}]

\* Two values of every field; a server is preferred or not.
Values == {0, 1}
TargetServer == "b"

PositionOf(name) == { i \in DOMAIN servers : servers[i].name = name }

\* read_target: a list entry must resolve exactly once, and its position is
\* the locator; a singleton has locator 0.
Resolves(cap) == cap = "ntp_prefer" => Cardinality(PositionOf(TargetServer)) = 1
Locator(cap) == IF cap = "ntp_prefer" THEN CHOOSE i \in PositionOf(TargetServer) : TRUE ELSE 0

\* fingerprint: the whole object, or the whole entry.
Fingerprint(cap) ==
    IF cap = "ntp_prefer"
    THEN [prefer |-> servers[Locator(cap)].prefer]
    ELSE settings[ObjectOf[cap]]

OwnValue(cap, fingerprint) ==
    IF cap = "ntp_prefer" THEN fingerprint.prefer ELSE fingerprint[OwnField[cap]]

\* fields_equal over the forbidden fields.
ForbiddenKept(cap, before, after) ==
    cap # "ntp_prefer" =>
        \A f \in FieldsOf[ObjectOf[cap]] \ {OwnField[cap]} : before[f] = after[f]

\* is_semantically_verified
SemanticallyVerified(cap, before, after, want) ==
    OwnValue(cap, after) = want /\ ForbiddenKept(cap, before, after)

\* A patch that sends the whole object as it was read.
WholeObject(c, value) ==
    [settings EXCEPT ![ObjectOf[c.cap]] = [c.snapshot EXCEPT ![OwnField[c.cap]] = value]]

\* build_request, build_rollback_request: only the allowed fields are sent.
Patched(c, value) == [settings EXCEPT ![ObjectOf[c.cap]][OwnField[c.cap]] = value]

PatchedServers(c, value) == [servers EXCEPT ![c.locator].prefer = value]

-----------------------------------------------------------------------------
NoContract == [state |-> "none"]

AdaptersInit ==
    /\ settings = [o \in DOMAIN FieldsOf |-> [f \in FieldsOf[o] |-> 0]]
    /\ servers = <<[name |-> "a", prefer |-> 0], [name |-> "b", prefer |-> 0], [name |-> "c", prefer |-> 0]>>
    /\ contracts = [k \in Contracts |-> NoContract]
    /\ took = {}
    /\ misdirected = {}
    /\ touched = {}
    /\ adminEdits = 0

Become(k, state) == contracts' = [contracts EXCEPT ![k].state = state]

\* The preparers: read the target, refuse a change that changes nothing, keep
\* the fingerprint as precondition and as rollback snapshot.
PrepareChange(k) ==
    /\ contracts[k] = NoContract
    /\ \E cap \in Capabilities, want \in Values :
         /\ Resolves(cap)
         /\ OwnValue(cap, Fingerprint(cap)) # want
         /\ contracts' = [contracts EXCEPT ![k] =
                [state |-> "prepared", cap |-> cap, want |-> want, snapshot |-> Fingerprint(cap),
                 locator |-> Locator(cap), verified |-> Fingerprint(cap)]]
    /\ UNCHANGED <<settings, servers, took, misdirected, touched, adminEdits>>

\* Before a send the target must still be as expected, at the same place.
StillTheTarget(c, expected) ==
    /\ Resolves(c.cap)
    /\ Fingerprint(c.cap) = expected
    /\ Locator(c.cap) = c.locator

\* execute up to the send: the pre-send read.
ReadBeforeSend(k) ==
    /\ contracts[k].state = "prepared"
    /\ Become(k, IF StillTheTarget(contracts[k], contracts[k].snapshot) THEN "sending" ELSE "failed")
    /\ UNCHANGED <<settings, servers, took, misdirected, touched, adminEdits>>

\* The patch itself. Its answer may be lost after it took effect or before.
Apply(k, value) ==
    LET c == contracts[k] IN
    IF c.cap = "ntp_prefer"
    THEN /\ c.locator \in DOMAIN servers        \* otherwise refused
         /\ servers' = PatchedServers(c, value)
         /\ misdirected' = IF c.locator \in PositionOf(TargetServer) THEN misdirected
                           ELSE misdirected \cup {k}
         /\ UNCHANGED settings
    ELSE settings' = Patched(c, value) /\ UNCHANGED <<servers, misdirected>>

SendChange(k) ==
    /\ contracts[k].state = "sending"
    /\ \/ /\ Apply(k, contracts[k].want)
          /\ took' = took \cup {k}
          /\ Become(k, "sent") \/ Become(k, "reconciliation")
       \/ /\ Become(k, "reconciliation") \/ Become(k, "failed")
          /\ UNCHANGED <<settings, servers, took, misdirected>>
    /\ UNCHANGED <<touched, adminEdits>>

\* The result is read back and judged against what was read before the send.
ReadBackVerified(c) ==
    SemanticallyVerified(c.cap, c.snapshot, Fingerprint(c.cap), c.want)

VerifyChange(k) ==
    LET c == contracts[k] IN
    /\ c.state = "sent"
    /\ IF ~Resolves(c.cap) \/ Locator(c.cap) # c.locator
       THEN Become(k, "reconciliation")
       ELSE IF ReadBackVerified(c)
       THEN contracts' = [contracts EXCEPT ![k].state = "verified", ![k].verified = Fingerprint(c.cap)]
       ELSE Become(k, "failed")
    /\ UNCHANGED <<settings, servers, took, misdirected, touched, adminEdits>>

\* rollback: only from the very state that was verified.
ReadBeforeRollback(k) ==
    /\ contracts[k].state = "verified"
    /\ Become(k, IF StillTheTarget(contracts[k], contracts[k].verified) THEN "rolling_back"
                 ELSE "rollback_failed")
    /\ UNCHANGED <<settings, servers, took, misdirected, touched, adminEdits>>

SendRollback(k) ==
    LET old == OwnValue(contracts[k].cap, contracts[k].snapshot) IN
    /\ contracts[k].state = "rolling_back"
    /\ \/ /\ Apply(k, old)
          /\ Become(k, "rollback_sent") \/ Become(k, "reconciliation")
       \/ /\ Become(k, "reconciliation") \/ Become(k, "rollback_failed")
          /\ UNCHANGED <<settings, servers, misdirected>>
    /\ UNCHANGED <<took, touched, adminEdits>>

\* is_rollback_verified: the whole fingerprint is the snapshot again.
VerifyRollback(k) ==
    LET c == contracts[k] IN
    /\ c.state = "rollback_sent"
    /\ Become(k, IF ~Resolves(c.cap) \/ Locator(c.cap) # c.locator THEN "reconciliation"
                 ELSE IF Fingerprint(c.cap) = c.snapshot THEN "rolled_back" ELSE "rollback_failed")
    /\ UNCHANGED <<settings, servers, took, misdirected, touched, adminEdits>>

-----------------------------------------------------------------------------
OwnersOf(o, f) == { cap \in DOMAIN OwnField : ObjectOf[cap] = o /\ OwnField[cap] = f }

\* The contracts under way for what an administrator sets.
UnderWay(caps) == { k \in Contracts : contracts[k] # NoContract /\ contracts[k].cap \in caps }

\* An administrator sets a field, to a contract's value or to another.
EditSetting ==
    /\ adminEdits < MaxAdminEdits
    /\ adminEdits' = adminEdits + 1
    /\ \E o \in { ObjectOf[cap] : cap \in Capabilities \ {"ntp_prefer"} } : \E f \in FieldsOf[o], v \in Values :
         /\ settings' = [settings EXCEPT ![o][f] = v]
         /\ touched' = touched \cup UnderWay(OwnersOf(o, f))
    /\ UNCHANGED <<servers, contracts, took, misdirected>>

\* What an administrator enters: another server, or the target anew.
NewServers == {[name |-> "d", prefer |-> 0]} \cup [name : {TargetServer}, prefer : Values]

\* A server is removed, is preferred or not, or is entered anywhere in the
\* list: the ids of those behind it shift. The target is a server like others.
EditServers ==
    /\ adminEdits < MaxAdminEdits
    /\ adminEdits' = adminEdits + 1
    /\ \/ \E i \in DOMAIN servers : servers' = RemoveAt(servers, i) /\ UNCHANGED touched
       \/ \E i \in DOMAIN servers, v \in Values :
            /\ servers' = [servers EXCEPT ![i].prefer = v]
            /\ touched' = touched \cup IF servers[i].name = TargetServer THEN UnderWay({"ntp_prefer"}) ELSE {}
       \/ \E i \in 1..Len(servers) + 1, e \in NewServers :
            /\ servers' = InsertAt(servers, i, e)
            /\ touched' = touched \cup IF e.name = TargetServer THEN UnderWay({"ntp_prefer"}) ELSE {}
    /\ UNCHANGED <<settings, contracts, took, misdirected>>

AdaptersNext ==
    \/ \E k \in Contracts :
         \/ PrepareChange(k) \/ ReadBeforeSend(k) \/ SendChange(k) \/ VerifyChange(k)
         \/ ReadBeforeRollback(k) \/ SendRollback(k) \/ VerifyRollback(k)
    \/ EditSetting
    \/ ("ntp_prefer" \in Capabilities /\ EditServers)

AdaptersSpec == AdaptersInit /\ [][AdaptersNext]_adapterVars

-----------------------------------------------------------------------------
(* Two adapters on one object never undo each other: once a contract is     *)
(* verified its field holds what it asked for, and once rolled back what    *)
(* was there before, unless an administrator or a contract for the same     *)
(* field set it - however the sends, checks and rollbacks of contracts      *)
(* for the object's other fields fall in between.                           *)
SettledValueHolds ==
    \A k \in Contracts \ touched :
        LET c == contracts[k] IN
        ( /\ c.state \in {"verified", "rolled_back"}
          /\ c.cap # "ntp_prefer"
          /\ \A j \in Contracts \ {k} : contracts[j] = NoContract \/ contracts[j].cap # c.cap )
        => settings[ObjectOf[c.cap]][OwnField[c.cap]] =
             IF c.state = "verified" THEN c.want ELSE OwnValue(c.cap, c.snapshot)

(* A patch that hit another NTP server, because the list shifted between    *)
(* the read and the patch, is not recorded as verified or rolled back, also *)
(* when the list shifts back before the result is read - unless an          *)
(* administrator meanwhile set the target's own flag or entered the target  *)
(* anew: what the read-back (executor.py:513-533) then finds is as wished,  *)
(* and it cannot tell who made it so.                                       *)
MisdirectedNeverVerified ==
    \A k \in misdirected \ touched :
        (\A j \in Contracts \ {k} : contracts[j] = NoContract)
            => contracts[k].state \notin {"verified", "rolled_back"}

(* A settled contract tells the truth about its own field, whatever other   *)
(* adapters and a shifting list do, as long as no administrator set that    *)
(* very field or flag in the contract's course (write_adapter_support.py).  *)
AdaptersSound == SettledValueHolds /\ MisdirectedNeverVerified

(* ADR-037 and the architecture diagram: FAILED is "proven zero effect".    *)
FailedHadNoEffect == \A k \in Contracts : contracts[k].state = "failed" => k \notin took
=============================================================================
