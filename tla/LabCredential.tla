--------------------------- MODULE LabCredential ---------------------------
(***************************************************************************)
(* The recovery ceremony of the laboratory write account: its password is  *)
(* reset, a privilege to make keys is granted for a moment, the account    *)
(* makes itself a new key, the key is stored, and the final privileges     *)
(* replace the temporary ones. Every request may fail, with or without     *)
(* having taken effect; nothing is undone. Privilege sets are written      *)
(* whole. Other administrators may change the account meanwhile.           *)
(***************************************************************************)
EXTENDS Integers, FiniteSets

CONSTANTS MaxCeremonies,    \* bound: ceremonies run
          MaxAccountEdits   \* bound: changes by other administrators

ASSUME CeremonyBounds == MaxCeremonies \in Nat /\ MaxAccountEdits \in Nat

VARIABLES
    labAccount,     \* the account on the appliance
    labFiles,       \* key files written by this program, by ceremony
    ceremony,       \* the ceremony in progress, or the last one's result
    labLeft         \* bounds used up

labVars == <<labAccount, labFiles, ceremony, labLeft>>

\* The privileges that matter: "scope" stands for the 4 of the start, "more"
\* for the 9 the final set adds, "make_key" for BOOTSTRAP_ONLY_PRIVILEGE.
StartingPrivileges == {"scope"}
TemporaryPrivileges == StartingPrivileges \cup {"make_key"}
FinalPrivileges == StartingPrivileges \cup {"more"}

LabInit ==
    /\ labAccount = [priv |-> StartingPrivileges, password |-> 0, keys |-> {}, disabled |-> FALSE]
    /\ labFiles = {}
    /\ ceremony = [pc |-> "idle", outcome |-> "none", run |-> 0]
    /\ labLeft = [ceremonies |-> 0, edits |-> 0]

CeremonyAt(pc) == ceremony.pc = pc
CeremonyTo(pc) == ceremony' = [ceremony EXCEPT !.pc = pc]
EndCeremony(outcome) == ceremony' = [ceremony EXCEPT !.pc = "idle", !.outcome = outcome]

\* _prestate_mismatch_detail: exactly the starting privileges, not disabled.
Prestate == ~labAccount.disabled /\ labAccount.priv = StartingPrivileges

\* recover_tier1_lab_credential up to the ceremony.
ObserveAccount ==
    /\ CeremonyAt("idle") /\ labLeft.ceremonies < MaxCeremonies
    /\ labLeft' = [labLeft EXCEPT !.ceremonies = @ + 1]
    /\ ceremony' = IF Prestate
                   THEN [pc |-> "password", outcome |-> "none", run |-> labLeft.ceremonies + 1]
                   ELSE [pc |-> "idle", outcome |-> "prestate_mismatch", run |-> labLeft.ceremonies + 1]
    /\ UNCHANGED <<labAccount, labFiles>>

\* A request that takes effect, one that fails after it took effect, and one
\* that fails before.
AccountRequest(effect, pc) ==
    \/ labAccount' = effect /\ (CeremonyTo(pc) \/ EndCeremony("failed"))
    \/ UNCHANGED labAccount /\ EndCeremony("failed")

ResetPassword ==
    /\ CeremonyAt("password")
    /\ AccountRequest([labAccount EXCEPT !.password = ceremony.run], "grant")
    /\ UNCHANGED <<labFiles, labLeft>>

GrantTemporary ==
    /\ CeremonyAt("grant")
    /\ AccountRequest([labAccount EXCEPT !.priv = TemporaryPrivileges], "reread_granted")
    /\ UNCHANGED <<labFiles, labLeft>>

\* A check that the account holds at least what is expected.
HoldsAtLeast(expected) == ~labAccount.disabled /\ expected \subseteq labAccount.priv

\* _reread_and_check: exactly the expected privileges; the read may fail too.
HoldsExactly(expected) == ~labAccount.disabled /\ labAccount.priv = expected

RereadGranted ==
    /\ CeremonyAt("reread_granted")
    /\ (HoldsExactly(TemporaryPrivileges) /\ CeremonyTo("make_key")) \/ EndCeremony("failed")
    /\ UNCHANGED <<labAccount, labFiles, labLeft>>

\* The account makes the key with its new password.
MakeKey ==
    /\ CeremonyAt("make_key")
    /\ IF labAccount.password = ceremony.run /\ "make_key" \in labAccount.priv /\ ~labAccount.disabled
       THEN AccountRequest([labAccount EXCEPT !.keys = @ \cup {ceremony.run}], "store")
       ELSE UNCHANGED labAccount /\ EndCeremony("failed")
    /\ UNCHANGED <<labFiles, labLeft>>

\* _write_new_key_file creates the file exclusively; the key is lost when it
\* cannot.
StoreKey ==
    /\ CeremonyAt("store")
    /\ \/ labFiles' = labFiles \cup {ceremony.run} /\ CeremonyTo("finalize")
       \/ UNCHANGED labFiles /\ EndCeremony("failed")
    /\ UNCHANGED <<labAccount, labLeft>>

ApplyFinal ==
    /\ CeremonyAt("finalize")
    /\ AccountRequest([labAccount EXCEPT !.priv = FinalPrivileges], "reread_final")
    /\ UNCHANGED <<labFiles, labLeft>>

RereadFinal ==
    /\ CeremonyAt("reread_final")
    /\ (HoldsExactly(FinalPrivileges) /\ EndCeremony("completed")) \/ EndCeremony("failed")
    /\ UNCHANGED <<labAccount, labFiles, labLeft>>

\* The process dies: there is no result and nothing is undone.
DieCeremony ==
    /\ ~CeremonyAt("idle")
    /\ ceremony' = [ceremony EXCEPT !.pc = "idle"]
    /\ UNCHANGED <<labAccount, labFiles, labLeft>>

\* Another administrator adds or removes a privilege, or disables the account.
EditAccount ==
    /\ labLeft.edits < MaxAccountEdits
    /\ labLeft' = [labLeft EXCEPT !.edits = @ + 1]
    /\ \/ labAccount' = [labAccount EXCEPT !.priv = @ \cup {"make_key"}]
       \/ labAccount' = [labAccount EXCEPT !.priv = StartingPrivileges]
       \/ labAccount' = [labAccount EXCEPT !.disabled = ~@]
    /\ UNCHANGED <<labFiles, ceremony>>

LabNext ==
    \/ ObserveAccount \/ ResetPassword \/ GrantTemporary \/ RereadGranted \/ MakeKey \/ StoreKey
    \/ ApplyFinal \/ RereadFinal \/ DieCeremony \/ EditAccount

LabSpec == LabInit /\ [][LabNext]_labVars

-----------------------------------------------------------------------------
(* A ceremony reported as completed left a key that works and is stored,    *)
(* and an account that held exactly the final privileges when it was read   *)
(* last - not the privilege to make keys.                                   *)
CompletedCeremonyClean ==
    [][ceremony'.outcome = "completed" /\ ceremony.outcome # "completed" =>
         /\ labAccount.priv = FinalPrivileges
         /\ ceremony.run \in labFiles \cap labAccount.keys]_labVars
=============================================================================
