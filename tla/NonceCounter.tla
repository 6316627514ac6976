---------------------------- MODULE NonceCounter ----------------------------
(***************************************************************************)
(* The counter file behind the AES-GCM nonces of one encryption key.       *)
(*                                                                         *)
(* Every call builds its runtime afresh, so a process opens the counter,   *)
(* takes a value for each artifact it encrypts, and drops it.  next()      *)
(* reads the file, truncates it, writes the successor, syncs and returns;  *)
(* nothing locks the file.  A process may die between any two of these     *)
(* system calls, and the machine may lose power with the sync outstanding. *)
(***************************************************************************)
EXTENDS Integers

CONSTANTS
  Proc,
  MaxNonceCounter,   \* MAX_NONCE_COUNTER
  Exclusive,         \* at most one process has the counter open at a time
  MaxCrashes         \* bound

ASSUME NonceAssumption ==
  /\ MaxNonceCounter \in Nat /\ MaxCrashes \in Nat
  /\ Exclusive \in BOOLEAN

VARIABLES
  file,      \* what a reader of the file sees
  durable,   \* what the disk has
  pc,        \* per process: its next system call
  value,     \* per process: the value it is about to write or has written
  crashes,
  issued     \* history: how often a value went into a nonce

vars == <<file, durable, pc, value, crashes, issued>>

Absent == -2
Torn == -1      \* truncated or partly written: not JSON
Content == Nat \cup {Absent, Torn}

Location == {"closed", "create", "ready", "truncate", "write", "sync", "use"}

Init ==
  /\ file = Absent
  /\ durable = Absent
  /\ pc = [p \in Proc |-> "closed"]
  /\ value = [p \in Proc |-> 0]
  /\ crashes = 0
  /\ issued = [n \in 1..MaxNonceCounter |-> 0]

Go(p, where) == pc' = [pc EXCEPT ![p] = where]

\* _read() returns a counter.
Readable(c) == c \in Nat

\* NonceCounter(path): _prepare().  A torn file is refused.
Open(p) ==
  /\ pc[p] = "closed"
  /\ Exclusive => \A q \in Proc : pc[q] = "closed"
  /\ \/ /\ file = Absent
        /\ Go(p, "create")
        /\ value' = [value EXCEPT ![p] = 0]
     \/ /\ Readable(file)
        /\ Go(p, "ready")
        /\ UNCHANGED value
  /\ UNCHANGED <<file, durable, crashes, issued>>

\* next(): read and add one; exhausted and torn files raise.
TakeNext(p) ==
  /\ pc[p] = "ready"
  /\ IF Readable(file) /\ file < MaxNonceCounter
       THEN Go(p, "truncate") /\ value' = [value EXCEPT ![p] = file + 1]
       ELSE Go(p, "closed") /\ UNCHANGED value
  /\ UNCHANGED <<file, durable, crashes, issued>>

\* _write(): open or create, and truncate.
Truncate(p) ==
  /\ pc[p] \in {"create", "truncate"}
  /\ file' = Torn
  /\ Go(p, "write")
  /\ UNCHANGED <<durable, value, crashes, issued>>

Write(p) ==
  /\ pc[p] = "write"
  /\ file' = value[p]
  /\ Go(p, "sync")
  /\ UNCHANGED <<durable, value, crashes, issued>>

\* fsync(): the value 0 of a new file is not returned to anyone.
Sync(p) ==
  /\ pc[p] = "sync"
  /\ durable' = file
  /\ Go(p, IF value[p] = 0 THEN "ready" ELSE "use")
  /\ UNCHANGED <<file, value, crashes, issued>>

\* Faulty use: one value for all the artifacts of a contract.
UseAgain(p) ==
  /\ pc[p] = "use"
  /\ issued' = [issued EXCEPT ![value[p]] = @ + 1]
  /\ pc' \in {[pc EXCEPT ![p] = "ready"], pc}
  /\ UNCHANGED <<file, durable, value, crashes>>

\* build_nonce() and encrypt_artifact() with the value returned.
Use(p) ==
  /\ pc[p] = "use"
  /\ issued' = [issued EXCEPT ![value[p]] = @ + 1]
  /\ Go(p, "ready")
  /\ UNCHANGED <<file, durable, value, crashes>>

\* The call is over and its runtime is dropped.
Close(p) ==
  /\ pc[p] = "ready"
  /\ Go(p, "closed")
  /\ UNCHANGED <<file, durable, value, crashes, issued>>

\* The process dies; what it has written so far stays.
Crash(p) ==
  /\ pc[p] # "closed"
  /\ crashes < MaxCrashes
  /\ crashes' = crashes + 1
  /\ Go(p, "closed")
  /\ UNCHANGED <<file, durable, value, issued>>

\* The machine stops: anything between the last sync and the present may be on
\* the disk.
PowerLoss ==
  /\ crashes < MaxCrashes
  /\ crashes' = crashes + 1
  /\ \E c \in {file, durable} \cup (IF file = durable THEN {} ELSE {Torn}) :
       file' = c /\ durable' = c
  /\ pc' = [p \in Proc |-> "closed"]
  /\ UNCHANGED <<value, issued>>

Step(p) ==
  \/ Open(p) \/ TakeNext(p) \/ Truncate(p) \/ Write(p) \/ Sync(p) \/ Use(p) \/ Close(p)
  \/ Crash(p)

Next == PowerLoss \/ \E p \in Proc : Step(p)

Spec == Init /\ [][Next]_vars

-----------------------------------------------------------------------------
TypeOK ==
  /\ file \in Content /\ durable \in Content
  /\ pc \in [Proc -> Location]
  /\ value \in [Proc -> 0..MaxNonceCounter]
  /\ crashes \in 0..MaxCrashes
  /\ issued \in [1..MaxNonceCounter -> Nat]

\* No counter value is put into two nonces, across restarts and power losses
\* (NonceCounter: "a crash can only skip counter values (safe) and never reuse
\* one (unsafe)"; key_lifecycle.md G5).
NonceUnique == \A n \in 1..MaxNonceCounter : issued[n] <= 1

\* A value in use is on the disk: what the machine would come back with is no
\* smaller, or refuses to be read.
UsedIsDurable == Readable(durable) => \A n \in 1..MaxNonceCounter : issued[n] > 0 => n <= durable
=============================================================================
