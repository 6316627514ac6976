---------------------------- MODULE AnchorSpec ----------------------------
(***************************************************************************)
(* What the AntiRollbackAnchor protocol promises its caller: a counter     *)
(* that moves by one, and only on behalf of an advance() whose             *)
(* expected_current it still has.  A call may fail with                    *)
(* AnchorUnavailableError at any time, and its effect may come after the   *)
(* caller has given up on it.                                              *)
(***************************************************************************)
EXTENDS Integers

CONSTANTS
  Call,        \* identities of calls; each is made once
  Baseline     \* the counter's first value

VARIABLES
  value,       \* the counter
  ask,         \* what each call asked for
  moved,       \* the advance() calls that have moved the counter
  reply        \* what each call was answered

vars == <<value, ask, moved, reply>>

NotAsked == [kind |-> "none", expected |-> 0, since |-> 0]
NoReply == -1
Conflict == -2       \* AnchorConflictError
Unavailable == -3    \* AnchorUnavailableError

Init ==
  /\ value = Baseline
  /\ ask = [c \in Call |-> NotAsked]
  /\ moved = {}
  /\ reply = [c \in Call |-> NoReply]

Ask(c) ==
  /\ ask[c] = NotAsked
  /\ ask'[c] \in [kind : {"read", "advance"}, expected : Nat, since : {value}]
  /\ ask' = [ask EXCEPT ![c] = ask'[c]]
  /\ UNCHANGED <<value, moved, reply>>

\* The atomic compare and advance.
Move(c) ==
  /\ ask[c].kind = "advance"
  /\ c \notin moved
  /\ value = ask[c].expected
  /\ value' = value + 1
  /\ moved' = moved \cup {c}
  /\ UNCHANGED <<ask, reply>>

\* A read returns a value the counter has had since it was asked, an advance
\* the value it moved the counter to, a conflict that the counter had another
\* value at some time since, and was not moved.
Truthful(c, r) ==
  \/ r = Unavailable
  \/ ask[c].kind = "read" /\ r \in ask[c].since..value
  \/ ask[c].kind = "advance" /\ c \in moved /\ r = ask[c].expected + 1
  \/ ask[c].kind = "advance" /\ c \notin moved /\ r = Conflict
       /\ ~(ask[c].since = ask[c].expected /\ value = ask[c].expected)

Answer(c) ==
  /\ ask[c] # NotAsked
  /\ reply[c] = NoReply
  /\ \E r \in {Unavailable, Conflict} \cup (Baseline..value) :
       /\ Truthful(c, r)
       /\ reply' = [reply EXCEPT ![c] = r]
  /\ UNCHANGED <<value, ask, moved>>

Next == \E c \in Call : Ask(c) \/ Move(c) \/ Answer(c)

Spec == Init /\ [][Next]_vars
=============================================================================
