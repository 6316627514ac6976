--------------------------- MODULE WitnessProofs ---------------------------
(***************************************************************************)
(* Proofs about Witness: no store remembers a value the counter has not    *)
(* reached, the daemon implements the anchor its callers rely on, and a    *)
(* single store is refused only for a reason.                              *)
(***************************************************************************)
EXTENDS Witness, TLAPS

\* An unanswered call has had no effect, unless it is the one whose increment
\* is done and whose answer is being read.
CallsInv ==
  \A c \in CallId :
    /\ ask[c].since <= tpm
    /\ ask[c] = NotAsked => reply[c] = NoReply /\ c \notin moved
    /\ reply[c] \in Nat => reply[c] \in Baseline..tpm
    /\ reply[c] = NoReply /\ c \in moved => serving.call = c /\ serving.pc = "reread"

\* The advance() being served holds the daemon's lock, so the counter is where
\* the compare, or the increment, left it.
ServingInv ==
  serving # NotServing =>
    /\ serving.call \in CallId
    /\ serving.pc # "idle"
    /\ reply[serving.call] = NoReply
    /\ ask[serving.call].kind = "advance"
    /\ serving.pc = "increment" => tpm = ask[serving.call].expected /\ serving.call \notin moved
    /\ serving.pc = "reread" /\ ~IncrementMayVanish =>
         tpm = ask[serving.call].expected + 1 /\ serving.call \in moved

\* Every place a mark can come from holds a value the counter has had.
MarksInv ==
  \A s \in Store : file[s].mark <= tpm /\ backup[s].mark <= tpm /\ observed[s] <= tpm

GatesInv ==
  \A p \in Proc :
    /\ gate[p].pc \in {"read", "advance", "commit"} => gate[p].call \in CallId
    /\ gate[p].pc = "commit" => reply[gate[p].call] \in Nat

WitnessInv ==
  /\ TypeOK /\ Baseline <= tpm
  /\ CallsInv /\ ServingInv /\ MarksInv /\ GatesInv

-----------------------------------------------------------------------------
LEMMA IdleIsGate == Idle \in Gate
  BY DEF Idle, Gate

LEMMA MarkedFile ==
  ASSUME NEW f \in File, NEW v \in Nat \cup {Unseeded}
  PROVE  [f EXCEPT !.mark = v] \in File /\ [f EXCEPT !.mark = v].mark = v
  BY DEF File

LEMMA RowsOfFile ==
  ASSUME NEW f \in File, NEW P \in SUBSET Contract, NEW E \in SUBSET Contract
  PROVE  LET g == [f EXCEPT !.prepared = P, !.executing = E] IN g \in File /\ g.mark = f.mark
  BY DEF File

LEMMA InitEstablishes == Init => WitnessInv
<1> SUFFICES ASSUME Init PROVE WitnessInv
  OBVIOUS
<1>1. TypeOK
  BY WitnessAssumption, IdleIsGate DEF Init, TypeOK, NotAsked, NoReply, NotServing, NoCall, File, Unseeded
<1>2. CallsInv /\ ServingInv
  BY WitnessAssumption DEF Init, CallsInv, ServingInv, NotAsked, NoReply
<1>3. MarksInv /\ GatesInv
  BY WitnessAssumption DEF Init, MarksInv, GatesInv, Idle, Unseeded
<1> QED
  BY <1>1, <1>2, <1>3, WitnessAssumption DEF WitnessInv, Init

\* Frame facts: what keeps a part of the invariant when most variables stay.
LEMMA GatesKeep ==
  ASSUME WitnessInv, gate' = gate, \A c \in CallId : reply[c] \in Nat => reply'[c] = reply[c]
  PROVE  GatesInv'
  BY DEF WitnessInv, GatesInv, TypeOK, Gate

LEMMA MarksKeep ==
  ASSUME WitnessInv, UNCHANGED disk, tpm' \in Nat, tpm <= tpm'
  PROVE  MarksInv'
  BY DEF WitnessInv, MarksInv, TypeOK, File, Unseeded, disk

LEMMA WireKeeps ==
  ASSUME WitnessInv, UNCHANGED <<daemon, wire>>
  PROVE  CallsInv' /\ ServingInv' /\ (Baseline <= tpm)'
  BY DEF WitnessInv, CallsInv, ServingInv, daemon, wire

LEMMA DaemonPreserves ==
  ASSUME WitnessInv, DaemonStep PROVE WitnessInv'
<1> USE WitnessAssumption DEF WitnessInv, NoReply, Conflict, Unavailable
<1>1. ASSUME NEW c \in CallId, ServeRead(c) PROVE WitnessInv'
  <2> USE <1>1 DEF ServeRead, Respond, Waiting, TpmFails
  <2>1. TypeOK' /\ (Baseline <= tpm)'
    BY DEF TypeOK, daemon, disk, history
  <2>2. CallsInv'
    BY DEF TypeOK, CallsInv, NotServing, daemon
  <2>3. ServingInv'
    BY DEF TypeOK, ServingInv, daemon
  <2>4. MarksInv' /\ GatesInv'
    BY MarksKeep, GatesKeep DEF TypeOK, daemon
  <2> QED
    BY <2>1, <2>2, <2>3, <2>4
<1>2. ASSUME NEW c \in CallId, Check(c) PROVE WitnessInv'
  <2> USE <1>2 DEF Check, Respond, Waiting, TpmFails
  <2>0. c \notin moved
    BY DEF CallsInv, NotServing
  <2>1. TypeOK' /\ (Baseline <= tpm)'
    BY DEF TypeOK, disk, history
  <2>2. CallsInv'
    <3> SUFFICES ASSUME NEW d \in CallId
                 PROVE  /\ ask[d].since <= tpm
                        /\ ask[d] = NotAsked => reply'[d] = NoReply /\ d \notin moved
                        /\ reply'[d] \in Nat => reply'[d] \in Baseline..tpm
                        /\ ~(reply'[d] = NoReply /\ d \in moved)
      BY DEF CallsInv
    <3>1. CASE d = c
      BY <3>1, <2>0 DEF CallsInv, TypeOK
    <3>2. CASE d # c
      BY <3>2 DEF CallsInv, TypeOK, NotServing
    <3> QED
      BY <3>1, <3>2
  <2>3. ServingInv'
    BY <2>0 DEF TypeOK, ServingInv, NotServing, Matches
  <2>4. MarksInv' /\ GatesInv'
    BY MarksKeep, GatesKeep DEF TypeOK
  <2> QED
    BY <2>1, <2>2, <2>3, <2>4
<1>3. ASSUME Increment PROVE WitnessInv'
  <2> USE <1>3 DEF Increment, Respond, TpmFails
  <2>0. /\ serving # NotServing /\ serving.call \in CallId
        /\ reply[serving.call] = NoReply /\ ask[serving.call].kind = "advance"
        /\ tpm = ask[serving.call].expected /\ serving.call \notin moved
    BY DEF ServingInv, NotServing
  <2>1. TypeOK' /\ (Baseline <= tpm)'
    BY <2>0 DEF TypeOK, NotServing, disk, history
  <2>2. CallsInv'
    <3>1. CASE tpm' = tpm + 1
      BY <2>0, <3>1 DEF TypeOK, CallsInv, NotAsked
    <3>2. CASE tpm' = tpm
      BY <2>0, <3>2 DEF TypeOK, CallsInv, NotAsked
    <3> QED
      BY <3>1, <3>2
  <2>3. ServingInv'
    BY <2>0 DEF TypeOK, ServingInv, NotServing
  <2>4. MarksInv' /\ GatesInv'
    BY <2>0, MarksKeep, GatesKeep DEF TypeOK
  <2> QED
    BY <2>1, <2>2, <2>3, <2>4
<1>4. ASSUME Reread \/ DaemonCrash PROVE WitnessInv'
  <2> USE <1>4 DEF Reread, DaemonCrash, Respond, TpmFails
  <2>0. /\ serving # NotServing /\ serving.call \in CallId
        /\ reply[serving.call] = NoReply /\ ask[serving.call].kind = "advance"
    BY DEF ServingInv, NotServing
  <2>1. TypeOK' /\ (Baseline <= tpm)'
    BY <2>0 DEF TypeOK, NotServing, disk, history
  <2>2. CallsInv'
    <3> SUFFICES ASSUME NEW d \in CallId
                 PROVE  /\ ask[d].since <= tpm
                        /\ ask[d] = NotAsked => reply'[d] = NoReply /\ d \notin moved
                        /\ reply'[d] \in Nat => reply'[d] \in Baseline..tpm
                        /\ ~(reply'[d] = NoReply /\ d \in moved)
      BY DEF CallsInv
    <3>1. CASE d = serving.call
      BY <3>1, <2>0 DEF CallsInv, TypeOK, NotAsked
    <3>2. CASE d # serving.call
      BY <3>2 DEF CallsInv, TypeOK
    <3> QED
      BY <3>1, <3>2
  <2>3. ServingInv'
    BY DEF ServingInv
  <2>4. MarksInv' /\ GatesInv'
    BY <2>0, MarksKeep, GatesKeep DEF TypeOK
  <2> QED
    BY <2>1, <2>2, <2>3, <2>4
<1> QED
  BY <1>1, <1>2, <1>3, <1>4 DEF DaemonStep

\* The call a request takes is one nobody has made.
LEMMA NextCallUnused ==
  ASSUME Unused # {} PROVE NextCall \in CallId /\ ask[NextCall] = NotAsked
  BY DEF Unused, NextCall

\* A request disturbs no call already made.
LEMMA RequestPreserves ==
  ASSUME WitnessInv, NEW p \in Proc, NEW kind \in {"read", "advance"}, NEW e \in Nat, NEW g \in Gate,
         Request(p, kind, e, g), UNCHANGED <<daemon, disk>>
  PROVE  /\ CallsInv' /\ ServingInv' /\ MarksInv' /\ GatesInv'
         /\ ask' \in [CallId -> [kind : {"none", "read", "advance"}, expected : Nat, since : Nat]]
         /\ gate' \in [Proc -> Gate] /\ reply' = reply
<1> USE DEF WitnessInv, Request, daemon
<1>1. NextCall \in CallId /\ ask[NextCall] = NotAsked /\ reply[NextCall] = NoReply /\ NextCall \notin moved
  BY NextCallUnused DEF CallsInv
<1>2. serving # NotServing => serving.call # NextCall
  BY <1>1 DEF ServingInv, NotAsked
<1>3. ask' \in [CallId -> [kind : {"none", "read", "advance"}, expected : Nat, since : Nat]]
  BY <1>1 DEF TypeOK
<1>4. [g EXCEPT !.pc = kind, !.call = NextCall] \in Gate
  BY <1>1 DEF Gate
<1>5. CallsInv'
  BY <1>1 DEF TypeOK, CallsInv, NoReply
<1>6. ServingInv'
  BY <1>1, <1>2 DEF TypeOK, ServingInv
<1>7. MarksInv'
  BY MarksKeep DEF TypeOK
<1>8. GatesInv'
  BY <1>1, <1>4 DEF TypeOK, GatesInv, Gate
<1> QED
  BY <1>3, <1>4, <1>5, <1>6, <1>7, <1>8 DEF TypeOK

LEMMA ProcPreserves ==
  ASSUME WitnessInv, NEW p \in Proc, ProcStep(p) PROVE WitnessInv'
<1> USE WitnessAssumption, IdleIsGate DEF WitnessInv
<1>0. gate[p] \in Gate /\ StoreOf[p] \in Store
  BY DEF TypeOK
<1>1. ASSUME NEW x \in Contract, BeginGate(p, x) PROVE WitnessInv'
  <2>1. [Idle EXCEPT !.contract = x, !.persisted = file[StoreOf[p]].mark] \in Gate
    BY <1>0 DEF Idle, Gate, TypeOK, File
  <2>2. /\ CallsInv' /\ ServingInv' /\ MarksInv' /\ GatesInv'
        /\ ask' \in [CallId -> [kind : {"none", "read", "advance"}, expected : Nat, since : Nat]]
        /\ gate' \in [Proc -> Gate] /\ reply' = reply
    BY <1>1, <2>1, RequestPreserves DEF BeginGate
  <2> QED
    BY <1>1, <2>2 DEF BeginGate, TypeOK, daemon, disk, environment, history
<1>2. ASSUME Compare(p) PROVE WitnessInv'
  <2>0. gate[p].call \in CallId /\ gate[p].persisted \in Nat \cup {Unseeded}
    BY <1>2, <1>0 DEF Compare, GatesInv, Gate
  <2>1. CASE Request(p, "advance", reply[gate[p].call], gate[p]) /\ Agrees(p) /\ refused' = refused
    <3>1. reply[gate[p].call] \in Nat
      BY <1>2, <2>0, <2>1 DEF Compare, Agrees, Unseeded, NoReply
    <3>2. /\ CallsInv' /\ ServingInv' /\ MarksInv' /\ GatesInv'
          /\ ask' \in [CallId -> [kind : {"none", "read", "advance"}, expected : Nat, since : Nat]]
          /\ gate' \in [Proc -> Gate] /\ reply' = reply
      BY <1>0, <1>2, <2>1, <3>1, RequestPreserves DEF Compare
    <3> QED
      BY <1>2, <2>1, <3>2 DEF Compare, TypeOK, daemon, disk, environment
  <2>2. CASE Leave(p) /\ UNCHANGED wire /\ refused' \subseteq Store
    <3>1. TypeOK'
      BY <1>2, <2>2 DEF Compare, Leave, TypeOK, daemon, wire, disk, environment
    <3>2. MarksInv'
      BY <1>2, MarksKeep DEF Compare, daemon, TypeOK
    <3>3. GatesInv'
      BY <2>2 DEF Leave, GatesInv, TypeOK, Idle, wire
    <3> QED
      BY <1>2, <2>2, <3>1, <3>2, <3>3, WireKeeps DEF Compare
  <2> QED
    BY <1>0, <1>2, <2>1, <2>2 DEF Compare, TypeOK
<1>3. ASSUME Advanced(p) PROVE WitnessInv'
  <2>1. gate' \in [Proc -> Gate] /\ disturbed' \subseteq Store
    <3>1. [gate[p] EXCEPT !.pc = "commit"] \in Gate
      BY <1>0 DEF Gate
    <3> QED
      BY <1>0, <1>3, <3>1 DEF Advanced, Leave, TypeOK
  <2>2. TypeOK'
    BY <1>3, <2>1 DEF Advanced, TypeOK, daemon, wire, disk, environment
  <2>3. MarksInv'
    BY <1>3, MarksKeep DEF Advanced, daemon, TypeOK
  <2>4. GatesInv'
    <3>1. CASE reply[gate[p].call] \in Nat
      BY <1>0, <1>3, <3>1 DEF Advanced, GatesInv, TypeOK, wire, Gate
    <3>2. CASE reply[gate[p].call] \notin Nat
      BY <1>3, <3>2 DEF Advanced, Leave, GatesInv, TypeOK, wire, Idle
    <3> QED
      BY <3>1, <3>2
  <2> QED
    BY <1>3, <2>2, <2>3, <2>4, WireKeeps DEF Advanced
<1>4. ASSUME CommitGate(p) PROVE WitnessInv'
  <2>0. /\ gate[p].call \in CallId
        /\ reply[gate[p].call] \in Nat /\ reply[gate[p].call] <= tpm
    BY <1>4 DEF CommitGate, GatesInv, CallsInv, TypeOK
  <2>1. gate' \in [Proc -> Gate]
    <3>1. [gate[p] EXCEPT !.pc = "replace", !.call = NoCall] \in Gate
      BY <1>0 DEF Gate
    <3> QED
      BY <1>4, <3>1 DEF CommitGate, TypeOK
  <2>2. file' \in [Store -> File]
    <3>1. [file[StoreOf[p]] EXCEPT !.mark = reply[gate[p].call]] \in File
      BY <1>0, <2>0, MarkedFile DEF TypeOK
    <3> QED
      BY <1>4, <3>1 DEF CommitGate, Persist, TypeOK
  <2>3. TypeOK'
    BY <1>4, <2>1, <2>2 DEF CommitGate, TypeOK, daemon, wire, environment, history
  <2>4. MarksInv'
    BY <1>0, <1>4, <2>0 DEF CommitGate, Persist, MarksInv, TypeOK, File, daemon
  <2>5. GatesInv'
    BY <1>0, <1>4 DEF CommitGate, GatesInv, TypeOK, wire, Gate
  <2> QED
    BY <1>4, <2>3, <2>4, <2>5, WireKeeps DEF CommitGate
<1>5. ASSUME Replace(p) PROVE WitnessInv'
  <2>1. file' \in [Store -> File] /\ \A s \in Store : file'[s].mark = file[s].mark
    <3> DEFINE s == StoreOf[p]
               x == gate[p].contract
               f == [file[s] EXCEPT !.prepared = @ \ {x}, !.executing = @ \cup {x}]
    <3>0. file[s] \in File /\ (x \in file[s].prepared => x \in Contract)
      BY <1>0 DEF TypeOK, File
    <3>a. file[s].prepared \ {x} \in SUBSET Contract
      BY <3>0 DEF File
    <3>b. x \in file[s].prepared => file[s].executing \cup {x} \in SUBSET Contract
      BY <3>0 DEF File
    <3>1. x \in file[s].prepared => f \in File /\ f.mark = file[s].mark
      BY <3>0, <3>a, <3>b, RowsOfFile
    <3>2. file' = file \/ (x \in file[s].prepared /\ file' = [file EXCEPT ![s] = f])
      BY <1>5 DEF Replace
    <3>3. file \in [Store -> File] /\ s \in Store
      BY <1>0 DEF TypeOK
    <3> HIDE DEF s, x, f
    <3> QED
      BY <3>1, <3>2, <3>3
  <2>2. sent' \in [Contract -> Nat] /\ gate' \in [Proc -> Gate]
    BY <1>5 DEF Replace, Leave, TypeOK
  <2>3. TypeOK'
    BY <1>5, <2>1, <2>2 DEF Replace, TypeOK, daemon, wire, environment
  <2>4. MarksInv'
    BY <1>5, <2>1 DEF Replace, MarksInv, daemon
  <2>5. GatesInv'
    BY <1>5 DEF Replace, Leave, GatesInv, TypeOK, wire, Idle
  <2> QED
    BY <1>5, <2>3, <2>4, <2>5, WireKeeps DEF Replace
<1>6. ASSUME Timeout(p) \/ Crash(p) PROVE WitnessInv'
  <2>1. TypeOK'
    BY <1>0, <1>6 DEF Timeout, Crash, Leave, TypeOK, daemon, wire, disk
  <2>2. MarksInv'
    BY <1>6, MarksKeep DEF Timeout, Crash, daemon, TypeOK
  <2>3. GatesInv'
    BY <1>6 DEF Timeout, Crash, Leave, GatesInv, TypeOK, wire, Idle
  <2> QED
    BY <1>6, <2>1, <2>2, <2>3, WireKeeps DEF Timeout, Crash
<1> QED
  BY <1>1, <1>2, <1>3, <1>4, <1>5, <1>6 DEF ProcStep

LEMMA OperatorPreserves ==
  ASSUME WitnessInv, OperatorStep PROVE WitnessInv'
<1> USE WitnessAssumption, IdleIsGate DEF WitnessInv
<1>1. ASSUME NEW s \in Store, Observe(s) PROVE WitnessInv'
  <2>1. TypeOK'
    BY <1>1 DEF Observe, TypeOK, daemon, wire, environment, history
  <2>2. MarksInv'
    BY <1>1 DEF Observe, MarksInv, TypeOK, daemon
  <2> QED
    BY <1>1, <2>1, <2>2, WireKeeps, GatesKeep DEF Observe, wire
<1>2. ASSUME NEW s \in Store, Provision(s) PROVE WitnessInv'
  <2>1. [file[s] EXCEPT !.mark = observed[s]] \in File
    BY MarkedFile DEF TypeOK
  <2>2. TypeOK'
    BY <1>2, <2>1 DEF Provision, TypeOK, daemon, wire, environment, history
  <2>3. MarksInv'
    BY <1>2 DEF Provision, MarksInv, TypeOK, File, daemon
  <2> QED
    BY <1>2, <2>2, <2>3, WireKeeps, GatesKeep DEF Provision, wire
<1>3. ASSUME NEW x \in Contract, Create(x) PROVE WitnessInv'
  <2>1. [file[HomeOf[x]] EXCEPT !.prepared = @ \cup {x}] \in File
    <3>1. file[HomeOf[x]] \in File
      BY DEF TypeOK
    <3> QED
      BY <3>1 DEF File
  <2>2. TypeOK'
    BY <1>3, <2>1 DEF Create, TypeOK, daemon, wire, environment, history
  <2>3. MarksInv'
    BY <1>3 DEF Create, MarksInv, TypeOK, File, daemon
  <2> QED
    BY <1>3, <2>2, <2>3, WireKeeps, GatesKeep DEF Create, wire
<1>4. ASSUME NEW s \in Store, Backup(s) PROVE WitnessInv'
  <2>1. TypeOK'
    BY <1>4 DEF Backup, TypeOK, daemon, wire, environment, history
  <2>2. MarksInv'
    BY <1>4 DEF Backup, MarksInv, TypeOK, daemon
  <2> QED
    BY <1>4, <2>1, <2>2, WireKeeps, GatesKeep DEF Backup, wire
<1>5. ASSUME NEW s \in Store, Restore(s) PROVE WitnessInv'
  <2>1. TypeOK'
    BY <1>5 DEF Restore, TypeOK, daemon, wire
  <2>2. MarksInv'
    BY <1>5 DEF Restore, MarksInv, TypeOK, daemon
  <2>3. GatesInv'
    BY <1>5 DEF Restore, GatesInv, TypeOK, wire, Idle
  <2> QED
    BY <1>5, <2>1, <2>2, <2>3, WireKeeps DEF Restore
<1> QED
  BY <1>1, <1>2, <1>3, <1>4, <1>5 DEF OperatorStep

LEMMA StepPreserves == WitnessInv /\ [Next]_vars => WitnessInv'
<1> SUFFICES ASSUME WitnessInv, [Next]_vars PROVE WitnessInv'
  OBVIOUS
<1>1. CASE UNCHANGED vars
  BY <1>1 DEF vars, WitnessInv, TypeOK, CallsInv, ServingInv, MarksInv, GatesInv
<1>2. CASE Next
  BY <1>2, DaemonPreserves, ProcPreserves, OperatorPreserves DEF Next
<1> QED
  BY <1>1, <1>2

\* The inductive invariant of the witness protocol.
THEOREM WitnessInvariant == Spec => []WitnessInv
<1>1. Init => WitnessInv
  BY InitEstablishes
<1>2. WitnessInv /\ [Next]_vars => WitnessInv'
  BY StepPreserves
<1> QED
  BY <1>1, <1>2, PTL DEF Spec

\* Whatever the TPM does with an increment, and however often a store is
\* restored, no mark is ahead of the counter (HighWaterMark._persist).
THEOREM MarksFollowCounter == Spec => []MarkNotAhead
<1>1. WitnessInv => MarkNotAhead
  BY DEF WitnessInv, MarksInv, MarkNotAhead
<1> QED
  BY <1>1, WitnessInvariant, PTL

-----------------------------------------------------------------------------
LEMMA InitRefines == Init => Anchor!Init
  BY DEF Init, Anchor!Init, NotAsked, Anchor!NotAsked, NoReply, Anchor!NoReply

\* The daemon's steps: the increment is the abstract move, a response the
\* abstract answer, and the compare is invisible.
LEMMA DaemonRefines ==
  ASSUME ~IncrementMayVanish, WitnessInv, DaemonStep
  PROVE  [Anchor!Next]_(Anchor!vars)
<1> USE WitnessAssumption DEF WitnessInv, NoReply, Conflict, Unavailable, Anchor!NoReply,
      Anchor!Conflict, Anchor!Unavailable, NotAsked, Anchor!NotAsked
<1>1. ASSUME NEW c \in CallId, ServeRead(c) PROVE Anchor!Answer(c)
  BY <1>1 DEF ServeRead, Waiting, Respond, Anchor!Answer, Anchor!Truthful, CallsInv, TypeOK, daemon
<1>2. ASSUME NEW c \in CallId, Check(c) PROVE Anchor!Answer(c) \/ UNCHANGED Anchor!vars
  <2>1. CASE serving' # serving
    BY <1>2, <2>1 DEF Check, Respond, Anchor!vars
  <2>2. CASE serving' = serving
    <3>1. c \notin moved
      BY <1>2 DEF Check, Waiting, CallsInv, NotServing, NoCall, CallId
    <3>2. \E r \in {Unavailable, Conflict} :
            /\ Respond(c, r)
            /\ r = Conflict => ask[c].expected # tpm
      BY <1>2, <2>2 DEF Check, Matches, NotServing
    <3> QED
      BY <1>2, <3>1, <3>2 DEF Check, Waiting, Respond, Anchor!Answer, Anchor!Truthful
  <2> QED
    BY <2>1, <2>2
<1>3. ASSUME Increment PROVE Anchor!Move(serving.call) \/ Anchor!Answer(serving.call)
  <2>1. /\ serving.call \in CallId /\ reply[serving.call] = NoReply
        /\ ask[serving.call].kind = "advance"
        /\ tpm = ask[serving.call].expected /\ serving.call \notin moved
    BY <1>3 DEF Increment, ServingInv, NotServing
  <2> QED
    BY <1>3, <2>1 DEF Increment, TpmFails, Respond, Anchor!Move, Anchor!Answer, Anchor!Truthful
<1>4. ASSUME Reread \/ DaemonCrash PROVE Anchor!Answer(serving.call)
  <2>1. /\ serving.call \in CallId /\ reply[serving.call] = NoReply
        /\ ask[serving.call].kind = "advance"
        /\ serving.pc = "reread" => tpm = ask[serving.call].expected + 1 /\ serving.call \in moved
    BY <1>4 DEF Reread, DaemonCrash, ServingInv, NotServing
  <2> QED
    BY <1>4, <2>1 DEF Reread, DaemonCrash, Respond, Anchor!Answer, Anchor!Truthful, TypeOK
<1>5. \A c \in CallId : Anchor!Move(c) \/ Anchor!Answer(c) => Anchor!Next
  BY DEF Anchor!Next
<1>6. Increment \/ Reread \/ DaemonCrash => serving.call \in CallId
  BY DEF Increment, Reread, DaemonCrash, ServingInv, NotServing
<1> QED
  BY <1>1, <1>2, <1>3, <1>4, <1>5, <1>6 DEF DaemonStep

\* A step on the store's side makes a new request or is invisible.
LEMMA StoreRefines ==
  ASSUME WitnessInv, OperatorStep \/ \E p \in Proc : ProcStep(p)
  PROVE  [Anchor!Next]_(Anchor!vars)
<1>1. ASSUME NEW p \in Proc, NEW kind \in {"read", "advance"}, NEW e \in Nat, NEW g,
             Request(p, kind, e, g), UNCHANGED daemon
      PROVE  Anchor!Next
  <2>1. NextCall \in CallId /\ ask[NextCall] = NotAsked
    BY <1>1, NextCallUnused DEF Request
  <2>2. Anchor!Ask(NextCall)
    BY <1>1, <2>1 DEF Request, Anchor!Ask, Anchor!NotAsked, NotAsked, WitnessInv, TypeOK, daemon
  <2> QED
    BY <2>1, <2>2 DEF Anchor!Next
<1>2. ASSUME NEW p \in Proc, ProcStep(p), UNCHANGED wire PROVE UNCHANGED Anchor!vars
  BY <1>2 DEF ProcStep, BeginGate, Compare, Advanced, CommitGate, Replace, Timeout, Crash, daemon, wire,
      Anchor!vars
<1>3. ASSUME NEW p \in Proc, ProcStep(p), ~UNCHANGED wire PROVE Anchor!Next
  <2>1. CASE \E x \in Contract : BeginGate(p, x)
    BY <2>1, <1>1 DEF BeginGate
  <2>2. CASE Compare(p)
    <3>1. reply[gate[p].call] \in Nat \cup {NoReply, Conflict, Unavailable} /\ gate[p].persisted \in Nat \cup {Unseeded}
      BY <2>2 DEF Compare, WitnessInv, GatesInv, TypeOK, Gate
    <3>2. Agrees(p) /\ Request(p, "advance", reply[gate[p].call], gate[p])
      BY <2>2, <1>3 DEF Compare
    <3> QED
      BY <2>2, <3>1, <3>2, <1>1 DEF Compare, Agrees, Unseeded, Conflict, NoReply, Unavailable
  <2> QED
    BY <2>1, <2>2, <1>3 DEF ProcStep, Advanced, CommitGate, Replace, Timeout, Crash
<1>4. ASSUME OperatorStep PROVE UNCHANGED Anchor!vars
  BY <1>4 DEF OperatorStep, Observe, Provision, Create, Backup, Restore, daemon, wire, Anchor!vars
<1> QED
  BY <1>2, <1>3, <1>4

LEMMA StepRefines ==
  ASSUME ~IncrementMayVanish, WitnessInv, [Next]_vars PROVE [Anchor!Next]_(Anchor!vars)
<1>1. CASE UNCHANGED vars
  BY <1>1 DEF vars, Anchor!vars
<1>2. CASE Next
  BY <1>2, DaemonRefines, StoreRefines DEF Next
<1> QED
  BY <1>1, <1>2

\* When an increment of unknown outcome always took effect, the daemon and its
\* HTTP client are the anchor of the AntiRollbackAnchor protocol, for any
\* number of stores, processes, timeouts, crashes and restores.
THEOREM DaemonImplementsAnchor ==
  ASSUME ~IncrementMayVanish PROVE Spec => ImplementsAnchor
<1>1. WitnessInv /\ [Next]_vars => [Anchor!Next]_(Anchor!vars)
  BY StepRefines
<1> QED
  BY <1>1, InitRefines, WitnessInvariant, PTL DEF Spec, ImplementsAnchor, Anchor!Spec

\* advance() returns the new value, expected_current + 1, whenever it returns
\* one, if an increment of unknown outcome always took effect: that one answer
\* of tpm2_nvincrement is all that lets service.py return another value.
THEOREM AdvanceReturnsTheNewValue ==
  ASSUME ~IncrementMayVanish PROVE Spec => []AdvanceReturnsNewValue
<1>1. Init => AdvanceReturnsNewValue
  BY DEF Init, AdvanceReturnsNewValue, NotAsked
<1>2. WitnessInv /\ AdvanceReturnsNewValue /\ [Next]_vars => AdvanceReturnsNewValue'
  <2> SUFFICES ASSUME WitnessInv, AdvanceReturnsNewValue, [Anchor!Next]_(Anchor!vars)
               PROVE  AdvanceReturnsNewValue'
    BY StepRefines
  <2> USE DEF WitnessInv, TypeOK
  <2>1. ASSUME NEW c \in CallId, Anchor!Ask(c) PROVE AdvanceReturnsNewValue'
    <3>1. reply'[c] = NoReply
      BY <2>1 DEF Anchor!Ask, Anchor!NotAsked, NotAsked, CallsInv
    <3>2. \A d \in CallId : d # c => ask'[d] = ask[d] /\ reply'[d] = reply[d]
      BY <2>1 DEF Anchor!Ask
    <3> QED
      BY <3>1, <3>2 DEF AdvanceReturnsNewValue, NoReply
  <2>2. ASSUME NEW c \in CallId, Anchor!Move(c) PROVE AdvanceReturnsNewValue'
    BY <2>2 DEF Anchor!Move, AdvanceReturnsNewValue
  <2>3. ASSUME NEW c \in CallId, Anchor!Answer(c) PROVE AdvanceReturnsNewValue'
    <3>1. PICK r : Anchor!Truthful(c, r) /\ reply' = [reply EXCEPT ![c] = r]
      BY <2>3 DEF Anchor!Answer
    <3>2. ask[c].kind = "advance" /\ r \in Nat => r = ask[c].expected + 1
      BY <3>1 DEF Anchor!Truthful, Anchor!Unavailable, Anchor!Conflict
    <3>3. ask' = ask
      BY <2>3 DEF Anchor!Answer
    <3> QED
      BY <3>1, <3>2, <3>3 DEF AdvanceReturnsNewValue
  <2>4. CASE UNCHANGED Anchor!vars
    BY <2>4 DEF Anchor!vars, AdvanceReturnsNewValue
  <2> QED
    BY <2>1, <2>2, <2>3, <2>4 DEF Anchor!Next
<1> QED
  BY <1>1, <1>2, WitnessInvariant, PTL DEF Spec

-----------------------------------------------------------------------------
(* No contract is executed twice. *)

Holding == {"read", "advance", "commit"}   \* the gate's transaction is open

\* Rows belong to their store's contracts and exist only once it is seeded; a
\* backup is never younger than the file.
RowsInv ==
  \A s \in Store :
    /\ backup[s].mark <= file[s].mark
    /\ file[s].prepared # {} => file[s].mark # Unseeded
    /\ backup[s].prepared # {} => backup[s].mark # Unseeded
    /\ \A x \in file[s].prepared \cup backup[s].prepared : HomeOf[x] = s

\* While a gate holds its store's lock the mark stays what the gate has read.
LockInv ==
  /\ \A p \in Proc :
       /\ gate[p].pc # "idle" => gate[p].contract \in Contract /\ HomeOf[gate[p].contract] = StoreOf[p]
       /\ gate[p].pc \in Holding => gate[p].persisted = file[StoreOf[p]].mark /\ gate[p].persisted # Unseeded
       /\ gate[p].pc = "read" => ask[gate[p].call].kind = "read"
       /\ gate[p].pc \in {"advance", "commit"} =>
            ask[gate[p].call].kind = "advance" /\ ask[gate[p].call].expected = gate[p].persisted
  /\ \A p, q \in Proc :
       StoreOf[p] = StoreOf[q] /\ gate[p].pc \in Holding /\ gate[q].pc \in Holding => p = q

\* A read is no older than its request; an advance answers with the next value.
ReplyInv ==
  \A c \in CallId : reply[c] \in Nat =>
    /\ ask[c].kind = "read" => ask[c].since <= reply[c]
    /\ ask[c].kind = "advance" => reply[c] = ask[c].expected + 1

\* A copy that shows an executed contract as PREPARED is a copy from before the
\* counter moved ...
StaleInv ==
  \A s \in Store, x \in Contract : sent[x] > 0 =>
    /\ x \in file[s].prepared => file[s].mark < tpm
    /\ x \in backup[s].prepared => backup[s].mark < tpm

\* ... and a gate on such a copy finds that out when it compares.
GateStaleInv ==
  \A p \in Proc, x \in Contract : sent[x] > 0 /\ x \in file[StoreOf[p]].prepared =>
    /\ gate[p].pc = "read" => gate[p].persisted < ask[gate[p].call].since
    /\ gate[p].pc \notin {"advance", "commit"}
    /\ gate[p].pc = "replace" => x # gate[p].contract

\* Between the two transactions of a gate every backup is from before it.
GapInv == \A p \in Proc : gate[p].pc = "replace" => backup[StoreOf[p]].mark < tpm

OnceInv == WitnessInv /\ RowsInv /\ LockInv /\ ReplyInv /\ StaleInv /\ GateStaleInv /\ GapInv /\ ExecutedOnce

LEMMA OnceInit == Init => OnceInv
<1> SUFFICES ASSUME Init PROVE OnceInv
  OBVIOUS
<1>1. RowsInv /\ StaleInv /\ GapInv /\ ExecutedOnce
  BY DEF Init, RowsInv, StaleInv, GapInv, ExecutedOnce, Idle, Unseeded
<1>2. LockInv /\ GateStaleInv
  BY DEF Init, LockInv, GateStaleInv, Idle, Holding
<1>3. ReplyInv
  BY DEF Init, ReplyInv, NoReply
<1> QED
  BY <1>1, <1>2, <1>3, InitEstablishes DEF OnceInv

\* Types of the state the following lemmas take apart.
LEMMA Types ==
  ASSUME WitnessInv
  PROVE  /\ tpm \in Nat
         /\ \A s \in Store : file[s] \in File /\ backup[s] \in File
         /\ \A s \in Store : file[s].mark \in Nat \cup {-1} /\ backup[s].mark \in Nat \cup {-1}
         /\ \A p \in Proc : gate[p] \in Gate /\ StoreOf[p] \in Store
         /\ \A c \in CallId : ask[c].since \in Nat /\ ask[c].expected \in Nat
         /\ \A x \in Contract : sent[x] \in Nat
  BY WitnessAssumption DEF WitnessInv, TypeOK, File, Unseeded

\* What the daemon does while it has a store's file, its gates and the requests
\* alone: only ReplyInv needs to be looked at.
LEMMA DaemonOnce ==
  ASSUME ~IncrementMayVanish, OnceInv, DaemonStep
  PROVE  RowsInv' /\ LockInv' /\ ReplyInv' /\ StaleInv' /\ GateStaleInv' /\ GapInv' /\ ExecutedOnce'
<1> USE DEF OnceInv
<1>1. /\ UNCHANGED <<file, backup, gate, sent, ask>>
      /\ tpm' = tpm \/ tpm' = tpm + 1
  BY DEF DaemonStep, ServeRead, Check, Increment, Reread, DaemonCrash, TpmFails, daemon, disk, history
<1>2. RowsInv' /\ LockInv' /\ GateStaleInv' /\ ExecutedOnce'
  BY <1>1 DEF RowsInv, LockInv, GateStaleInv, ExecutedOnce
<1>3. StaleInv' /\ GapInv'
  BY <1>1, Types DEF StaleInv, GapInv
<1>4. ReplyInv'
  <2>1. ASSUME NEW c \in CallId, ServeRead(c) PROVE ReplyInv'
    BY <2>1, <1>1 DEF ServeRead, Respond, ReplyInv, WitnessInv, CallsInv, TypeOK, Unavailable
  <2>2. ASSUME NEW c \in CallId, Check(c) PROVE ReplyInv'
    BY <2>2, <1>1 DEF Check, Respond, ReplyInv, WitnessInv, TypeOK, Unavailable, Conflict
  <2>3. CASE Increment
    BY <2>3, <1>1 DEF Increment, Respond, ReplyInv, WitnessInv, TypeOK, Unavailable
  <2>4. CASE Reread \/ DaemonCrash
    <3>1. /\ serving.call \in CallId /\ ask[serving.call].kind = "advance"
          /\ serving.pc = "reread" => tpm = ask[serving.call].expected + 1
      BY <2>4 DEF Reread, DaemonCrash, WitnessInv, ServingInv, NotServing
    <3> QED
      BY <2>4, <3>1, <1>1 DEF Reread, DaemonCrash, Respond, ReplyInv, WitnessInv, TypeOK, Unavailable
  <2> QED
    BY <2>1, <2>2, <2>3, <2>4 DEF DaemonStep
<1> QED
  BY <1>2, <1>3, <1>4

\* A process that leaves its gate, for whatever reason.
LEMMA LeaveOnce ==
  ASSUME OnceInv, NEW p \in Proc, Leave(p), UNCHANGED <<tpm, wire, file, backup, sent>>
  PROVE  RowsInv' /\ LockInv' /\ ReplyInv' /\ StaleInv' /\ GateStaleInv' /\ GapInv' /\ ExecutedOnce'
<1> USE DEF OnceInv, wire
<1>1. RowsInv' /\ ReplyInv' /\ StaleInv' /\ ExecutedOnce'
  BY DEF RowsInv, ReplyInv, StaleInv, ExecutedOnce
<1>2. \A q \in Proc : gate'[q] = gate[q] \/ gate'[q] = Idle
  BY DEF Leave, WitnessInv, TypeOK
<1>3. LockInv'
  BY <1>2 DEF LockInv, Holding, Idle
<1>4. GateStaleInv' /\ GapInv'
  BY <1>2 DEF GateStaleInv, GapInv, Idle
<1> QED
  BY <1>1, <1>3, <1>4

LEMMA BeginOnce ==
  ASSUME OnceInv, NEW p \in Proc, NEW x \in Contract, BeginGate(p, x)
  PROVE  RowsInv' /\ LockInv' /\ ReplyInv' /\ StaleInv' /\ GateStaleInv' /\ GapInv' /\ ExecutedOnce'
<1> DEFINE h == [Idle EXCEPT !.contract = x, !.persisted = file[StoreOf[p]].mark]
           g == [h EXCEPT !.pc = "read", !.call = NextCall]
<1> USE DEF OnceInv
<1>1. NextCall \in CallId /\ ask[NextCall] = NotAsked /\ reply[NextCall] = NoReply
  BY NextCallUnused DEF BeginGate, Request, WitnessInv, CallsInv
<1>2. /\ gate' = [gate EXCEPT ![p] = g] /\ gate[p] = Idle
      /\ ask' = [ask EXCEPT ![NextCall] = [kind |-> "read", expected |-> 0, since |-> tpm]]
      /\ UNCHANGED <<tpm, reply, file, backup, sent>>
      /\ HomeOf[x] = StoreOf[p] /\ x \in file[StoreOf[p]].prepared /\ ~Locked(StoreOf[p])
  BY DEF BeginGate, Request, daemon, disk, history
<1>a. g.pc = "read" /\ g.contract = x /\ g.call = NextCall /\ g.persisted = file[StoreOf[p]].mark
  BY DEF Idle
<1> HIDE DEF g
<1>3. /\ gate'[p] = g /\ \A q \in Proc : q # p => gate'[q] = gate[q]
      /\ ask'[NextCall].kind = "read" /\ ask'[NextCall].since = tpm
      /\ \A c \in CallId : c # NextCall => ask'[c] = ask[c]
  BY <1>1, <1>2 DEF WitnessInv, TypeOK
<1>4. \A q \in Proc : gate[q].pc \in Holding => gate[q].call # NextCall
  BY <1>1 DEF LockInv, Holding, NotAsked
<1>5. RowsInv' /\ StaleInv' /\ ExecutedOnce'
  BY <1>2 DEF RowsInv, StaleInv, ExecutedOnce
<1>6. ReplyInv'
  BY <1>1, <1>2, <1>3 DEF ReplyInv, NoReply
<1>7. LockInv'
  <2>1. file[StoreOf[p]].mark # Unseeded
    BY <1>2, Types DEF RowsInv
  <2>2. ASSUME NEW q \in Proc
        PROVE  /\ gate'[q].pc # "idle" => gate'[q].contract \in Contract /\ HomeOf[gate'[q].contract] = StoreOf[q]
               /\ gate'[q].pc \in Holding => gate'[q].persisted = file'[StoreOf[q]].mark /\ gate'[q].persisted # Unseeded
               /\ gate'[q].pc = "read" => ask'[gate'[q].call].kind = "read"
               /\ gate'[q].pc \in {"advance", "commit"} =>
                    ask'[gate'[q].call].kind = "advance" /\ ask'[gate'[q].call].expected = gate'[q].persisted
    <3>1. CASE q = p
      BY <3>1, <1>2, <1>3, <1>a, <2>1
    <3>2. CASE q # p
      <4>1. gate'[q] = gate[q] /\ file' = file
        BY <3>2, <1>2, <1>3
      <4>2. gate[q].pc \in Holding => gate[q].call \in CallId /\ ask'[gate[q].call] = ask[gate[q].call]
        BY <1>3, <1>4 DEF WitnessInv, GatesInv, Holding
      <4> QED
        BY <4>1, <4>2 DEF LockInv, Holding
    <3> QED
      BY <3>1, <3>2
  <2>3. ASSUME NEW q \in Proc, NEW r \in Proc, StoreOf[q] = StoreOf[r],
               gate'[q].pc \in Holding, gate'[r].pc \in Holding
        PROVE  q = r
    BY <2>3, <1>2, <1>3, <1>a DEF LockInv, Locked, Holding
  <2> QED
    BY <2>2, <2>3 DEF LockInv
<1>8. GateStaleInv'
  <2> SUFFICES ASSUME NEW q \in Proc, NEW y \in Contract, sent[y] > 0, y \in file[StoreOf[q]].prepared
               PROVE  /\ gate'[q].pc = "read" => gate'[q].persisted < ask'[gate'[q].call].since
                      /\ gate'[q].pc \notin {"advance", "commit"}
                      /\ gate'[q].pc = "replace" => y # gate'[q].contract
    BY <1>2 DEF GateStaleInv
  <2>1. CASE q = p
    BY <2>1, <1>3, <1>a, Types DEF StaleInv
  <2>2. CASE q # p
    BY <2>2, <1>3, <1>4 DEF GateStaleInv, WitnessInv, GatesInv, Holding
  <2> QED
    BY <2>1, <2>2
<1>9. GapInv'
  BY <1>2, <1>3, <1>a DEF GapInv
<1> QED
  BY <1>5, <1>6, <1>7, <1>8, <1>9

\* The compare passes only on a file without executed contracts in PREPARED.
LEMMA CompareOnce ==
  ASSUME OnceInv, NEW p \in Proc, Compare(p)
  PROVE  RowsInv' /\ LockInv' /\ ReplyInv' /\ StaleInv' /\ GateStaleInv' /\ GapInv' /\ ExecutedOnce'
<1> USE DEF OnceInv
<1>0. UNCHANGED <<tpm, file, backup, sent>>
  BY DEF Compare, daemon, disk
<1>1. CASE Leave(p) /\ UNCHANGED wire
  BY <1>0, <1>1, LeaveOnce
<1>2. CASE /\ Agrees(p) /\ reply[gate[p].call] # Unavailable
           /\ Request(p, "advance", reply[gate[p].call], gate[p])
  <2> DEFINE g == [gate[p] EXCEPT !.pc = "advance", !.call = NextCall]
             e == gate[p].persisted
  <2>1. NextCall \in CallId /\ ask[NextCall] = NotAsked /\ reply[NextCall] = NoReply
    BY <1>2, NextCallUnused DEF Request, WitnessInv, CallsInv
  <2>2. /\ gate[p].pc = "read" /\ gate[p].call \in CallId /\ reply[gate[p].call] = e
        /\ e \in Nat /\ ask[gate[p].call].kind = "read" /\ ask[gate[p].call].since <= e
        /\ gate[p].contract \in Contract /\ HomeOf[gate[p].contract] = StoreOf[p] /\ e = file[StoreOf[p]].mark
    BY <1>2, Types DEF Compare, Agrees, WitnessInv, GatesInv, LockInv, ReplyInv, Gate, Holding, Unseeded
  <2>3. /\ gate' = [gate EXCEPT ![p] = g]
        /\ ask' = [ask EXCEPT ![NextCall] = [kind |-> "advance", expected |-> e, since |-> tpm]]
        /\ reply' = reply
    BY <1>2, <2>2 DEF Request
  <2>4. /\ gate'[p].pc = "advance" /\ gate'[p].call = NextCall /\ gate'[p].persisted = e
        /\ gate'[p].contract = gate[p].contract
        /\ \A q \in Proc : q # p => gate'[q] = gate[q]
        /\ ask'[NextCall].kind = "advance" /\ ask'[NextCall].expected = e
        /\ \A c \in CallId : c # NextCall => ask'[c] = ask[c]
    BY <2>1, <2>3, Types DEF WitnessInv, TypeOK, Gate
  <2>5. \A q \in Proc : gate[q].pc \in Holding => gate[q].call # NextCall
    BY <2>1 DEF LockInv, Holding, NotAsked
  <2>6. RowsInv' /\ StaleInv' /\ ExecutedOnce'
    BY <1>0 DEF RowsInv, StaleInv, ExecutedOnce
  <2>7. ReplyInv'
    BY <2>1, <2>3, <2>4 DEF ReplyInv, NoReply
  <2>8. LockInv'
    <3>1. ASSUME NEW q \in Proc
          PROVE  /\ gate'[q].pc # "idle" => gate'[q].contract \in Contract /\ HomeOf[gate'[q].contract] = StoreOf[q]
                 /\ gate'[q].pc \in Holding => gate'[q].persisted = file'[StoreOf[q]].mark /\ gate'[q].persisted # Unseeded
                 /\ gate'[q].pc = "read" => ask'[gate'[q].call].kind = "read"
                 /\ gate'[q].pc \in {"advance", "commit"} =>
                      ask'[gate'[q].call].kind = "advance" /\ ask'[gate'[q].call].expected = gate'[q].persisted
      <4>1. CASE q = p
        BY <4>1, <1>0, <2>2, <2>4 DEF Unseeded
      <4>2. CASE q # p
        <5>1. gate'[q] = gate[q] /\ file' = file
          BY <4>2, <1>0, <2>4
        <5>2. gate[q].pc \in Holding => gate[q].call \in CallId /\ ask'[gate[q].call] = ask[gate[q].call]
          BY <2>4, <2>5 DEF WitnessInv, GatesInv, Holding
        <5> QED
          BY <5>1, <5>2 DEF LockInv, Holding
      <4> QED
        BY <4>1, <4>2
    <3>2. \A q \in Proc : gate'[q].pc \in Holding => gate[q].pc \in Holding
      BY <2>2, <2>4 DEF Holding
    <3> QED
      BY <3>1, <3>2 DEF LockInv
  <2>9. GateStaleInv'
    <3> SUFFICES ASSUME NEW q \in Proc, NEW y \in Contract, sent[y] > 0, y \in file[StoreOf[q]].prepared
                 PROVE  /\ gate'[q].pc = "read" => gate'[q].persisted < ask'[gate'[q].call].since
                        /\ gate'[q].pc \notin {"advance", "commit"}
                        /\ gate'[q].pc = "replace" => y # gate'[q].contract
      BY <1>0 DEF GateStaleInv
    <3>1. CASE q = p
      BY <3>1, <2>2, Types DEF GateStaleInv
    <3>2. CASE q # p
      BY <3>2, <2>4, <2>5 DEF GateStaleInv, WitnessInv, GatesInv, Holding
    <3> QED
      BY <3>1, <3>2
  <2>10. GapInv'
    BY <1>0, <2>4 DEF GapInv
  <2> QED
    BY <2>6, <2>7, <2>8, <2>9, <2>10
<1> QED
  BY <1>1, <1>2 DEF Compare

LEMMA AdvancedOnce ==
  ASSUME OnceInv, NEW p \in Proc, Advanced(p)
  PROVE  RowsInv' /\ LockInv' /\ ReplyInv' /\ StaleInv' /\ GateStaleInv' /\ GapInv' /\ ExecutedOnce'
<1> USE DEF OnceInv
<1>0. UNCHANGED <<tpm, wire, file, backup, sent>>
  BY DEF Advanced, daemon, disk
<1>1. CASE Leave(p)
  BY <1>0, <1>1, LeaveOnce
<1>2. CASE gate' = [gate EXCEPT ![p].pc = "commit"]
  <2>1. /\ gate[p].pc = "advance" /\ gate'[p].pc = "commit"
        /\ gate'[p].call = gate[p].call /\ gate'[p].contract = gate[p].contract
        /\ gate'[p].persisted = gate[p].persisted
        /\ \A q \in Proc : q # p => gate'[q] = gate[q]
    BY <1>2, Types DEF Advanced, WitnessInv, TypeOK, Gate
  <2>2. RowsInv' /\ ReplyInv' /\ StaleInv' /\ ExecutedOnce'
    BY <1>0 DEF RowsInv, ReplyInv, StaleInv, ExecutedOnce, wire
  <2>3. LockInv'
    BY <1>0, <2>1 DEF LockInv, Holding, wire
  <2>4. GateStaleInv' /\ GapInv'
    BY <1>0, <2>1 DEF GateStaleInv, GapInv, wire
  <2> QED
    BY <2>2, <2>3, <2>4
<1> QED
  BY <1>1, <1>2 DEF Advanced

\* The mark that is committed is larger than every earlier copy's.
LEMMA CommitOnce ==
  ASSUME OnceInv, NEW p \in Proc, CommitGate(p)
  PROVE  RowsInv' /\ LockInv' /\ ReplyInv' /\ StaleInv' /\ GateStaleInv' /\ GapInv' /\ ExecutedOnce'
<1> DEFINE s == StoreOf[p]
           v == reply[gate[p].call]
<1> USE DEF OnceInv
<1>1. /\ gate[p].pc = "commit" /\ gate[p].call \in CallId /\ s \in Store
      /\ v \in Nat /\ v <= tpm /\ v = gate[p].persisted + 1 /\ gate[p].persisted = file[s].mark
      /\ backup[s].mark <= file[s].mark
      /\ gate[p].contract \in Contract /\ HomeOf[gate[p].contract] = s
  BY Types DEF CommitGate, WitnessInv, GatesInv, CallsInv, LockInv, ReplyInv, RowsInv, Holding
<1>2. /\ UNCHANGED <<tpm, wire, backup, sent>>
      /\ file'[s].mark = v /\ file'[s].prepared = file[s].prepared
      /\ \A t \in Store : t # s => file'[t] = file[t]
  BY <1>1, Types DEF CommitGate, Persist, WitnessInv, TypeOK, File, daemon, history
<1>3. /\ gate'[p].pc = "replace" /\ gate'[p].contract = gate[p].contract
      /\ \A q \in Proc : q # p => gate'[q] = gate[q]
  BY Types DEF CommitGate, WitnessInv, TypeOK, Gate
<1>4. \A q \in Proc : q # p /\ StoreOf[q] = s => gate[q].pc \notin Holding
  BY <1>1 DEF LockInv, Holding
<1>5. \A x \in file[s].prepared : x \in Contract /\ ~(sent[x] > 0)
  BY <1>1, Types DEF GateStaleInv, File
<1>6. RowsInv'
  BY <1>1, <1>2, Types DEF RowsInv, Unseeded
<1>7. ReplyInv' /\ ExecutedOnce'
  BY <1>2 DEF ReplyInv, ExecutedOnce, wire
<1>8. StaleInv'
  BY <1>2, <1>5 DEF StaleInv
<1>9. LockInv'
  <2>1. ASSUME NEW q \in Proc
        PROVE  /\ gate'[q].pc # "idle" => gate'[q].contract \in Contract /\ HomeOf[gate'[q].contract] = StoreOf[q]
               /\ gate'[q].pc \in Holding =>
                    /\ gate[q].pc \in Holding
                    /\ gate'[q].persisted = file'[StoreOf[q]].mark /\ gate'[q].persisted # Unseeded
               /\ gate'[q].pc = "read" => ask'[gate'[q].call].kind = "read"
               /\ gate'[q].pc \in {"advance", "commit"} =>
                    ask'[gate'[q].call].kind = "advance" /\ ask'[gate'[q].call].expected = gate'[q].persisted
    <3>1. CASE q = p
      BY <3>1, <1>1, <1>3 DEF Holding
    <3>2. CASE q # p
      <4>1. gate'[q] = gate[q] /\ ask' = ask /\ StoreOf[q] \in Store
        BY <3>2, <1>2, <1>3, Types DEF wire
      <4>2. gate[q].pc \in Holding => file'[StoreOf[q]] = file[StoreOf[q]]
        BY <3>2, <4>1, <1>2, <1>4
      <4> QED
        BY <4>1, <4>2 DEF LockInv
    <3> QED
      BY <3>1, <3>2
  <2> QED
    BY <2>1 DEF LockInv
<1>10. GateStaleInv'
  <2> SUFFICES ASSUME NEW q \in Proc, NEW y \in Contract, sent[y] > 0, y \in file'[StoreOf[q]].prepared
               PROVE  /\ gate'[q].pc = "read" => gate'[q].persisted < ask'[gate'[q].call].since
                      /\ gate'[q].pc \notin {"advance", "commit"}
                      /\ gate'[q].pc = "replace" => y # gate'[q].contract
    BY <1>2 DEF GateStaleInv
  <2>1. StoreOf[q] # s /\ q # p
    BY <1>2, <1>5
  <2> QED
    BY <2>1, <1>2, <1>3, Types DEF GateStaleInv, wire
<1>11. GapInv'
  BY <1>1, <1>2, <1>3, Types DEF GapInv
<1> QED
  BY <1>6, <1>7, <1>8, <1>9, <1>10, <1>11

LEMMA ReplaceOnce ==
  ASSUME OnceInv, NEW p \in Proc, Replace(p)
  PROVE  RowsInv' /\ LockInv' /\ ReplyInv' /\ StaleInv' /\ GateStaleInv' /\ GapInv' /\ ExecutedOnce'
<1> DEFINE s == StoreOf[p]
           x == gate[p].contract
<1> USE DEF OnceInv
<1>1. /\ gate[p].pc = "replace" /\ s \in Store /\ x \in Contract /\ HomeOf[x] = s
      /\ backup[s].mark < tpm /\ UNCHANGED <<tpm, wire, backup>> /\ Leave(p)
  BY Types DEF Replace, LockInv, GapInv, daemon
<1>2. CASE x \notin file[s].prepared
  BY <1>1, <1>2, LeaveOnce DEF Replace
<1>3. CASE x \in file[s].prepared
  <2>1. sent[x] = 0
    BY <1>1, <1>3, Types DEF GateStaleInv
  <2>2. /\ file'[s].mark = file[s].mark /\ file'[s].prepared = file[s].prepared \ {x}
        /\ \A t \in Store : t # s => file'[t] = file[t]
    BY <1>1, <1>3, Types DEF Replace, WitnessInv, TypeOK, File
  <2>3. sent'[x] = 1 /\ \A y \in Contract : y # x => sent'[y] = sent[y]
    BY <1>1, <1>3, <2>1 DEF Replace, WitnessInv, TypeOK
  <2>4. \A q \in Proc : gate'[q] = gate[q] \/ gate'[q] = Idle
    BY <1>1 DEF Leave, WitnessInv, TypeOK
  <2>5. \A t \in Store : /\ file'[t].mark = file[t].mark /\ file'[t].prepared \subseteq file[t].prepared
                         /\ x \notin file'[t].prepared
    BY <1>1, <2>2 DEF RowsInv
  <2>6. RowsInv'
    BY <1>1, <2>5 DEF RowsInv
  <2>7. ReplyInv' /\ ExecutedOnce'
    BY <1>1, <2>3 DEF ReplyInv, ExecutedOnce, wire
  <2>8. StaleInv'
    <3> SUFFICES ASSUME NEW t \in Store, NEW y \in Contract, sent'[y] > 0
                 PROVE  /\ y \in file'[t].prepared => file'[t].mark < tpm
                        /\ y \in backup[t].prepared => backup[t].mark < tpm
      BY <1>1 DEF StaleInv
    <3>1. CASE y = x
      BY <3>1, <1>1, <2>5 DEF RowsInv
    <3>2. CASE y # x
      BY <3>2, <2>3, <2>5 DEF StaleInv
    <3> QED
      BY <3>1, <3>2
  <2>9. LockInv'
    BY <1>1, <2>4, <2>5, Types DEF LockInv, Holding, Idle, wire
  <2>10. GateStaleInv'
    BY <1>1, <2>3, <2>4, <2>5, Types DEF GateStaleInv, Idle, wire
  <2>11. GapInv'
    BY <1>1, <2>4 DEF GapInv, Idle
  <2> QED
    BY <2>6, <2>7, <2>8, <2>9, <2>10, <2>11
<1> QED
  BY <1>2, <1>3

LEMMA OperatorOnce ==
  ASSUME ~HotBackup, OnceInv, OperatorStep
  PROVE  RowsInv' /\ LockInv' /\ ReplyInv' /\ StaleInv' /\ GateStaleInv' /\ GapInv' /\ ExecutedOnce'
<1> USE DEF OnceInv
<1>0. UNCHANGED <<tpm, wire, sent>>
  BY DEF OperatorStep, Observe, Provision, Create, Backup, Restore, daemon, history
<1>a. ReplyInv' /\ ExecutedOnce'
  BY <1>0 DEF ReplyInv, ExecutedOnce, wire
<1>1. ASSUME NEW s \in Store, Observe(s)
      PROVE  RowsInv' /\ LockInv' /\ StaleInv' /\ GateStaleInv' /\ GapInv'
  BY <1>0, <1>1 DEF Observe, RowsInv, LockInv, StaleInv, GateStaleInv, GapInv, wire
<1>2. ASSUME NEW s \in Store, Provision(s)
      PROVE  RowsInv' /\ LockInv' /\ StaleInv' /\ GateStaleInv' /\ GapInv'
  <2>1. /\ file[s].mark = Unseeded /\ file[s].prepared = {} /\ UNCHANGED <<backup, gate>>
        /\ file'[s].mark = observed[s] /\ observed[s] \in Nat /\ file'[s].prepared = {}
        /\ \A t \in Store : t # s => file'[t] = file[t]
    BY <1>2 DEF Provision, RowsInv, WitnessInv, TypeOK, File
  <2>2. \A p \in Proc : StoreOf[p] = s => gate[p].pc \notin Holding
    BY <2>1 DEF LockInv
  <2>3. RowsInv' /\ StaleInv' /\ GapInv'
    BY <1>0, <2>1, Types DEF RowsInv, StaleInv, GapInv, Unseeded
  <2>4. LockInv'
    BY <1>0, <2>1, <2>2, Types DEF LockInv, wire, Holding
  <2>5. GateStaleInv'
    BY <1>0, <2>1, Types DEF GateStaleInv, wire
  <2> QED
    BY <2>3, <2>4, <2>5
<1>3. ASSUME NEW x \in Contract, Create(x)
      PROVE  RowsInv' /\ LockInv' /\ StaleInv' /\ GateStaleInv' /\ GapInv'
  <2> DEFINE s == HomeOf[x]
  <2>1. /\ s \in Store /\ file[s].mark # Unseeded /\ sent[x] = 0 /\ UNCHANGED <<backup, gate>>
        /\ file'[s].mark = file[s].mark /\ file'[s].prepared = file[s].prepared \cup {x}
        /\ \A t \in Store : t # s => file'[t] = file[t]
    BY <1>3, WitnessAssumption DEF Create, WitnessInv, TypeOK, File
  <2>2. \A t \in Store : file'[t].mark = file[t].mark
    BY <2>1
  <2>3. RowsInv' /\ GapInv'
    BY <1>0, <2>1, Types DEF RowsInv, GapInv
  <2>4. StaleInv' /\ GateStaleInv'
    BY <1>0, <2>1, Types DEF StaleInv, GateStaleInv, wire
  <2>5. LockInv'
    BY <1>0, <2>1, <2>2, Types DEF LockInv, wire
  <2> QED
    BY <2>3, <2>4, <2>5
<1>4. ASSUME NEW s \in Store, Backup(s)
      PROVE  RowsInv' /\ LockInv' /\ StaleInv' /\ GateStaleInv' /\ GapInv'
  <2>1. /\ UNCHANGED <<file, gate>> /\ backup'[s] = file[s]
        /\ \A t \in Store : t # s => backup'[t] = backup[t]
        /\ \A p \in Proc : StoreOf[p] = s => gate[p].pc # "replace"
    BY <1>4 DEF Backup, WitnessInv, TypeOK
  <2>2. RowsInv' /\ StaleInv'
    BY <1>0, <2>1, Types DEF RowsInv, StaleInv
  <2>3. LockInv' /\ GateStaleInv'
    BY <1>0, <2>1 DEF LockInv, GateStaleInv, wire
  <2>4. GapInv'
    BY <1>0, <2>1, Types DEF GapInv
  <2> QED
    BY <2>2, <2>3, <2>4
<1>5. ASSUME NEW s \in Store, Restore(s)
      PROVE  RowsInv' /\ LockInv' /\ StaleInv' /\ GateStaleInv' /\ GapInv'
  <2>1. /\ backup' = backup /\ file'[s] = backup[s]
        /\ \A t \in Store : t # s => file'[t] = file[t]
        /\ \A p \in Proc : gate'[p] = IF StoreOf[p] = s THEN Idle ELSE gate[p]
    BY <1>5 DEF Restore, WitnessInv, TypeOK
  <2>2. RowsInv' /\ StaleInv'
    BY <1>0, <2>1, Types DEF RowsInv, StaleInv
  <2>3. LockInv'
    BY <1>0, <2>1, Types DEF LockInv, wire, Holding, Idle
  <2>4. GateStaleInv'
    BY <1>0, <2>1, Types DEF GateStaleInv, wire, Idle
  <2>5. GapInv'
    BY <1>0, <2>1 DEF GapInv, Idle
  <2> QED
    BY <2>2, <2>3, <2>4, <2>5
<1> QED
  BY <1>a, <1>1, <1>2, <1>3, <1>4, <1>5 DEF OperatorStep

\* With backups taken between gates and a TPM whose increments take effect, no
\* contract reaches EXECUTING twice: for any number of stores on the counter,
\* of processes, timeouts, crashes, outages and restores.
THEOREM RestoreNeverReplays ==
  ASSUME ~HotBackup, ~IncrementMayVanish PROVE Spec => []ExecutedOnce
<1>1. OnceInv /\ [Next]_vars => OnceInv'
  <2> SUFFICES ASSUME OnceInv, [Next]_vars PROVE OnceInv'
    OBVIOUS
  <2>0. WitnessInv'
    BY StepPreserves DEF OnceInv
  <2>1. CASE UNCHANGED vars
    BY <2>0, <2>1 DEF vars, OnceInv, RowsInv, LockInv, ReplyInv, StaleInv, GateStaleInv, GapInv, ExecutedOnce
  <2>2. CASE DaemonStep
    BY <2>0, <2>2, DaemonOnce DEF OnceInv
  <2>3. CASE OperatorStep
    BY <2>0, <2>3, OperatorOnce DEF OnceInv
  <2>4. ASSUME NEW p \in Proc, ProcStep(p) PROVE OnceInv'
    <3>1. CASE Timeout(p) \/ Crash(p)
      BY <2>0, <3>1, LeaveOnce DEF Timeout, Crash, daemon, disk, OnceInv
    <3>2. CASE Compare(p) \/ Advanced(p) \/ CommitGate(p) \/ Replace(p)
      BY <2>0, <3>2, CompareOnce, AdvancedOnce, CommitOnce, ReplaceOnce DEF OnceInv
    <3>3. CASE \E x \in Contract : BeginGate(p, x)
      BY <2>0, <3>3, BeginOnce DEF OnceInv
    <3> QED
      BY <2>4, <3>1, <3>2, <3>3 DEF ProcStep
  <2> QED
    BY <2>1, <2>2, <2>3, <2>4 DEF Next
<1>2. OnceInv => ExecutedOnce
  BY DEF OnceInv
<1> QED
  BY <1>1, <1>2, OnceInit, PTL DEF Spec

-----------------------------------------------------------------------------
(* A refusal has a cause. *)

\* The gate that holds the lock has read the present mark, and what the daemon
\* told it is what the counter still is.
CalmGate(p) ==
  /\ gate[p].pc \in Holding =>
       gate[p].persisted = file[StoreOf[p]].mark /\ gate[p].persisted # Unseeded
  /\ gate[p].pc = "read" =>
       ask[gate[p].call].kind = "read" /\ reply[gate[p].call] \in {NoReply, Unavailable, tpm}
  /\ gate[p].pc \in {"advance", "commit"} =>
       ask[gate[p].call].kind = "advance" /\ (reply[gate[p].call] \in Nat => reply[gate[p].call] = tpm)

\* A seeded mark equals the counter, unless a gate is about to record its own
\* advance; an unseeded store has had no advance at all.
CalmFile(s) ==
  /\ file[s].prepared # {} => file[s].mark # Unseeded
  /\ file[s].mark = Unseeded =>
       observed[s] \in {Unseeded, tpm} /\ \A c \in CallId : ask[c].kind # "advance"
  /\ file[s].mark \in {Unseeded, tpm} \/ \E p \in Proc : gate[p].pc \in {"advance", "commit"}

\* No advance is under way whose client gave up on it.
CalmWire ==
  \A c \in CallId : ask[c].kind = "advance" /\ reply[c] = NoReply =>
    \E p \in Proc : gate[p].pc = "advance" /\ gate[p].call = c

\* A store that was never restored and recorded every advance of its own.
Calm ==
  /\ \A s \in Store : CalmFile(s)
  /\ \A p \in Proc : CalmGate(p)
  /\ \A p, q \in Proc : gate[p].pc \in Holding /\ gate[q].pc \in Holding => p = q
  /\ CalmWire

CauseInv == WitnessInv /\ RefusalHasCause /\ (disturbed = {} => Calm)

LEMMA CauseInit == Init => CauseInv
<1> SUFFICES ASSUME Init PROVE CauseInv
  OBVIOUS
<1>1. RefusalHasCause
  BY DEF Init, RefusalHasCause
<1>2. \A s \in Store : CalmFile(s)
  BY DEF Init, CalmFile, NotAsked
<1>3. \A p \in Proc : CalmGate(p) /\ gate[p].pc \notin Holding
  BY DEF Init, CalmGate, Holding, Idle
<1>4. CalmWire
  BY DEF Init, CalmWire, NotAsked
<1> QED
  BY <1>1, <1>2, <1>3, <1>4, InitEstablishes DEF CauseInv, Calm

\* The daemon serves only the gate that holds the lock, so a counter that moves
\* moves under no gate that has read it.
LEMMA CauseDaemon ==
  ASSUME WitnessInv, Calm, DaemonStep PROVE Calm'
<1> USE DEF NoReply, Conflict, Unavailable
<1>0. UNCHANGED <<file, observed, gate, ask>> /\ tpm \in Nat /\ reply \in [CallId -> Nat \cup {-1, -2, -3}]
  BY DEF DaemonStep, ServeRead, Check, Increment, Reread, DaemonCrash, disk, WitnessInv, TypeOK
<1>1. \A p \in Proc : gate[p].pc \in Holding => gate[p].call \in CallId
  BY DEF WitnessInv, GatesInv, Holding
<1>2. ASSUME NEW c \in CallId, NEW r \in Nat \cup {-2, -3}, reply' = [reply EXCEPT ![c] = r],
             tpm' = tpm, reply[c] = -1,
             \/ ask[c].kind = "read" /\ r \in {-3, tpm}
             \/ ask[c].kind = "advance" /\ (r \in Nat => r = tpm)
      PROVE  Calm'
  <2>1. \A d \in CallId : d # c => reply'[d] = reply[d]
    BY <1>0, <1>2
  <2>2. reply'[c] = r
    BY <1>0, <1>2
  <2>3. \A s \in Store : CalmFile(s)'
    BY <1>0, <1>2 DEF Calm, CalmFile
  <2>4. ASSUME NEW p \in Proc PROVE CalmGate(p)'
    <3>1. CalmGate(p)
      BY DEF Calm
    <3>2. CASE gate[p].pc \in Holding /\ gate[p].call = c
      BY <1>0, <1>2, <2>2, <3>1, <3>2 DEF CalmGate, Holding
    <3>3. CASE gate[p].pc \in Holding /\ gate[p].call # c
      BY <1>0, <1>1, <1>2, <2>1, <3>1, <3>3 DEF CalmGate, Holding
    <3>4. CASE gate[p].pc \notin Holding
      BY <1>0, <3>4 DEF CalmGate, Holding
    <3> QED
      BY <3>2, <3>3, <3>4
  <2>5. CalmWire'
    BY <1>0, <1>2, <2>1, <2>2 DEF Calm, CalmWire
  <2> QED
    BY <1>0, <2>3, <2>4, <2>5 DEF Calm
<1>3. ASSUME NEW c \in CallId, ServeRead(c) PROVE Calm'
  <2>1. tpm' = tpm /\ ask[c].kind = "read" /\ reply[c] = -1
        /\ \E r \in {tpm, -3} : reply' = [reply EXCEPT ![c] = r]
    BY <1>3 DEF ServeRead, Waiting, Respond, daemon
  <2> QED
    BY <1>0, <1>2, <2>1
<1>4. ASSUME UNCHANGED <<tpm, reply>> PROVE Calm'
  BY <1>0, <1>4 DEF Calm, CalmFile, CalmGate, CalmWire
<1>5. ASSUME NEW c \in CallId, Check(c) PROVE Calm'
  <2>1. tpm' = tpm /\ ask[c].kind = "advance" /\ reply[c] = -1
        /\ (reply' = reply \/ \E r \in {-2, -3} : reply' = [reply EXCEPT ![c] = r])
    BY <1>5 DEF Check, Waiting, Respond
  <2> QED
    BY <1>0, <1>2, <1>4, <2>1
<1>6. serving # NotServing =>
        serving.call \in CallId /\ ask[serving.call].kind = "advance" /\ reply[serving.call] = -1
  BY DEF WitnessInv, ServingInv
<1>7. CASE Reread \/ DaemonCrash
  <2>1. serving # NotServing /\ tpm' = tpm
        /\ \E r \in {tpm, -3} : reply' = [reply EXCEPT ![serving.call] = r]
    BY <1>7 DEF Reread, DaemonCrash, Respond, NotServing
  <2>2. PICK r \in {tpm, -3} : reply' = [reply EXCEPT ![serving.call] = r]
    BY <2>1
  <2>3. r \in Nat \cup {-2, -3} /\ (r \in Nat => r = tpm)
    BY <1>0
  <2> QED
    BY <1>2, <1>6, <2>1, <2>2, <2>3
<1>8. CASE Increment
  <2>0. serving # NotServing
    BY <1>8 DEF Increment, NotServing
  <2>1. CASE tpm' = tpm
    <3>1. reply' = reply \/ reply' = [reply EXCEPT ![serving.call] = -3]
      <4>1. tpm' # tpm + 1
        BY <1>0, <2>1
      <4> QED
        BY <1>8, <4>1 DEF Increment, Respond
    <3> QED
      BY <1>0, <1>2, <1>4, <1>6, <2>0, <2>1, <3>1
  <2>2. CASE tpm' = tpm + 1 /\ reply' = reply
    <3>1. PICK p \in Proc : gate[p].pc = "advance" /\ gate[p].call = serving.call
      BY <1>6, <2>0 DEF Calm, CalmWire
    <3>2. \A q \in Proc : q # p => gate[q].pc \notin Holding
      BY <3>1 DEF Calm, Holding
    <3>3. ASSUME NEW q \in Proc PROVE CalmGate(q)'
      <4>1. CASE q = p
        BY <1>0, <1>6, <2>0, <2>2, <3>1, <4>1 DEF Calm, CalmGate, Holding
      <4>2. CASE q # p
        BY <1>0, <3>2, <4>2 DEF CalmGate, Holding
      <4> QED
        BY <4>1, <4>2
    <3>4. ASSUME NEW s \in Store PROVE CalmFile(s)'
      <4>1. file[s].mark # Unseeded
        BY <1>6, <2>0 DEF Calm, CalmFile
      <4> QED
        BY <1>0, <3>1, <4>1 DEF CalmFile
    <3>5. CalmWire'
      BY <1>0, <2>2 DEF Calm, CalmWire
    <3> QED
      BY <1>0, <3>3, <3>4, <3>5 DEF Calm
  <2> QED
    BY <1>8, <2>1, <2>2 DEF Increment
<1> QED
  BY <1>3, <1>5, <1>7, <1>8 DEF DaemonStep

\* A new request takes a call nobody made, and belongs to the gate that made it.
LEMMA CauseRequest ==
  ASSUME WitnessInv, Calm, NEW p \in Proc, NEW kind \in {"read", "advance"}, NEW e \in Nat,
         NEW g \in Gate, Request(p, kind, e, g), UNCHANGED <<tpm, file, observed>>,
         g.persisted = file[StoreOf[p]].mark, g.persisted # Unseeded,
         \A q \in Proc : q # p => gate[q].pc \notin Holding, gate[p].pc # "advance",
         \A s \in Store : s = StoreOf[p] /\ file[s].mark \in {Unseeded, tpm}
  PROVE  Calm'
<1> DEFINE h == [g EXCEPT !.pc = kind, !.call = NextCall]
<1>1. /\ NextCall \in CallId /\ ask[NextCall] = NotAsked /\ reply[NextCall] = NoReply
      /\ reply' = reply
  BY NextCallUnused DEF Request, WitnessInv, CallsInv
<1>2. gate' = [gate EXCEPT ![p] = h]
      /\ ask' = [ask EXCEPT ![NextCall] = [kind |-> kind, expected |-> e, since |-> tpm]]
  BY DEF Request
<1>3. h.pc = kind /\ h.call = NextCall /\ h.persisted = g.persisted
  BY DEF Gate
<1> HIDE DEF h
<1>4. /\ gate'[p] = h /\ \A q \in Proc : q # p => gate'[q] = gate[q]
      /\ ask'[NextCall].kind = kind
      /\ \A c \in CallId : c # NextCall => ask'[c] = ask[c]
      /\ tpm \in Nat
  BY <1>1, <1>2 DEF WitnessInv, TypeOK
<1>5. ASSUME NEW s \in Store PROVE CalmFile(s)'
  BY <1>4 DEF Calm, CalmFile
<1>6. ASSUME NEW q \in Proc PROVE CalmGate(q)'
  <2>1. CASE q = p
    BY <1>1, <1>3, <1>4, <2>1 DEF CalmGate, NoReply
  <2>2. CASE q # p
    BY <1>4, <2>2 DEF CalmGate, Holding
  <2> QED
    BY <2>1, <2>2
<1>7. CalmWire'
  <2> SUFFICES ASSUME NEW c \in CallId, ask'[c].kind = "advance", reply'[c] = NoReply
               PROVE  \E q \in Proc : gate'[q].pc = "advance" /\ gate'[q].call = c
    BY DEF CalmWire
  <2>1. CASE c = NextCall
    BY <1>3, <1>4, <2>1
  <2>2. CASE c # NextCall
    <3>1. PICK q \in Proc : gate[q].pc = "advance" /\ gate[q].call = c
      BY <1>1, <1>4, <2>2 DEF Calm, CalmWire
    <3>2. CASE q # p
      BY <3>1, <3>2 DEF Holding
    <3>3. CASE q = p
      BY <3>1, <3>3
    <3> QED
      BY <3>2, <3>3
  <2> QED
    BY <2>1, <2>2
<1>8. \A q, r \in Proc : gate'[q].pc \in Holding /\ gate'[r].pc \in Holding => q = r
  BY <1>4
<1> QED
  BY <1>5, <1>6, <1>7, <1>8 DEF Calm

\* Every step keeps a calm store calm, or disturbs it.
LEMMA CauseProc ==
  ASSUME \A s, t \in Store : s = t,
         WitnessInv, Calm, NEW p \in Proc, ProcStep(p), disturbed = {}, disturbed' = {}
  PROVE  Calm' /\ refused' = refused
<1>0. /\ gate[p] \in Gate /\ StoreOf[p] \in Store /\ tpm \in Nat /\ gate \in [Proc -> Gate]
      /\ file[StoreOf[p]] \in File /\ file[StoreOf[p]].mark \in Nat \cup {-1}
      /\ file \in [Store -> File]
  BY WitnessAssumption DEF WitnessInv, TypeOK, File, Unseeded
<1>a. \A s \in Store : s = StoreOf[p]
  BY <1>0
<1>1. ~(Timeout(p) \/ Crash(p))
  BY DEF Timeout, Crash
<1>2. ASSUME gate[p].pc \in Holding, gate[p].pc \notin {"advance", "commit"}
      PROVE  /\ \A q \in Proc : q # p => gate[q].pc \notin Holding
             /\ \A s \in Store : file[s].mark \in {Unseeded, tpm}
  BY <1>2 DEF Calm, CalmFile, Holding
<1>3. ASSUME NEW x \in Contract, BeginGate(p, x) PROVE Calm' /\ refused' = refused
  <2> DEFINE g == [Idle EXCEPT !.contract = x, !.persisted = file[StoreOf[p]].mark]
  <2>1. /\ gate[p] = Idle /\ x \in file[StoreOf[p]].prepared /\ ~Locked(StoreOf[p])
        /\ Request(p, "read", 0, g) /\ UNCHANGED <<tpm, file, observed, refused>>
    BY <1>3 DEF BeginGate, daemon, disk, history
  <2>2. file[StoreOf[p]].mark # Unseeded
    BY <1>0, <2>1 DEF Calm, CalmFile
  <2>3. \A q \in Proc : gate[q].pc \notin Holding
    BY <1>a, <2>1, WitnessAssumption DEF Locked, Holding
  <2>4. \A s \in Store : file[s].mark \in {Unseeded, tpm}
    BY <2>3 DEF Calm, CalmFile, Holding
  <2>5. g \in Gate /\ g.persisted = file[StoreOf[p]].mark
    BY <1>0 DEF Idle, Gate, Unseeded
  <2>6. gate[p].pc # "advance"
    BY <2>3 DEF Holding
  <2> HIDE DEF g
  <2> QED
    BY <1>a, <2>1, <2>2, <2>3, <2>4, <2>5, <2>6, CauseRequest
<1>4. CASE Compare(p)
  <2>1. /\ gate[p].pc = "read" /\ reply[gate[p].call] # NoReply
        /\ UNCHANGED <<tpm, file, observed>>
    BY <1>4 DEF Compare, daemon, disk
  <2>2. /\ reply[gate[p].call] \in {Unavailable, tpm} /\ gate[p].persisted # Unseeded
        /\ gate[p].persisted = file[StoreOf[p]].mark
    BY <2>1 DEF Calm, CalmGate, Holding
  <2>3. /\ \A q \in Proc : q # p => gate[q].pc \notin Holding
        /\ \A s \in Store : file[s].mark \in {Unseeded, tpm}
    BY <1>2, <2>1 DEF Holding
  <2>4. gate[p].persisted = tpm
    BY <1>0, <2>2, <2>3
  <2>5. CASE Request(p, "advance", reply[gate[p].call], gate[p]) /\ refused' = refused
             /\ reply[gate[p].call] = tpm
    BY <1>0, <1>a, <2>1, <2>2, <2>3, <2>5, CauseRequest
  <2>6. CASE Leave(p) /\ UNCHANGED <<wire, refused>>
    <3>1. gate'[p] = Idle /\ \A q \in Proc : q # p => gate'[q] = gate[q]
      BY <1>0, <2>6 DEF Leave
    <3>2. \A q \in Proc : gate'[q].pc \notin Holding
      BY <2>3, <3>1 DEF Idle, Holding
    <3>3. \A s \in Store : CalmFile(s)'
      BY <2>1, <2>3, <2>6 DEF Calm, CalmFile, wire
    <3>4. \A q \in Proc : CalmGate(q)'
      BY <3>2 DEF CalmGate, Holding
    <3>5. CalmWire'
      <4>1. \A q \in Proc : gate[q].pc # "advance"
        BY <2>1, <2>3 DEF Holding
      <4> QED
        BY <2>6, <4>1 DEF Calm, CalmWire, wire
    <3> QED
      BY <2>6, <3>2, <3>3, <3>4, <3>5 DEF Calm
  <2> QED
    BY <1>4, <2>2, <2>4, <2>5, <2>6 DEF Compare, Agrees
<1>5. CASE Advanced(p)
  <2>1. /\ gate[p].pc = "advance" /\ reply[gate[p].call] \in Nat
        /\ gate' = [gate EXCEPT ![p].pc = "commit"]
        /\ UNCHANGED <<tpm, ask, reply, file, observed, refused>>
    BY <1>5 DEF Advanced, daemon, wire, disk
  <2>2. /\ gate'[p].pc = "commit" /\ gate'[p].call = gate[p].call
        /\ gate'[p].persisted = gate[p].persisted
        /\ \A q \in Proc : q # p => gate'[q] = gate[q]
    BY <1>0, <2>1 DEF Gate
  <2>3. \A q \in Proc : q # p => gate[q].pc \notin Holding
    BY <2>1 DEF Calm, Holding
  <2>4. ASSUME NEW q \in Proc PROVE CalmGate(q)'
    <3>1. CASE q = p
      BY <2>1, <2>2, <3>1 DEF Calm, CalmGate, Holding
    <3>2. CASE q # p
      BY <2>2, <2>3, <3>2 DEF CalmGate, Holding
    <3> QED
      BY <3>1, <3>2
  <2>5. \A s \in Store : CalmFile(s)'
    BY <2>1, <2>2 DEF Calm, CalmFile
  <2>6. CalmWire'
    <3> SUFFICES ASSUME NEW c \in CallId, ask[c].kind = "advance", reply[c] = NoReply PROVE FALSE
      BY <2>1 DEF CalmWire
    <3>1. PICK q \in Proc : gate[q].pc = "advance" /\ gate[q].call = c
      BY DEF Calm, CalmWire
    <3>2. q = p
      BY <2>3, <3>1 DEF Holding
    <3> QED
      BY <2>1, <3>1, <3>2 DEF NoReply
  <2>7. \A q, r \in Proc : gate'[q].pc \in Holding /\ gate'[r].pc \in Holding => q = r
    BY <2>2, <2>3
  <2> QED
    BY <2>1, <2>4, <2>5, <2>6, <2>7 DEF Calm
<1>6. CASE CommitGate(p)
  <2>1. /\ gate[p].pc = "commit" /\ Persist(p)
        /\ gate' = [gate EXCEPT ![p].pc = "replace", ![p].call = NoCall]
        /\ UNCHANGED <<tpm, ask, reply, observed, refused>>
    BY <1>6 DEF CommitGate, daemon, wire, history
  <2>2. gate'[p].pc = "replace" /\ \A q \in Proc : q # p => gate'[q] = gate[q]
    BY <1>0, <2>1 DEF Gate
  <2>3. reply[gate[p].call] = tpm
    BY <2>1 DEF WitnessInv, GatesInv, Calm, CalmGate
  <2>4. \A q \in Proc : gate'[q].pc \notin Holding
    BY <2>1, <2>2 DEF Calm, Holding
  <2>5. file'[StoreOf[p]].mark = tpm
    BY <1>0, <2>1, <2>3 DEF Persist, File
  <2>6. tpm # Unseeded
    BY <1>0 DEF Unseeded
  <2>7. \A s \in Store : CalmFile(s)'
    BY <1>a, <2>1, <2>5, <2>6 DEF CalmFile
  <2>8. \A q \in Proc : CalmGate(q)'
    BY <2>4 DEF CalmGate, Holding
  <2>9. CalmWire'
    <3>1. \A q \in Proc : gate[q].pc # "advance"
      BY <2>1 DEF Calm, Holding
    <3> QED
      BY <2>1, <3>1 DEF Calm, CalmWire
  <2> QED
    BY <2>1, <2>4, <2>7, <2>8, <2>9 DEF Calm
<1>7. CASE Replace(p)
  <2> DEFINE t == StoreOf[p]
             x == gate[p].contract
             f == [file[t] EXCEPT !.prepared = @ \ {x}, !.executing = @ \cup {x}]
  <2>1. /\ gate[p].pc = "replace" /\ Leave(p)
        /\ file' = file \/ file' = [file EXCEPT ![t] = f]
        /\ UNCHANGED <<tpm, ask, reply, observed, refused>>
    BY <1>7 DEF Replace, daemon, wire
  <2>2. f.mark = file[t].mark /\ f.prepared \subseteq file[t].prepared
    BY <1>0 DEF File
  <2> HIDE DEF f
  <2>3. ASSUME NEW s \in Store
        PROVE  file'[s].mark = file[s].mark /\ file'[s].prepared \subseteq file[s].prepared
    BY <1>0, <1>a, <2>1, <2>2
  <2>4. gate'[p] = Idle /\ \A q \in Proc : q # p => gate'[q] = gate[q]
    BY <1>0, <2>1 DEF Leave
  <2>5. ASSUME NEW s \in Store PROVE CalmFile(s)'
    <3>1. (\E q \in Proc : gate[q].pc \in {"advance", "commit"})
            => \E q \in Proc : gate'[q].pc \in {"advance", "commit"}
      BY <2>1, <2>4
    <3> QED
      BY <2>1, <2>3, <3>1 DEF Calm, CalmFile
  <2>6. ASSUME NEW q \in Proc PROVE CalmGate(q)'
    <3>1. CASE q = p
      BY <2>4, <3>1 DEF CalmGate, Holding, Idle
    <3>2. CASE q # p
      <4>1. StoreOf[q] \in Store
        BY WitnessAssumption
      <4> QED
        BY <2>1, <2>3, <2>4, <3>2, <4>1 DEF Calm, CalmGate
    <3> QED
      BY <3>1, <3>2
  <2>7. CalmWire'
    BY <2>1, <2>4 DEF Calm, CalmWire
  <2>8. \A q, r \in Proc : gate'[q].pc \in Holding /\ gate'[r].pc \in Holding => q = r
    BY <2>4 DEF Calm, Holding, Idle
  <2> QED
    BY <2>1, <2>5, <2>6, <2>7, <2>8 DEF Calm
<1> QED
  BY <1>1, <1>3, <1>4, <1>5, <1>6, <1>7 DEF ProcStep

\* The operator provisions, creates and backs up; a restore disturbs.
LEMMA CauseOperator ==
  ASSUME WitnessInv, Calm, OperatorStep, disturbed' = {}
  PROVE  Calm' /\ refused' = refused
<1>0. /\ file \in [Store -> File] /\ tpm \in Nat /\ observed \in [Store -> Nat \cup {-1}]
      /\ \A x \in Contract : HomeOf[x] \in Store
  BY WitnessAssumption DEF WitnessInv, TypeOK, Unseeded
<1>1. ASSUME NEW s \in Store, Observe(s) PROVE Calm' /\ refused' = refused
  <2>1. /\ observed' = [observed EXCEPT ![s] = tpm]
        /\ UNCHANGED <<tpm, ask, reply, file, gate, refused>>
    BY <1>1 DEF Observe, daemon, wire, history
  <2>2. \A t \in Store : CalmFile(t)'
    BY <1>0, <2>1 DEF Calm, CalmFile
  <2>3. (\A p \in Proc : CalmGate(p))' /\ CalmWire'
    BY <2>1 DEF Calm, CalmGate, CalmWire
  <2> QED
    BY <2>1, <2>2, <2>3 DEF Calm
<1>2. ASSUME NEW s \in Store, Provision(s) PROVE Calm' /\ refused' = refused
  <2>1. /\ file[s].mark = Unseeded /\ observed[s] # Unseeded
        /\ file' = [file EXCEPT ![s].mark = observed[s]]
        /\ UNCHANGED <<tpm, ask, reply, observed, gate, refused>>
    BY <1>2 DEF Provision, daemon, wire, history
  <2>2. observed[s] = tpm
    BY <2>1 DEF Calm, CalmFile
  <2>3. file'[s].mark = tpm /\ \A t \in Store : t # s => file'[t] = file[t]
    BY <1>0, <2>1, <2>2 DEF File
  <2>4. tpm # Unseeded
    BY <1>0 DEF Unseeded
  <2>5. ASSUME NEW t \in Store PROVE CalmFile(t)'
    <3>1. CASE t = s
      BY <2>3, <2>4, <2>1, <3>1 DEF CalmFile
    <3>2. CASE t # s
      BY <2>1, <2>3, <3>2 DEF Calm, CalmFile
    <3> QED
      BY <3>1, <3>2
  <2>6. ASSUME NEW p \in Proc PROVE CalmGate(p)'
    <3>1. gate[p].pc \in Holding => StoreOf[p] # s
      BY <2>1 DEF Calm, CalmGate
    <3>2. StoreOf[p] \in Store
      BY WitnessAssumption
    <3> QED
      BY <2>1, <2>3, <3>1, <3>2 DEF Calm, CalmGate, Holding
  <2>7. CalmWire'
    BY <2>1 DEF Calm, CalmWire
  <2> QED
    BY <2>1, <2>5, <2>6, <2>7 DEF Calm
<1>3. ASSUME NEW x \in Contract, Create(x) PROVE Calm' /\ refused' = refused
  <2>1. /\ file[HomeOf[x]].mark # Unseeded
        /\ file' = [file EXCEPT ![HomeOf[x]].prepared = @ \cup {x}]
        /\ UNCHANGED <<tpm, ask, reply, observed, gate, refused>>
    BY <1>3 DEF Create, daemon, wire, history
  <2>2. /\ \A s \in Store : file'[s].mark = file[s].mark
        /\ \A s \in Store : s # HomeOf[x] => file'[s].prepared = file[s].prepared
    BY <1>0, <2>1 DEF File
  <2>3. ASSUME NEW s \in Store PROVE CalmFile(s)'
    BY <2>1, <2>2 DEF Calm, CalmFile
  <2>4. ASSUME NEW p \in Proc PROVE CalmGate(p)'
    BY <2>1, <2>2, WitnessAssumption DEF Calm, CalmGate
  <2>5. CalmWire'
    BY <2>1 DEF Calm, CalmWire
  <2> QED
    BY <2>1, <2>3, <2>4, <2>5 DEF Calm
<1>4. ASSUME NEW s \in Store, Backup(s) PROVE Calm' /\ refused' = refused
  <2>1. UNCHANGED <<tpm, ask, reply, file, observed, gate, refused>>
    BY <1>4 DEF Backup, daemon, wire, history
  <2> QED
    BY <2>1 DEF Calm, CalmFile, CalmGate, CalmWire
<1>5. ASSUME NEW s \in Store, Restore(s) PROVE FALSE
  BY <1>5 DEF Restore
<1> QED
  BY <1>1, <1>2, <1>3, <1>4, <1>5 DEF OperatorStep

\* With one store on the daemon, WholeStoreRollbackDetected always has a cause
\* in that store's own past: a restore, or an advance it did not record.  This
\* holds whatever the TPM does with an increment of unknown outcome and whenever
\* a backup is taken.  (A second store on the same counter is itself a cause.)
THEOREM NoRefusalWithoutCause ==
  ASSUME \A s, t \in Store : s = t PROVE Spec => []RefusalHasCause
<1>1. CauseInv /\ [Next]_vars => CauseInv'
  <2> SUFFICES ASSUME CauseInv, [Next]_vars PROVE CauseInv'
    OBVIOUS
  <2>0. WitnessInv /\ WitnessInv' /\ RefusalHasCause
    BY StepPreserves DEF CauseInv
  <2>1. disturbed \subseteq disturbed'
    BY DEF Next, vars, DaemonStep, ServeRead, Check, Increment, Reread, DaemonCrash,
           ProcStep, BeginGate, Compare, Advanced, CommitGate, Replace, Timeout, Crash,
           OperatorStep, Observe, Provision, Backup, Restore, Create, history
  <2>2. refused' \subseteq Store /\ disturbed' \subseteq Store
    BY <2>0 DEF WitnessInv, TypeOK
  <2>3. CASE disturbed' # {}
    BY <2>0, <2>2, <2>3 DEF CauseInv, RefusalHasCause
  <2>4. CASE disturbed' = {}
    <3>1. disturbed = {} /\ Calm
      BY <2>1, <2>4 DEF CauseInv
    <3>2. Calm' /\ refused' = refused
      <4>1. CASE UNCHANGED vars
        BY <3>1, <4>1 DEF vars, Calm, CalmFile, CalmGate, CalmWire
      <4>2. CASE DaemonStep
        <5>1. refused' = refused
          BY <4>2 DEF DaemonStep, ServeRead, Check, Increment, Reread, DaemonCrash, history
        <5> QED
          BY <2>0, <3>1, <4>2, <5>1, CauseDaemon
      <4>3. CASE OperatorStep
        BY <2>0, <2>4, <3>1, <4>3, CauseOperator
      <4>4. ASSUME NEW p \in Proc, ProcStep(p) PROVE Calm' /\ refused' = refused
        BY <2>0, <2>4, <3>1, <4>4, CauseProc
      <4> QED
        BY <4>1, <4>2, <4>3, <4>4 DEF Next
    <3> QED
      BY <2>0, <2>4, <3>1, <3>2 DEF CauseInv, RefusalHasCause
  <2> QED
    BY <2>3, <2>4
<1>2. CauseInv => RefusalHasCause
  BY DEF CauseInv
<1> QED
  BY <1>1, <1>2, CauseInit, PTL DEF Spec
=============================================================================
