-------------------------- MODULE WriteFlowProofs --------------------------
(***************************************************************************)
(* Proofs about WriteFlow: however many servers share the four files and   *)
(* the two stores, an authorization makes one contract, a contract is      *)
(* handed off once, and what is handed off is what the owner signed.       *)
(***************************************************************************)
EXTENDS WriteFlow, SequenceTheorems, TLAPS

\* The files the owner fills and the one the server fills name what exists.
FilesInv ==
  /\ files.inbox \in {None} \cup DOMAIN grants
  /\ files.signed \in {None} \cup DOMAIN confirmations
  /\ files.pending \in {None} \cup DOMAIN rows

\* The authorization is spent and the contract is not there yet.
Spending(s) == call[s].pc \in {"create", "insert"}

\* Confirmation i is for contract c and, like the contract's authorization,
\* valid at time t.
InTimeFor(c, i, t) ==
  /\ Current(rows[c].auth, t)
  /\ confirmations[i].cid = c /\ confirmations[i].issued <= t /\ t < confirmations[i].expires

\* What a call has read by the time it is at its location.  From `consume' on
\* the authorization is for this very intent.
CallOK(s) ==
  /\ ~At(s, "idle") => call[s].want \in Descr
  /\ call[s].pc \notin {"idle", "prepare"} => call[s].base \in Descr
  /\ call[s].pc \in {"verify", "consume", "create", "insert"} => call[s].auth \in DOMAIN grants
  /\ call[s].pc \in {"consume", "create", "insert"} => grants[call[s].auth].intent = IntentOf(s)
  /\ Spending(s) => call[s].auth \in consumed
  /\ call[s].pc \in {"resume", "promote", "promoting", "deliver", "confirm", "confirming",
                     "execute", "gate", "acquire", "refuse", "run"} =>
       call[s].cid \in DOMAIN rows
  /\ call[s].pc \in {"confirm", "confirming"} => call[s].conf \in DOMAIN confirmations

\* The call decided at the instant it remembers, by the authorization and the
\* evidence that are still there when it commits.
TimeOK(s) ==
  /\ call[s].now <= clock /\ call[s].at <= clock
  /\ At(s, "confirming") => InTimeFor(call[s].cid, call[s].conf, call[s].at)
  /\ call[s].pc \in {"gate", "acquire"} => rows[call[s].cid].confirmed
  /\ At(s, "acquire") => /\ rows[call[s].cid].confirmedAt <= call[s].at
                         /\ Current(rows[call[s].cid].auth, call[s].at)

CallsInv == \A s \in Server : CallOK(s) /\ TimeOK(s)

\* The rows carry the instants of their confirmation.
TimeInv ==
  \A c \in DOMAIN rows :
    /\ rows[c].confirmedAt <= clock
    /\ rows[c].confirmed => \E i \in DOMAIN confirmations : InTimeFor(c, i, rows[c].confirmedAt)

\* Between its consumption and the contract made from it an authorization
\* belongs to one call alone.
SpendInv ==
  /\ AuthorizationSpentOnce
  /\ \A s \in Server, c \in DOMAIN rows : Spending(s) => rows[c].auth # call[s].auth
  /\ \A s, t \in Server : Spending(s) /\ Spending(t) /\ call[s].auth = call[t].auth => s = t

\* Between its confirmation and its execution a contract belongs to one call
\* alone, and it was not executed before.
HandoffInv ==
  /\ \A c \in DOMAIN rows : runs[c] = 0 \/ (runs[c] = 1 /\ rows[c].confirmed)
  /\ \A s \in Server :
       At(s, "execute") => rows[call[s].cid].confirmed /\ runs[call[s].cid] = 0
  /\ \A s, t \in Server :
       At(s, "execute") /\ At(t, "execute") /\ call[s].cid = call[t].cid => s = t

\* A contract is over when its authorization is.
ExpiryInv == \A c \in DOMAIN rows : rows[c].expires <= grants[rows[c].auth].expires

FlowInv ==
  /\ TypeOK /\ FilesInv /\ CallsInv
  /\ SpendInv /\ HandoffInv /\ ExpiryInv /\ TimeInv /\ HandedOffAsApproved

-----------------------------------------------------------------------------
(* What a step leaves alone *)

\* No contract comes, goes or changes in anything but its state.
SameContracts ==
  /\ rows' \in Seq(Row) /\ DOMAIN rows' = DOMAIN rows
  /\ \A c \in DOMAIN rows :
       /\ rows'[c].intent = rows[c].intent /\ rows'[c].auth = rows[c].auth
       /\ rows'[c].expires = rows[c].expires /\ rows'[c].confirmed = rows[c].confirmed
       /\ rows'[c].confirmedAt = rows[c].confirmedAt

\* The call owns nothing and is as it should be.
Settled(t) == CallOK(t) /\ TimeOK(t) /\ call[t].pc \notin {"create", "insert", "execute"}

\* A step that signs nothing, makes and executes no contract, and takes no call
\* to where it owns an authorization or the right to execute.
OrdinaryStep ==
  /\ SameContracts /\ clock <= clock'
  /\ UNCHANGED <<grants, confirmations, runs>>
  /\ consumed \subseteq consumed'
  /\ \A t \in Server :
       call'[t] = call[t] \/ Settled(t)'

LEMMA IdleIsCall == Idle \in Call
  BY DEF Idle, Call, PC, None

LEMMA RowOfRows ==
  ASSUME TypeOK, NEW c \in DOMAIN rows
  PROVE  /\ rows[c] \in Row /\ DOMAIN rows = 1 .. Len(rows) /\ Len(rows) \in Nat
         /\ c \in 1 .. Len(rows)
  BY LenProperties, ElementOfSeq DEF TypeOK

LEMMA RowsUntouched ==
  ASSUME TypeOK, rows' = rows PROVE SameContracts
  BY DEF TypeOK, SameContracts

LEMMA StateChanged ==
  ASSUME TypeOK, NEW c \in DOMAIN rows, NEW st \in RecoveryState,
         rows' = [rows EXCEPT ![c].state = st]
  PROVE  SameContracts
<1>1. rows[c] \in Row /\ DOMAIN rows = 1 .. Len(rows) /\ c \in 1 .. Len(rows) /\ rows \in Seq(Row)
  BY RowOfRows DEF TypeOK
<1>2. [rows[c] EXCEPT !.state = st] \in Row
  BY <1>1 DEF Row
<1>3. rows' = [rows EXCEPT ![c] = [rows[c] EXCEPT !.state = st]]
  OBVIOUS
<1>4. rows' \in Seq(Row) /\ DOMAIN rows' = DOMAIN rows
  BY <1>1, <1>2, <1>3, ExceptSeq
<1>5. \A d \in DOMAIN rows : rows[d] \in Row
  BY RowOfRows
<1> QED
  BY <1>1, <1>3, <1>4, <1>5 DEF SameContracts, Row

LEMMA SweepChanges ==
  ASSUME TypeOK, rows' = Swept PROVE SameContracts
<1>1. /\ DOMAIN rows = 1 .. Len(rows) /\ Len(rows) \in Nat
      /\ \A d \in DOMAIN rows : rows[d] \in Row
  BY RowOfRows, LenProperties DEF TypeOK
<1>2. DOMAIN rows' = DOMAIN rows /\ \A d \in DOMAIN rows :
        rows'[d] = rows[d] \/ rows'[d] = [rows[d] EXCEPT !.state = "reconciliation"]
  BY DEF Swept
<1>3. \A d \in DOMAIN rows : rows'[d] \in Row
  BY <1>1, <1>2 DEF Row, RecoveryState
<1>4. rows' \in [1 .. Len(rows) -> Row]
  BY <1>1, <1>3 DEF Swept
<1>5. rows' \in Seq(Row)
  BY <1>1, <1>4, SeqDef
<1> QED
  BY <1>1, <1>2, <1>5 DEF SameContracts, Row

\* The call that answers is idle again, the others are where they were.
LEMMA Answered ==
  ASSUME TypeOK, NEW s \in Server, Return(s), clock' = clock
  PROVE  /\ call' \in [Server -> Call]
         /\ \A t \in Server : call'[t] = call[t] \/ call'[t] = Idle
         /\ \A t \in Server :
              call'[t] = call[t] \/ Settled(t)'
<1>1. call' \in [Server -> Call] /\ \A t \in Server : call'[t] = call[t] \/ call'[t] = Idle
  BY IdleIsCall DEF TypeOK, Return
<1>2. ASSUME NEW t \in Server, call'[t] = Idle PROVE Settled(t)'
  BY <1>2, FlowAssumption DEF Settled, CallOK, TimeOK, Spending, At, Idle, TypeOK
<1> QED
  BY <1>1, <1>2

LEMMA OrdinaryPreserves ==
  ASSUME FlowInv, TypeOK', FilesInv', OrdinaryStep PROVE FlowInv'
<1> USE DEF FlowInv, OrdinaryStep
<1>0. \A c \in DOMAIN rows : rows[c].auth \in DOMAIN grants
  BY DEF TypeOK, SpendInv, AuthorizationSpentOnce
<1>1. CallsInv'
  <2>1. ASSUME NEW t \in Server, call'[t] = call[t] PROVE CallOK(t)'
    BY <2>1 DEF CallsInv, CallOK, Spending, At, IntentOf, SameContracts
  <2>2. ASSUME NEW t \in Server, call'[t] = call[t] PROVE TimeOK(t)'
    <3>1. /\ call[t].now \in Nat /\ call[t].at \in Nat /\ clock \in Nat /\ clock' \in Nat
          /\ CallOK(t) /\ TimeOK(t)
      BY <2>2, FlowAssumption DEF TypeOK, Call, CallsInv
    <3> QED
      BY <2>2, <3>1 DEF CallOK, TimeOK, InTimeFor, Current, At, SameContracts
  <2> QED
    BY <2>1, <2>2 DEF CallsInv, Settled
<1>2. SpendInv'
  BY DEF SpendInv, AuthorizationSpentOnce, Settled, Spending, SameContracts
<1>3. HandoffInv'
  BY DEF HandoffInv, CallsInv, CallOK, Settled, At, SameContracts
<1>4. ExpiryInv' /\ HandedOffAsApproved'
  BY <1>0 DEF ExpiryInv, HandedOffAsApproved, ContractIsAuthorized, ConfirmedByName, SameContracts
<1>5. TimeInv'
  <2>1. \A c \in DOMAIN rows : rows[c].confirmedAt \in Nat
    BY RowOfRows DEF Row
  <2>2. clock \in Nat /\ clock' \in Nat
    BY FlowAssumption DEF TypeOK
  <2> QED
    BY <2>1, <2>2 DEF TimeInv, InTimeFor, Current, SameContracts
<1> QED
  BY <1>1, <1>2, <1>3, <1>4, <1>5

\* The types of a step that keeps what is signed.
LEMMA TypesKeep ==
  ASSUME TypeOK, SameContracts, UNCHANGED <<grants, confirmations, runs>>,
         clock' \in 0 .. MaxClock, live' \in Descr, mishaps' \in 0 .. MaxMishaps,
         consumed' \subseteq DOMAIN grants, files' \in Files, call' \in [Server -> Call],
         \A t \in Server : /\ call'[t].auth \in {None} \cup DOMAIN grants
                           /\ call'[t].cid \in {None} \cup DOMAIN rows
                           /\ call'[t].conf \in {None} \cup DOMAIN confirmations
  PROVE  TypeOK'
  BY DEF TypeOK, SameContracts

LEMMA AnsweredTypes ==
  ASSUME TypeOK, SameContracts, NEW s \in Server, Return(s),
         UNCHANGED <<grants, confirmations, runs, clock, files>>,
         live' \in Descr, mishaps' \in 0 .. MaxMishaps, consumed' \subseteq DOMAIN grants
  PROVE  TypeOK'
<1>1. /\ call' \in [Server -> Call]
      /\ \A t \in Server : call'[t] = call[t] \/ call'[t] = Idle
  BY Answered
<1>2. \A t \in Server : /\ call'[t].auth \in {None} \cup DOMAIN grants
                        /\ call'[t].cid \in {None} \cup DOMAIN rows
                        /\ call'[t].conf \in {None} \cup DOMAIN confirmations
  BY <1>1 DEF TypeOK, Idle
<1> QED
  BY <1>1, <1>2, TypesKeep DEF TypeOK

\* A step whose only effects are an answer and a change of states.
LEMMA AnswerPreserves ==
  ASSUME FlowInv, SameContracts, NEW s \in Server, Return(s),
         UNCHANGED <<grants, confirmations, runs, clock, files>>,
         live' \in Descr, mishaps' \in 0 .. MaxMishaps,
         consumed \subseteq consumed', consumed' \subseteq DOMAIN grants
  PROVE  FlowInv'
<1>1. TypeOK'
  BY AnsweredTypes DEF FlowInv
<1>2. FilesInv'
  BY DEF FlowInv, FilesInv, SameContracts
<1>3. OrdinaryStep
  BY Answered, FlowAssumption DEF FlowInv, TypeOK, OrdinaryStep
<1> QED
  BY <1>1, <1>2, <1>3, OrdinaryPreserves

-----------------------------------------------------------------------------
(* The steps of a call *)

LEMMA InitEstablishes == Init => FlowInv
<1> SUFFICES ASSUME Init PROVE FlowInv
  OBVIOUS
<1> USE FlowAssumption DEF Init
<1>0. /\ DOMAIN rows = {} /\ DOMAIN runs = {} /\ DOMAIN grants = {} /\ DOMAIN confirmations = {}
      /\ rows \in Seq(Row) /\ grants \in Seq(Grant) /\ confirmations \in Seq(Confirmation)
  OBVIOUS
<1>1. TypeOK
  <2>1. files \in Files
    BY DEF Files, None
  <2>2. call \in [Server -> Call] /\ \A s \in Server : call[s] = Idle
    BY IdleIsCall
  <2>3. runs \in [DOMAIN rows -> Nat]
    BY <1>0
  <2> QED
    BY <1>0, <2>1, <2>2, <2>3 DEF TypeOK, Idle
<1>2. FilesInv /\ ExpiryInv /\ TimeInv /\ HandedOffAsApproved
  BY <1>0 DEF FilesInv, ExpiryInv, TimeInv, HandedOffAsApproved, ContractIsAuthorized, ConfirmedByName
<1>3. CallsInv /\ SpendInv /\ HandoffInv
  BY <1>0 DEF CallsInv, CallOK, TimeOK, SpendInv, HandoffInv, AuthorizationSpentOnce, Spending, At, Idle
<1> QED
  BY <1>1, <1>2, <1>3 DEF FlowInv

\* A call that goes on: what its location promises is all there is to show.
LEMMA MovePreserves ==
  ASSUME FlowInv, SameContracts, NEW s \in Server, NEW k \in Call, call' = [call EXCEPT ![s] = k],
         UNCHANGED <<grants, confirmations, runs, consumed, clock, mishaps>>,
         live' \in Descr, files' \in Files, FilesInv',
         k.auth \in {None} \cup DOMAIN grants, k.cid \in {None} \cup DOMAIN rows,
         k.conf \in {None} \cup DOMAIN confirmations,
         CallOK(s)', TimeOK(s)', k.pc \notin {"create", "insert", "execute"}
  PROVE  FlowInv'
<1>1. call' \in [Server -> Call] /\ \A t \in Server : call'[t] = IF t = s THEN k ELSE call[t]
  BY DEF FlowInv, TypeOK
<1>2. TypeOK'
  <2>1. \A t \in Server : /\ call'[t].auth \in {None} \cup DOMAIN grants
                          /\ call'[t].cid \in {None} \cup DOMAIN rows
                          /\ call'[t].conf \in {None} \cup DOMAIN confirmations
    BY <1>1 DEF FlowInv, TypeOK
  <2> QED
    BY <1>1, <2>1, TypesKeep DEF FlowInv, TypeOK
<1>3. OrdinaryStep
  <2>1. clock <= clock'
    BY FlowAssumption DEF FlowInv, TypeOK
  <2>2. Settled(s)'
    BY <1>1 DEF Settled
  <2> QED
    BY <1>1, <2>1, <2>2 DEF OrdinaryStep
<1> QED
  BY <1>2, <1>3, OrdinaryPreserves

\* The instants of a call that decides nothing in this step.
LEMMA TimesKept ==
  ASSUME TypeOK, NEW s \in Server, TimeOK(s), clock' = clock,
         call'[s].now = call[s].now, call'[s].at = call[s].at,
         call'[s].pc \notin {"confirming", "gate", "acquire"}
  PROVE  TimeOK(s)'
  BY DEF TimeOK, At

LEMMA AskPreserves ==
  ASSUME FlowInv, NEW s \in Server, NEW want \in Wanted, Ask(s, want) PROVE FlowInv'
<1> DEFINE k == [Idle EXCEPT !.pc = "prepare", !.want = want, !.now = clock]
<1>1. SameContracts
  BY SweepChanges DEF Ask, FlowInv
<1>2. /\ k \in Call /\ k.pc = "prepare" /\ k.want = want /\ want \in Descr
      /\ k.auth = None /\ k.cid = None /\ k.conf = None /\ k.now = clock /\ k.at = 0
  <2>1. clock \in Nat /\ want \in Descr
    BY FlowAssumption DEF FlowInv, TypeOK
  <2>2. Idle \in Call /\ Idle.auth = None /\ Idle.cid = None /\ Idle.conf = None /\ Idle.at = 0
    BY IdleIsCall DEF Idle
  <2> QED
    BY <2>1, <2>2 DEF Call, PC
<1>3. call' = [call EXCEPT ![s] = k] /\ call'[s] = k
  BY DEF Ask, FlowInv, TypeOK
<1> HIDE DEF k
<1>4. CallOK(s)' /\ TimeOK(s)'
  <2>1. clock \in Nat /\ clock' = clock
    BY FlowAssumption DEF Ask, FlowInv, TypeOK
  <2> QED
    BY <1>2, <1>3, <2>1 DEF CallOK, TimeOK, Spending, At
<1>5. files' \in Files /\ FilesInv' /\ live' \in Descr
  BY <1>1 DEF Ask, owner, FlowInv, TypeOK, FilesInv, SameContracts
<1> QED
  BY <1>1, <1>2, <1>3, <1>4, <1>5, MovePreserves DEF Ask, owner

\* Prepare, Lookup, Resume, Fetch and Verify write no store.
LEMMA ReadingPreserves ==
  ASSUME FlowInv, NEW s \in Server,
         Prepare(s) \/ Lookup(s) \/ Resume(s) \/ Fetch(s) \/ Verify(s)
  PROVE  FlowInv'
<1>0. /\ SameContracts /\ UNCHANGED <<grants, confirmations, runs, consumed, clock, mishaps, live, rows>>
      /\ call[s] \in Call /\ live \in Descr /\ CallOK(s) /\ TimeOK(s)
      /\ call[s].auth \in {None} \cup DOMAIN grants /\ call[s].cid \in {None} \cup DOMAIN rows
      /\ call[s].conf \in {None} \cup DOMAIN confirmations
      /\ live' \in Descr /\ mishaps' \in 0 .. MaxMishaps /\ consumed' \subseteq DOMAIN grants
  BY RowsUntouched DEF Prepare, Lookup, Resume, Fetch, Verify, store, owner, FlowInv, TypeOK, CallsInv
<1>a. ASSUME Return(s), UNCHANGED files PROVE FlowInv'
  BY <1>a, <1>0, AnswerPreserves
<1>b. ASSUME NEW k \in Call, call' = [call EXCEPT ![s] = k], files' \in Files, FilesInv',
             k.auth \in {None} \cup DOMAIN grants, k.cid \in {None} \cup DOMAIN rows,
             k.conf = call[s].conf, k.now = call[s].now, k.at = call[s].at, CallOK(s)',
             k.pc \notin {"create", "insert", "confirming", "execute", "gate", "acquire"}
      PROVE  FlowInv'
  <2>1. call'[s] = k
    BY <1>b DEF FlowInv, TypeOK
  <2>2. TimeOK(s)'
    BY <1>b, <1>0, <2>1, TimesKept DEF FlowInv
  <2> QED
    BY <1>b, <1>0, <2>2, MovePreserves
<1>f. ASSUME UNCHANGED files PROVE files' \in Files /\ FilesInv'
  BY <1>f, <1>0 DEF FlowInv, TypeOK, FilesInv
<1>1. ASSUME Prepare(s), ~Return(s) PROVE FlowInv'
  <2> DEFINE k == [call[s] EXCEPT !.pc = "lookup", !.base = live]
  <2>1. k \in Call /\ k.auth = call[s].auth /\ k.cid = call[s].cid /\ k.conf = call[s].conf
        /\ k.now = call[s].now /\ k.at = call[s].at
        /\ k.want = call[s].want /\ k.base = live /\ k.pc = "lookup" /\ call[s].want \in Descr
    BY <1>0, <1>1 DEF Call, PC, CallOK, Prepare, At
  <2>2. call' = [call EXCEPT ![s] = k] /\ call'[s] = k
    BY <1>1, <1>0 DEF Prepare, FlowInv, TypeOK
  <2> HIDE DEF k
  <2>3. CallOK(s)'
    BY <2>1, <2>2, <1>0 DEF CallOK, Spending, At
  <2> QED
    BY <2>1, <2>2, <2>3, <1>0, <1>1, <1>b, <1>f DEF Prepare
<1>2. ASSUME Lookup(s), ~Return(s) PROVE FlowInv'
  <2>1. PICK c \in DOMAIN rows \cup {call[s].cid}, pc \in {"resume", "fetch"} :
          /\ call' = [call EXCEPT ![s] = [call[s] EXCEPT !.pc = pc, !.cid = c]]
          /\ pc = "resume" => c \in DOMAIN rows
    <3>1. CASE \E c \in Blocking(IntentOf(s)) : call' = [call EXCEPT ![s].pc = "resume", ![s].cid = c]
      BY <3>1, <1>0 DEF Blocking, FlowInv, TypeOK
    <3>2. CASE Goto(s, "fetch")
      BY <3>2, <1>0 DEF Goto, FlowInv, TypeOK, Call
    <3> QED
      BY <1>2, <3>1, <3>2 DEF Lookup
  <2> DEFINE k == [call[s] EXCEPT !.pc = pc, !.cid = c]
  <2>2. /\ k \in Call /\ k.auth = call[s].auth /\ k.cid = c /\ k.conf = call[s].conf
        /\ k.now = call[s].now /\ k.at = call[s].at
        /\ k.want = call[s].want /\ k.base = call[s].base /\ k.pc = pc
        /\ call[s].want \in Descr /\ call[s].base \in Descr /\ c \in {None} \cup DOMAIN rows
    <3>1. c \in {None} \cup DOMAIN rows /\ c \in Nat
      BY <1>0, LenProperties DEF FlowInv, TypeOK, Call
    <3> QED
      BY <1>0, <1>2, <3>1 DEF Call, PC, CallOK, Lookup, At
  <2>3. call' = [call EXCEPT ![s] = k] /\ call'[s] = k
    BY <2>1 DEF FlowInv, TypeOK
  <2> HIDE DEF k
  <2>4. CallOK(s)'
    BY <2>1, <2>2, <2>3, <1>0 DEF CallOK, Spending, At
  <2> QED
    BY <2>2, <2>3, <2>4, <1>0, <1>2, <1>b, <1>f DEF Lookup
<1>3. ASSUME Resume(s), ~Return(s) PROVE FlowInv'
  <2> DEFINE k == [call[s] EXCEPT !.pc = "deliver"]
  <2>1. /\ k \in Call /\ k.auth = call[s].auth /\ k.cid = call[s].cid /\ k.conf = call[s].conf
        /\ k.now = call[s].now /\ k.at = call[s].at
        /\ k.want = call[s].want /\ k.base = call[s].base /\ k.pc = "deliver"
        /\ call[s].want \in Descr /\ call[s].base \in Descr /\ call[s].cid \in DOMAIN rows
    BY <1>0, <1>3 DEF Call, PC, CallOK, Resume, At
  <2>2. call' = [call EXCEPT ![s] = k] /\ call'[s] = k
    BY <1>3, <1>0 DEF Resume, Goto, FlowInv, TypeOK
  <2> HIDE DEF k
  <2>3. CallOK(s)'
    BY <2>1, <2>2, <1>0 DEF CallOK, Spending, At
  <2> QED
    BY <2>1, <2>2, <2>3, <1>0, <1>3, <1>b, <1>f DEF Resume
<1>4. ASSUME Fetch(s) PROVE FlowInv'
  <2>1. files' \in Files /\ FilesInv'
    <3>1. IntentOf(s) \in Intent
      BY <1>0, <1>4 DEF IntentOf, Intent, CallOK, Fetch, At
    <3>2. files' \in Files /\ files'.inbox = files.inbox /\ files'.pending = files.pending
          /\ files'.signed = files.signed
      BY <1>4, <3>1 DEF Fetch, FlowInv, TypeOK, Files
    <3> QED
      BY <1>0, <3>2 DEF FilesInv, FlowInv
  <2>2. CASE Return(s)
    <3>1. /\ call' \in [Server -> Call] /\ \A t \in Server : call'[t] = call[t] \/ call'[t] = Idle
          /\ \A t \in Server :
               call'[t] = call[t] \/ Settled(t)'
      BY <1>0, <2>2, Answered DEF FlowInv
    <3>2. TypeOK'
      <4>1. \A t \in Server : /\ call'[t].auth \in {None} \cup DOMAIN grants
                              /\ call'[t].cid \in {None} \cup DOMAIN rows
                              /\ call'[t].conf \in {None} \cup DOMAIN confirmations
        BY <3>1 DEF FlowInv, TypeOK, Idle
      <4> QED
        BY <1>0, <2>1, <3>1, <4>1, TypesKeep DEF FlowInv, TypeOK
    <3>3. OrdinaryStep
      BY <1>0, <3>1, FlowAssumption DEF OrdinaryStep, FlowInv, TypeOK
    <3> QED
      BY <2>1, <3>2, <3>3, OrdinaryPreserves
  <2>3. CASE ~Return(s)
    <3> DEFINE k == [call[s] EXCEPT !.pc = "verify", !.auth = files.inbox]
    <3>1. files.inbox \in DOMAIN grants /\ files.inbox \in Nat
      BY <1>4, <2>3 DEF Fetch, FlowInv, FilesInv, TypeOK, Files
    <3>2. /\ k \in Call /\ k.auth = files.inbox /\ k.cid = call[s].cid /\ k.conf = call[s].conf
          /\ k.now = call[s].now /\ k.at = call[s].at
          /\ k.want = call[s].want /\ k.base = call[s].base /\ k.pc = "verify"
          /\ call[s].want \in Descr /\ call[s].base \in Descr
      BY <1>0, <1>4, <3>1 DEF Call, PC, CallOK, Fetch, At
    <3>3. call' = [call EXCEPT ![s] = k] /\ call'[s] = k
      BY <1>4, <2>3, <1>0 DEF Fetch, FlowInv, TypeOK
    <3> HIDE DEF k
    <3>4. CallOK(s)'
      BY <3>1, <3>2, <3>3, <1>0 DEF CallOK, Spending, At
    <3> QED
      BY <2>1, <3>1, <3>2, <3>3, <3>4, <1>0, <1>b
  <2> QED
    BY <2>2, <2>3
<1>5. ASSUME Verify(s), ~Return(s) PROVE FlowInv'
  <2> DEFINE k == [call[s] EXCEPT !.pc = "consume", !.base = live]
  <2>1. /\ k \in Call /\ k.auth = call[s].auth /\ k.cid = call[s].cid /\ k.conf = call[s].conf
        /\ k.now = call[s].now /\ k.at = call[s].at
        /\ k.want = call[s].want /\ k.base = live /\ k.pc = "consume"
        /\ call[s].want \in Descr /\ call[s].auth \in DOMAIN grants
    BY <1>0, <1>5 DEF Call, PC, CallOK, Verify, At
  <2>2. /\ call' = [call EXCEPT ![s] = k] /\ call'[s] = k
        /\ grants[call[s].auth].intent = [want |-> call[s].want, base |-> live]
    BY <1>5, <1>0 DEF Verify, SameReading, FlowInv, TypeOK
  <2> HIDE DEF k
  <2>3. CallOK(s)'
    BY <2>1, <2>2, <1>0 DEF CallOK, Spending, At, IntentOf
  <2> QED
    BY <2>1, <2>2, <2>3, <1>0, <1>5, <1>b, <1>f DEF Verify
<1> QED
  BY <1>1, <1>2, <1>3, <1>4, <1>5, <1>a DEF Prepare, Lookup, Resume, Verify

\* The authorization is spent by this call, so it was not spent before: no
\* contract and no other call between consumption and creation has it.
LEMMA TryConsumePreserves ==
  ASSUME FlowInv, NEW s \in Server, TryConsume(s) PROVE FlowInv'
<1> USE DEF FlowInv
<1>0. /\ call[s] \in Call /\ CallOK(s) /\ call[s].auth \in DOMAIN grants
      /\ SameContracts /\ UNCHANGED <<grants, confirmations, runs, clock, files, live, mishaps, rows>>
  BY RowsUntouched DEF TypeOK, CallsInv, CallOK, TryConsume, At, owner
<1>1. CASE Return(s)
  <2>1. consumed \subseteq consumed' /\ consumed' \subseteq DOMAIN grants
    BY <1>0 DEF TryConsume, TypeOK
  <2> QED
    BY <1>0, <1>1, <2>1, AnswerPreserves DEF TypeOK
<1>2. CASE ~Return(s)
  <2> DEFINE k == [call[s] EXCEPT !.pc = "create"]
  <2>0. /\ call[s].auth \notin consumed /\ consumed' = consumed \cup {call[s].auth}
        /\ call' = [call EXCEPT ![s] = k]
    BY <1>2 DEF TryConsume, Consumable, Goto
  <2>1. /\ k \in Call /\ k.auth = call[s].auth /\ k.cid = call[s].cid /\ k.conf = call[s].conf
        /\ k.now = call[s].now /\ k.at = call[s].at
        /\ k.want = call[s].want /\ k.base = call[s].base /\ k.pc = "create"
        /\ call[s].want \in Descr /\ call[s].base \in Descr
        /\ grants[call[s].auth].intent = IntentOf(s)
    BY <1>0 DEF Call, PC, CallOK, TryConsume, At
  <2>2. /\ call' \in [Server -> Call] /\ call'[s] = k
        /\ \A t \in Server : t # s => call'[t] = call[t]
    BY <2>0, <2>1 DEF TypeOK
  <2> HIDE DEF k
  <2>3. TypeOK'
    BY <1>0, <2>0, <2>1, <2>2 DEF TypeOK
  <2>4. FilesInv' /\ ExpiryInv' /\ TimeInv' /\ HandedOffAsApproved'
    BY <1>0 DEF FilesInv, ExpiryInv, TimeInv, InTimeFor, Current,
                HandedOffAsApproved, ContractIsAuthorized, ConfirmedByName
  <2>5. CallsInv'
    <3>1. CallOK(s)'
      BY <1>0, <2>0, <2>1, <2>2 DEF CallOK, Spending, At, IntentOf
    <3>2. ASSUME NEW t \in Server, t # s PROVE CallOK(t)'
      BY <3>2, <1>0, <2>0, <2>2 DEF CallsInv, CallOK, Spending, At, IntentOf
    <3>3. TimeOK(s)'
      BY <1>0, <2>1, <2>2, TimesKept DEF CallsInv
    <3>4. ASSUME NEW t \in Server, t # s PROVE TimeOK(t)'
      BY <3>4, <1>0, <2>2 DEF CallsInv, TimeOK, InTimeFor, Current, At
    <3> QED
      BY <3>1, <3>2, <3>3, <3>4 DEF CallsInv
  <2>6. SpendInv'
    <3>1. \A c \in DOMAIN rows : rows[c].auth # call[s].auth
      BY <2>0 DEF SpendInv, AuthorizationSpentOnce
    <3>2. \A t \in Server : Spending(t) => call[t].auth # call[s].auth
      BY <2>0 DEF CallsInv, CallOK
    <3>3. AuthorizationSpentOnce'
      BY <1>0, <2>0 DEF SpendInv, AuthorizationSpentOnce
    <3>4. \A t \in Server, c \in DOMAIN rows : Spending(t)' => rows[c].auth # call'[t].auth
      BY <2>1, <2>2, <3>1 DEF SpendInv, Spending
    <3>5. \A t, u \in Server :
            Spending(t)' /\ Spending(u)' /\ call'[t].auth = call'[u].auth => t = u
      BY <2>1, <2>2, <3>2 DEF SpendInv, Spending
    <3> QED
      BY <1>0, <3>3, <3>4, <3>5 DEF SpendInv
  <2>7. HandoffInv'
    BY <1>0, <2>1, <2>2 DEF HandoffInv, At
  <2> QED
    BY <2>3, <2>4, <2>5, <2>6, <2>7
<1> QED
  BY <1>1, <1>2

LEMMA AppendedRow ==
  ASSUME TypeOK, NEW r \in Row, rows' = Append(rows, r), runs' = Append(runs, 0)
  PROVE  LET n == Len(rows) + 1
         IN  /\ rows' \in Seq(Row) /\ n \in Nat /\ n # 0
             /\ DOMAIN rows' = DOMAIN rows \cup {n} /\ n \notin DOMAIN rows
             /\ \A c \in DOMAIN rows : rows'[c] = rows[c]
             /\ rows'[n] = r
             /\ runs' \in [DOMAIN rows' -> Nat] /\ runs'[n] = 0
             /\ \A c \in DOMAIN rows : runs'[c] = runs[c]
<1>1. rows \in Seq(Row) /\ Len(rows) \in Nat /\ DOMAIN rows = 1 .. Len(rows)
  BY LenProperties DEF TypeOK
<1>2. runs \in Seq(Nat) /\ Len(runs) = Len(rows)
  <2>1. runs \in [1 .. Len(rows) -> Nat]
    BY <1>1 DEF TypeOK
  <2>2. runs \in Seq(Nat)
    BY <1>1, <2>1, SeqDef
  <2> QED
    BY <1>1, <2>1, <2>2, LenProperties
<1>3. /\ rows' \in Seq(Row) /\ DOMAIN rows' = 1 .. (Len(rows) + 1)
      /\ \A c \in 1 .. Len(rows) : rows'[c] = rows[c]
      /\ rows'[Len(rows) + 1] = r
  BY <1>1
<1>4. /\ runs' \in Seq(Nat) /\ DOMAIN runs' = 1 .. (Len(rows) + 1)
      /\ \A c \in 1 .. Len(rows) : runs'[c] = runs[c]
      /\ runs'[Len(rows) + 1] = 0
  BY <1>2
<1>5. runs' \in [DOMAIN rows' -> Nat]
  BY <1>3, <1>4, LenProperties
<1> QED
  BY <1>1, <1>3, <1>4, <1>5

\* Nothing but one call moves, and it keeps what it owns.
LEMMA OnlyCallMoves ==
  ASSUME FlowInv, NEW s \in Server, NEW k \in Call, call' = [call EXCEPT ![s] = k],
         UNCHANGED <<clock, live, rows, consumed, grants, confirmations, files, mishaps, runs>>,
         k.auth = call[s].auth, k.cid = call[s].cid, k.conf = call[s].conf,
         CallOK(s)', TimeOK(s)', k.pc # "execute",
         k.pc \in {"create", "insert"} => Spending(s)
  PROVE  FlowInv'
<1> USE DEF FlowInv
<1>1. /\ call' \in [Server -> Call] /\ call'[s] = k
      /\ \A t \in Server : t # s => call'[t] = call[t]
  BY DEF TypeOK
<1>2. TypeOK' /\ FilesInv'
  BY <1>1 DEF TypeOK, FilesInv
<1>3. CallsInv'
  <2>1. ASSUME NEW t \in Server, t # s PROVE CallOK(t)'
    BY <2>1, <1>1 DEF CallsInv, CallOK, Spending, At, IntentOf
  <2>2. ASSUME NEW t \in Server, t # s PROVE TimeOK(t)'
    BY <2>2, <1>1 DEF CallsInv, TimeOK, InTimeFor, Current, At
  <2> QED
    BY <2>1, <2>2 DEF CallsInv
<1>4. SpendInv'
  <2>1. \A t \in Server : Spending(t)' => Spending(t) /\ call'[t].auth = call[t].auth
    BY <1>1 DEF Spending
  <2> QED
    BY <2>1 DEF SpendInv, AuthorizationSpentOnce
<1>5. HandoffInv'
  BY <1>1 DEF HandoffInv, At
<1>6. ExpiryInv' /\ TimeInv' /\ HandedOffAsApproved'
  BY DEF ExpiryInv, TimeInv, InTimeFor, Current,
         HandedOffAsApproved, ContractIsAuthorized, ConfirmedByName
<1> QED
  BY <1>2, <1>3, <1>4, <1>5, <1>6

\* Create, Promote, Confirm and Gate decide by the clock and change no store.
LEMMA DecidingPreserves ==
  ASSUME FlowInv, NEW s \in Server, Create(s) \/ Promote(s) \/ Confirm(s) \/ Gate(s)
  PROVE  FlowInv'
<1> USE DEF FlowInv
<1>0. /\ UNCHANGED <<clock, live, rows, consumed, grants, confirmations, files, mishaps, runs>>
      /\ call[s] \in Call /\ CallOK(s) /\ TimeOK(s) /\ SameContracts
  BY RowsUntouched DEF Create, Promote, Confirm, Gate, store, owner, CallsInv, TypeOK
<1>1. CASE Return(s)
  BY <1>0, <1>1, AnswerPreserves DEF TypeOK
<1>3. call[s].at \in Nat /\ clock \in Nat
  BY <1>0, FlowAssumption DEF Call, TypeOK
<1>4. CASE Create(s) /\ ~Return(s)
  <2> DEFINE k == [call[s] EXCEPT !.pc = "insert"]
  <2>1. /\ call' = [call EXCEPT ![s] = k] /\ k \in Call /\ call'[s] = k /\ k.pc = "insert"
        /\ k.at = call[s].at /\ k.auth = call[s].auth /\ k.cid = call[s].cid
        /\ k.conf = call[s].conf /\ k.now = call[s].now
        /\ k.want = call[s].want /\ k.base = call[s].base
    <3>1. call' = [call EXCEPT ![s] = k]
      BY <1>4 DEF Create, Goto, TypeOK
    <3> QED
      BY <1>0, <1>3, <3>1 DEF Call, PC, TypeOK
  <2> HIDE DEF k
  <2>2. CallOK(s)' /\ Spending(s)
    BY <1>0, <1>4, <2>1 DEF CallOK, Spending, At, IntentOf, Create
  <2>3. TimeOK(s)'
    BY <1>0, <2>1, TimesKept
  <2> QED
    BY <1>0, <2>1, <2>2, <2>3, OnlyCallMoves
<1>5. CASE Promote(s) /\ ~Return(s)
  <2> DEFINE k == [call[s] EXCEPT !.pc = "promoting"]
  <2>1. /\ call' = [call EXCEPT ![s] = k] /\ k \in Call /\ call'[s] = k /\ k.pc = "promoting"
        /\ k.at = call[s].at /\ k.auth = call[s].auth /\ k.cid = call[s].cid
        /\ k.conf = call[s].conf /\ k.now = call[s].now
        /\ k.want = call[s].want /\ k.base = call[s].base
    <3>1. call' = [call EXCEPT ![s] = k]
      BY <1>5 DEF Promote, Goto, TypeOK
    <3> QED
      BY <1>0, <1>3, <3>1 DEF Call, PC, TypeOK
  <2> HIDE DEF k
  <2>2. CallOK(s)'
    BY <1>0, <1>5, <2>1 DEF CallOK, Spending, At, Promote
  <2>3. TimeOK(s)'
    BY <1>0, <2>1, TimesKept
  <2> QED
    BY <1>0, <2>1, <2>2, <2>3, OnlyCallMoves
<1>6. CASE Confirm(s) /\ ~Return(s)
  <2> DEFINE k == [call[s] EXCEPT !.pc = "confirming", !.at = clock]
  <2>1. /\ call' = [call EXCEPT ![s] = k] /\ k \in Call /\ call'[s] = k /\ k.pc = "confirming"
        /\ k.at = clock /\ k.auth = call[s].auth /\ k.cid = call[s].cid
        /\ k.conf = call[s].conf /\ k.now = call[s].now
        /\ k.want = call[s].want /\ k.base = call[s].base
    <3>1. call' = [call EXCEPT ![s] = k]
      BY <1>6 DEF Confirm, TypeOK
    <3> QED
      BY <1>0, <1>3, <3>1 DEF Call, PC, TypeOK
  <2> HIDE DEF k
  <2>2. CallOK(s)' /\ call[s].cid \in DOMAIN rows /\ call[s].conf \in DOMAIN confirmations
    BY <1>0, <1>6, <2>1 DEF CallOK, Spending, At, Confirm
  <2>3. InTimeFor(call[s].cid, call[s].conf, clock)
    <3>1. /\ Current(rows[call[s].cid].auth, call[s].now)
          /\ confirmations[call[s].conf].issued <= call[s].now
          /\ ~Expired(call[s].cid, clock) /\ Binds(confirmations[call[s].conf], call[s].cid)
      BY <1>6 DEF Confirm
    <3>2. /\ rows[call[s].cid] \in Row /\ rows[call[s].cid].auth \in DOMAIN grants
          /\ confirmations[call[s].conf] \in Confirmation
      BY <2>2, RowOfRows, LenProperties, ElementOfSeq DEF TypeOK, SpendInv, AuthorizationSpentOnce
    <3>3. grants[rows[call[s].cid].auth] \in Grant
      BY <3>2, LenProperties, ElementOfSeq DEF TypeOK
    <3>4. /\ rows[call[s].cid].expires \in Nat /\ grants[rows[call[s].cid].auth].issued \in Nat
          /\ grants[rows[call[s].cid].auth].expires \in Nat /\ call[s].now \in Nat
          /\ confirmations[call[s].conf].issued \in Nat
      BY <1>0, <3>2, <3>3 DEF Row, Grant, Confirmation, Call
    <3>5. /\ rows[call[s].cid].expires <= grants[rows[call[s].cid].auth].expires
          /\ call[s].now <= clock
      BY <1>0, <2>2 DEF ExpiryInv, TimeOK
    <3> QED
      BY <1>3, <3>1, <3>4, <3>5 DEF InTimeFor, Current, Expired, Binds
  <2>4. TimeOK(s)'
    BY <1>0, <1>3, <2>1, <2>3 DEF TimeOK, InTimeFor, Current, At
  <2> QED
    BY <1>0, <2>1, <2>2, <2>4, OnlyCallMoves
<1>7. CASE Gate(s) /\ ~Return(s)
  <2>0. PICK pc \in {"acquire", "refuse"} : call' = [call EXCEPT ![s].pc = pc, ![s].at = clock]
    BY <1>7 DEF Gate
  <2> DEFINE k == [call[s] EXCEPT !.pc = pc, !.at = clock]
  <2>1. /\ call' = [call EXCEPT ![s] = k] /\ k \in Call /\ call'[s] = k /\ k.pc = pc
        /\ k.at = clock /\ k.auth = call[s].auth /\ k.cid = call[s].cid
        /\ k.conf = call[s].conf /\ k.now = call[s].now
        /\ k.want = call[s].want /\ k.base = call[s].base
    <3>1. call' = [call EXCEPT ![s] = k]
      BY <2>0 DEF TypeOK
    <3> QED
      BY <1>0, <1>3, <3>1 DEF Call, PC, TypeOK
  <2> HIDE DEF k
  <2>2. CallOK(s)' /\ call[s].cid \in DOMAIN rows /\ rows[call[s].cid].confirmed
    BY <1>0, <1>7, <2>1 DEF CallOK, TimeOK, Spending, At, Gate
  <2>3. rows[call[s].cid].confirmedAt <= clock /\ Current(rows[call[s].cid].auth, clock)
    <3>1. PICK i \in DOMAIN confirmations : InTimeFor(call[s].cid, i, rows[call[s].cid].confirmedAt)
      BY <2>2 DEF TimeInv
    <3>2. /\ grants[rows[call[s].cid].auth].issued <= rows[call[s].cid].confirmedAt
          /\ rows[call[s].cid].confirmedAt <= clock
          /\ rows[call[s].cid].expires <= grants[rows[call[s].cid].auth].expires
      BY <2>2, <3>1 DEF InTimeFor, Current, TimeInv, ExpiryInv
    <3>3. rows[call[s].cid] \in Row /\ rows[call[s].cid].auth \in DOMAIN grants
      BY <2>2, RowOfRows DEF TypeOK, SpendInv, AuthorizationSpentOnce
    <3>4. grants[rows[call[s].cid].auth] \in Grant
      BY <3>3, LenProperties, ElementOfSeq DEF TypeOK
    <3>5. /\ rows[call[s].cid].expires \in Nat /\ rows[call[s].cid].confirmedAt \in Nat
          /\ grants[rows[call[s].cid].auth].issued \in Nat
          /\ grants[rows[call[s].cid].auth].expires \in Nat
      BY <3>3, <3>4 DEF Row, Grant
    <3>6. ~Expired(call[s].cid, clock)
      BY <1>7 DEF Gate
    <3> QED
      BY <1>3, <3>2, <3>5, <3>6 DEF Current, Expired
  <2>4. TimeOK(s)'
    BY <1>0, <1>3, <2>0, <2>1, <2>2, <2>3 DEF TimeOK, Current, At
  <2> QED
    BY <1>0, <2>0, <2>1, <2>2, <2>4, OnlyCallMoves
<1> QED
  BY <1>1, <1>4, <1>5, <1>6, <1>7

LEMMA CommitCreationPreserves ==
  ASSUME FlowInv, NEW s \in Server, CommitCreation(s) PROVE FlowInv'
<1> USE DEF FlowInv
<1>0. /\ call[s] \in Call /\ CallOK(s) /\ call[s].auth \in DOMAIN grants /\ call[s].auth \in consumed
      /\ call[s].want \in Descr /\ call[s].base \in Descr
      /\ grants[call[s].auth].intent = IntentOf(s)
      /\ \A c \in DOMAIN rows : rows[c].auth # call[s].auth
      /\ UNCHANGED <<grants, confirmations, consumed, clock, files, live, mishaps>>
  BY DEF TypeOK, CallsInv, CallOK, SpendInv, Spending, CommitCreation, At, owner
<1>1. CASE UNCHANGED <<rows, runs>> /\ Return(s)
  BY <1>0, <1>1, RowsUntouched, AnswerPreserves DEF TypeOK
<1>2. CASE Insert(s) /\ runs' = Append(runs, 0)
           /\ call' = [call EXCEPT ![s].pc = "promote", ![s].cid = Len(rows) + 1]
  <2> DEFINE n == Len(rows) + 1
             r == [intent |-> IntentOf(s), auth |-> call[s].auth,
                   expires |-> Expiry(s), state |-> "preparing",
                   confirmed |-> FALSE, confirmedAt |-> 0]
             k == [call[s] EXCEPT !.pc = "promote", !.cid = n]
  <2>1. /\ grants[call[s].auth] \in Grant
        /\ Expiry(s) \in Nat /\ Expiry(s) <= grants[call[s].auth].expires
    <3>1. grants[call[s].auth] \in Grant
      BY <1>0, LenProperties, ElementOfSeq DEF TypeOK
    <3>2. call[s].now \in Nat /\ grants[call[s].auth].expires \in Nat
      BY <1>0, <3>1 DEF Call, Grant
    <3> QED
      BY <3>1, <3>2, FlowAssumption DEF Expiry
  <2>2. /\ r \in Row /\ r.intent = IntentOf(s) /\ r.auth = call[s].auth
        /\ r.expires = Expiry(s) /\ r.confirmed = FALSE /\ r.confirmedAt = 0
    BY <1>0, <2>1 DEF Row, Intent, IntentOf, Call, RecoveryState
  <2>3. rows' = Append(rows, r)
    BY <1>2 DEF Insert
  <2> HIDE DEF r
  <2>4. /\ rows' \in Seq(Row) /\ n \in Nat /\ n # 0
        /\ DOMAIN rows' = DOMAIN rows \cup {n} /\ n \notin DOMAIN rows
        /\ \A c \in DOMAIN rows : rows'[c] = rows[c]
        /\ rows'[n] = r
        /\ runs' \in [DOMAIN rows' -> Nat] /\ runs'[n] = 0
        /\ \A c \in DOMAIN rows : runs'[c] = runs[c]
    BY <1>2, <2>2, <2>3, AppendedRow
  <2>5. /\ k \in Call /\ k.auth = call[s].auth /\ k.cid = n /\ k.conf = call[s].conf
        /\ k.now = call[s].now /\ k.at = call[s].at
        /\ k.want = call[s].want /\ k.base = call[s].base /\ k.pc = "promote"
    BY <1>0, <2>4 DEF Call, PC
  <2>6. /\ call' \in [Server -> Call] /\ call'[s] = k
        /\ \A t \in Server : t # s => call'[t] = call[t]
    BY <1>2, <2>5 DEF TypeOK
  <2> HIDE DEF k, n
  <2>7. TypeOK'
    BY <1>0, <2>4, <2>5, <2>6 DEF TypeOK
  <2>8. FilesInv' /\ ExpiryInv'
    BY <1>0, <2>1, <2>2, <2>4 DEF FilesInv, ExpiryInv
  <2>13. TimeInv'
    <3>1. 0 <= clock
      BY FlowAssumption DEF TypeOK
    <3> QED
      BY <1>0, <2>2, <2>4, <3>1 DEF TimeInv, InTimeFor, Current
  <2>9. HandedOffAsApproved'
    BY <1>0, <2>2, <2>4 DEF HandedOffAsApproved, ContractIsAuthorized, ConfirmedByName
  <2>10. CallsInv'
    <3>1. CallOK(s)'
      BY <1>0, <2>4, <2>5, <2>6 DEF CallOK, Spending, At
    <3>2. ASSUME NEW t \in Server, t # s PROVE CallOK(t)'
      BY <3>2, <1>0, <2>4, <2>6 DEF CallsInv, CallOK, Spending, At, IntentOf
    <3>3. TimeOK(s)'
      BY <1>0, <2>5, <2>6, TimesKept DEF CallsInv
    <3>4. ASSUME NEW t \in Server, t # s PROVE TimeOK(t)'
      BY <3>4, <1>0, <2>4, <2>6 DEF CallsInv, CallOK, TimeOK, InTimeFor, Current, At
    <3> QED
      BY <3>1, <3>2, <3>3, <3>4 DEF CallsInv
  <2>11. SpendInv'
    <3>1. \A t \in Server : t # s /\ Spending(t) => call[t].auth # call[s].auth
      BY <1>0 DEF SpendInv, Spending, CommitCreation, At
    <3>2. AuthorizationSpentOnce'
      BY <1>0, <2>2, <2>4 DEF SpendInv, AuthorizationSpentOnce
    <3>3. \A t \in Server, c \in DOMAIN rows' : Spending(t)' => rows'[c].auth # call'[t].auth
      BY <2>2, <2>4, <2>5, <2>6, <3>1 DEF SpendInv, Spending
    <3>4. \A t, u \in Server :
            Spending(t)' /\ Spending(u)' /\ call'[t].auth = call'[u].auth => t = u
      BY <2>5, <2>6 DEF SpendInv, Spending
    <3> QED
      BY <3>2, <3>3, <3>4 DEF SpendInv
  <2>12. HandoffInv'
    <3>1. \A t \in Server : At(t, "execute")' => t # s /\ At(t, "execute") /\ call[t].cid \in DOMAIN rows
      BY <2>5, <2>6 DEF At, CallsInv, CallOK
    <3>2. \A c \in DOMAIN rows' : runs'[c] = 0 \/ (runs'[c] = 1 /\ rows'[c].confirmed)
      BY <2>4 DEF HandoffInv
    <3>3. \A t \in Server :
            At(t, "execute")' => rows'[call'[t].cid].confirmed /\ runs'[call'[t].cid] = 0
      BY <2>4, <2>6, <3>1 DEF HandoffInv
    <3>4. \A t, u \in Server :
            At(t, "execute")' /\ At(u, "execute")' /\ call'[t].cid = call'[u].cid => t = u
      BY <2>6, <3>1 DEF HandoffInv
    <3> QED
      BY <3>2, <3>3, <3>4 DEF HandoffInv
  <2> QED
    BY <2>7, <2>8, <2>9, <2>10, <2>11, <2>12, <2>13
<1> QED
  BY <1>1, <1>2 DEF CommitCreation

LEMMA CommitPromotionPreserves ==
  ASSUME FlowInv, NEW s \in Server, CommitPromotion(s) PROVE FlowInv'
<1> USE DEF FlowInv
<1>0. /\ call[s] \in Call /\ CallOK(s) /\ TimeOK(s) /\ call[s].cid \in DOMAIN rows
      /\ call[s].want \in Descr /\ call[s].base \in Descr
      /\ call[s].auth \in {None} \cup DOMAIN grants
      /\ call[s].conf \in {None} \cup DOMAIN confirmations
      /\ UNCHANGED <<grants, confirmations, runs, consumed, clock, files, live, mishaps>>
  BY DEF TypeOK, CallsInv, CallOK, CommitPromotion, At, owner
<1>1. CASE Return(s) /\ UNCHANGED rows
  BY <1>0, <1>1, RowsUntouched, AnswerPreserves DEF TypeOK
<1>2. CASE rows' = [rows EXCEPT ![call[s].cid].state = "prepared"] /\ Goto(s, "deliver")
  <2> DEFINE k == [call[s] EXCEPT !.pc = "deliver"]
  <2>1. SameContracts
    BY <1>0, <1>2, StateChanged DEF RecoveryState
  <2>2. /\ k \in Call /\ k.auth = call[s].auth /\ k.cid = call[s].cid /\ k.conf = call[s].conf
        /\ k.now = call[s].now /\ k.at = call[s].at
        /\ k.want = call[s].want /\ k.base = call[s].base /\ k.pc = "deliver"
    BY <1>0 DEF Call, PC
  <2>3. call' = [call EXCEPT ![s] = k] /\ call'[s] = k
    BY <1>2 DEF Goto, TypeOK
  <2> HIDE DEF k
  <2>4. CallOK(s)' /\ files' \in Files /\ FilesInv' /\ live' \in Descr
    BY <1>0, <2>1, <2>2, <2>3 DEF CallOK, Spending, At, TypeOK, FilesInv, SameContracts
  <2>5. TimeOK(s)'
    BY <1>0, <2>2, <2>3, TimesKept
  <2> QED
    BY <1>0, <2>1, <2>2, <2>3, <2>4, <2>5, MovePreserves
<1> QED
  BY <1>1, <1>2 DEF CommitPromotion

LEMMA DeliverPreserves ==
  ASSUME FlowInv, NEW s \in Server, Deliver(s) PROVE FlowInv'
<1> USE DEF FlowInv
<1>0. /\ call[s] \in Call /\ CallOK(s) /\ TimeOK(s) /\ call[s].cid \in DOMAIN rows /\ call[s].cid \in Nat
      /\ call[s].want \in Descr /\ call[s].base \in Descr
      /\ call[s].auth \in {None} \cup DOMAIN grants
      /\ UNCHANGED <<grants, confirmations, runs, consumed, clock, rows, live, mishaps>>
      /\ SameContracts
  BY RowsUntouched DEF TypeOK, CallsInv, CallOK, Deliver, At, owner, store, Call
<1>1. files' \in Files /\ FilesInv'
  <2>1. files' \in Files /\ files'.inbox = files.inbox /\ files'.signed = files.signed
        /\ files'.pending \in {files.pending, call[s].cid}
    BY <1>0 DEF Deliver, TypeOK, Files
  <2> QED
    BY <1>0, <2>1 DEF FilesInv
<1>2. CASE Return(s)
  <2>1. /\ call' \in [Server -> Call] /\ \A t \in Server : call'[t] = call[t] \/ call'[t] = Idle
        /\ \A t \in Server :
             call'[t] = call[t] \/ Settled(t)'
    BY <1>0, <1>2, Answered
  <2>2. \A t \in Server : /\ call'[t].auth \in {None} \cup DOMAIN grants
                          /\ call'[t].cid \in {None} \cup DOMAIN rows
                          /\ call'[t].conf \in {None} \cup DOMAIN confirmations
    BY <2>1 DEF TypeOK, Idle
  <2>3. TypeOK'
    BY <1>0, <1>1, <2>1, <2>2, TypesKeep DEF TypeOK
  <2>4. OrdinaryStep
    BY <1>0, <2>1, FlowAssumption DEF OrdinaryStep, TypeOK
  <2> QED
    BY <1>1, <2>3, <2>4, OrdinaryPreserves
<1>3. CASE ~Return(s)
  <2> DEFINE k == [call[s] EXCEPT !.pc = "confirm", !.conf = files.signed]
  <2>1. files.signed \in DOMAIN confirmations /\ files.signed \in Nat
    BY <1>3 DEF Deliver, FilesInv, TypeOK, Files
  <2>2. /\ k \in Call /\ k.auth = call[s].auth /\ k.cid = call[s].cid /\ k.conf = files.signed
        /\ k.now = call[s].now /\ k.at = call[s].at
        /\ k.want = call[s].want /\ k.base = call[s].base /\ k.pc = "confirm"
    BY <1>0, <2>1 DEF Call, PC
  <2>3. call' = [call EXCEPT ![s] = k] /\ call'[s] = k
    BY <1>3 DEF Deliver, TypeOK
  <2> HIDE DEF k
  <2>4. CallOK(s)' /\ live' \in Descr
    BY <1>0, <2>1, <2>2, <2>3 DEF CallOK, Spending, At, TypeOK
  <2>5. TimeOK(s)'
    BY <1>0, <2>2, <2>3, TimesKept
  <2> QED
    BY <1>0, <1>1, <2>1, <2>2, <2>3, <2>4, <2>5, MovePreserves
<1> QED
  BY <1>2, <1>3

\* One row after confirm(): confirmed, and otherwise as it was.
LEMMA ConfirmedRow ==
  ASSUME TypeOK, NEW c \in DOMAIN rows, NEW at \in Nat,
         rows' = [rows EXCEPT ![c] = WithConfirmation(@, at)]
  PROVE  /\ rows' \in Seq(Row) /\ DOMAIN rows' = DOMAIN rows
         /\ rows'[c].confirmed = TRUE /\ rows'[c].confirmedAt = at
         /\ \A d \in DOMAIN rows :
              /\ rows'[d].intent = rows[d].intent /\ rows'[d].auth = rows[d].auth
              /\ rows'[d].expires = rows[d].expires
              /\ d # c => /\ rows'[d].confirmed = rows[d].confirmed
                           /\ rows'[d].confirmedAt = rows[d].confirmedAt
<1>1. rows[c] \in Row /\ DOMAIN rows = 1 .. Len(rows) /\ c \in 1 .. Len(rows) /\ rows \in Seq(Row)
  BY RowOfRows DEF TypeOK
<1>2. [rows[c] EXCEPT !.confirmed = TRUE, !.confirmedAt = at] \in Row
  BY <1>1 DEF Row
<1>3. rows' = [rows EXCEPT ![c] = [rows[c] EXCEPT !.confirmed = TRUE, !.confirmedAt = at]]
  BY DEF WithConfirmation
<1>4. rows' \in Seq(Row) /\ DOMAIN rows' = DOMAIN rows
  BY <1>1, <1>2, <1>3, ExceptSeq
<1>5. \A d \in DOMAIN rows : rows[d] \in Row
  BY RowOfRows
<1>6. rows'[c] = [rows[c] EXCEPT !.confirmed = TRUE, !.confirmedAt = at]
  BY <1>1, <1>3
<1>7. \A d \in DOMAIN rows : d # c => rows'[d] = rows[d]
  BY <1>3
<1>8. /\ rows'[c].confirmed = TRUE /\ rows'[c].confirmedAt = at /\ rows'[c].intent = rows[c].intent
      /\ rows'[c].auth = rows[c].auth /\ rows'[c].expires = rows[c].expires
  BY <1>1, <1>6 DEF Row
<1> QED
  BY <1>4, <1>7, <1>8

\* The contract was not confirmed, so no call is about to execute it and none
\* has; the evidence names it, so the owner signed for it.
LEMMA CommitConfirmationPreserves ==
  ASSUME FlowInv, NEW s \in Server, CommitConfirmation(s) PROVE FlowInv'
<1> USE DEF FlowInv
<1> DEFINE c == call[s].cid
           i == call[s].conf
<1>0. /\ call[s] \in Call /\ CallOK(s) /\ TimeOK(s) /\ c \in DOMAIN rows
      /\ call[s].want \in Descr /\ call[s].base \in Descr
      /\ i \in DOMAIN confirmations /\ call[s].at \in Nat /\ call[s].at <= clock
      /\ InTimeFor(c, i, call[s].at)
      /\ UNCHANGED <<grants, confirmations, runs, consumed, clock, files, live, mishaps>>
  BY DEF TypeOK, CallsInv, CallOK, TimeOK, CommitConfirmation, At, owner, Call
<1>1. CASE Return(s) /\ UNCHANGED rows
  BY <1>0, <1>1, RowsUntouched, AnswerPreserves DEF TypeOK
<1>2. CASE /\ Confirmable(c) /\ Goto(s, "execute")
           /\ rows' = [rows EXCEPT ![c] = WithConfirmation(@, call[s].at)]
  <2> DEFINE k == [call[s] EXCEPT !.pc = "execute"]
  <2>1. ~rows[c].confirmed /\ confirmations[i].cid = c
    BY <1>0, <1>2 DEF Confirmable, InTimeFor
  <2>2. /\ rows' \in Seq(Row) /\ DOMAIN rows' = DOMAIN rows
        /\ rows'[c].confirmed = TRUE /\ rows'[c].confirmedAt = call[s].at
        /\ \A d \in DOMAIN rows :
             /\ rows'[d].intent = rows[d].intent /\ rows'[d].auth = rows[d].auth
             /\ rows'[d].expires = rows[d].expires
             /\ d # c => /\ rows'[d].confirmed = rows[d].confirmed
                          /\ rows'[d].confirmedAt = rows[d].confirmedAt
    BY <1>0, <1>2, ConfirmedRow
  <2>3. /\ k \in Call /\ k.auth = call[s].auth /\ k.cid = c /\ k.conf = call[s].conf
        /\ k.now = call[s].now /\ k.at = call[s].at
        /\ k.want = call[s].want /\ k.base = call[s].base /\ k.pc = "execute"
    BY <1>0 DEF Call, PC
  <2>4. /\ call' \in [Server -> Call] /\ call'[s] = k
        /\ \A t \in Server : t # s => call'[t] = call[t]
    BY <1>2, <2>3 DEF Goto, TypeOK
  <2>5. /\ runs[c] = 0
        /\ \A t \in Server : At(t, "execute") => call[t].cid # c /\ call[t].cid \in DOMAIN rows
    BY <1>0, <2>1 DEF HandoffInv, CallsInv, CallOK, At
  <2>6. \E j \in DOMAIN confirmations : confirmations[j].cid = c
    BY <1>0, <2>1
  <2>7. \A d \in DOMAIN rows : rows[d].auth \in DOMAIN grants
    BY DEF TypeOK, SpendInv, AuthorizationSpentOnce
  <2> HIDE DEF k, c, i
  <2>8. TypeOK'
    BY <1>0, <2>2, <2>3, <2>4 DEF TypeOK
  <2>9. FilesInv' /\ ExpiryInv'
    BY <1>0, <2>2, <2>7 DEF FilesInv, ExpiryInv
  <2>10. HandedOffAsApproved'
    BY <1>0, <2>2, <2>6, <2>7 DEF HandedOffAsApproved, ContractIsAuthorized, ConfirmedByName
  <2>11. CallsInv'
    <3>1. CallOK(s)'
      BY <1>0, <2>2, <2>3, <2>4 DEF CallOK, Spending, At
    <3>2. ASSUME NEW t \in Server, t # s PROVE CallOK(t)'
      BY <3>2, <1>0, <2>2, <2>4 DEF CallsInv, CallOK, Spending, At, IntentOf
    <3>3. TimeOK(s)'
      BY <1>0, <2>3, <2>4, TimesKept
    <3>4. ASSUME NEW t \in Server, t # s PROVE TimeOK(t)'
      <4>1. call'[t] = call[t] /\ CallOK(t) /\ TimeOK(t)
        BY <3>4, <2>4 DEF CallsInv
      <4>2. call[t].pc \in {"gate", "acquire"} => call[t].cid \in DOMAIN rows /\ call[t].cid # c
        BY <2>1, <4>1 DEF CallOK, TimeOK
      <4> QED
        BY <1>0, <2>2, <4>1, <4>2 DEF CallOK, TimeOK, InTimeFor, Current, At
    <3> QED
      BY <3>1, <3>2, <3>3, <3>4 DEF CallsInv
  <2>12. SpendInv'
    <3>1. \A t \in Server : Spending(t)' => Spending(t) /\ call'[t] = call[t]
      BY <2>3, <2>4 DEF Spending
    <3> QED
      BY <1>0, <2>2, <3>1 DEF SpendInv, AuthorizationSpentOnce
  <2>14. TimeInv'
    <3>1. ASSUME NEW d \in DOMAIN rows PROVE rows'[d].confirmedAt <= clock
      <4>1. CASE d = c
        BY <1>0, <2>2, <4>1
      <4>2. CASE d # c
        BY <2>2, <4>2 DEF TimeInv
      <4> QED
        BY <4>1, <4>2
    <3>2. /\ grants[rows[c].auth].issued <= call[s].at /\ call[s].at < grants[rows[c].auth].expires
          /\ confirmations[i].cid = c /\ confirmations[i].issued <= call[s].at
          /\ call[s].at < confirmations[i].expires
      BY <1>0 DEF InTimeFor, Current
    <3>3. ASSUME NEW d \in DOMAIN rows, rows'[d].confirmed
          PROVE  \E j \in DOMAIN confirmations : InTimeFor(d, j, rows[d].confirmedAt)'
      <4>1. CASE d = c
        BY <1>0, <2>2, <3>2, <4>1 DEF InTimeFor, Current
      <4>2. CASE d # c
        BY <1>0, <2>2, <3>3, <4>2 DEF TimeInv, InTimeFor, Current
      <4> QED
        BY <4>1, <4>2
    <3> QED
      BY <1>0, <2>2, <3>1, <3>3 DEF TimeInv
  <2>13. HandoffInv'
    <3>1. \A t \in Server : At(t, "execute")' => t = s \/ (t # s /\ At(t, "execute"))
      BY <2>4 DEF At
    <3>2. \A d \in DOMAIN rows' : runs'[d] = 0 \/ (runs'[d] = 1 /\ rows'[d].confirmed)
      BY <1>0, <2>2 DEF HandoffInv
    <3>3. \A t \in Server :
            At(t, "execute")' => rows'[call'[t].cid].confirmed /\ runs'[call'[t].cid] = 0
      BY <1>0, <2>2, <2>3, <2>4, <2>5, <3>1 DEF HandoffInv
    <3>4. \A t, u \in Server :
            At(t, "execute")' /\ At(u, "execute")' /\ call'[t].cid = call'[u].cid => t = u
      BY <2>3, <2>4, <2>5, <3>1 DEF HandoffInv
    <3> QED
      BY <3>2, <3>3, <3>4 DEF HandoffInv
  <2> QED
    BY <2>8, <2>9, <2>10, <2>11, <2>12, <2>13, <2>14
<1> QED
  BY <1>1, <1>2 DEF CommitConfirmation

LEMMA ExecutePreserves ==
  ASSUME FlowInv, NEW s \in Server, Execute(s) PROVE FlowInv'
<1> USE DEF FlowInv
<1> DEFINE c == call[s].cid
<1>0. /\ call[s] \in Call /\ CallOK(s) /\ TimeOK(s) /\ c \in DOMAIN rows
      /\ call[s].want \in Descr /\ call[s].base \in Descr
      /\ rows[c].confirmed /\ runs[c] = 0
      /\ runs' = [runs EXCEPT ![c] = @ + 1]
      /\ UNCHANGED <<grants, confirmations, consumed, clock, files, live, mishaps, rows>>
  BY DEF TypeOK, CallsInv, CallOK, HandoffInv, Execute, At, owner, store
<1>1. SameContracts
  BY <1>0, RowsUntouched
<1>2. /\ runs' \in [DOMAIN rows' -> Nat] /\ runs'[c] = 1
      /\ \A d \in DOMAIN rows : d # c => runs'[d] = runs[d]
  BY <1>0, <1>1 DEF TypeOK, SameContracts
<1>3. PICK k \in Call : /\ call' = [call EXCEPT ![s] = k] /\ k.pc \in {"idle", "gate"}
                        /\ k.pc = "idle" => k = Idle
                        /\ k.pc = "gate" => k = [call[s] EXCEPT !.pc = "gate"]
  <2>1. CASE Return(s)
    BY <2>1, IdleIsCall DEF Return, Idle
  <2>2. CASE Goto(s, "gate")
    <3>1. [call[s] EXCEPT !.pc = "gate"] \in Call /\ [call[s] EXCEPT !.pc = "gate"].pc = "gate"
      BY <1>0 DEF Call, PC
    <3> QED
      BY <2>2, <3>1 DEF Goto
  <2> QED
    BY <2>1, <2>2 DEF Execute
<1>4. /\ call' \in [Server -> Call] /\ call'[s] = k
      /\ \A t \in Server : t # s => call'[t] = call[t]
  BY <1>3 DEF TypeOK
<1>5. /\ k.auth \in {None} \cup DOMAIN grants /\ k.cid \in {None} \cup DOMAIN rows
      /\ k.conf \in {None} \cup DOMAIN confirmations
      /\ k.pc = "gate" => k.cid = c /\ k.want \in Descr /\ k.base \in Descr
      /\ k.now <= clock /\ k.at <= clock
  <2>1. CASE k.pc = "idle"
    BY <1>3, <2>1, FlowAssumption DEF Idle, TypeOK
  <2>2. CASE k.pc = "gate"
    BY <1>0, <1>3, <2>2 DEF TypeOK, Call, TimeOK
  <2> QED
    BY <1>3, <2>1, <2>2
<1>6. \A t \in Server : t # s /\ At(t, "execute") => call[t].cid # c /\ call[t].cid \in DOMAIN rows
  BY DEF HandoffInv, CallsInv, CallOK, Execute, At
<1>7. \A d \in DOMAIN rows : rows[d].auth \in DOMAIN grants
  BY DEF TypeOK, SpendInv, AuthorizationSpentOnce
<1> HIDE DEF c
<1>8. TypeOK'
  BY <1>0, <1>1, <1>2, <1>4, <1>5 DEF TypeOK, SameContracts
<1>9. FilesInv' /\ ExpiryInv' /\ TimeInv' /\ HandedOffAsApproved'
  BY <1>0, <1>1, <1>7
  DEF FilesInv, ExpiryInv, TimeInv, InTimeFor, Current, HandedOffAsApproved, ContractIsAuthorized, ConfirmedByName, SameContracts
<1>10. CallsInv'
  <2>1. CallOK(s)'
    BY <1>0, <1>1, <1>3, <1>4, <1>5 DEF CallOK, Spending, At, SameContracts
  <2>2. ASSUME NEW t \in Server, t # s PROVE CallOK(t)'
    BY <2>2, <1>0, <1>1, <1>4 DEF CallsInv, CallOK, Spending, At, IntentOf, SameContracts
  <2>3. TimeOK(s)'
    BY <1>0, <1>3, <1>4, <1>5 DEF TimeOK, At
  <2>4. ASSUME NEW t \in Server, t # s PROVE TimeOK(t)'
    BY <2>4, <1>0, <1>4 DEF CallsInv, TimeOK, InTimeFor, Current, At
  <2> QED
    BY <2>1, <2>2, <2>3, <2>4 DEF CallsInv
<1>11. SpendInv'
  BY <1>0, <1>1, <1>3, <1>4 DEF SpendInv, AuthorizationSpentOnce, Spending, SameContracts
<1>12. HandoffInv'
  <2>1. \A t \in Server : At(t, "execute")' => t # s /\ At(t, "execute")
    BY <1>3, <1>4 DEF At
  <2>2. \A d \in DOMAIN rows' : runs'[d] = 0 \/ (runs'[d] = 1 /\ rows'[d].confirmed)
    BY <1>0, <1>1, <1>2 DEF HandoffInv, SameContracts
  <2>3. \A t \in Server :
          At(t, "execute")' => rows'[call'[t].cid].confirmed /\ runs'[call'[t].cid] = 0
    BY <1>1, <1>2, <1>4, <1>6, <2>1 DEF HandoffInv, SameContracts
  <2>4. \A t, u \in Server :
          At(t, "execute")' /\ At(u, "execute")' /\ call'[t].cid = call'[u].cid => t = u
    BY <1>4, <2>1 DEF HandoffInv
  <2> QED
    BY <2>2, <2>3, <2>4 DEF HandoffInv
<1> QED
  BY <1>8, <1>9, <1>10, <1>11, <1>12

LEMMA RunPreserves ==
  ASSUME FlowInv, NEW s \in Server, Acquire(s) \/ Refuse(s) \/ Run(s) \/ Crash(s) PROVE FlowInv'
<1> USE DEF FlowInv
<1>1. CASE Acquire(s)
  <2>0. /\ call[s] \in Call /\ CallOK(s) /\ TimeOK(s) /\ call[s].cid \in DOMAIN rows
        /\ call[s].want \in Descr /\ call[s].base \in Descr
        /\ call[s].auth \in {None} \cup DOMAIN grants
        /\ call[s].conf \in {None} \cup DOMAIN confirmations
        /\ UNCHANGED <<grants, confirmations, runs, consumed, clock, files, live, mishaps>>
    BY <1>1 DEF TypeOK, CallsInv, CallOK, Acquire, At, owner
  <2>1. CASE Return(s) /\ UNCHANGED rows
    BY <2>0, <2>1, RowsUntouched, AnswerPreserves DEF TypeOK
  <2>2. CASE rows' = [rows EXCEPT ![call[s].cid].state = "executing"] /\ Goto(s, "run")
    <3> DEFINE k == [call[s] EXCEPT !.pc = "run"]
    <3>1. SameContracts
      BY <2>0, <2>2, StateChanged DEF RecoveryState
    <3>2. /\ k \in Call /\ k.auth = call[s].auth /\ k.cid = call[s].cid /\ k.conf = call[s].conf
          /\ k.now = call[s].now /\ k.at = call[s].at
          /\ k.want = call[s].want /\ k.base = call[s].base /\ k.pc = "run"
      BY <2>0 DEF Call, PC
    <3>3. call' = [call EXCEPT ![s] = k] /\ call'[s] = k
      BY <2>2 DEF Goto, TypeOK
    <3> HIDE DEF k
    <3>4. CallOK(s)' /\ files' \in Files /\ FilesInv' /\ live' \in Descr
      BY <2>0, <3>1, <3>2, <3>3 DEF CallOK, Spending, At, TypeOK, FilesInv, SameContracts
    <3>5. TimeOK(s)'
      BY <2>0, <3>2, <3>3, TimesKept
    <3> QED
      BY <2>0, <3>1, <3>2, <3>3, <3>4, <3>5, MovePreserves
  <2> QED
    BY <1>1, <2>1, <2>2 DEF Acquire
<1>2. CASE Run(s)
  <2>0. /\ call[s].cid \in DOMAIN rows /\ call[s].want \in Descr
        /\ UNCHANGED <<grants, confirmations, runs, consumed, clock, files, mishaps>>
    BY <1>2 DEF TypeOK, CallsInv, CallOK, Run, At, owner
  <2>1. SameContracts /\ live' \in Descr
    <3>1. PICK st \in RecoveryState :
            rows' = [rows EXCEPT ![call[s].cid].state = st] \/ rows' = rows
      BY <1>2 DEF Run, RecoveryState
    <3> QED
      BY <1>2, <2>0, <3>1, RowsUntouched, StateChanged DEF Run, TypeOK
  <2> QED
    BY <1>2, <2>0, <2>1, AnswerPreserves DEF Run, TypeOK
<1>3. CASE Crash(s)
  <2>1. mishaps' \in 0 .. MaxMishaps
    BY <1>3, FlowAssumption DEF Crash, TypeOK
  <2> QED
    BY <1>3, <2>1, RowsUntouched, AnswerPreserves DEF Crash, TypeOK, store, owner
<1>4. CASE Refuse(s)
  <2>0. /\ call[s].cid \in DOMAIN rows
        /\ UNCHANGED <<grants, confirmations, runs, consumed, clock, files, live, mishaps>>
    BY <1>4 DEF TypeOK, CallsInv, CallOK, Refuse, At, owner
  <2>1. SameContracts
    BY <1>4, <2>0, RowsUntouched, StateChanged DEF Refuse, RecoveryState
  <2> QED
    BY <1>4, <2>0, <2>1, AnswerPreserves DEF Refuse, TypeOK
<1> QED
  BY <1>1, <1>2, <1>3, <1>4

-----------------------------------------------------------------------------
(* The owner, the operator and the world *)

LEMMA SignAuthorizationPreserves ==
  ASSUME FlowInv, SignAuthorization PROVE FlowInv'
<1> USE DEF FlowInv
<1> DEFINE n == Len(grants) + 1
<1>0. UNCHANGED <<clock, live, rows, consumed, confirmations, call, mishaps, runs>>
  BY DEF SignAuthorization, store
<1>1. PICK i \in files.preview :
        grants' = Append(grants, [intent |-> i, issued |-> clock, expires |-> clock + AuthValidity])
  BY DEF SignAuthorization
<1>2. [intent |-> i, issued |-> clock, expires |-> clock + AuthValidity] \in Grant
  <2>1. i \in Intent
    BY DEF TypeOK, Files
  <2>2. clock \in Nat
    BY FlowAssumption DEF TypeOK
  <2> QED
    BY <2>1, <2>2, FlowAssumption DEF Grant
<1>3. grants \in Seq(Grant) /\ Len(grants) \in Nat /\ DOMAIN grants = 1 .. Len(grants)
  BY LenProperties DEF TypeOK
<1>4. /\ grants' \in Seq(Grant) /\ DOMAIN grants' = DOMAIN grants \cup {n}
      /\ \A a \in DOMAIN grants : grants'[a] = grants[a]
  BY <1>1, <1>2, <1>3
<1>5. /\ files' \in Files /\ files'.inbox = n /\ files'.pending = files.pending
      /\ files'.signed = files.signed
  <2>1. files \in Files /\ files' = [files EXCEPT !.inbox = n] /\ n \in Nat
    BY <1>3 DEF SignAuthorization, TypeOK
  <2> HIDE DEF n
  <2> QED
    BY <2>1 DEF Files
<1>6. \A c \in DOMAIN rows : rows[c].auth \in DOMAIN grants
  BY DEF TypeOK, SpendInv, AuthorizationSpentOnce
<1> HIDE DEF n
<1>7. TypeOK'
  BY <1>0, <1>4, <1>5 DEF TypeOK
<1>8. FilesInv' /\ ExpiryInv' /\ HandedOffAsApproved'
  BY <1>0, <1>4, <1>5, <1>6
  DEF FilesInv, ExpiryInv, HandedOffAsApproved, ContractIsAuthorized, ConfirmedByName
<1>9. CallsInv'
  <2>1. ASSUME NEW t \in Server PROVE CallOK(t)'
    BY <1>0, <1>4 DEF CallsInv, CallOK, Spending, At, IntentOf
  <2>2. ASSUME NEW t \in Server PROVE TimeOK(t)'
    BY <1>0, <1>4, <1>6 DEF CallsInv, CallOK, TimeOK, InTimeFor, Current, At
  <2> QED
    BY <2>1, <2>2 DEF CallsInv
<1>10. SpendInv' /\ HandoffInv'
  BY <1>0 DEF SpendInv, HandoffInv, AuthorizationSpentOnce, Spending, At
<1>11. TimeInv'
  BY <1>0, <1>4, <1>6 DEF TimeInv, InTimeFor, Current
<1> QED
  BY <1>7, <1>8, <1>9, <1>10, <1>11

LEMMA SignConfirmationPreserves ==
  ASSUME FlowInv, SignConfirmation PROVE FlowInv'
<1> USE DEF FlowInv
<1> DEFINE n == Len(confirmations) + 1
           f == [cid |-> files.pending, issued |-> clock, expires |-> rows[files.pending].expires]
<1>0. /\ UNCHANGED <<clock, live, rows, consumed, grants, call, mishaps, runs>>
      /\ confirmations' = Append(confirmations, f)
  BY DEF SignConfirmation, store
<1>1. files.pending \in DOMAIN rows /\ files.pending \in Nat
  BY DEF SignConfirmation, FilesInv, TypeOK, Files
<1>2. f \in Confirmation
  <2>1. rows[files.pending].expires \in Nat
    BY <1>1, RowOfRows DEF Row
  <2>2. clock \in Nat
    BY FlowAssumption DEF TypeOK
  <2> QED
    BY <1>1, <2>1, <2>2 DEF Confirmation
<1>3. /\ confirmations \in Seq(Confirmation) /\ Len(confirmations) \in Nat
      /\ DOMAIN confirmations = 1 .. Len(confirmations)
  BY LenProperties DEF TypeOK
<1> HIDE DEF f
<1>4. /\ confirmations' \in Seq(Confirmation)
      /\ DOMAIN confirmations' = DOMAIN confirmations \cup {n}
      /\ \A i \in DOMAIN confirmations : confirmations'[i] = confirmations[i]
  BY <1>0, <1>2, <1>3
<1>5. /\ files' \in Files /\ files'.inbox = files.inbox /\ files'.pending = files.pending
      /\ files'.signed = n
  <2>1. files \in Files /\ files' = [files EXCEPT !.signed = n] /\ n \in Nat
    BY <1>3 DEF SignConfirmation, TypeOK
  <2> HIDE DEF n
  <2> QED
    BY <2>1 DEF Files
<1>6. \A c \in DOMAIN rows : rows[c].auth \in DOMAIN grants
  BY DEF TypeOK, SpendInv, AuthorizationSpentOnce
<1> HIDE DEF n
<1>7. TypeOK'
  BY <1>0, <1>4, <1>5 DEF TypeOK
<1>8. FilesInv' /\ ExpiryInv' /\ HandedOffAsApproved'
  BY <1>0, <1>4, <1>5, <1>6
  DEF FilesInv, ExpiryInv, HandedOffAsApproved, ContractIsAuthorized, ConfirmedByName
<1>9. CallsInv'
  <2>1. ASSUME NEW t \in Server PROVE CallOK(t)'
    BY <1>0, <1>4 DEF CallsInv, CallOK, Spending, At, IntentOf
  <2>2. ASSUME NEW t \in Server PROVE TimeOK(t)'
    BY <1>0, <1>4, <1>6 DEF CallsInv, CallOK, TimeOK, InTimeFor, Current, At
  <2> QED
    BY <2>1, <2>2 DEF CallsInv
<1>10. SpendInv' /\ HandoffInv'
  BY <1>0 DEF SpendInv, HandoffInv, AuthorizationSpentOnce, Spending, At
<1>11. TimeInv'
  BY <1>0, <1>4, <1>6 DEF TimeInv, InTimeFor, Current
<1> QED
  BY <1>7, <1>8, <1>9, <1>10, <1>11

\* Steps in which no call moves and nothing is signed.
LEMMA WorldPreserves ==
  ASSUME FlowInv, \/ Cleanup \/ AdminEdit \/ Tick \/ UNCHANGED vars
                  \/ \E c \in 1 .. MaxContracts : ExpirePrepared(c) \/ ResolveReconciliation(c)
  PROVE  FlowInv'
<1> USE DEF FlowInv
<1>1. SameContracts
  <2>1. CASE \E c \in 1 .. MaxContracts : ExpirePrepared(c) \/ ResolveReconciliation(c)
    <3>1. PICK c \in DOMAIN rows, st \in RecoveryState : rows' = [rows EXCEPT ![c].state = st]
      BY <2>1 DEF ExpirePrepared, ResolveReconciliation, RecoveryState
    <3> QED
      BY <3>1, StateChanged
  <2>2. CASE Cleanup \/ AdminEdit \/ Tick \/ UNCHANGED vars
    BY <2>2, RowsUntouched DEF Cleanup, AdminEdit, Tick, store, vars
  <2> QED
    BY <2>1, <2>2
<1>2. UNCHANGED <<grants, confirmations, runs, consumed, call>>
  BY DEF Cleanup, AdminEdit, Tick, ExpirePrepared, ResolveReconciliation, store, owner, vars
<1>3. clock' \in 0 .. MaxClock /\ live' \in Descr /\ mishaps' \in 0 .. MaxMishaps
  BY FlowAssumption DEF TypeOK, Cleanup, AdminEdit, Tick, ExpirePrepared, ResolveReconciliation, vars
<1>4. /\ files' \in Files /\ files'.inbox \in {None, files.inbox}
      /\ files'.pending \in {None, files.pending} /\ files'.signed \in {None, files.signed}
  <2>1. CASE Cleanup
    <3>1. files \in Files
      BY DEF TypeOK
    <3>2. CASE files' = [files EXCEPT !.preview = {}]
      BY <3>1, <3>2 DEF Files
    <3>3. CASE files' = [files EXCEPT !.inbox = None]
      BY <3>1, <3>3 DEF Files, None
    <3>4. CASE files' = [files EXCEPT !.pending = None, !.signed = None]
      BY <3>1, <3>4 DEF Files, None
    <3> QED
      BY <2>1, <3>2, <3>3, <3>4 DEF Cleanup
  <2>2. CASE UNCHANGED files
    BY <2>2 DEF TypeOK, Files
  <2> QED
    BY <2>1, <2>2 DEF AdminEdit, Tick, ExpirePrepared, ResolveReconciliation, vars
<1>5. FilesInv'
  BY <1>1, <1>2, <1>4 DEF FilesInv, SameContracts
<1>6. TypeOK'
  BY <1>1, <1>2, <1>3, <1>4, TypesKeep DEF TypeOK
<1>7. OrdinaryStep
  <2>1. clock <= clock'
    BY FlowAssumption
    DEF TypeOK, Cleanup, AdminEdit, Tick, ExpirePrepared, ResolveReconciliation, vars
  <2> QED
    BY <1>1, <1>2, <2>1 DEF OrdinaryStep
<1> QED
  BY <1>5, <1>6, <1>7, OrdinaryPreserves

LEMMA NextPreserves == FlowInv /\ [Next]_vars => FlowInv'
<1> SUFFICES ASSUME FlowInv, [Next]_vars PROVE FlowInv'
  OBVIOUS
<1>1. ASSUME NEW s \in Server, Step(s) \/ Crash(s) PROVE FlowInv'
  BY <1>1, ReadingPreserves, TryConsumePreserves, DecidingPreserves, CommitCreationPreserves,
     CommitPromotionPreserves, DeliverPreserves, CommitConfirmationPreserves, ExecutePreserves,
     RunPreserves DEF Step
<1>2. ASSUME NEW s \in Server, NEW want \in Wanted, Ask(s, want) PROVE FlowInv'
  BY <1>2, AskPreserves
<1>3. CASE SignAuthorization \/ SignConfirmation
  BY <1>3, SignAuthorizationPreserves, SignConfirmationPreserves
<1>4. CASE \/ Cleanup \/ AdminEdit \/ Tick \/ UNCHANGED vars
           \/ \E c \in 1 .. MaxContracts : ExpirePrepared(c) \/ ResolveReconciliation(c)
  BY <1>4, WorldPreserves
<1> QED
  BY <1>1, <1>2, <1>3, <1>4 DEF Next

LEMMA Invariance == Spec => []FlowInv
  BY InitEstablishes, NextPreserves, PTL DEF Spec

-----------------------------------------------------------------------------
\* Whatever the servers, the clock and the files do, every variable keeps its
\* type and no call refers to a contract, an authorization or an evidence that
\* does not exist (alias_description_execution.py).
THEOREM TypeCorrect == Spec => []TypeOK
<1>1. FlowInv => TypeOK
  BY DEF FlowInv
<1> QED
  BY <1>1, Invariance, PTL

\* For any number of servers and of authorizations in the inbox, try_consume()
\* and the single confirmation make an authorization good for one contract and
\* a contract good for one execute() (authorization_consumption_store.py,
\* alias_description_execution.py).
THEOREM AuthorizationsAndContractsUsedOnce == Spec => []AtMostOnce
<1>1. FlowInv => AtMostOnce
  <2> SUFFICES ASSUME FlowInv PROVE AtMostOnce
    OBVIOUS
  <2>1. DOMAIN runs = DOMAIN rows
    BY DEF FlowInv, TypeOK
  <2> QED
    BY <2>1 DEF FlowInv, SpendInv, HandoffInv, AtMostOnce, HandedOffOnce
<1> QED
  BY <1>1, Invariance, PTL

\* A contract that is handed off asks for the change the owner authorized, over
\* the reading he saw, and only a contract he signed evidence for is confirmed,
\* although both signatures travel through files that earlier operations used.
THEOREM OwnerApprovedWhatIsHandedOff == Spec => []HandedOffAsApproved
<1>1. FlowInv => HandedOffAsApproved
  BY DEF FlowInv
<1> QED
  BY <1>1, Invariance, PTL

\* confirm_and_handoff() compares the authorization with the time at which the
\* call began, and confirm() and transition() commit without looking at the
\* clock again.  Because the contract never outlives its authorization, the
\* decisions behind those commits were still taken in time.
THEOREM NoLateDecision == Spec => []DecidedInTime
<1>1. FlowInv => DecidedInTime
  <2> SUFFICES ASSUME FlowInv PROVE DecidedInTime
    OBVIOUS
  <2>1. ConfirmedInTime
    BY DEF FlowInv, TimeInv, InTimeFor, ConfirmedInTime
  <2>2. ExecutedInTime
    BY DEF FlowInv, CallsInv, TimeOK, ExecutedInTime, At
  <2> QED
    BY <2>1, <2>2 DEF DecidedInTime
<1> QED
  BY <1>1, Invariance, PTL
=============================================================================
