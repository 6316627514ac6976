--------------------------- MODULE ExecutorProofs ---------------------------
(***************************************************************************)
(* Proofs about Executor, for any contracts, servers, aliases and edits.   *)
(* Whatever the operator and the connection do, a request is sent once;    *)
(* if doubt is resolved patiently and a broken connection is not taken for *)
(* proof of no effect, a request under way keeps its target reserved, it   *)
(* lands on what its server verified, and recorded outcomes are true.      *)
(* Every proven zero effect is one unless a broken connection is taken for *)
(* proof of it.                                                            *)
(***************************************************************************)
EXTENDS Executor, SequenceTheorems, TLAPS

PastGate == {"pre", "send", "wait", "post", "finish"}

\* The outcomes _finish_execute and _finish_rollback may record.
Verdicts(kind) ==
  IF kind = "forward" THEN {"verified", "failed", "reconciliation"}
                      ELSE {"rolled_back", "rollback_failed", "reconciliation"}

\* What a server's locals say of the store's rows rw.  Versions only grow, so a
\* server past the gate, or a startup pass, is outdated or still has the
\* contract it entered with.
Fits(v, rw) ==
  /\ v.pc \in {"gate"} \cup PastGate => v.cid \in Contract
  /\ v.pc \in {"send", "wait", "post"} => v.pre.slot # 0
  /\ v.pc = "finish" => /\ v.verdict \in Verdicts(v.kind)
                        /\ v.verdict = "verified" => v.pre.slot # 0
  /\ v.pc \in PastGate =>
       /\ v.version <= rw[v.cid].version
       /\ v.version = rw[v.cid].version => rw[v.cid].state = InFlight(v.kind)
  /\ \A t \in v.todo :
       /\ t[2] <= rw[t[1]].version
       /\ t[2] = rw[t[1]].version => rw[t[1]].state \in InterruptedStates

ServersInv == \A s \in Server : Fits(server[s], row)

\* The contract has been through the gate in this direction and can never be
\* where that gate opens again.
Beyond(c, kind) ==
  IF kind = "forward"
    THEN row[c].state \notin {"preparing", "prepared"}
    ELSE \/ row[c].state \in {"rolling_back", "rolled_back", "rollback_failed"}
         \/ row[c].state = "reconciliation" /\ row[c].origin = "rolling_back"

\* On its way to the one request of this contract and direction.
Sending(s) == server[s].pc \in {"pre", "send"}

SendInv ==
  /\ \A c \in Contract, k \in Kind : sends[c][k] = 0 \/ (sends[c][k] = 1 /\ Beyond(c, k))
  /\ \A s \in Server : Sending(s) =>
       sends[server[s].cid][server[s].kind] = 0 /\ Beyond(server[s].cid, server[s].kind)
  /\ \A s, t \in Server :
       /\ Sending(s) /\ Sending(t)
       /\ server[s].cid = server[t].cid /\ server[s].kind = server[t].kind
       => s = t

ExecInv == TypeOK /\ ServersInv /\ SendInv

-----------------------------------------------------------------------------
Active(s) == server[s].pc \in {"pre", "send", "wait"}

OnWire(c) == \E r \in wire : r.cid = c

\* The attempt is over as far as its server knows, and it is certain how.
Settled(s) ==
  server[s].pc = "post" \/ (server[s].pc = "finish" /\ server[s].verdict # "reconciliation")

\* Its request, if it sent one, has been answered.
Answered(s) == server[s].pc = "wait" /\ server[s].reply # "none"

\* At most one request of a contract is under way, or one server on its way to
\* sending one; a server that has its answer has nothing on the wire.
UnderWayInv ==
  /\ \A s, t \in Server : Active(s) /\ Active(t) /\ server[s].cid = server[t].cid => s = t
  /\ \A r, q \in wire : r.cid = q.cid => r = q
  /\ \A s \in Server : server[s].pc = "gate" \/ Sending(s) => server[s].reply = "none"
  /\ \A s \in Server : Sending(s) \/ Answered(s) => ~OnWire(server[s].cid)
  /\ \A s \in Server : Settled(s) /\ StillMine(s) => ~Pending(server[s].cid)

\* One contract at a time holds the reservation of a target.
ReservationExclusive ==
  \A c, d \in Contract :
    /\ AliasOf[c] = AliasOf[d]
    /\ row[c].state \in ReservationStates /\ row[d].state \in ReservationStates
    => c = d

ReserveInv == UnderWayInv /\ PendingKeepsReservation /\ ReservationExclusive

-----------------------------------------------------------------------------
\* A request that may land has not landed, and was made from the contract's own
\* reading.
RequestOK(r) ==
  /\ sends[r.cid][r.kind] = 1 /\ r.kind \notin landed[r.cid]
  /\ r.slot = row[r.cid].snap.slot
  /\ r.kind = "forward" => r.descr = Want[r.cid]

\* So were the locals of a server that has sent or is about to.
LocalsOK(s) ==
  LET c == server[s].cid
  IN  /\ server[s].pc \in {"wait", "post"} => sends[c][server[s].kind] = 1
      /\ server[s].pc \in {"send", "wait", "post"} =>
           /\ server[s].pre.slot = row[c].snap.slot
           /\ server[s].kind = "forward" => server[s].pre = row[c].snap
      /\ server[s].pc = "wait" /\ server[s].reply = "4xx" => server[s].kind \notin landed[c]

RequestInv ==
  /\ \A c \in Contract, k \in Kind : k \in landed[c] => sends[c][k] = 1
  /\ \A r \in wire : RequestOK(r)
  /\ \A s \in Server : LocalsOK(s)

\* The alias of contract c is at this position, as the request expects it.
AsVerified(c, kind, slot) ==
  /\ slot \in DOMAIN table /\ table[slot].name = AliasOf[c]
  /\ table[slot] = Expected(c, kind).obj

\* A request, or a server about to send, that no edit has overtaken.
FreshInv ==
  /\ \A r \in wire : ~touched[r.cid] => AsVerified(r.cid, r.kind, r.slot)
  /\ \A s \in Server : server[s].pc = "send" /\ ~touched[server[s].cid] =>
       AsVerified(server[s].cid, server[s].kind, server[s].pre.slot)

\* Until its rollback an unedited alias differs from the snapshot in its
\* description alone, and once the change has landed it has the wanted one as
\* long as the contract is executing or in doubt about it.
EffectOK(c) ==
  LET i == row[c].snap.slot
  IN  /\ i \in DOMAIN table /\ table[i].name = AliasOf[c]
      /\ table[i] = [row[c].snap.obj EXCEPT !.descr = table[i].descr]
      /\ row[c].state \in {"executing", "reconciliation"} /\ "forward" \in landed[c] =>
           table[i].descr = Want[c]

EffectInv ==
  \A c \in Contract :
    ~touched[c] /\ row[c].state # "preparing" /\ ~Beyond(c, "rollback") => EffectOK(c)

\* What a server that holds v is about to record of contract c is true.
OutcomeOK(c, v) ==
  /\ v.verdict = "verified" =>
       /\ v.pre \in Readings(AliasOf[c])
       /\ v.pre.obj = [row[c].snap.obj EXCEPT !.descr = Want[c]]
  /\ v.verdict = "rolled_back" =>
       /\ v.pre \in Readings(AliasOf[c])
       /\ v.pre.obj = row[c].snap.obj
  /\ v.verdict = "failed" => landed[c] = {}

OutcomeInv ==
  \A s \in Server :
    server[s].pc = "finish" /\ StillMine(s) /\ ~touched[server[s].cid] =>
      OutcomeOK(server[s].cid, server[s])

TruthInv == RequestInv /\ FreshInv /\ EffectInv /\ OutcomeInv

-----------------------------------------------------------------------------
(* Readings, rows and servers *)

LEMMA NoReadingIs == NoReading \in Reading /\ NoReading.slot = 0
<1>1. FirstTable[1] \in Alias
  BY TableAssumption, EmptySeq, ElementOfSeq, LenProperties
<1> QED
  BY <1>1 DEF NoReading, Reading

LEMMA SettleIs ==
  ASSUME NEW pc \in PC
  PROVE  /\ Settle(pc) \in ServerState
         /\ Settle(pc).pc = pc /\ Settle(pc).todo = {} /\ Settle(pc).cid = NoContract
         /\ Settle(pc).kind = "forward" /\ Settle(pc).reply = "none"
  BY NoReadingIs DEF Settle, ServerState, Kind, Reply

LEMMA ReadingsAre ==
  ASSUME TypeOK, NEW name, NEW r \in Readings(name)
  PROVE  /\ r \in Reading /\ r.slot \in DOMAIN table /\ r.slot # 0 /\ r # NoReading
         /\ r.obj = table[r.slot] /\ r.obj.name = name /\ Resolves(name, r.slot)
<1>1. PICK i \in DOMAIN table : r = [obj |-> table[i], slot |-> i] /\ Resolves(name, i)
  BY DEF Readings
<1>2. table[i] \in Alias /\ i \in Nat \ {0}
  BY ElementOfSeq, LenProperties DEF TypeOK
<1>3. r \in Reading /\ r.slot = i /\ r.obj = table[i]
  BY <1>1, <1>2 DEF Reading
<1> QED
  BY <1>1, <1>2, <1>3, NoReadingIs DEF Resolves

LEMMA SlotsOfTable ==
  ASSUME TypeOK, NEW i \in DOMAIN table
  PROVE  table[i] \in Alias /\ i \in Nat \ {0} /\ DOMAIN table = 1 .. Len(table)
  BY ElementOfSeq, LenProperties DEF TypeOK

LEMMA AliasChanged ==
  ASSUME TypeOK, NEW i \in DOMAIN table, NEW x \in Alias
  PROVE  LET new == [table EXCEPT ![i] = x]
         IN  /\ new \in Seq(Alias) /\ Len(new) = Len(table)
             /\ DOMAIN new = DOMAIN table /\ new[i] = x
             /\ \A j \in DOMAIN table : j # i => new[j] = table[j]
  BY LenProperties, ExceptSeq DEF TypeOK

\* Contract c moves to state st, and nothing else happens to the rows.
Advances(c, st) ==
  /\ row' \in [Contract -> Row]
  /\ row'[c].state = st /\ row'[c].version = row[c].version + 1
  /\ row'[c].origin = IF st = "reconciliation" THEN row[c].state ELSE row[c].origin
  /\ \A d \in Contract : d # c => row'[d] = row[d]

SameReadings(c) == row'[c].snap = row[c].snap /\ row'[c].seal = row[c].seal

LEMMA ToAdvances ==
  ASSUME TypeOK, NEW c \in Contract, NEW st \in RecoveryState,
         st = "reconciliation" => row[c].state \in InterruptedStates, row' = To(c, st)
  PROVE  Advances(c, st) /\ SameReadings(c)
<1>1. row[c] \in Row
  BY DEF TypeOK
<1> DEFINE o == IF st = "reconciliation" THEN row[c].state ELSE row[c].origin
           x == [row[c] EXCEPT !.state = st, !.version = row[c].version + 1, !.origin = o]
<1>2. /\ x \in Row /\ x.state = st /\ x.version = row[c].version + 1
      /\ x.origin = o /\ x.snap = row[c].snap /\ x.seal = row[c].seal
  <2>1. o \in {"none"} \cup InterruptedStates /\ row[c].version + 1 \in Nat
    BY <1>1 DEF Row
  <2> HIDE DEF o
  <2> QED
    BY <1>1, <2>1 DEF Row
<1>3. row' = [row EXCEPT ![c] = x]
  BY DEF To
<1> HIDE DEF x
<1> QED
  BY <1>2, <1>3 DEF Advances, SameReadings, TypeOK

LEMMA RecordedAdvances ==
  ASSUME TypeOK, NEW c \in Contract, NEW st \in RecoveryState, NEW r \in Reading,
         st = "reconciliation" => row[c].state \in InterruptedStates, row' = Recorded(c, st, r)
  PROVE  /\ Advances(c, st) /\ row'[c].snap = row[c].snap
         /\ row'[c].seal = IF st = "verified" THEN r ELSE row[c].seal
<1>1. row[c] \in Row
  BY DEF TypeOK
<1> DEFINE o == IF st = "reconciliation" THEN row[c].state ELSE row[c].origin
           x == [row[c] EXCEPT !.state = st, !.version = row[c].version + 1, !.origin = o]
           y == [x EXCEPT !.seal = IF st = "verified" THEN r ELSE @]
<1>2. /\ x \in Row /\ x.state = st /\ x.version = row[c].version + 1
      /\ x.origin = o /\ x.snap = row[c].snap /\ x.seal = row[c].seal
  <2>1. o \in {"none"} \cup InterruptedStates /\ row[c].version + 1 \in Nat
    BY <1>1 DEF Row
  <2> HIDE DEF o
  <2> QED
    BY <1>1, <2>1 DEF Row
<1>3. To(c, st) = [row EXCEPT ![c] = x]
  BY DEF To
<1> HIDE DEF x
<1>4. To(c, st)[c] = x
  BY <1>3 DEF TypeOK
<1>5. row' = [row EXCEPT ![c] = y]
  BY <1>3, <1>4 DEF Recorded, TypeOK
<1>6. /\ y \in Row /\ y.state = st /\ y.version = row[c].version + 1
      /\ y.origin = x.origin /\ y.snap = row[c].snap
      /\ y.seal = IF st = "verified" THEN r ELSE row[c].seal
  BY <1>2 DEF Row
<1> HIDE DEF y
<1> QED
  BY <1>2, <1>5, <1>6 DEF Advances, TypeOK

LEMMA FitsWhenAdvanced ==
  ASSUME TypeOK, NEW v \in ServerState, Fits(v, row), NEW c \in Contract, NEW st, Advances(c, st)
  PROVE  Fits(v, row')
<1>1. \A d \in Contract : /\ row[d].version \in Nat /\ row'[d].version \in Nat
                          /\ row[d].version <= row'[d].version
                          /\ row[d].version = row'[d].version => row'[d] = row[d]
  BY DEF TypeOK, Row, Advances
<1>2. v.version \in Nat /\ \A t \in v.todo : t[1] \in Contract /\ t[2] \in Nat
  BY DEF ServerState
<1>3. v.pc \in PastGate => v.cid \in Contract
  BY DEF Fits
<1>4. v.pc \in PastGate =>
        /\ v.version <= row'[v.cid].version
        /\ v.version = row'[v.cid].version => row'[v.cid].state = InFlight(v.kind)
  BY <1>1, <1>2, <1>3 DEF Fits
<1>5. \A t \in v.todo :
        /\ t[2] <= row'[t[1]].version
        /\ t[2] = row'[t[1]].version => row'[t[1]].state \in InterruptedStates
  BY <1>1, <1>2 DEF Fits
<1> QED
  BY <1>4, <1>5 DEF Fits

\* The moves of a row, by the state it leaves.
Legal(c, st) ==
  CASE row[c].state = "preparing"      -> st = "prepared"
    [] row[c].state = "prepared"       -> st \in {"executing", "failed"}
    [] row[c].state = "executing"      -> st \in {"verified", "failed", "reconciliation"}
    [] row[c].state = "verified"       -> st = "rolling_back"
    [] row[c].state = "rolling_back"   -> st \in {"rolled_back", "rollback_failed", "reconciliation"}
    [] row[c].state = "reconciliation" ->
         \/ row[c].origin = "executing" /\ st \in {"verified", "failed"}
         \/ row[c].origin = "rolling_back" /\ st \in {"rolled_back", "rollback_failed"}
    [] OTHER -> FALSE

LEMMA BeyondStays ==
  ASSUME TypeOK, NEW c \in Contract, NEW st, Advances(c, st), Legal(c, st),
         NEW d \in Contract, NEW k \in Kind, Beyond(d, k)
  PROVE  Beyond(d, k)'
<1>1. CASE d # c
  BY <1>1 DEF Advances, Beyond
<1>2. CASE d = c
  BY <1>2 DEF Advances, Beyond, Legal, Kind
<1> QED
  BY <1>1, <1>2

-----------------------------------------------------------------------------
(* Types, versions and the one request: any operator, any connection *)

\* At most one row moves, and VERIFIED and ROLLING_BACK carry a sealed reading.
RowsMove ==
  \/ row' = row
  \/ \E c \in Contract, st \in RecoveryState :
       /\ Advances(c, st) /\ Legal(c, st)
       /\ st \in {"verified", "rolling_back"} => row'[c].seal # NoReading

LEMMA RowsStayTyped ==
  ASSUME TypeOK, RowsMove
  PROVE  /\ row' \in [Contract -> Row]
         /\ \A c \in Contract :
              row'[c].state \in {"verified", "rolling_back"} => row'[c].seal # NoReading
         /\ \A v \in ServerState : Fits(v, row) => Fits(v, row')
         /\ \A d \in Contract, k \in Kind : Beyond(d, k) => Beyond(d, k)'
<1>1. CASE row' = row
  BY <1>1 DEF TypeOK, Beyond
<1>2. ASSUME NEW c \in Contract, NEW st \in RecoveryState, Advances(c, st), Legal(c, st),
             st \in {"verified", "rolling_back"} => row'[c].seal # NoReading
      PROVE  /\ row' \in [Contract -> Row]
             /\ \A d \in Contract :
                  row'[d].state \in {"verified", "rolling_back"} => row'[d].seal # NoReading
             /\ \A v \in ServerState : Fits(v, row) => Fits(v, row')
             /\ \A d \in Contract, k \in Kind : Beyond(d, k) => Beyond(d, k)'
  <2>1. \A v \in ServerState : Fits(v, row) => Fits(v, row')
    BY <1>2, FitsWhenAdvanced
  <2>2. \A d \in Contract, k \in Kind : Beyond(d, k) => Beyond(d, k)'
    BY <1>2, BeyondStays
  <2> QED
    BY <1>2, <2>1, <2>2 DEF Advances, TypeOK
<1> QED
  BY <1>1, <1>2 DEF RowsMove

LEMMA ServerStepKeeps ==
  ASSUME ExecInv, NEW s \in Server, NEW v \in ServerState, server' = [server EXCEPT ![s] = v],
         RowsMove, Fits(v, row'), touched' \in [Contract -> BOOLEAN],
         UNCHANGED <<table, wire, edits, sends, landed>>, crashes' \in 0 .. MaxCrashes,
         v.pc \in {"pre", "send"} =>
           Sending(s) /\ v.cid = server[s].cid /\ v.kind = server[s].kind
  PROVE  ExecInv'
<1> USE DEF ExecInv
<1>1. /\ row' \in [Contract -> Row]
      /\ \A c \in Contract :
           row'[c].state \in {"verified", "rolling_back"} => row'[c].seal # NoReading
      /\ \A w \in ServerState : Fits(w, row) => Fits(w, row')
      /\ \A d \in Contract, k \in Kind : Beyond(d, k) => Beyond(d, k)'
  BY RowsStayTyped
<1>2. server' \in [Server -> ServerState] /\ \A t \in Server : server'[t] = IF t = s THEN v ELSE server[t]
  BY DEF TypeOK
<1>3. TypeOK'
  BY <1>1, <1>2 DEF TypeOK
<1>4. ServersInv'
  BY <1>1, <1>2 DEF ServersInv, TypeOK
<1>5. SendInv'
  <2>1. \A t \in Server : Sending(t)' =>
          Sending(t) /\ server'[t].cid = server[t].cid /\ server'[t].kind = server[t].kind
    BY <1>2 DEF Sending
  <2>2. \A t \in Server : Sending(t) => server[t].cid \in Contract /\ server[t].kind \in Kind
    BY DEF ServersInv, Fits, Sending, PastGate, TypeOK, ServerState
  <2>3. \A c \in Contract, k \in Kind : sends'[c][k] = 0 \/ (sends'[c][k] = 1 /\ Beyond(c, k)')
    BY <1>1 DEF SendInv
  <2>4. \A t \in Server : Sending(t)' =>
          sends'[server'[t].cid][server'[t].kind] = 0 /\ Beyond(server[t].cid, server[t].kind)'
    <3> SUFFICES ASSUME NEW t \in Server, Sending(t)'
                 PROVE  sends'[server'[t].cid][server'[t].kind] = 0
                        /\ Beyond(server[t].cid, server[t].kind)'
      OBVIOUS
    <3>1. PICK d \in Contract, k \in Kind :
            /\ server[t].cid = d /\ server[t].kind = k /\ server'[t].cid = d /\ server'[t].kind = k
            /\ Sending(t)
      BY <2>1, <2>2
    <3>2. sends[d][k] = 0 /\ Beyond(d, k)
      BY <3>1 DEF SendInv
    <3>3. Beyond(d, k)'
      BY <1>1, <3>2
    <3> QED
      BY <3>1, <3>2, <3>3 DEF Beyond
  <2>5. \A t, u \in Server :
          /\ Sending(t)' /\ Sending(u)'
          /\ server'[t].cid = server'[u].cid /\ server'[t].kind = server'[u].kind
          => t = u
    BY <2>1 DEF SendInv
  <2> QED
    BY <2>3, <2>4, <2>5 DEF SendInv
<1> QED
  BY <1>3, <1>4, <1>5

LEMMA InitExec == Init => ExecInv
<1> SUFFICES ASSUME Init PROVE ExecInv
  OBVIOUS
<1> USE ExecutorAssumption DEF Init
<1>1. TypeOK
  <2>1. NewRow \in Row /\ NewRow.state = "preparing"
    BY NoReadingIs DEF NewRow, Row, RecoveryState
  <2>2. server \in [Server -> ServerState]
    BY SettleIs DEF PC
  <2> QED
    BY <2>1, <2>2, TableAssumption DEF TypeOK
<1>2. ServersInv
  BY SettleIs DEF ServersInv, Fits, PC, PastGate
<1>3. SendInv
  BY SettleIs DEF SendInv, Sending, PC
<1> QED
  BY <1>1, <1>2, <1>3 DEF ExecInv

\* A server in one of these is bound by nothing in the store.
LEMMA SettledFits ==
  ASSUME NEW pc \in {"down", "boot", "idle"}, NEW rw PROVE Fits(Settle(pc), rw)
  BY SettleIs DEF Fits, PC, PastGate

LEMMA ReturnKeeps ==
  ASSUME ExecInv, NEW s \in Server, Return(s), RowsMove,
         UNCHANGED <<table, wire, environment, history>>
  PROVE  ExecInv'
<1>1. Settle("idle") \in ServerState /\ Settle("idle").pc = "idle"
  BY SettleIs DEF PC
<1>2. Fits(Settle("idle"), row')
  BY SettledFits
<1> QED
  BY <1>1, <1>2, ServerStepKeeps DEF Return, environment, history, ExecInv, TypeOK

LEMMA StartupKeeps ==
  ASSUME ExecInv, NEW s \in Server, Boot(s) \/ ReconcileNext(s) \/ Serve(s) \/ Crash(s)
  PROVE  ExecInv'
<1> USE DEF ExecInv
<1>0. server[s] \in ServerState /\ Fits(server[s], row) /\ touched \in [Contract -> BOOLEAN]
      /\ crashes \in 0 .. MaxCrashes /\ row \in [Contract -> Row]
  BY DEF TypeOK, ServersInv
<1>d. Settle("down") \in ServerState /\ Settle("down").pc = "down" /\ \A rw : Fits(Settle("down"), rw)
  BY SettleIs, SettledFits DEF PC
<1>1. CASE Boot(s)
  <2> DEFINE todo == {<<c, row[c].version>> : c \in {d \in Contract : row[d].state \in InterruptedStates}}
             v == [Settle("boot") EXCEPT !.todo = todo]
  <2>1. todo \in SUBSET (Contract \X Nat)
    BY <1>0 DEF Row
  <2>2. v \in ServerState /\ v.pc = "boot" /\ v.todo = todo
    BY <2>1, SettleIs DEF PC, ServerState
  <2>3. \A t \in todo : t[2] <= row[t[1]].version /\ row[t[1]].state \in InterruptedStates
    BY <1>0 DEF Row
  <2>4. server' = [server EXCEPT ![s] = v] /\ UNCHANGED <<row, table, wire, edits, crashes, sends, landed, touched>>
    BY <1>1 DEF Boot, environment, history
  <2> HIDE DEF v, todo
  <2>5. Fits(v, row')
    BY <2>2, <2>3, <2>4 DEF Fits, PastGate
  <2> QED
    BY <1>0, <2>2, <2>4, <2>5, ServerStepKeeps DEF RowsMove
<1>2. CASE ReconcileNext(s)
  <2>0. PICK t \in server[s].todo : Reconcile(s, t[1], t[2])
    BY <1>2 DEF ReconcileNext
  <2> DEFINE c == t[1]
             v == [server[s] EXCEPT !.todo = @ \ {<<t[1], t[2]>>}]
  <2>1. c \in Contract /\ server[s].pc = "boot" /\ UNCHANGED <<table, wire, edits, crashes, sends, landed, touched>>
    BY <1>0, <1>2 DEF ServerState, ReconcileNext, environment, history
  <2>2. CASE row[c].version = t[2]
    <3>1. row[c].state \in InterruptedStates /\ row' = To(c, "reconciliation")
          /\ server' = [server EXCEPT ![s] = v]
      BY <1>0, <2>0, <2>2 DEF Fits, Reconcile
    <3>2. Advances(c, "reconciliation")
      BY <2>1, <3>1, ToAdvances DEF RecoveryState
    <3>3. RowsMove
      BY <2>1, <3>1, <3>2 DEF RowsMove, Legal, InterruptedStates, RecoveryState
    <3>4. v \in ServerState /\ v.pc = "boot" /\ v.todo \subseteq server[s].todo
      BY <1>0, <2>1 DEF ServerState
    <3>5. Fits(v, row')
      <4>1. Fits(server[s], row')
        BY <1>0, <2>1, <3>2, FitsWhenAdvanced
      <4> HIDE DEF v
      <4> QED
        BY <3>4, <4>1 DEF Fits, PastGate
    <3> HIDE DEF v
    <3> QED
      BY <1>0, <2>1, <3>1, <3>3, <3>4, <3>5, ServerStepKeeps
  <2>3. CASE row[c].version # t[2]
    <3>1. server' = [server EXCEPT ![s] = Settle("down")] /\ row' = row
      BY <2>0, <2>3 DEF Reconcile
    <3> QED
      BY <1>0, <1>d, <2>1, <3>1, ServerStepKeeps DEF RowsMove
  <2> QED
    BY <2>2, <2>3
<1>3. CASE Serve(s)
  <2> DEFINE v == [server[s] EXCEPT !.pc = "idle"]
  <2>1. v \in ServerState /\ v.pc = "idle" /\ v.todo = {}
    BY <1>0, <1>3 DEF Serve, ServerState, PC
  <2>2. server' = [server EXCEPT ![s] = v] /\ UNCHANGED <<row, table, wire, edits, crashes, sends, landed, touched>>
    BY <1>3 DEF Serve, Goto, environment, history
  <2> HIDE DEF v
  <2>3. Fits(v, row')
    BY <2>1 DEF Fits, PastGate
  <2> QED
    BY <1>0, <2>1, <2>2, <2>3, ServerStepKeeps DEF RowsMove
<1>4. CASE Crash(s)
  <2>1. crashes' \in 0 .. MaxCrashes
    BY <1>0, <1>4, ExecutorAssumption DEF Crash
  <2> QED
    BY <1>0, <1>4, <1>d, <2>1, ServerStepKeeps DEF RowsMove, Crash, history
<1> QED
  BY <1>1, <1>2, <1>3, <1>4

LEMMA BeginKeeps ==
  ASSUME ExecInv, NEW s \in Server, NEW c \in Contract, NEW kind \in Kind, Begin(s, c, kind)
  PROVE  ExecInv'
<1> USE DEF ExecInv
<1> DEFINE v == [Settle("gate") EXCEPT !.cid = c, !.kind = kind, !.version = row[c].version]
<1>1. v \in ServerState /\ v.pc = "gate" /\ v.todo = {} /\ v.cid = c
  <2>1. row[c].version \in Nat
    BY DEF TypeOK, Row
  <2>2. Settle("gate") \in ServerState /\ Settle("gate").pc = "gate" /\ Settle("gate").todo = {}
    BY SettleIs DEF PC
  <2> QED
    BY <2>1, <2>2 DEF ServerState
<1>2. /\ server' = [server EXCEPT ![s] = v]
      /\ UNCHANGED <<row, table, wire, edits, crashes, sends, landed, touched>>
  BY DEF Begin, environment, history
<1> HIDE DEF v
<1>3. Fits(v, row')
  BY <1>1 DEF Fits, PastGate
<1> QED
  BY <1>1, <1>2, <1>3, ServerStepKeeps DEF RowsMove, TypeOK

LEMMA GateRefusesKeeps ==
  ASSUME ExecInv, NEW s \in Server,
         RefuseClass(s) \/ RaiseBeforeGate(s) \/ (EnterGate(s) /\ ~GateOpens(s))
  PROVE  ExecInv'
<1>1. RowsMove
  <2>1. CASE RefuseClass(s) /\ row' # row
    <3> DEFINE c == server[s].cid
    <3>1. c \in Contract /\ row[c].state = "prepared" /\ row' = To(c, "failed")
      BY <2>1 DEF RefuseClass, Matches, ExecInv, ServersInv, Fits
    <3>2. Advances(c, "failed")
      BY <3>1, ToAdvances DEF ExecInv, RecoveryState
    <3> QED
      BY <3>1, <3>2 DEF RowsMove, Legal, RecoveryState
  <2> QED
    BY <2>1 DEF RowsMove, RaiseBeforeGate, EnterGate
<1>2. Return(s) /\ UNCHANGED <<table, wire, environment, history>>
  BY DEF RefuseClass, RaiseBeforeGate, EnterGate
<1> QED
  BY <1>1, <1>2, ReturnKeeps

\* The gate opens for a contract that was not beyond it, so no other server is
\* on its way to this request and none was ever sent.
LEMMA GateOpensKeeps ==
  ASSUME ExecInv, NEW s \in Server, EnterGate(s), GateOpens(s) PROVE ExecInv'
<1> USE DEF ExecInv
<1> DEFINE c == server[s].cid
           k == server[s].kind
           n == row[c].version + 1
           v == [server[s] EXCEPT !.pc = "pre", !.version = n]
<1>0. /\ server[s] \in ServerState /\ c \in Contract /\ k \in Kind /\ Fits(server[s], row)
      /\ row[c].version \in Nat
  BY DEF TypeOK, ServersInv, Fits, EnterGate, ServerState, Row
<1>1. /\ row[c].state = IF k = "forward" THEN "prepared" ELSE "verified"
      /\ row' = To(c, InFlight(k)) /\ server' = [server EXCEPT ![s] = v]
      /\ UNCHANGED <<table, wire, edits, crashes, sends, landed, touched>>
  BY DEF EnterGate, GateOpens, Matches, environment, history
<1>2. /\ v \in ServerState /\ v.pc = "pre" /\ v.version = n
      /\ v.cid = c /\ v.kind = k /\ v.todo = server[s].todo
  <2>1. n \in Nat
    BY <1>0
  <2> HIDE DEF n
  <2> QED
    BY <1>0, <2>1 DEF ServerState, PC
<1> HIDE DEF v
<1>3. Advances(c, InFlight(k)) /\ SameReadings(c)
  BY <1>0, <1>1, ToAdvances DEF InFlight, RecoveryState
<1>4. RowsMove
  <2>1. Legal(c, InFlight(k)) /\ InFlight(k) \in RecoveryState
    BY <1>0, <1>1 DEF Legal, InFlight, Kind, RecoveryState
  <2>2. InFlight(k) \in {"verified", "rolling_back"} => row'[c].seal # NoReading
    BY <1>0, <1>1, <1>3 DEF InFlight, Kind, SameReadings, TypeOK
  <2> QED
    BY <1>0, <1>3, <2>1, <2>2 DEF RowsMove
<1>5. /\ row' \in [Contract -> Row]
      /\ \A d \in Contract :
           row'[d].state \in {"verified", "rolling_back"} => row'[d].seal # NoReading
      /\ \A w \in ServerState : Fits(w, row) => Fits(w, row')
      /\ \A d \in Contract, l \in Kind : Beyond(d, l) => Beyond(d, l)'
  BY <1>4, RowsStayTyped
<1>6. server' \in [Server -> ServerState] /\ \A t \in Server : server'[t] = IF t = s THEN v ELSE server[t]
  BY <1>1, <1>2 DEF TypeOK
<1>7. TypeOK'
  BY <1>1, <1>5, <1>6 DEF TypeOK
<1>8. ServersInv'
  <2>1. Fits(v, row')
    <3>1. Fits(server[s], row')
      BY <1>0, <1>5
    <3>2. row'[c].version = row[c].version + 1 /\ row'[c].state = InFlight(k)
      BY <1>3 DEF Advances
    <3> QED
      BY <1>0, <1>2, <3>1, <3>2 DEF Fits
  <2> QED
    BY <1>5, <1>6, <2>1 DEF ServersInv, TypeOK
<1>9. SendInv'
  <2>0. ~Beyond(c, k)
    BY <1>0, <1>1 DEF Beyond, Kind
  <2>1. /\ sends[c][k] = 0
        /\ \A t \in Server : Sending(t) => ~(server[t].cid = c /\ server[t].kind = k)
    BY <1>0, <2>0 DEF SendInv
  <2>2. \A d \in Contract, l \in Kind :
          row'[d].state = InFlight(l) => (IF l = "forward" THEN row'[d].state \notin {"preparing", "prepared"} ELSE row'[d].state = "rolling_back")
    BY DEF InFlight, Kind
  <2>3. \A d \in Contract, l \in Kind : d = c /\ l = k => Beyond(d, l)'
    BY <1>3, <2>2 DEF Beyond, Advances
  <2>4. \A t \in Server : Sending(t)' /\ t # s =>
          Sending(t) /\ server'[t] = server[t] /\ server[t].cid \in Contract /\ server[t].kind \in Kind
    BY <1>6 DEF Sending, ServersInv, Fits, PastGate, TypeOK, ServerState
  <2>5. \A d \in Contract, l \in Kind : sends'[d][l] = 0 \/ (sends'[d][l] = 1 /\ Beyond(d, l)')
    BY <1>1, <1>5 DEF SendInv
  <2>6. ASSUME NEW t \in Server, Sending(t)'
        PROVE  sends'[server'[t].cid][server'[t].kind] = 0 /\ Beyond(server[t].cid, server[t].kind)'
    <3>1. PICK d \in Contract, l \in Kind :
            /\ server'[t].cid = d /\ server'[t].kind = l /\ sends[d][l] = 0 /\ Beyond(d, l)'
      <4>1. CASE t = s
        BY <4>1, <1>0, <1>2, <1>6, <2>1, <2>3
      <4>2. CASE t # s
        BY <4>2, <2>6, <2>4, <1>5 DEF SendInv
      <4> QED
        BY <4>1, <4>2
    <3> QED
      BY <1>1, <3>1 DEF Beyond
  <2>7. \A t, u \in Server :
          /\ Sending(t)' /\ Sending(u)'
          /\ server'[t].cid = server'[u].cid /\ server'[t].kind = server'[u].kind
          => t = u
    BY <1>2, <1>6, <2>1, <2>4 DEF SendInv
  <2> QED
    BY <2>5, <2>6, <2>7 DEF SendInv
<1> QED
  BY <1>7, <1>8, <1>9

LEMMA SendKeeps ==
  ASSUME ExecInv, NEW s \in Server, Send(s) PROVE ExecInv'
<1> USE DEF ExecInv
<1> DEFINE c == server[s].cid
           k == server[s].kind
           v == [server[s] EXCEPT !.pc = "wait"]
           r == [cid |-> c, kind |-> k, slot |-> server[s].pre.slot,
                 descr |-> IF k = "forward" THEN Want[c] ELSE row[c].snap.obj.descr]
<1>0. /\ server[s] \in ServerState /\ c \in Contract /\ k \in Kind /\ Fits(server[s], row)
      /\ server[s].pc = "send"
  BY DEF TypeOK, ServersInv, Fits, Send, PastGate, ServerState
<1>1. /\ wire' = wire \cup {r} /\ sends' = [sends EXCEPT ![c][k] = @ + 1]
      /\ server' = [server EXCEPT ![s] = v]
      /\ UNCHANGED <<row, table, edits, crashes, landed, touched>>
  BY DEF Send, Goto, environment
<1>2. /\ v \in ServerState /\ v.pc = "wait" /\ v.version = server[s].version
      /\ v.cid = c /\ v.kind = k /\ v.todo = server[s].todo /\ v.pre = server[s].pre
  BY <1>0 DEF ServerState, PC
<1>3. r \in Request
  BY <1>0, ExecutorAssumption DEF Request, ServerState, Reading, TypeOK, Row, Alias
<1> HIDE DEF v, r
<1>4. /\ sends' \in [Contract -> [Kind -> Nat]] /\ sends'[c][k] = sends[c][k] + 1
      /\ \A d \in Contract, l \in Kind : d # c \/ l # k => sends'[d][l] = sends[d][l]
  BY <1>0, <1>1 DEF TypeOK
<1>5. server' \in [Server -> ServerState] /\ \A t \in Server : server'[t] = IF t = s THEN v ELSE server[t]
  BY <1>1, <1>2 DEF TypeOK
<1>6. TypeOK'
  BY <1>1, <1>3, <1>4, <1>5 DEF TypeOK
<1>7. ServersInv'
  BY <1>0, <1>1, <1>2, <1>5 DEF ServersInv, Fits, PastGate
<1>8. SendInv'
  <2>1. sends[c][k] = 0 /\ Beyond(c, k)
    BY <1>0 DEF SendInv, Sending
  <2>2. \A t \in Server : Sending(t)' =>
          /\ t # s /\ Sending(t) /\ server'[t] = server[t]
          /\ server[t].cid \in Contract /\ server[t].kind \in Kind
          /\ ~(server[t].cid = c /\ server[t].kind = k)
    BY <1>0, <1>2, <1>5 DEF Sending, ServersInv, Fits, PastGate, TypeOK, ServerState, SendInv
  <2>3. \A d \in Contract, l \in Kind : Beyond(d, l)' <=> Beyond(d, l)
    BY <1>1 DEF Beyond
  <2>4. \A d \in Contract, l \in Kind : sends'[d][l] = 0 \/ (sends'[d][l] = 1 /\ Beyond(d, l)')
    BY <1>0, <1>4, <2>1, <2>3 DEF SendInv
  <2>5. ASSUME NEW t \in Server, Sending(t)'
        PROVE  sends'[server'[t].cid][server'[t].kind] = 0 /\ Beyond(server[t].cid, server[t].kind)'
    <3>1. PICK d \in Contract, l \in Kind :
            /\ server'[t].cid = d /\ server'[t].kind = l /\ sends'[d][l] = 0 /\ Beyond(d, l)'
      BY <1>4, <2>2, <2>3, <2>5 DEF SendInv
    <3> QED
      BY <3>1 DEF Beyond
  <2>6. \A t, u \in Server :
          /\ Sending(t)' /\ Sending(u)'
          /\ server'[t].cid = server'[u].cid /\ server'[t].kind = server'[u].kind
          => t = u
    BY <2>2 DEF SendInv
  <2> QED
    BY <2>4, <2>5, <2>6 DEF SendInv
<1> QED
  BY <1>6, <1>7, <1>8

\* Where each kind of knowledge leads.
LEMMA ClassifyIs ==
  ASSUME NEW kind \in Kind, NEW k \in EffectKnowledge
  PROVE  LET v == ClassifyFault(kind = "rollback", k)
         IN  /\ v \in Verdicts(kind) /\ v \in RecoveryState
             /\ v = "reconciliation" <=> k = "ambiguous"
             /\ v = "verified" <=> k = "verified_success" /\ kind = "forward"
             /\ v = "rolled_back" <=> k = "verified_success" /\ kind = "rollback"
<1>1. CASE k = "ambiguous"
  BY <1>1 DEF ClassifyFault, Verdicts, Kind, RecoveryState
<1>2. CASE k = "verified_success"
  BY <1>2 DEF ClassifyFault, Verdicts, Kind, RecoveryState
<1>3. CASE k \in {"proven_none", "verified_failure"}
  BY <1>3 DEF ClassifyFault, Verdicts, Kind, RecoveryState
<1> QED
  BY <1>1, <1>2, <1>3 DEF EffectKnowledge

\* A server past the gate concludes: only its own locals change.
LEMMA ConcludeIs ==
  ASSUME ExecInv, NEW s \in Server, server[s].pc \in PastGate,
         NEW known \in EffectKnowledge \cup {"none"}, NEW verdict \in Verdicts(server[s].kind),
         Conclude(s, known, verdict)
  PROVE  \E v \in ServerState :
           /\ server' = [server EXCEPT ![s] = v]
           /\ v.pc = "finish" /\ v.known = known /\ v.verdict = verdict
           /\ v.cid = server[s].cid /\ v.kind = server[s].kind /\ v.version = server[s].version
           /\ v.pre = server[s].pre /\ v.todo = server[s].todo
<1> DEFINE v == [server[s] EXCEPT !.pc = "finish", !.known = known, !.verdict = verdict]
<1>1. server[s] \in ServerState /\ verdict \in RecoveryState
  BY DEF ExecInv, TypeOK, Verdicts, RecoveryState
<1>2. server' = [server EXCEPT ![s] = v]
  BY DEF Conclude
<1>3. /\ v \in ServerState
      /\ v.pc = "finish" /\ v.known = known /\ v.verdict = verdict
      /\ v.cid = server[s].cid /\ v.kind = server[s].kind /\ v.version = server[s].version
      /\ v.pre = server[s].pre /\ v.todo = server[s].todo
  BY <1>1 DEF ServerState, PC
<1> HIDE DEF v
<1> QED
  BY <1>2, <1>3

LEMMA ConcludeKeeps ==
  ASSUME ExecInv, NEW s \in Server, server[s].pc \in PastGate,
         NEW known \in EffectKnowledge \cup {"none"},
         NEW verdict \in Verdicts(server[s].kind) \ {"verified"},
         Conclude(s, known, verdict), UNCHANGED <<row, table, wire, environment, history>>
  PROVE  ExecInv'
<1>1. PICK v \in ServerState :
        /\ server' = [server EXCEPT ![s] = v]
        /\ v.pc = "finish" /\ v.known = known /\ v.verdict = verdict
        /\ v.cid = server[s].cid /\ v.kind = server[s].kind /\ v.version = server[s].version
        /\ v.pre = server[s].pre /\ v.todo = server[s].todo
  BY ConcludeIs
<1>2. Fits(v, row')
  BY <1>1 DEF ExecInv, ServersInv, Fits, PastGate
<1> QED
  BY <1>1, <1>2, ServerStepKeeps DEF RowsMove, ExecInv, TypeOK, environment, history

\* What _send concludes from an answer that is not a success.
LEMMA ReceiveIs ==
  ASSUME ExecInv, NEW s \in Server, Receive(s)
  PROVE  /\ server[s].pc = "wait" /\ server[s].kind \in Kind /\ server[s].cid \in Contract
         /\ \/ server[s].reply = "2xx" /\ Goto(s, "post")
            \/ /\ server[s].reply = "4xx"
               /\ Conclude(s, "verified_failure", ClassifyFault(server[s].kind = "rollback", "verified_failure"))
            \/ /\ server[s].reply = "other"
               /\ Conclude(s, "ambiguous", ClassifyFault(server[s].kind = "rollback", "ambiguous"))
<1>1. /\ server[s].pc = "wait" /\ server[s].kind \in Kind /\ server[s].cid \in Contract
      /\ server[s].reply \in {"2xx", "4xx", "other"}
  BY DEF Receive, ExecInv, TypeOK, ServersInv, Fits, PastGate, ServerState, Reply
<1>2. CASE server[s].reply = "2xx"
  BY <1>1, <1>2 DEF Receive, Knowledge
<1>3. CASE server[s].reply = "4xx"
  BY <1>1, <1>3 DEF Receive, Knowledge
<1>4. CASE server[s].reply = "other"
  BY <1>1, <1>4 DEF Receive, Knowledge
<1> QED
  BY <1>1, <1>2, <1>3, <1>4

LEMMA ReadPostIs ==
  ASSUME ExecInv, NEW s \in Server, ReadPost(s)
  PROVE  /\ server[s].pc = "post" /\ server[s].kind \in Kind /\ server[s].cid \in Contract
         /\ UNCHANGED <<row, table, wire, environment, history>>
         /\ \/ Conclude(s, "none", "reconciliation")
            \/ \E r \in Readings(AliasOf[server[s].cid]), v \in ServerState,
                  k \in {"verified_success", "verified_failure"} :
                 /\ r.slot = row[server[s].cid].snap.slot
                 /\ k = "verified_success" <=>
                      Verified(server[s].cid, server[s].kind, server[s].pre, r)
                 /\ server' = [server EXCEPT ![s] = v]
                 /\ v.pc = "finish" /\ v.pre = r /\ v.known = k
                 /\ v.verdict = ClassifyFault(server[s].kind = "rollback", k)
                 /\ v.cid = server[s].cid /\ v.kind = server[s].kind
                 /\ v.version = server[s].version /\ v.todo = server[s].todo
<1>1. /\ server[s].pc = "post" /\ server[s].kind \in Kind /\ server[s].cid \in Contract
      /\ server[s] \in ServerState
      /\ UNCHANGED <<row, table, wire, environment, history>>
  BY DEF ReadPost, ExecInv, TypeOK, ServersInv, Fits, PastGate, ServerState
<1>2. CASE ~Conclude(s, "none", "reconciliation")
  <2>1. PICK r \in Readings(AliasOf[server[s].cid]) :
          /\ r.slot = Expected(server[s].cid, server[s].kind).slot
          /\ LET k == IF Verified(server[s].cid, server[s].kind, server[s].pre, r)
                        THEN "verified_success" ELSE "verified_failure"
             IN  server' = [server EXCEPT ![s].pc = "finish", ![s].known = k,
                              ![s].verdict = ClassifyFault(server[s].kind = "rollback", k),
                              ![s].pre = r]
    BY <1>2 DEF ReadPost
  <2> DEFINE k == IF Verified(server[s].cid, server[s].kind, server[s].pre, r)
                    THEN "verified_success" ELSE "verified_failure"
             w == ClassifyFault(server[s].kind = "rollback", k)
             v == [server[s] EXCEPT !.pc = "finish", !.known = k, !.verdict = w, !.pre = r]
  <2>2. server' = [server EXCEPT ![s] = v]
    BY <2>1
  <2>3. k \in {"verified_success", "verified_failure"}
        /\ (k = "verified_success" <=> Verified(server[s].cid, server[s].kind, server[s].pre, r))
    OBVIOUS
  <2> HIDE DEF k
  <2>4. w \in RecoveryState /\ k \in EffectKnowledge
    BY <1>1, <2>3, ClassifyIs DEF EffectKnowledge
  <2>5. r \in Reading /\ r.slot = row[server[s].cid].snap.slot
    BY <2>1, ReadingsAre DEF ExecInv, Expected
  <2>6. /\ v \in ServerState /\ v.pc = "finish" /\ v.pre = r /\ v.verdict = w /\ v.known = k
        /\ v.cid = server[s].cid /\ v.kind = server[s].kind
        /\ v.version = server[s].version /\ v.todo = server[s].todo
    <3> HIDE DEF w
    <3> QED
      BY <1>1, <2>4, <2>5 DEF ServerState, PC
  <2> HIDE DEF v
  <2> QED
    BY <1>1, <2>2, <2>3, <2>5, <2>6
<1> QED
  BY <1>1, <1>2

LEMMA ReadPreIs ==
  ASSUME ExecInv, NEW s \in Server, ReadPre(s)
  PROVE  /\ server[s].pc = "pre" /\ server[s].kind \in Kind /\ server[s].cid \in Contract
         /\ UNCHANGED <<row, table, wire, environment, sends, landed>>
         /\ \/ /\ Conclude(s, "none", ClassifyFault(server[s].kind = "rollback", "proven_none"))
               /\ UNCHANGED touched
            \/ \E r \in Readings(AliasOf[server[s].cid]), v \in ServerState :
                 /\ r = Expected(server[s].cid, server[s].kind)
                 /\ server' = [server EXCEPT ![s] = v]
                 /\ touched' = [touched EXCEPT ![server[s].cid] = FALSE]
                 /\ v.pc = "send" /\ v.pre = r /\ v.reply = server[s].reply
                 /\ v.cid = server[s].cid /\ v.kind = server[s].kind
                 /\ v.version = server[s].version /\ v.todo = server[s].todo
<1>1. /\ server[s].pc = "pre" /\ server[s].kind \in Kind /\ server[s].cid \in Contract
      /\ server[s] \in ServerState
      /\ UNCHANGED <<row, table, wire, environment, sends, landed>>
  BY DEF ReadPre, ExecInv, TypeOK, ServersInv, Fits, PastGate, ServerState
<1>2. CASE \E r \in Readings(AliasOf[server[s].cid]) :
             /\ Unchanged(server[s].cid, server[s].kind, r)
             /\ server' = [server EXCEPT ![s].pc = "send", ![s].pre = r]
             /\ touched' = [touched EXCEPT ![server[s].cid] = FALSE]
  <2>1. PICK r \in Readings(AliasOf[server[s].cid]) :
             /\ Unchanged(server[s].cid, server[s].kind, r)
             /\ server' = [server EXCEPT ![s].pc = "send", ![s].pre = r]
             /\ touched' = [touched EXCEPT ![server[s].cid] = FALSE]
    BY <1>2
  <2> DEFINE v == [server[s] EXCEPT !.pc = "send", !.pre = r]
  <2>2. server' = [server EXCEPT ![s] = v]
    BY <2>1
  <2>3. r \in Reading
    BY ReadingsAre DEF ExecInv
  <2>4. /\ v \in ServerState /\ v.pc = "send" /\ v.pre = r /\ v.reply = server[s].reply
        /\ v.cid = server[s].cid /\ v.kind = server[s].kind
        /\ v.version = server[s].version /\ v.todo = server[s].todo
    BY <1>1, <2>3 DEF ServerState, PC
  <2> HIDE DEF v
  <2> QED
    BY <1>1, <2>1, <2>2, <2>4 DEF Unchanged
<1> QED
  BY <1>1, <1>2 DEF ReadPre

LEMMA ExchangeKeeps ==
  ASSUME ExecInv, NEW s \in Server,
         \/ ReadPre(s) \/ SendRefused(s) \/ Receive(s) \/ Timeout(s)
         \/ ConnectionLost(s) \/ ReadPost(s)
  PROVE  ExecInv'
<1> USE DEF ExecInv
<1>0. server[s].pc \in PastGate /\ server[s] \in ServerState /\ Fits(server[s], row)
      /\ server[s].kind \in Kind /\ server[s].cid \in Contract
  BY DEF ReadPre, SendRefused, Receive, Timeout, ConnectionLost, ReadPost, PastGate,
         ServersInv, TypeOK, Fits, ServerState
<1>c. ASSUME NEW k \in {"proven_none", "ambiguous", "verified_failure"},
             NEW known \in EffectKnowledge \cup {"none"},
             Conclude(s, known, ClassifyFault(server[s].kind = "rollback", k)),
             UNCHANGED <<row, table, wire, environment, history>>
      PROVE  ExecInv'
  <2>1. ClassifyFault(server[s].kind = "rollback", k) \in Verdicts(server[s].kind) \ {"verified"}
    BY <1>0, ClassifyIs DEF EffectKnowledge
  <2> QED
    BY <1>0, <1>c, <2>1, ConcludeKeeps
<1>1. CASE ReadPre(s)
  <2>1. CASE /\ Conclude(s, "none", ClassifyFault(server[s].kind = "rollback", "proven_none"))
             /\ UNCHANGED touched
    BY <1>1, <1>c, <2>1, ReadPreIs DEF history
  <2>2. CASE ~(/\ Conclude(s, "none", ClassifyFault(server[s].kind = "rollback", "proven_none"))
               /\ UNCHANGED touched)
    <3>1. PICK r \in Readings(AliasOf[server[s].cid]), v \in ServerState :
                 /\ r = Expected(server[s].cid, server[s].kind)
                 /\ server' = [server EXCEPT ![s] = v]
                 /\ touched' = [touched EXCEPT ![server[s].cid] = FALSE]
                 /\ v.pc = "send" /\ v.pre = r /\ v.reply = server[s].reply
                 /\ v.cid = server[s].cid /\ v.kind = server[s].kind
                 /\ v.version = server[s].version /\ v.todo = server[s].todo
      BY <1>1, <2>2, ReadPreIs
    <3>2. r.slot # 0
      BY ReadingsAre
    <3>3. UNCHANGED <<row, table, wire, environment, sends, landed>> /\ server[s].pc = "pre"
      BY <1>1, ReadPreIs
    <3>4. Fits(v, row')
      BY <1>0, <3>1, <3>2, <3>3 DEF Fits, PastGate
    <3>5. touched' \in [Contract -> BOOLEAN]
      BY <3>1 DEF TypeOK
    <3> QED
      BY <3>1, <3>3, <3>4, <3>5, ServerStepKeeps DEF RowsMove, TypeOK, environment, Sending
  <2> QED
    BY <2>1, <2>2
<1>2. CASE SendRefused(s)
  BY <1>2, <1>c DEF SendRefused, EffectKnowledge
<1>3. CASE Receive(s)
  <2>1. CASE server[s].reply = "2xx" /\ Goto(s, "post")
    <3> DEFINE v == [server[s] EXCEPT !.pc = "post"]
    <3>1. /\ v \in ServerState /\ v.pc = "post" /\ v.version = server[s].version
          /\ v.cid = server[s].cid /\ v.kind = server[s].kind /\ v.todo = server[s].todo
          /\ v.pre = server[s].pre
      BY <1>0 DEF ServerState, PC
    <3>2. /\ server' = [server EXCEPT ![s] = v]
          /\ UNCHANGED <<row, table, wire, edits, crashes, sends, landed, touched>>
      BY <1>3, <2>1 DEF Goto, Receive, environment, history
    <3> HIDE DEF v
    <3>3. Fits(v, row')
      BY <1>0, <1>3, <3>1, <3>2 DEF Fits, PastGate, Receive
    <3> QED
      BY <3>1, <3>2, <3>3, ServerStepKeeps DEF RowsMove, TypeOK
  <2>2. CASE ~(server[s].reply = "2xx" /\ Goto(s, "post"))
    BY <1>3, <1>c, <2>2, ReceiveIs DEF Receive, EffectKnowledge
  <2> QED
    BY <2>1, <2>2
<1>4. CASE Timeout(s)
  BY <1>4, <1>c DEF Timeout, EffectKnowledge
<1>5. CASE ConnectionLost(s)
  BY <1>5, <1>c DEF ConnectionLost, EffectKnowledge
<1>6. CASE ReadPost(s)
  <2>1. CASE Conclude(s, "none", "reconciliation")
    <3>1. "reconciliation" \in Verdicts(server[s].kind) \ {"verified"}
      BY DEF Verdicts
    <3> QED
      BY <1>0, <1>6, <2>1, <3>1, ConcludeKeeps, ReadPostIs
  <2>2. CASE ~Conclude(s, "none", "reconciliation")
    <3>1. PICK r \in Readings(AliasOf[server[s].cid]), v \in ServerState,
                  k \in {"verified_success", "verified_failure"} :
                 /\ server' = [server EXCEPT ![s] = v]
                 /\ v.pc = "finish" /\ v.pre = r
                 /\ v.verdict = ClassifyFault(server[s].kind = "rollback", k)
                 /\ v.cid = server[s].cid /\ v.kind = server[s].kind
                 /\ v.version = server[s].version /\ v.todo = server[s].todo
      BY <1>6, <2>2, ReadPostIs
    <3>2. r.slot # 0 /\ v.verdict \in Verdicts(v.kind)
      BY <1>0, <3>1, ReadingsAre, ClassifyIs DEF EffectKnowledge
    <3>3. UNCHANGED <<row, table, wire, environment, history>>
      BY <1>6, ReadPostIs
    <3>4. Fits(v, row')
      BY <1>0, <3>1, <3>2, <3>3 DEF Fits, PastGate
    <3> QED
      BY <3>1, <3>3, <3>4, ServerStepKeeps DEF RowsMove, TypeOK, environment, history
  <2> QED
    BY <2>1, <2>2
<1> QED
  BY <1>1, <1>2, <1>3, <1>4, <1>5, <1>6

\* The contract still is what the server entered the gate with, or the call
\* raises and changes nothing.
LEMMA FinishIs ==
  ASSUME ExecInv, NEW s \in Server, Finish(s)
  PROVE  LET c == server[s].cid
             st == server[s].verdict
         IN  /\ c \in Contract /\ server[s].pc = "finish" /\ server[s].kind \in Kind
             /\ Return(s) /\ UNCHANGED <<table, wire, environment, history>>
             /\ ~StillMine(s) => row' = row
             /\ StillMine(s) =>
                  /\ row[c].state = InFlight(server[s].kind) /\ st \in Verdicts(server[s].kind)
                  /\ Advances(c, st) /\ Legal(c, st) /\ st \in RecoveryState
                  /\ row'[c].snap = row[c].snap
                  /\ row'[c].seal = IF st = "verified" THEN server[s].pre ELSE row[c].seal
                  /\ st = "verified" => server[s].pre # NoReading
<1> DEFINE c == server[s].cid
           st == server[s].verdict
<1>1. /\ server[s].pc = "finish" /\ Return(s) /\ UNCHANGED <<table, wire, environment, history>>
      /\ c \in Contract /\ server[s].kind \in Kind /\ server[s].pre \in Reading
      /\ st \in Verdicts(server[s].kind)
      /\ st = "verified" => server[s].pre # NoReading
  BY NoReadingIs DEF Finish, ExecInv, TypeOK, ServersInv, Fits, PastGate, ServerState
<1>2. ~StillMine(s) => row' = row
  BY DEF Finish
<1>3. CASE StillMine(s)
  <2>1. row[c].state = InFlight(server[s].kind) /\ row' = Recorded(c, st, server[s].pre)
    BY <1>3 DEF StillMine, Matches, Finish
  <2>2. st \in RecoveryState /\ row[c].state \in InterruptedStates
    BY <1>1, <2>1 DEF Verdicts, RecoveryState, InFlight, InterruptedStates
  <2>3. Legal(c, st)
    BY <1>1, <2>1 DEF Verdicts, InFlight, Legal, Kind
  <2>4. /\ Advances(c, st) /\ row'[c].snap = row[c].snap
        /\ row'[c].seal = IF st = "verified" THEN server[s].pre ELSE row[c].seal
    BY <1>1, <2>1, <2>2, RecordedAdvances DEF ExecInv
  <2> QED
    BY <1>1, <1>3, <2>1, <2>2, <2>3, <2>4
<1> QED
  BY <1>1, <1>2, <1>3

LEMMA FinishKeeps ==
  ASSUME ExecInv, NEW s \in Server, Finish(s) PROVE ExecInv'
<1>1. RowsMove
  <2>1. CASE StillMine(s)
    BY <2>1, FinishIs DEF RowsMove, Verdicts
  <2> QED
    BY <2>1, FinishIs DEF RowsMove
<1> QED
  BY <1>1, FinishIs, ReturnKeeps

\* An answer reaches the servers that wait for it and changes nothing else of
\* theirs.
OnlyReplies ==
  /\ server' \in [Server -> ServerState]
  /\ \A t \in Server :
       /\ server'[t].pc = server[t].pc /\ server'[t].cid = server[t].cid
       /\ server'[t].kind = server[t].kind /\ server'[t].version = server[t].version
       /\ server'[t].pre = server[t].pre /\ server'[t].verdict = server[t].verdict
       /\ server'[t].todo = server[t].todo

LEMMA AnswerIs ==
  ASSUME TypeOK, NEW r, NEW reply \in Reply, Answer(r, reply)
  PROVE  /\ OnlyReplies
         /\ \A t \in Server :
              server'[t].reply = IF t \in Waiting(r) THEN reply ELSE server[t].reply
<1>1. ASSUME NEW t \in Server
      PROVE  /\ server'[t] \in ServerState
             /\ server'[t].pc = server[t].pc /\ server'[t].cid = server[t].cid
             /\ server'[t].kind = server[t].kind /\ server'[t].version = server[t].version
             /\ server'[t].pre = server[t].pre /\ server'[t].verdict = server[t].verdict
             /\ server'[t].todo = server[t].todo
             /\ server'[t].reply = IF t \in Waiting(r) THEN reply ELSE server[t].reply
  <2>1. server[t] \in ServerState
    BY DEF TypeOK
  <2>2. CASE t \in Waiting(r)
    <3>1. server'[t] = [server[t] EXCEPT !.reply = reply]
      BY <2>2 DEF Answer
    <3> QED
      BY <2>1, <2>2, <3>1 DEF ServerState
  <2>3. CASE t \notin Waiting(r)
    BY <2>1, <2>3 DEF Answer
  <2> QED
    BY <2>2, <2>3
<1>2. server' \in [Server -> ServerState]
  <2>1. server' = [t \in Server |-> server'[t]]
    BY DEF Answer
  <2> QED
    BY <1>1, <2>1
<1> QED
  BY <1>1, <1>2 DEF OnlyReplies

LEMMA RepliesKeep ==
  ASSUME ExecInv, OnlyReplies, UNCHANGED <<row, sends>> PROVE ServersInv' /\ SendInv'
<1> USE DEF ExecInv
<1>1. ServersInv'
  BY DEF ServersInv, OnlyReplies, Fits
<1>2. \A t \in Server : Sending(t)' <=> Sending(t)
  BY DEF OnlyReplies, Sending
<1>3. SendInv'
  BY <1>2 DEF SendInv, OnlyReplies, Beyond
<1> QED
  BY <1>1, <1>3

\* The table after a PATCH or an edit, one position at a time.
LEMMA PatchIs ==
  ASSUME TypeOK, NEW i \in DOMAIN table, NEW d \in Descr, table' = [table EXCEPT ![i].descr = d]
  PROVE  /\ table' \in Seq(Alias) /\ Len(table') = Len(table) /\ DOMAIN table' = DOMAIN table
         /\ table'[i] = [table[i] EXCEPT !.descr = d]
         /\ table'[i].name = table[i].name /\ table'[i].descr = d /\ table'[i].other = table[i].other
         /\ \A j \in DOMAIN table : j # i => table'[j] = table[j]
<1>1. table[i] \in Alias
  BY SlotsOfTable
<1>2. LET x == [table[i] EXCEPT !.descr = d]
      IN  x \in Alias /\ x.name = table[i].name /\ x.descr = d /\ x.other = table[i].other
  BY <1>1 DEF Alias
<1>3. table' = [table EXCEPT ![i] = [table[i] EXCEPT !.descr = d]]
  OBVIOUS
<1>4. table \in Seq(Alias) /\ i \in 1 .. Len(table) /\ DOMAIN table = 1 .. Len(table)
  BY LenProperties DEF TypeOK
<1>5. table' \in Seq(Alias) /\ Len(table') = Len(table)
  BY <1>2, <1>3, <1>4, ExceptSeq
<1>6. DOMAIN table' = DOMAIN table /\ table'[i] = [table[i] EXCEPT !.descr = d]
      /\ \A j \in DOMAIN table : j # i => table'[j] = table[j]
  BY <1>3
<1> QED
  BY <1>2, <1>5, <1>6

LEMMA ApplianceKeeps ==
  ASSUME ExecInv, NEW r \in wire, Apply(r) \/ Ignore(r) PROVE ExecInv'
<1> USE DEF ExecInv
<1>0. r \in Request /\ wire' \subseteq wire /\ UNCHANGED <<row, edits, crashes, sends>>
  BY DEF TypeOK, Apply, Ignore, environment, history
<1>1. OnlyReplies
  BY AnswerIs DEF Apply, Ignore, Reply
<1>2. table' \in Seq(Alias) /\ Len(table') = Len(FirstTable)
  BY <1>0, PatchIs DEF Apply, Ignore, Request, TypeOK
<1>3. landed' \in [Contract -> SUBSET Kind] /\ touched' \in [Contract -> BOOLEAN]
  <2>1. CASE Apply(r)
    <3>1. landed' \in [Contract -> SUBSET Kind]
      BY <1>0, <2>1 DEF Apply, Request, TypeOK
    <3>2. touched' \in [Contract -> BOOLEAN]
      BY <2>1 DEF Apply, TypeOK
    <3> QED
      BY <3>1, <3>2
  <2>2. CASE Ignore(r)
    BY <2>2 DEF Ignore, TypeOK, history
  <2> QED
    BY <2>1, <2>2
<1>4. TypeOK'
  BY <1>0, <1>1, <1>2, <1>3 DEF TypeOK, OnlyReplies
<1> QED
  BY <1>0, <1>1, <1>4, RepliesKeep

\* An administrator's edit, of whatever kind, leaves a table of the same length.
LEMMA EditIs ==
  ASSUME TypeOK, AdminEdit
  PROVE  table' \in Seq(Alias) /\ Len(table') = Len(table)
<1>0. table \in Seq(Alias) /\ DOMAIN table = 1 .. Len(table) /\ Len(table) \in Nat
  BY LenProperties DEF TypeOK
<1>1. ASSUME NEW i \in DOMAIN table, NEW d \in AdminDescr, table' = [table EXCEPT ![i].descr = d]
      PROVE  table' \in Seq(Alias) /\ Len(table') = Len(table)
  BY <1>1, PatchIs, ExecutorAssumption
<1>2. ASSUME NEW i \in DOMAIN table, table' = [table EXCEPT ![i].other = ~@]
      PROVE  table' \in Seq(Alias) /\ Len(table') = Len(table)
  <2>1. table[i] \in Alias
    BY SlotsOfTable
  <2>2. [table[i] EXCEPT !.other = ~@] \in Alias
    BY <2>1 DEF Alias
  <2>3. table' = [table EXCEPT ![i] = [table[i] EXCEPT !.other = ~@]]
    BY <1>2
  <2> QED
    BY <1>0, <2>2, <2>3, ExceptSeq
<1>3. ASSUME NEW i \in DOMAIN table \ {Len(table)},
             table' = [table EXCEPT ![i] = table[i + 1], ![i + 1] = table[i]]
      PROVE  table' \in Seq(Alias) /\ Len(table') = Len(table)
  <2>1. i \in 1 .. Len(table) /\ i + 1 \in 1 .. Len(table)
    BY <1>0
  <2>2. table[i] \in Alias /\ table[i + 1] \in Alias
    BY <1>0, <2>1, ElementOfSeq
  <2> DEFINE one == [table EXCEPT ![i] = table[i + 1]]
  <2>3. one \in Seq(Alias) /\ Len(one) = Len(table)
    BY <1>0, <2>1, <2>2, ExceptSeq
  <2>4. table' = [one EXCEPT ![i + 1] = table[i]]
    BY <1>3
  <2> HIDE DEF one
  <2> QED
    BY <2>1, <2>2, <2>3, <2>4, ExceptSeq
<1> QED
  BY <1>1, <1>2, <1>3 DEF AdminEdit

LEMMA EditKeeps ==
  ASSUME ExecInv, AdminEdit PROVE ExecInv'
<1> USE DEF ExecInv
<1>1. TypeOK'
  <2>1. table' \in Seq(Alias) /\ Len(table') = Len(FirstTable)
    BY EditIs DEF TypeOK
  <2>2. edits' \in 0 .. MaxEdits
    BY ExecutorAssumption DEF AdminEdit, TypeOK
  <2>3. touched' \in [Contract -> BOOLEAN] /\ UNCHANGED <<row, wire, server, crashes, sends, landed>>
    BY DEF AdminEdit
  <2> QED
    BY <2>1, <2>2, <2>3 DEF TypeOK
<1>2. OnlyReplies /\ UNCHANGED <<row, sends>>
  BY DEF AdminEdit, OnlyReplies, TypeOK
<1> QED
  BY <1>1, <1>2, RepliesKeep

LEMMA PrepareIs ==
  ASSUME ExecInv, NEW c \in Contract, Prepare(c)
  PROVE  /\ row[c].state = "preparing"
         /\ Advances(c, "prepared") /\ Legal(c, "prepared")
         /\ row'[c].snap \in Readings(AliasOf[c]) /\ row'[c].seal = row[c].seal
<1>1. PICK r \in Readings(AliasOf[c]) :
        row' = [row EXCEPT ![c].state = "prepared", ![c].version = @ + 1, ![c].snap = r]
  BY DEF Prepare
<1>2. r \in Reading /\ row[c] \in Row
  BY ReadingsAre DEF ExecInv, TypeOK
<1> DEFINE n == row[c].version + 1
           x == [row[c] EXCEPT !.state = "prepared", !.version = n, !.snap = r]
<1>3. row' = [row EXCEPT ![c] = x]
  BY <1>1
<1>4. n \in Nat
  BY <1>2 DEF Row
<1>5. /\ x \in Row /\ x.state = "prepared" /\ x.version = n /\ x.snap = r
      /\ x.origin = row[c].origin /\ x.seal = row[c].seal
  <2> HIDE DEF n
  <2> QED
    BY <1>2, <1>4 DEF Row, RecoveryState
<1> HIDE DEF x
<1>6. Advances(c, "prepared")
  BY <1>3, <1>5 DEF Advances, ExecInv, TypeOK
<1> QED
  BY <1>3, <1>5, <1>6 DEF Prepare, Legal, ExecInv, TypeOK

\* The operator's conclusion fits what was interrupted.
LEMMA ResolveIs ==
  ASSUME ExecInv, NEW c \in Contract, ResolveReconciliation(c)
  PROVE  \E r \in Readings(AliasOf[c]), st \in RecoveryState :
           /\ row[c].state = "reconciliation" /\ Advances(c, st) /\ Legal(c, st)
           /\ row'[c].snap = row[c].snap
           /\ row'[c].seal = IF st = "verified" THEN r ELSE row[c].seal
           /\ row[c].origin = "executing" =>
                st = IF r.obj.descr = Want[c] THEN "verified" ELSE "failed"
           /\ row[c].origin = "rolling_back" =>
                st = IF r.obj = row[c].snap.obj THEN "rolled_back" ELSE "rollback_failed"
<1>1. PICK r \in Readings(AliasOf[c]) :
        /\ Conclusion(c, r) \in OutcomesFor(row[c].origin)
        /\ row' = Recorded(c, OutcomeTargetState[Conclusion(c, r)], r)
  BY DEF ResolveReconciliation
<1> DEFINE o == Conclusion(c, r)
           st == OutcomeTargetState[o]
<1>2. row[c].state = "reconciliation" /\ row[c] \in Row /\ r \in Reading
  BY ReadingsAre DEF ResolveReconciliation, ExecInv, TypeOK
<1>3. row[c].origin \in InterruptedStates
  <2>1. CASE row[c].origin = "none"
    BY <1>1, <2>1 DEF OutcomesFor
  <2> QED
    BY <1>2, <2>1 DEF Row
<1>4. /\ st \in RecoveryState \ {"reconciliation"} /\ Legal(c, st)
      /\ row[c].origin = "executing" =>
           st = IF r.obj.descr = Want[c] THEN "verified" ELSE "failed"
      /\ row[c].origin = "rolling_back" =>
           st = IF r.obj = row[c].snap.obj THEN "rolled_back" ELSE "rollback_failed"
  <2>1. CASE row[c].origin = "executing"
    BY <1>2, <2>1 DEF Conclusion, OutcomeTargetState, ReconciliationOutcome, ForwardOutcomes,
                      RollbackOutcomes, RecoveryState, Legal
  <2>2. CASE row[c].origin = "rolling_back"
    BY <1>2, <2>2 DEF Conclusion, OutcomeTargetState, ReconciliationOutcome, ForwardOutcomes,
                      RollbackOutcomes, RecoveryState, Legal
  <2> QED
    BY <1>3, <2>1, <2>2 DEF InterruptedStates
<1> HIDE DEF st
<1>5. /\ Advances(c, st) /\ row'[c].snap = row[c].snap
      /\ row'[c].seal = IF st = "verified" THEN r ELSE row[c].seal
  <2>1. row' = Recorded(c, st, r)
    BY <1>1 DEF st
  <2> QED
    BY <1>2, <1>4, <2>1, RecordedAdvances DEF ExecInv
<1> QED
  BY <1>2, <1>4, <1>5

LEMMA RowStepKeeps ==
  ASSUME ExecInv, RowsMove, UNCHANGED <<table, wire, server, environment, sends, landed>>,
         touched' \in [Contract -> BOOLEAN]
  PROVE  ExecInv'
<1> USE DEF ExecInv
<1>1. /\ row' \in [Contract -> Row]
      /\ \A c \in Contract :
           row'[c].state \in {"verified", "rolling_back"} => row'[c].seal # NoReading
      /\ \A w \in ServerState : Fits(w, row) => Fits(w, row')
      /\ \A d \in Contract, k \in Kind : Beyond(d, k) => Beyond(d, k)'
  BY RowsStayTyped
<1>2. TypeOK'
  BY <1>1 DEF TypeOK, environment
<1>3. ServersInv'
  BY <1>1 DEF ServersInv, TypeOK
<1>4. SendInv'
  <2>1. \A t \in Server : Sending(t)' => /\ Sending(t) /\ server[t].cid \in Contract /\ server[t].kind \in Kind
    BY DEF Sending, ServersInv, Fits, PastGate, TypeOK, ServerState
  <2>2. \A c \in Contract, k \in Kind : sends'[c][k] = 0 \/ (sends'[c][k] = 1 /\ Beyond(c, k)')
    BY <1>1 DEF SendInv
  <2>3. ASSUME NEW t \in Server, Sending(t)'
        PROVE  sends'[server'[t].cid][server'[t].kind] = 0 /\ Beyond(server[t].cid, server[t].kind)'
    <3>1. PICK d \in Contract, k \in Kind :
            /\ server'[t].cid = d /\ server'[t].kind = k /\ sends[d][k] = 0 /\ Beyond(d, k)'
      BY <1>1, <2>1, <2>3 DEF SendInv
    <3> QED
      BY <3>1 DEF Beyond
  <2> QED
    BY <2>1, <2>2, <2>3 DEF SendInv
<1> QED
  BY <1>2, <1>3, <1>4

LEMMA PrepareResolveKeep ==
  ASSUME ExecInv, NEW c \in Contract, Prepare(c) \/ ResolveReconciliation(c) PROVE ExecInv'
<1>1. CASE Prepare(c)
  <2>1. RowsMove
    BY <1>1, PrepareIs DEF RowsMove, RecoveryState
  <2>2. touched' \in [Contract -> BOOLEAN]
    BY <1>1 DEF Prepare, ExecInv, TypeOK
  <2> QED
    BY <1>1, <2>1, <2>2, RowStepKeeps DEF Prepare
<1>2. CASE ResolveReconciliation(c)
  <2>1. PICK r \in Readings(AliasOf[c]), st \in RecoveryState :
          /\ row[c].state = "reconciliation" /\ Advances(c, st) /\ Legal(c, st)
          /\ row'[c].seal = IF st = "verified" THEN r ELSE row[c].seal
    BY <1>2, ResolveIs
  <2>2. r # NoReading
    BY ReadingsAre DEF ExecInv
  <2>3. st # "rolling_back"
    BY <2>1 DEF Legal
  <2>4. RowsMove
    BY <2>1, <2>2, <2>3 DEF RowsMove
  <2> QED
    BY <1>2, <2>4, RowStepKeeps DEF ResolveReconciliation, ExecInv, TypeOK, history
<1> QED
  BY <1>1, <1>2

LEMMA NextKeepsExec == ExecInv /\ [Next]_vars => ExecInv'
<1> SUFFICES ASSUME ExecInv, [Next]_vars PROVE ExecInv'
  OBVIOUS
<1>1. ASSUME NEW c \in Contract, Prepare(c) \/ ResolveReconciliation(c) PROVE ExecInv'
  BY <1>1, PrepareResolveKeep
<1>2. ASSUME NEW s \in Server, Boot(s) \/ ServerStep(s) \/ Crash(s) PROVE ExecInv'
  BY <1>2, StartupKeeps, GateRefusesKeeps, GateOpensKeeps, SendKeeps, ExchangeKeeps, FinishKeeps
  DEF ServerStep
<1>3. ASSUME NEW s \in Server, NEW c \in Contract, NEW k \in Kind, Begin(s, c, k) PROVE ExecInv'
  BY <1>3, BeginKeeps
<1>4. ASSUME NEW r \in wire, Apply(r) \/ Ignore(r) PROVE ExecInv'
  BY <1>4, ApplianceKeeps
<1>5. CASE AdminEdit
  BY <1>5, EditKeeps
<1>6. CASE UNCHANGED vars
  BY <1>6, RowStepKeeps DEF vars, RowsMove, ExecInv, TypeOK, environment
<1> QED
  BY <1>1, <1>2, <1>3, <1>4, <1>5, <1>6 DEF Next

LEMMA ExecInvariance == Spec => []ExecInv
  BY InitExec, NextKeepsExec, PTL DEF Spec

\* Every variable keeps its type, and VERIFIED and ROLLING_BACK always carry
\* the reading that was sealed (contract.py), whatever crashes and edits happen.
THEOREM TypeCorrect == Spec => []TypeOK
<1>1. ExecInv => TypeOK
  BY DEF ExecInv
<1> QED
  BY <1>1, ExecInvariance, PTL

\* MutationExecutor sends the change of a contract at most once and its
\* rollback at most once, for any number of servers, crashes and restarts, even
\* if the operator resolves doubt too early and connections break.
THEOREM RequestsAreSentOnce == Spec => []SentOnce
<1>1. ExecInv => SentOnce
  BY DEF ExecInv, SendInv, SentOnce
<1> QED
  BY <1>1, ExecInvariance, PTL

-----------------------------------------------------------------------------
(* A request under way keeps its target reserved *)

\* A reservation is taken at the gate only, and given up only by a contract
\* that has nothing under way.
RowsHold ==
  \/ row' = row
  \/ \E c \in Contract, st \in RecoveryState :
       /\ Advances(c, st)
       /\ st \in ReservationStates => row[c].state \in ReservationStates
       /\ st \notin ReservationStates => ~Pending(c)

\* What a step leaves of a server's part in this: it starts no attempt, and
\* whatever it has just concluded, nothing of its contract is under way.
Calm(t) ==
  /\ Active(t)' => Active(t) /\ server'[t].cid = server[t].cid
  /\ Sending(t)' => Sending(t)
  /\ server'[t].pc = "gate" \/ Sending(t)' => server'[t].reply = "none"
  /\ Answered(t)' =>
       \/ Answered(t) /\ server'[t].cid = server[t].cid
       \/ \E d \in Contract : d = server'[t].cid /\ ~OnWire(d)'
  /\ Settled(t)' =>
       \/ /\ Settled(t) /\ server'[t].cid = server[t].cid /\ server'[t].kind = server[t].kind
          /\ server'[t].version = server[t].version
       \/ \E d \in Contract : d = server'[t].cid /\ ~Pending(d)'

LEMMA CalmKeeps ==
  ASSUME ExecInv, ReserveInv, wire' \subseteq wire, RowsHold, \A t \in Server : Calm(t)
  PROVE  ReserveInv'
<1> USE DEF ExecInv, ReserveInv
<1>1. \A d \in Contract : OnWire(d)' => OnWire(d)
  BY DEF OnWire
<1>2. \A d \in Contract : Pending(d)' => Pending(d)
  BY DEF Pending, Calm, Active
<1>3. ReservationExclusive'
  BY DEF RowsHold, Advances, ReservationExclusive
<1>4. PendingKeepsReservation'
  BY <1>2 DEF RowsHold, Advances, PendingKeepsReservation
<1>5. UnderWayInv'
  <2>1. \A s, t \in Server :
          Active(s)' /\ Active(t)' /\ server'[s].cid = server'[t].cid => s = t
    BY DEF Calm, UnderWayInv
  <2>2. \A r, q \in wire' : r.cid = q.cid => r = q
    BY DEF UnderWayInv
  <2>3. \A t \in Server : server'[t].pc = "gate" \/ Sending(t)' => server'[t].reply = "none"
    BY DEF Calm
  <2>4. ASSUME NEW t \in Server, Sending(t)' \/ Answered(t)'
        PROVE  ~OnWire(server[t].cid)'
    <3>1. PICK d \in Contract : d = server'[t].cid /\ ~OnWire(d)'
      <4>1. CASE (Sending(t) \/ Answered(t)) /\ server'[t].cid = server[t].cid
        <5>1. server[t].cid \in Contract
          BY <4>1 DEF ServersInv, Fits, Sending, Answered, PastGate
        <5> QED
          BY <4>1, <5>1, <1>1 DEF UnderWayInv
      <4> QED
        BY <2>4, <4>1 DEF Calm, Sending, Active
    <3> QED
      BY <3>1 DEF OnWire
  <2>5. ASSUME NEW t \in Server, Settled(t)', StillMine(t)'
        PROVE  ~Pending(server[t].cid)'
    <3>1. PICK d \in Contract : d = server'[t].cid /\ ~Pending(d)'
      <4>1. CASE /\ Settled(t) /\ server'[t].cid = server[t].cid /\ server'[t].kind = server[t].kind
                 /\ server'[t].version = server[t].version
        <5>1. Fits(server[t], row) /\ server[t].cid \in Contract /\ server[t].pc \in PastGate
          BY <4>1 DEF ServersInv, Fits, Settled, PastGate
        <5>2. row'[server[t].cid] = row[server[t].cid]
          <6>1. row'[server[t].cid].version = server[t].version
            BY <2>5, <4>1 DEF StillMine, Matches
          <6>2. server[t].version <= row[server[t].cid].version /\ row[server[t].cid].version \in Nat
            BY <5>1 DEF Fits, TypeOK, Row
          <6> QED
            BY <5>1, <6>1, <6>2 DEF RowsHold, Advances
        <5>3. StillMine(t)
          BY <2>5, <4>1, <5>2 DEF StillMine, Matches
        <5> QED
          BY <4>1, <5>1, <5>3, <1>2 DEF UnderWayInv
      <4> QED
        BY <2>5, <4>1 DEF Calm
    <3> QED
      BY <3>1 DEF Pending
  <2> QED
    BY <2>1, <2>2, <2>3, <2>4, <2>5 DEF UnderWayInv
<1> QED
  BY <1>3, <1>4, <1>5

\* One server moves: nothing is asked of the others.
LEMMA OneCalm ==
  ASSUME ExecInv, ReserveInv, NEW s \in Server, NEW v, server' = [server EXCEPT ![s] = v],
         UNCHANGED wire, RowsHold, Calm(s)
  PROVE  ReserveInv'
<1>1. \A t \in Server : t # s => server'[t] = server[t]
  BY DEF ExecInv, TypeOK
<1>2. ASSUME NEW t \in Server, t # s PROVE Calm(t)
  <2>1. server'[t] = server[t]
    BY <1>1, <1>2
  <2> QED
    BY <2>1 DEF Calm, Active, Sending, Answered, Settled, ReserveInv, UnderWayInv
<1> QED
  BY <1>2, CalmKeeps

\* A server that has not sent, or has its answer, leaves nothing under way when
\* it ends its attempt.
LEMMA EndsQuietly ==
  ASSUME ExecInv, ReserveInv, NEW s \in Server, Sending(s) \/ Answered(s),
         NEW v, server' = [server EXCEPT ![s] = v], v.pc \in {"post", "finish"},
         UNCHANGED wire
  PROVE  \E d \in Contract : d = server[s].cid /\ ~Pending(d)'
<1>1. server[s].cid \in Contract /\ Active(s)
  BY DEF ExecInv, ServersInv, Fits, Sending, Answered, Active, PastGate
<1> DEFINE d == server[s].cid
<1>2. ~OnWire(d) /\ \A t \in Server : Active(t) /\ server[t].cid = d => t = s
  BY <1>1 DEF ReserveInv, UnderWayInv
<1>3. \A t \in Server : server'[t] = IF t = s THEN v ELSE server[t]
  BY DEF ExecInv, TypeOK
<1>4. \A e \in Contract : e = d => ~Pending(e)'
  BY <1>2, <1>3 DEF Pending, OnWire, Active
<1> QED
  BY <1>1, <1>4


LEMMA AtRestKeeps ==
  ASSUME ExecInv, ReserveInv, NEW s \in Server, NEW v, server' = [server EXCEPT ![s] = v],
         v.pc \in {"down", "boot", "idle", "gate"}, v.pc = "gate" => v.reply = "none",
         UNCHANGED wire, RowsHold
  PROVE  ReserveInv'
<1>1. server'[s] = v
  BY DEF ExecInv, TypeOK
<1>2. Calm(s)
  BY <1>1 DEF Calm, Active, Sending, Answered, Settled
<1> QED
  BY <1>2, OneCalm

LEMMA InitReserve == Init => ReserveInv
<1> SUFFICES ASSUME Init PROVE ReserveInv
  OBVIOUS
<1>1. \A c \in Contract : row[c].state \notin ReservationStates
  BY DEF Init, NewRow, ReservationStates
<1>2. \A s \in Server : server[s].pc = "down"
  BY SettleIs DEF Init, PC
<1>3. wire = {}
  BY DEF Init
<1> QED
  BY <1>1, <1>2, <1>3 DEF ReserveInv, UnderWayInv, PendingKeepsReservation, ReservationExclusive,
     Active, Sending, Answered, Settled, Pending

LEMMA StartupReserve ==
  ASSUME ExecInv, ReserveInv, NEW s \in Server, Boot(s) \/ ReconcileNext(s) \/ Serve(s) \/ Crash(s)
  PROVE  ReserveInv'
<1>0. server[s] \in ServerState /\ Fits(server[s], row) /\ UNCHANGED wire
  BY DEF ExecInv, TypeOK, ServersInv, Boot, ReconcileNext, Serve, Crash
<1>d. Settle("down").pc = "down"
  BY SettleIs DEF PC
<1>1. CASE Boot(s)
  <2> DEFINE todo == {<<c, row[c].version>> : c \in {d \in Contract : row[d].state \in InterruptedStates}}
             v == [Settle("boot") EXCEPT !.todo = todo]
  <2>1. v.pc = "boot" /\ server' = [server EXCEPT ![s] = v] /\ row' = row
    BY <1>1, SettleIs DEF PC, ServerState, Boot
  <2> HIDE DEF v
  <2> QED
    BY <1>0, <2>1, AtRestKeeps DEF RowsHold
<1>2. CASE ReconcileNext(s)
  <2>0. PICK t \in server[s].todo : Reconcile(s, t[1], t[2])
    BY <1>2 DEF ReconcileNext
  <2> DEFINE c == t[1]
             v == [server[s] EXCEPT !.todo = @ \ {<<t[1], t[2]>>}]
  <2>1. c \in Contract /\ server[s].pc = "boot"
    BY <1>0, <1>2 DEF ServerState, ReconcileNext
  <2>2. CASE row[c].version = t[2]
    <3>1. row[c].state \in InterruptedStates /\ row' = To(c, "reconciliation")
          /\ server' = [server EXCEPT ![s] = v]
      BY <1>0, <2>0, <2>2 DEF Fits, Reconcile
    <3>2. Advances(c, "reconciliation")
      BY <2>1, <3>1, ToAdvances DEF RecoveryState, ExecInv
    <3>3. RowsHold
      BY <2>1, <3>1, <3>2 DEF RowsHold, ReservationStates, InterruptedStates, RecoveryState
    <3>4. v.pc = "boot"
      BY <1>0, <2>1 DEF ServerState
    <3> HIDE DEF v
    <3> QED
      BY <1>0, <3>1, <3>3, <3>4, AtRestKeeps
  <2>3. CASE row[c].version # t[2]
    <3>1. server' = [server EXCEPT ![s] = Settle("down")] /\ row' = row
      BY <2>0, <2>3 DEF Reconcile
    <3> QED
      BY <1>0, <1>d, <3>1, AtRestKeeps DEF RowsHold
  <2> QED
    BY <2>2, <2>3
<1>3. CASE Serve(s)
  <2> DEFINE v == [server[s] EXCEPT !.pc = "idle"]
  <2>1. v.pc = "idle" /\ server' = [server EXCEPT ![s] = v] /\ row' = row
    BY <1>0, <1>3 DEF Serve, Goto, ServerState
  <2> HIDE DEF v
  <2> QED
    BY <1>0, <2>1, AtRestKeeps DEF RowsHold
<1>4. CASE Crash(s)
  BY <1>0, <1>4, <1>d, AtRestKeeps DEF RowsHold, Crash
<1> QED
  BY <1>1, <1>2, <1>3, <1>4

LEMMA BeginReserve ==
  ASSUME ExecInv, ReserveInv, NEW s \in Server, NEW c \in Contract, NEW kind \in Kind, Begin(s, c, kind)
  PROVE  ReserveInv'
<1> DEFINE v == [Settle("gate") EXCEPT !.cid = c, !.kind = kind, !.version = row[c].version]
<1>1. v.pc = "gate" /\ v.reply = "none"
  BY SettleIs DEF PC, ServerState
<1>2. server' = [server EXCEPT ![s] = v] /\ UNCHANGED <<row, wire>>
  BY DEF Begin
<1> HIDE DEF v
<1> QED
  BY <1>1, <1>2, AtRestKeeps DEF RowsHold

\* A refused attempt or a recorded outcome.
LEMMA ReturnReserve ==
  ASSUME ExecInv, ReserveInv, NEW s \in Server,
         \/ RefuseClass(s) \/ RaiseBeforeGate(s) \/ (EnterGate(s) /\ ~GateOpens(s)) \/ Finish(s)
  PROVE  ReserveInv'
<1>1. RowsHold
  <2>1. CASE RefuseClass(s) /\ row' # row
    <3> DEFINE c == server[s].cid
    <3>1. c \in Contract /\ row[c].state = "prepared" /\ row' = To(c, "failed")
      BY <2>1 DEF RefuseClass, Matches, ExecInv, ServersInv, Fits
    <3>2. Advances(c, "failed")
      BY <3>1, ToAdvances DEF ExecInv, RecoveryState
    <3>3. ~Pending(c)
      BY <3>1 DEF ReserveInv, PendingKeepsReservation, ReservationStates
    <3> QED
      BY <3>1, <3>2, <3>3 DEF RowsHold, ReservationStates, RecoveryState
  <2>2. CASE Finish(s) /\ StillMine(s)
    <3> DEFINE c == server[s].cid
               st == server[s].verdict
    <3>1. /\ c \in Contract /\ Advances(c, st) /\ st \in RecoveryState
          /\ row[c].state \in ReservationStates /\ server[s].pc = "finish"
      BY <2>2, FinishIs DEF InFlight, ReservationStates
    <3>2. st \notin ReservationStates => ~Pending(c)
      BY <2>2, <3>1 DEF ReserveInv, UnderWayInv, Settled, ReservationStates
    <3> QED
      BY <3>1, <3>2 DEF RowsHold
  <2> QED
    BY <2>1, <2>2, FinishIs DEF RowsHold, RaiseBeforeGate, EnterGate
<1>2. Return(s) /\ UNCHANGED wire
  BY DEF RefuseClass, RaiseBeforeGate, EnterGate, Finish
<1>3. Settle("idle").pc = "idle"
  BY SettleIs DEF PC
<1> QED
  BY <1>1, <1>2, <1>3, AtRestKeeps DEF Return

\* The gate opens for a contract that holds no reservation, so nothing of it is
\* under way, and only if no other contract has its target.
LEMMA GateReserve ==
  ASSUME ExecInv, ExecInv', ReserveInv, NEW s \in Server, EnterGate(s), GateOpens(s)
  PROVE  ReserveInv'
<1> USE DEF ExecInv, ReserveInv
<1> DEFINE c == server[s].cid
           k == server[s].kind
           n == row[c].version + 1
           v == [server[s] EXCEPT !.pc = "pre", !.version = n]
<1>0. /\ server[s] \in ServerState /\ c \in Contract /\ k \in Kind
      /\ row[c].version \in Nat /\ server[s].pc = "gate"
  BY DEF TypeOK, ServersInv, Fits, EnterGate, ServerState, Row
<1>1. /\ row[c].state = IF k = "forward" THEN "prepared" ELSE "verified"
      /\ row' = To(c, InFlight(k)) /\ server' = [server EXCEPT ![s] = v]
      /\ UNCHANGED wire /\ TargetFree(c)
  BY DEF EnterGate, GateOpens, Matches
<1>2. v.pc = "pre" /\ v.cid = c /\ v.kind = k /\ v.reply = "none"
  <2>1. server[s].reply = "none"
    BY <1>0 DEF UnderWayInv
  <2> HIDE DEF n
  <2> QED
    BY <1>0, <2>1 DEF ServerState
<1> HIDE DEF v
<1>3. Advances(c, InFlight(k)) /\ InFlight(k) \in InterruptedStates
  BY <1>0, <1>1, ToAdvances DEF InFlight, RecoveryState, InterruptedStates
<1>4. ~Pending(c)
  BY <1>0, <1>1 DEF PendingKeepsReservation, ReservationStates
<1>5. \A t \in Server : server'[t] = IF t = s THEN v ELSE server[t]
  BY <1>1 DEF TypeOK
<1>6. \A d \in Contract : d # c => (Pending(d)' <=> Pending(d))
  BY <1>1, <1>2, <1>5, <1>0 DEF Pending
<1>7. ReservationExclusive'
  BY <1>0, <1>1, <1>3 DEF Advances, ReservationExclusive, TargetFree
<1>8. PendingKeepsReservation'
  BY <1>0, <1>3, <1>6 DEF Advances, PendingKeepsReservation, ReservationStates, InterruptedStates
<1>9. UnderWayInv'
  <2>1. \A t, u \in Server :
          Active(t)' /\ Active(u)' /\ server'[t].cid = server'[u].cid => t = u
    BY <1>2, <1>4, <1>5 DEF Active, Pending, UnderWayInv
  <2>2. \A r, q \in wire' : r.cid = q.cid => r = q
    BY <1>1 DEF UnderWayInv
  <2>3. \A t \in Server : server'[t].pc = "gate" \/ Sending(t)' => server'[t].reply = "none"
    BY <1>2, <1>5 DEF UnderWayInv, Sending
  <2>4. ASSUME NEW t \in Server, Sending(t)' \/ Answered(t)'
        PROVE  ~OnWire(server[t].cid)'
    <3>1. ~OnWire(server'[t].cid)
      BY <1>2, <1>4, <1>5, <2>4 DEF UnderWayInv, OnWire, Pending, Sending, Answered
    <3> QED
      BY <1>1, <3>1 DEF OnWire
  <2>5. ASSUME NEW t \in Server, Settled(t)', StillMine(t)'
        PROVE  ~Pending(server[t].cid)'
    <3>1. t # s /\ server'[t] = server[t]
      BY <1>2, <1>5, <2>5 DEF Settled
    <3>2. Settled(t) /\ Fits(server[t], row) /\ server[t].cid \in Contract /\ server[t].pc \in PastGate
      BY <2>5, <3>1 DEF ServersInv, Fits, Settled, PastGate
    <3>3. server[t].cid # c
      <4>1. server[t].version = row'[server[t].cid].version
        BY <2>5, <3>1 DEF StillMine, Matches
      <4>2. server[t].version <= row[server[t].cid].version /\ server[t].version \in Nat
        BY <3>2 DEF Fits, TypeOK, ServerState
      <4> QED
        BY <1>0, <1>3, <4>1, <4>2 DEF Advances
    <3>4. StillMine(t)
      BY <1>3, <2>5, <3>1, <3>2, <3>3 DEF StillMine, Matches, Advances
    <3>5. PICK d \in Contract : d = server[t].cid /\ ~Pending(d)'
      BY <1>6, <3>2, <3>3, <3>4 DEF UnderWayInv
    <3> QED
      BY <3>1, <3>5 DEF Pending
  <2> QED
    BY <2>1, <2>2, <2>3, <2>4, <2>5 DEF UnderWayInv
<1> QED
  BY <1>7, <1>8, <1>9


LEMMA SendReserve ==
  ASSUME ExecInv, ReserveInv, NEW s \in Server, Send(s) PROVE ReserveInv'
<1> USE DEF ExecInv, ReserveInv
<1> DEFINE c == server[s].cid
           k == server[s].kind
           v == [server[s] EXCEPT !.pc = "wait"]
           r == [cid |-> c, kind |-> k, slot |-> server[s].pre.slot,
                 descr |-> IF k = "forward" THEN Want[c] ELSE row[c].snap.obj.descr]
<1>0. server[s] \in ServerState /\ c \in Contract /\ server[s].pc = "send"
  BY DEF TypeOK, ServersInv, Fits, Send, PastGate
<1>1. wire' = wire \cup {r} /\ server' = [server EXCEPT ![s] = v] /\ UNCHANGED row
  BY DEF Send, Goto
<1>2. /\ v.pc = "wait" /\ v.cid = c /\ v.reply = "none" /\ r.cid = c
  BY <1>0 DEF ServerState, UnderWayInv, Sending
<1> HIDE DEF v, r
<1>3. \A t \in Server : server'[t] = IF t = s THEN v ELSE server[t]
  BY <1>1 DEF TypeOK
<1>4. /\ ~OnWire(c) /\ Pending(c)
      /\ \A t \in Server : t # s /\ Active(t) => server[t].cid # c
  BY <1>0 DEF UnderWayInv, Sending, Active, Pending
<1>5. /\ \A d \in Contract : Pending(d)' => Pending(d)
      /\ \A d \in Contract : d # c /\ OnWire(d)' => OnWire(d)
  BY <1>0, <1>1, <1>2, <1>3, <1>4 DEF Pending, OnWire
<1>6. ReservationExclusive' /\ PendingKeepsReservation'
  BY <1>1, <1>5 DEF ReservationExclusive, PendingKeepsReservation
<1>7. UnderWayInv'
  <2>1. \A t, u \in Server :
          Active(t)' /\ Active(u)' /\ server'[t].cid = server'[u].cid => t = u
    BY <1>0, <1>2, <1>3, <1>4 DEF Active, UnderWayInv
  <2>2. \A q, p \in wire' : q.cid = p.cid => q = p
    BY <1>1, <1>2, <1>4 DEF UnderWayInv, OnWire
  <2>3. \A t \in Server : server'[t].pc = "gate" \/ Sending(t)' => server'[t].reply = "none"
    BY <1>2, <1>3 DEF UnderWayInv, Sending
  <2>4. ASSUME NEW t \in Server, Sending(t)' \/ Answered(t)'
        PROVE  ~OnWire(server[t].cid)'
    <3>1. t # s /\ server'[t] = server[t] /\ (Sending(t) \/ Answered(t))
      BY <1>2, <1>3, <2>4 DEF Sending, Answered
    <3>2. server[t].cid \in Contract /\ server[t].cid # c /\ ~OnWire(server[t].cid)
      BY <1>4, <3>1 DEF ServersInv, Fits, PastGate, Sending, Answered, Active, UnderWayInv
    <3>3. PICK d \in Contract : d = server'[t].cid /\ ~OnWire(d)'
      BY <1>5, <3>1, <3>2
    <3> QED
      BY <3>3 DEF OnWire
  <2>5. ASSUME NEW t \in Server, Settled(t)', StillMine(t)'
        PROVE  ~Pending(server[t].cid)'
    <3>1. server'[t] = server[t] /\ Settled(t) /\ StillMine(t)
      BY <1>1, <1>2, <1>3, <2>5 DEF Settled, StillMine, Matches
    <3>2. server[t].cid \in Contract /\ ~Pending(server[t].cid)
      BY <3>1 DEF ServersInv, Fits, PastGate, Settled, UnderWayInv
    <3>3. PICK d \in Contract : d = server'[t].cid /\ ~Pending(d)'
      BY <1>5, <3>1, <3>2
    <3> QED
      BY <3>3 DEF Pending
  <2> QED
    BY <2>1, <2>2, <2>3, <2>4, <2>5 DEF UnderWayInv
<1> QED
  BY <1>6, <1>7

\* An attempt ends in a certain outcome only without a request under way; an
\* unanswered one ends in doubt.
LEMMA ConcludeReserve ==
  ASSUME ExecInv, ReserveInv, NEW s \in Server, server[s].pc \in PastGate,
         NEW known \in EffectKnowledge \cup {"none"}, NEW verdict \in Verdicts(server[s].kind),
         Sending(s) \/ Answered(s) \/ verdict = "reconciliation",
         Conclude(s, known, verdict), UNCHANGED <<row, wire>>
  PROVE  ReserveInv'
<1>1. PICK v \in ServerState :
        /\ server' = [server EXCEPT ![s] = v]
        /\ v.pc = "finish" /\ v.verdict = verdict /\ v.cid = server[s].cid
  BY ConcludeIs
<1>2. server'[s] = v
  BY <1>1 DEF ExecInv, TypeOK
<1>3. verdict # "reconciliation" => \E d \in Contract : d = server[s].cid /\ ~Pending(d)'
  BY <1>1, EndsQuietly
<1>4. Calm(s)
  BY <1>1, <1>2, <1>3 DEF Calm, Active, Sending, Answered, Settled
<1> QED
  BY <1>1, <1>4, OneCalm DEF RowsHold

LEMMA ExchangeReserve ==
  ASSUME ExecInv, ReserveInv, NEW s \in Server,
         ReadPre(s) \/ SendRefused(s) \/ Receive(s) \/ Timeout(s) \/ ReadPost(s)
  PROVE  ReserveInv'
<1> USE DEF ExecInv
<1>0. server[s].pc \in PastGate /\ server[s] \in ServerState /\ Fits(server[s], row)
      /\ server[s].kind \in Kind /\ server[s].cid \in Contract /\ UNCHANGED <<row, wire>>
  BY DEF ReadPre, SendRefused, Receive, Timeout, ReadPost, PastGate,
         ServersInv, TypeOK, Fits, ServerState
<1>c. ASSUME NEW k \in {"proven_none", "ambiguous", "verified_failure"},
             NEW known \in EffectKnowledge \cup {"none"},
             Sending(s) \/ Answered(s) \/ k = "ambiguous",
             Conclude(s, known, ClassifyFault(server[s].kind = "rollback", k))
      PROVE  ReserveInv'
  <2>1. /\ ClassifyFault(server[s].kind = "rollback", k) \in Verdicts(server[s].kind)
        /\ k = "ambiguous" => ClassifyFault(server[s].kind = "rollback", k) = "reconciliation"
    BY <1>0, ClassifyIs DEF EffectKnowledge
  <2> QED
    BY <1>0, <1>c, <2>1, ConcludeReserve
<1>1. CASE ReadPre(s)
  <2>0. Sending(s)
    BY <1>1 DEF ReadPre, Sending
  <2>1. CASE Conclude(s, "none", ClassifyFault(server[s].kind = "rollback", "proven_none"))
    BY <1>c, <2>0, <2>1
  <2>2. CASE ~Conclude(s, "none", ClassifyFault(server[s].kind = "rollback", "proven_none"))
    <3>1. PICK v \in ServerState :
                 /\ server' = [server EXCEPT ![s] = v]
                 /\ v.pc = "send" /\ v.reply = server[s].reply /\ v.cid = server[s].cid
      BY <1>1, <2>2, ReadPreIs
    <3>2. server'[s] = v /\ server[s].pc = "pre" /\ server[s].reply = "none"
      BY <1>1, <2>0, <3>1 DEF TypeOK, ReadPre, ReserveInv, UnderWayInv
    <3>3. Calm(s)
      BY <3>1, <3>2 DEF Calm, Active, Sending, Answered, Settled
    <3> QED
      BY <1>0, <3>1, <3>3, OneCalm DEF RowsHold
  <2> QED
    BY <2>1, <2>2
<1>2. CASE SendRefused(s)
  BY <1>2, <1>c DEF SendRefused, EffectKnowledge, Sending
<1>3. CASE Receive(s)
  <2>1. CASE server[s].reply = "2xx" /\ Goto(s, "post")
    <3> DEFINE v == [server[s] EXCEPT !.pc = "post"]
    <3>1. v.pc = "post" /\ v.cid = server[s].cid /\ server' = [server EXCEPT ![s] = v]
      BY <1>0, <2>1 DEF ServerState, Goto
    <3> HIDE DEF v
    <3>2. server'[s] = v /\ Answered(s)
      BY <1>3, <3>1 DEF TypeOK, Receive, Answered
    <3>3. \E d \in Contract : d = server[s].cid /\ ~Pending(d)'
      BY <1>0, <3>1, <3>2, EndsQuietly
    <3>4. Calm(s)
      BY <3>1, <3>2, <3>3 DEF Calm, Active, Sending, Answered, Settled
    <3> QED
      BY <1>0, <3>1, <3>4, OneCalm DEF RowsHold
  <2>2. CASE ~(server[s].reply = "2xx" /\ Goto(s, "post"))
    BY <1>3, <1>c, <2>2, ReceiveIs DEF Receive, EffectKnowledge, Answered
  <2> QED
    BY <2>1, <2>2
<1>4. CASE Timeout(s)
  BY <1>4, <1>c DEF Timeout, EffectKnowledge
<1>5. CASE ReadPost(s)
  <2>1. CASE Conclude(s, "none", "reconciliation")
    BY <1>0, <2>1, ConcludeReserve DEF Verdicts
  <2>2. CASE ~Conclude(s, "none", "reconciliation")
    <3>1. PICK v \in ServerState :
                 /\ server' = [server EXCEPT ![s] = v] /\ v.pc = "finish"
                 /\ v.cid = server[s].cid /\ v.kind = server[s].kind /\ v.version = server[s].version
      BY <1>5, <2>2, ReadPostIs
    <3>2. server'[s] = v /\ Settled(s)
      BY <1>5, <3>1 DEF TypeOK, Settled, ReadPost
    <3>3. Calm(s)
      BY <3>1, <3>2 DEF Calm, Active, Sending, Answered
    <3> QED
      BY <1>0, <3>1, <3>3, OneCalm DEF RowsHold
  <2> QED
    BY <2>1, <2>2
<1> QED
  BY <1>1, <1>2, <1>3, <1>4, <1>5

\* The request that is answered was the only one of its contract.
LEMMA ApplianceReserve ==
  ASSUME ExecInv, ReserveInv, NEW r \in wire, Apply(r) \/ Ignore(r) PROVE ReserveInv'
<1>1. r \in Request /\ wire' = wire \ {r} /\ UNCHANGED row
  BY DEF Apply, Ignore, ExecInv, TypeOK
<1>2. PICK reply \in Reply : Answer(r, reply)
  BY DEF Apply, Ignore, Reply
<1>3. /\ OnlyReplies
      /\ \A t \in Server : server'[t].reply = IF t \in Waiting(r) THEN reply ELSE server[t].reply
  BY <1>2, AnswerIs DEF ExecInv
<1>4. r.cid \in Contract /\ \A d \in Contract : d = r.cid => ~OnWire(d)'
  BY <1>1 DEF Request, OnWire, ReserveInv, UnderWayInv
<1>5. ASSUME NEW t \in Server PROVE Calm(t)
  <2>1. CASE t \in Waiting(r)
    <3>1. server[t].pc = "wait" /\ server[t].cid = r.cid
      BY <2>1 DEF Waiting
    <3> QED
      BY <1>3, <1>4, <3>1 DEF Calm, OnlyReplies, Active, Sending, Answered, Settled
  <2>2. CASE t \notin Waiting(r)
    BY <1>3, <2>2 DEF Calm, OnlyReplies, Active, Sending, Answered, Settled, ReserveInv, UnderWayInv
  <2> QED
    BY <2>1, <2>2
<1> QED
  BY <1>1, <1>5, CalmKeeps DEF RowsHold

\* An edit, a preparation, or the operator's resolution: no server moves.
LEMMA OthersReserve ==
  ASSUME ExecInv, ReserveInv, UNCHANGED <<wire, server>>, RowsHold PROVE ReserveInv'
<1>1. \A t \in Server : Calm(t)
  BY DEF Calm, Active, Sending, Answered, Settled, ReserveInv, UnderWayInv
<1> QED
  BY <1>1, CalmKeeps

LEMMA NextKeepsReserve ==
  ASSUME PatientOperator, ~ResetAfterSend, ExecInv, ExecInv', ReserveInv, [Next]_vars
  PROVE  ReserveInv'
<1>1. ASSUME NEW c \in Contract, Prepare(c) PROVE ReserveInv'
  <2>1. row[c].state = "preparing" /\ Advances(c, "prepared") /\ UNCHANGED <<wire, server>>
    BY <1>1, PrepareIs DEF Prepare
  <2>2. ~Pending(c)
    BY <2>1 DEF ReserveInv, PendingKeepsReservation, ReservationStates
  <2> QED
    BY <2>1, <2>2, OthersReserve DEF RowsHold, RecoveryState, ReservationStates
<1>2. ASSUME NEW c \in Contract, ResolveReconciliation(c) PROVE ReserveInv'
  <2>1. PICK st \in RecoveryState : row[c].state = "reconciliation" /\ Advances(c, st)
    BY <1>2, ResolveIs
  <2>2. ~Pending(c) /\ UNCHANGED <<wire, server>>
    BY <1>2 DEF ResolveReconciliation
  <2> QED
    BY <2>1, <2>2, OthersReserve DEF RowsHold, ReservationStates
<1>3. ASSUME NEW s \in Server, Boot(s) \/ ServerStep(s) \/ Crash(s) PROVE ReserveInv'
  <2>1. ~ConnectionLost(s)
    BY DEF ConnectionLost
  <2> QED
    BY <1>3, <2>1, StartupReserve, ReturnReserve, GateReserve, SendReserve, ExchangeReserve
    DEF ServerStep
<1>4. ASSUME NEW s \in Server, NEW c \in Contract, NEW k \in Kind, Begin(s, c, k) PROVE ReserveInv'
  BY <1>4, BeginReserve
<1>5. ASSUME NEW r \in wire, Apply(r) \/ Ignore(r) PROVE ReserveInv'
  BY <1>5, ApplianceReserve
<1>6. CASE AdminEdit
  BY <1>6, OthersReserve DEF AdminEdit, RowsHold
<1>7. CASE UNCHANGED vars
  BY <1>7, OthersReserve DEF vars, RowsHold
<1> QED
  BY <1>1, <1>2, <1>3, <1>4, <1>5, <1>6, <1>7 DEF Next

LEMMA ReserveInvariance == PatientOperator /\ ~ResetAfterSend /\ Spec => []ReserveInv
<1>1. ASSUME PatientOperator, ~ResetAfterSend
      PROVE  ExecInv /\ ExecInv' /\ ReserveInv /\ [Next]_vars => ReserveInv'
  BY <1>1, NextKeepsReserve
<1>2. CASE PatientOperator /\ ~ResetAfterSend
  <2>1. ExecInv /\ ExecInv' /\ ReserveInv /\ [Next]_vars => ReserveInv'
    BY <1>1, <1>2
  <2>2. Spec => []ReserveInv
    BY <2>1, InitReserve, ExecInvariance, PTL DEF Spec
  <2> QED
    BY <2>2
<1> QED
  BY <1>2

\* If an operator resolves doubt only when nothing can land any more, and no
\* connection breaks after the request was written, then a request under way,
\* or a server on its way to one, always has its target reserved: ambiguity,
\* crashes and startup passes of other servers never free it (executor.py,
\* store.transition's target check).
THEOREM RequestsUnderWayReserve ==
  PatientOperator /\ ~ResetAfterSend /\ Spec => []PendingKeepsReservation
<1>1. ReserveInv => PendingKeepsReservation
  BY DEF ReserveInv
<1> QED
  BY <1>1, ReserveInvariance, PTL

-----------------------------------------------------------------------------
(* Whatever the operator and the connection do: how contracts move *)

\* A step moves at most one contract, by a transition of the recovery state
\* machine, and takes a reservation only if its target is free.
LEMMA RowSteps ==
  ASSUME ExecInv, [Next]_vars, row' # row
  PROVE  \E c \in Contract, st \in RecoveryState :
           /\ Advances(c, st) /\ Legal(c, st)
           /\ st \in ReservationStates /\ row[c].state \notin ReservationStates => TargetFree(c)
<1> USE DEF ExecInv
<1>1. ASSUME NEW c \in Contract, Prepare(c) PROVE Advances(c, "prepared") /\ Legal(c, "prepared")
  BY <1>1, PrepareIs
<1>2. ASSUME NEW s \in Server, ReconcileNext(s)
      PROVE  \E c \in Contract : /\ row[c].state \in InterruptedStates
                                 /\ Advances(c, "reconciliation") /\ Legal(c, "reconciliation")
  <2>1. PICK t \in server[s].todo : Reconcile(s, t[1], t[2])
    BY <1>2 DEF ReconcileNext
  <2>2. t[1] \in Contract /\ Fits(server[s], row)
    BY DEF TypeOK, ServerState, ServersInv
  <2>3. row[t[1]].state \in InterruptedStates /\ row' = To(t[1], "reconciliation")
    BY <2>1, <2>2 DEF Fits, Reconcile
  <2>4. Advances(t[1], "reconciliation")
    BY <2>2, <2>3, ToAdvances DEF RecoveryState
  <2> QED
    BY <2>2, <2>3, <2>4 DEF Legal, InterruptedStates
<1>3. ASSUME NEW s \in Server, RefuseClass(s)
      PROVE  \E c \in Contract : Advances(c, "failed") /\ Legal(c, "failed")
  <2> DEFINE c == server[s].cid
  <2>1. c \in Contract /\ row[c].state = "prepared" /\ row' = To(c, "failed")
    BY <1>3 DEF RefuseClass, Matches, ServersInv, Fits
  <2>2. Advances(c, "failed")
    BY <2>1, ToAdvances DEF RecoveryState
  <2> QED
    BY <2>1, <2>2 DEF Legal
<1>4. ASSUME NEW s \in Server, EnterGate(s)
      PROVE  \E c \in Contract, st \in RecoveryState : Advances(c, st) /\ Legal(c, st) /\ TargetFree(c)
  <2> DEFINE c == server[s].cid
             k == server[s].kind
  <2>1. /\ c \in Contract /\ k \in Kind /\ TargetFree(c) /\ row' = To(c, InFlight(k))
        /\ row[c].state = IF k = "forward" THEN "prepared" ELSE "verified"
    BY <1>4 DEF EnterGate, GateOpens, Matches, ServersInv, Fits, TypeOK, ServerState
  <2>2. InFlight(k) \in RecoveryState /\ InFlight(k) # "reconciliation"
    BY DEF InFlight, RecoveryState
  <2>3. Advances(c, InFlight(k)) /\ Legal(c, InFlight(k))
    BY <2>1, <2>2, ToAdvances DEF Legal, InFlight, Kind
  <2> QED
    BY <2>1, <2>2, <2>3
<1>5. ASSUME NEW s \in Server, Finish(s)
      PROVE  \E c \in Contract, st \in RecoveryState :
               Advances(c, st) /\ Legal(c, st) /\ row[c].state \in InterruptedStates
  <2>1. StillMine(s)
    BY <1>5, FinishIs
  <2>2. row[server[s].cid].state \in InterruptedStates
    BY <1>5, <2>1, FinishIs DEF InFlight, InterruptedStates
  <2> QED
    BY <1>5, <2>1, <2>2, FinishIs
<1>6. ASSUME NEW c \in Contract, ResolveReconciliation(c)
      PROVE  \E st \in RecoveryState :
               Advances(c, st) /\ Legal(c, st) /\ row[c].state = "reconciliation"
  BY <1>6, ResolveIs
<1>7. \/ \E c \in Contract : Prepare(c) \/ ResolveReconciliation(c)
      \/ \E s \in Server : ReconcileNext(s) \/ RefuseClass(s) \/ EnterGate(s) \/ Finish(s)
  BY DEF Next, vars, ServerStep, Boot, Serve, RaiseBeforeGate, ReadPre, Send, SendRefused, Receive,
         Timeout, ConnectionLost, ReadPost, Crash, Begin, Apply, Ignore, AdminEdit
<1> QED
  BY <1>1, <1>2, <1>3, <1>4, <1>5, <1>6, <1>7
  DEF RecoveryState, ReservationStates, InterruptedStates

\* A contract moves by the transitions of the closed state machine alone, and
\* out of RECONCILIATION by the manual ones.
MovesLegally ==
  \A c \in Contract : row'[c].state # row[c].state =>
    RequireTransition(row[c].state, row'[c].state, row[c].state = "reconciliation")

\* Every state change that executors, startup passes and operators make to a
\* contract, in any interleaving, is an entry of LEGAL_TRANSITIONS
\* (state_machine.py), with manual_only kept.
THEOREM EveryMoveIsLegal == Spec => [][MovesLegally]_vars
<1>1. ExecInv /\ [Next]_vars => [MovesLegally]_vars
  <2> SUFFICES ASSUME ExecInv, [Next]_vars, row' # row PROVE MovesLegally
    BY DEF MovesLegally
  <2>1. PICK c \in Contract, st \in RecoveryState : Advances(c, st) /\ Legal(c, st)
    BY RowSteps
  <2>2. RequireTransition(row[c].state, st, row[c].state = "reconciliation")
    BY <2>1 DEF Legal, RequireTransition, AutomaticTransitions, ManualTransitions
  <2>3. \A d \in Contract : row'[d].state # row[d].state => d = c /\ row'[d].state = st
    BY <2>1 DEF Advances
  <2> QED
    BY <2>2, <2>3 DEF MovesLegally
<1> QED
  BY <1>1, ExecInvariance, PTL DEF Spec

\* Two contracts never hold one target together, even where an impatient
\* operator or a broken connection frees a target too early: the gate
\* (store.transition) admits a contract only to a target nobody holds.
THEOREM OneReservationPerTarget == Spec => []ReservationExclusive
<1>1. Init => ReservationExclusive
  BY DEF Init, NewRow, ReservationStates, ReservationExclusive
<1>2. ExecInv /\ ReservationExclusive /\ [Next]_vars => ReservationExclusive'
  <2> SUFFICES ASSUME ExecInv, ReservationExclusive, [Next]_vars, row' # row
               PROVE  ReservationExclusive'
    BY DEF ReservationExclusive
  <2>1. PICK c \in Contract, st \in RecoveryState :
          /\ Advances(c, st)
          /\ st \in ReservationStates /\ row[c].state \notin ReservationStates => TargetFree(c)
    BY RowSteps
  <2> QED
    BY <2>1 DEF Advances, TargetFree, ReservationExclusive
<1> QED
  BY <1>1, <1>2, ExecInvariance, PTL DEF Spec


-----------------------------------------------------------------------------
(* A request lands on what its server verified, and outcomes are true *)

LEMMA InitTruth == Init => TruthInv
<1> SUFFICES ASSUME Init PROVE TruthInv
  OBVIOUS
<1>1. \A c \in Contract : row[c].state = "preparing" /\ landed[c] = {}
  BY DEF Init, NewRow
<1>2. \A s \in Server : server[s].pc = "down"
  BY SettleIs DEF Init, PC
<1>3. wire = {}
  BY DEF Init
<1> QED
  BY <1>1, <1>2, <1>3 DEF TruthInv, RequestInv, LocalsOK, FreshInv, EffectInv, OutcomeInv

\* What took effect was sent, and what was sent is beyond its gate.
LEMMA LandedMeans ==
  ASSUME ExecInv, RequestInv, NEW c \in Contract
  PROVE  /\ \A k \in landed[c] : k \in Kind /\ sends[c][k] = 1 /\ Beyond(c, k)
         /\ \A k \in Kind : sends[c][k] = 1 => Beyond(c, k)
         /\ row[c].state \in {"preparing", "prepared"} => landed[c] = {}
         /\ ~Beyond(c, "rollback") => landed[c] \subseteq {"forward"}
<1>1. /\ \A k \in landed[c] : k \in Kind /\ sends[c][k] = 1 /\ Beyond(c, k)
      /\ \A k \in Kind : sends[c][k] = 1 => Beyond(c, k)
  BY DEF ExecInv, TypeOK, SendInv, RequestInv
<1> QED
  BY <1>1 DEF Beyond, Kind

\* A row moves on with its snapshot; its sealed reading changes only when
\* nothing of it is under way.
RowsTrue ==
  \/ row' = row
  \/ \E c \in Contract, st \in RecoveryState :
       /\ Advances(c, st) /\ Legal(c, st) /\ st # "prepared" /\ row'[c].snap = row[c].snap
       /\ row'[c].seal = row[c].seal \/ ~Pending(c)

LEMMA RowsTrueMeans ==
  ASSUME ExecInv, RowsTrue
  PROVE  /\ \A c \in Contract : row'[c].snap = row[c].snap
         /\ \A c \in Contract, k \in Kind :
              Pending(c) => /\ row'[c].snap = row[c].snap /\ row'[c].seal = row[c].seal
                            /\ Expected(c, k)' = Expected(c, k)
         /\ \A c \in Contract, k \in Kind : Beyond(c, k) => Beyond(c, k)'
         /\ \A c \in Contract : row'[c].state \in {"executing", "reconciliation"} /\ ~Beyond(c, "rollback")' =>
              row[c].state \in {"prepared", "executing", "reconciliation"}
         /\ \A c \in Contract : row'[c].state # "preparing" => row[c].state # "preparing"
         /\ \A v \in ServerState : Fits(v, row) /\ v.pc \in PastGate /\ v.version = row'[v.cid].version =>
              row'[v.cid] = row[v.cid]
<1>1. CASE row' = row
  BY <1>1 DEF Expected, Beyond
<1>2. ASSUME NEW c \in Contract, NEW st \in RecoveryState, Advances(c, st), Legal(c, st),
             st # "prepared", row'[c].snap = row[c].snap, row'[c].seal = row[c].seal \/ ~Pending(c)
      PROVE  /\ \A d \in Contract : row'[d].snap = row[d].snap
             /\ \A d \in Contract : Pending(d) => row'[d].snap = row[d].snap /\ row'[d].seal = row[d].seal
             /\ \A d \in Contract, k \in Kind : Beyond(d, k) => Beyond(d, k)'
             /\ \A d \in Contract : row'[d].state \in {"executing", "reconciliation"} /\ ~Beyond(d, "rollback")' =>
                  row[d].state \in {"prepared", "executing", "reconciliation"}
             /\ \A d \in Contract : row'[d].state # "preparing" => row[d].state # "preparing"
             /\ \A v \in ServerState : Fits(v, row) /\ v.pc \in PastGate /\ v.version = row'[v.cid].version =>
                  row'[v.cid] = row[v.cid]
  <2>1. \A d \in Contract : row'[d].snap = row[d].snap
    BY <1>2 DEF Advances
  <2>2. \A d \in Contract : Pending(d) => row'[d].snap = row[d].snap /\ row'[d].seal = row[d].seal
    BY <1>2 DEF Advances
  <2>3. \A d \in Contract, k \in Kind : Beyond(d, k) => Beyond(d, k)'
    BY <1>2, BeyondStays DEF ExecInv
  <2>4. \A d \in Contract : row'[d].state \in {"executing", "reconciliation"} /\ ~Beyond(d, "rollback")' =>
                  row[d].state \in {"prepared", "executing", "reconciliation"}
    BY <1>2 DEF Advances, Legal, Beyond
  <2>5. \A d \in Contract : row'[d].state # "preparing" => row[d].state # "preparing"
    BY <1>2 DEF Advances, Legal
  <2>6. \A v \in ServerState : Fits(v, row) /\ v.pc \in PastGate /\ v.version = row'[v.cid].version =>
                  row'[v.cid] = row[v.cid]
    BY <1>2 DEF Advances, Fits, ExecInv, TypeOK, Row, ServerState
  <2> QED
    BY <2>1, <2>2, <2>3, <2>4, <2>5, <2>6
<1>3. ASSUME NEW c \in Contract, NEW k \in Kind, row'[c].snap = row[c].snap, row'[c].seal = row[c].seal
      PROVE  Expected(c, k)' = Expected(c, k)
  BY <1>3 DEF Expected
<1> QED
  BY <1>1, <1>2, <1>3 DEF RowsTrue

\* What has to be true of a server after a step that neither reads the target
\* nor sends: it has not come closer to sending, and what it concluded holds.
Honest(t) ==
  /\ server'[t].pc \notin {"send", "wait", "post"} \/
       /\ server[t].pc \in (IF server'[t].pc = "post" THEN {"wait", "post"} ELSE {server'[t].pc})
       /\ server'[t].cid = server[t].cid /\ server'[t].kind = server[t].kind
       /\ server'[t].pre = server[t].pre /\ server'[t].reply = server[t].reply
  /\ server'[t].pc = "finish" =>
       \/ server'[t] = server[t]
       \/ \A c \in Contract : c = server'[t].cid /\ StillMine(t)' /\ ~touched[c] => OutcomeOK(c, server'[t])

LEMMA HonestKeeps ==
  ASSUME ExecInv, ExecInv', ReserveInv, TruthInv, RowsTrue, \A t \in Server : Honest(t),
         UNCHANGED <<table, wire, sends, landed, touched>>
  PROVE  TruthInv'
<1> USE DEF TruthInv
<1>1. RequestInv'
  <2>1. \A r \in wire : RequestOK(r)'
    BY RowsTrueMeans DEF RequestInv, RequestOK, ExecInv, TypeOK, Request
  <2>2. ASSUME NEW t \in Server PROVE LocalsOK(t)'
    <3>1. CASE server'[t].pc \in {"send", "wait", "post"}
      <4>1. /\ server[t].pc \in {"send", "wait", "post"} /\ server'[t].cid = server[t].cid /\ server'[t].kind = server[t].kind
            /\ server'[t].pre = server[t].pre /\ server'[t].reply = server[t].reply
            /\ server'[t].pc \in {"send", "wait"} => server[t].pc = server'[t].pc
            /\ server'[t].pc \in {"wait", "post"} => server[t].pc \in {"wait", "post"}
        BY <3>1 DEF Honest
      <4>2. server[t].cid \in Contract
        BY <4>1 DEF ExecInv, ServersInv, Fits, PastGate
      <4>3. LocalsOK(t) /\ row'[server[t].cid].snap = row[server[t].cid].snap
        BY <4>2, RowsTrueMeans DEF RequestInv
      <4> QED
        BY <4>1, <4>2, <4>3 DEF LocalsOK
    <3>2. CASE server'[t].pc \notin {"send", "wait", "post"}
      BY <3>2 DEF LocalsOK
    <3> QED
      BY <3>1, <3>2
  <2> QED
    BY <2>1, <2>2 DEF RequestInv
<1>2. FreshInv'
  <2>1. ASSUME NEW r \in wire, ~touched[r.cid] PROVE AsVerified(r.cid, r.kind, r.slot)'
    <3>1. r.cid \in Contract /\ r.kind \in Kind /\ Pending(r.cid)
      BY DEF ExecInv, TypeOK, Request, Pending
    <3>2. Expected(r.cid, r.kind)' = Expected(r.cid, r.kind)
      BY <3>1, RowsTrueMeans
    <3> QED
      BY <2>1, <3>2 DEF FreshInv, AsVerified
  <2>2. ASSUME NEW t \in Server, server'[t].pc = "send", ~touched[server'[t].cid]
        PROVE  AsVerified(server[t].cid, server[t].kind, server[t].pre.slot)'
    <3>1. /\ server[t].pc = "send" /\ server'[t].cid = server[t].cid /\ server'[t].kind = server[t].kind
          /\ server'[t].pre = server[t].pre
      BY <2>2 DEF Honest
    <3>2. PICK c \in Contract, k \in Kind : c = server[t].cid /\ k = server[t].kind
      BY <3>1 DEF ExecInv, ServersInv, Fits, PastGate, TypeOK, ServerState
    <3>3. Pending(c)
      BY <3>1, <3>2 DEF Pending
    <3>4. Expected(c, k)' = Expected(c, k) /\ AsVerified(c, k, server[t].pre.slot)
      BY <2>2, <3>1, <3>2, <3>3, RowsTrueMeans DEF FreshInv
    <3> QED
      BY <3>1, <3>2, <3>4 DEF AsVerified, Expected
  <2> QED
    BY <2>1, <2>2 DEF FreshInv
<1>3. EffectInv'
  <2> SUFFICES ASSUME NEW c \in Contract, ~touched[c], row'[c].state # "preparing", ~Beyond(c, "rollback")'
               PROVE  EffectOK(c)'
    BY DEF EffectInv
  <2>1. /\ ~Beyond(c, "rollback") /\ row'[c].snap = row[c].snap
        /\ row'[c].state \in {"executing", "reconciliation"} => row[c].state \in {"prepared", "executing", "reconciliation"}
    BY RowsTrueMeans DEF Kind
  <2>2. row[c].state # "preparing"
    BY RowsTrueMeans
  <2>3. EffectOK(c)
    BY <2>1, <2>2 DEF EffectInv
  <2>4. row[c].state = "prepared" => "forward" \notin landed[c]
    BY LandedMeans
  <2> QED
    BY <2>1, <2>3, <2>4 DEF EffectOK
<1>4. OutcomeInv'
  <2> SUFFICES ASSUME NEW t \in Server, server'[t].pc = "finish", StillMine(t)', ~touched[server'[t].cid]
               PROVE  OutcomeOK(server[t].cid, server[t])'
    BY DEF OutcomeInv
  <2>1. PICK c \in Contract : c = server'[t].cid
    BY DEF ExecInv, ServersInv, Fits, PastGate
  <2>2. OutcomeOK(c, server'[t])
    <3>1. CASE server'[t] = server[t]
      <4>1. server[t] \in ServerState /\ Fits(server[t], row) /\ server[t].pc \in PastGate
        BY <3>1 DEF ExecInv, TypeOK, ServersInv, PastGate
      <4>2. server[t].version = row'[server[t].cid].version
        BY <3>1 DEF StillMine, Matches
      <4>3. row'[c] = row[c]
        BY <2>1, <3>1, <4>1, <4>2, RowsTrueMeans
      <4>4. StillMine(t)
        BY <2>1, <3>1, <4>3 DEF StillMine, Matches
      <4> QED
        BY <2>1, <3>1, <4>4 DEF OutcomeInv
    <3>2. CASE server'[t] # server[t]
      BY <2>1, <3>2 DEF Honest
    <3> QED
      BY <3>1, <3>2
  <2>3. row'[c].snap = row[c].snap
    BY RowsTrueMeans
  <2> QED
    BY <2>1, <2>2, <2>3 DEF OutcomeOK, Readings, Resolves
<1> QED
  BY <1>1, <1>2, <1>3, <1>4


LEMMA OneHonest ==
  ASSUME ExecInv, ExecInv', ReserveInv, TruthInv, RowsTrue,
         NEW s \in Server, NEW v, server' = [server EXCEPT ![s] = v], Honest(s),
         UNCHANGED <<table, wire, sends, landed, touched>>
  PROVE  TruthInv'
<1>1. ASSUME NEW t \in Server, t # s PROVE Honest(t)
  <2>1. server'[t] = server[t]
    BY <1>1 DEF ExecInv, TypeOK
  <2> QED
    BY <2>1 DEF Honest
<1> QED
  BY <1>1, HonestKeeps

LEMMA AtRestTruth ==
  ASSUME ExecInv, ExecInv', ReserveInv, TruthInv, RowsTrue,
         NEW s \in Server, NEW v, server' = [server EXCEPT ![s] = v],
         v.pc \in {"down", "boot", "idle", "gate", "pre"},
         UNCHANGED <<table, wire, sends, landed, touched>>
  PROVE  TruthInv'
<1>1. server'[s] = v
  BY DEF ExecInv, TypeOK
<1>2. Honest(s)
  BY <1>1 DEF Honest
<1> QED
  BY <1>2, OneHonest

LEMMA StartupTruth ==
  ASSUME ExecInv, ExecInv', ReserveInv, TruthInv,
         NEW s \in Server, Boot(s) \/ ReconcileNext(s) \/ Serve(s) \/ Crash(s)
  PROVE  TruthInv'
<1>0. server[s] \in ServerState /\ Fits(server[s], row) /\ UNCHANGED <<table, wire, sends, landed, touched>>
  BY DEF ExecInv, TypeOK, ServersInv, Boot, ReconcileNext, Serve, Crash, history
<1>d. Settle("down").pc = "down"
  BY SettleIs DEF PC
<1>1. CASE Boot(s)
  <2> DEFINE todo == {<<c, row[c].version>> : c \in {d \in Contract : row[d].state \in InterruptedStates}}
             v == [Settle("boot") EXCEPT !.todo = todo]
  <2>1. v.pc = "boot" /\ server' = [server EXCEPT ![s] = v] /\ row' = row
    BY <1>1, SettleIs DEF PC, ServerState, Boot
  <2> HIDE DEF v
  <2> QED
    BY <1>0, <2>1, AtRestTruth DEF RowsTrue
<1>2. CASE ReconcileNext(s)
  <2>0. PICK t \in server[s].todo : Reconcile(s, t[1], t[2])
    BY <1>2 DEF ReconcileNext
  <2> DEFINE c == t[1]
             v == [server[s] EXCEPT !.todo = @ \ {<<t[1], t[2]>>}]
  <2>1. c \in Contract /\ server[s].pc = "boot"
    BY <1>0, <1>2 DEF ServerState, ReconcileNext
  <2>2. CASE row[c].version = t[2]
    <3>1. row[c].state \in InterruptedStates /\ row' = To(c, "reconciliation")
          /\ server' = [server EXCEPT ![s] = v]
      BY <1>0, <2>0, <2>2 DEF Fits, Reconcile
    <3>2. Advances(c, "reconciliation") /\ SameReadings(c)
      BY <2>1, <3>1, ToAdvances DEF RecoveryState, ExecInv
    <3>3. RowsTrue
      BY <2>1, <3>1, <3>2 DEF RowsTrue, SameReadings, Legal, InterruptedStates, RecoveryState
    <3>4. v.pc = "boot"
      BY <1>0, <2>1 DEF ServerState
    <3> HIDE DEF v
    <3> QED
      BY <1>0, <3>1, <3>3, <3>4, AtRestTruth
  <2>3. CASE row[c].version # t[2]
    <3>1. server' = [server EXCEPT ![s] = Settle("down")] /\ row' = row
      BY <2>0, <2>3 DEF Reconcile
    <3> QED
      BY <1>0, <1>d, <3>1, AtRestTruth DEF RowsTrue
  <2> QED
    BY <2>2, <2>3
<1>3. CASE Serve(s)
  <2> DEFINE v == [server[s] EXCEPT !.pc = "idle"]
  <2>1. v.pc = "idle" /\ server' = [server EXCEPT ![s] = v] /\ row' = row
    BY <1>0, <1>3 DEF Serve, Goto, ServerState
  <2> HIDE DEF v
  <2> QED
    BY <1>0, <2>1, AtRestTruth DEF RowsTrue
<1>4. CASE Crash(s)
  BY <1>0, <1>4, <1>d, AtRestTruth DEF RowsTrue, Crash
<1> QED
  BY <1>1, <1>2, <1>3, <1>4

\* An attempt that begins, is refused, enters the gate, or records its outcome.
LEMMA CallTruth ==
  ASSUME ExecInv, ExecInv', ReserveInv, TruthInv, NEW s \in Server,
         \/ \E c \in Contract, k \in Kind : Begin(s, c, k)
         \/ RefuseClass(s) \/ RaiseBeforeGate(s) \/ EnterGate(s) \/ Finish(s)
  PROVE  TruthInv'
<1>0. /\ server[s] \in ServerState
      /\ UNCHANGED <<table, wire, sends, landed, touched>>
      /\ Settle("idle").pc = "idle"
  BY SettleIs DEF ExecInv, TypeOK, Begin, RefuseClass, RaiseBeforeGate, EnterGate, Finish, history, PC
<1>1. ASSUME NEW c \in Contract, NEW k \in Kind, Begin(s, c, k) PROVE TruthInv'
  <2> DEFINE v == [Settle("gate") EXCEPT !.cid = c, !.kind = k, !.version = row[c].version]
  <2>1. v.pc = "gate" /\ server' = [server EXCEPT ![s] = v] /\ row' = row
    BY <1>1, SettleIs DEF PC, ServerState, Begin
  <2> HIDE DEF v
  <2> QED
    BY <1>0, <2>1, AtRestTruth DEF RowsTrue
<1>2. ASSUME Return(s), RowsTrue PROVE TruthInv'
  BY <1>0, <1>2, AtRestTruth DEF Return
<1>3. CASE RefuseClass(s)
  <2>1. RowsTrue
    <3>1. CASE row' # row
      <4> DEFINE c == server[s].cid
      <4>1. c \in Contract /\ row[c].state = "prepared" /\ row' = To(c, "failed")
        BY <1>3, <3>1 DEF RefuseClass, Matches, ExecInv, ServersInv, Fits
      <4>2. Advances(c, "failed") /\ SameReadings(c)
        BY <4>1, ToAdvances DEF ExecInv, RecoveryState
      <4> QED
        BY <4>1, <4>2 DEF RowsTrue, SameReadings, Legal, RecoveryState
    <3> QED
      BY <3>1 DEF RowsTrue
  <2> QED
    BY <1>2, <1>3, <2>1 DEF RefuseClass
<1>4. CASE RaiseBeforeGate(s)
  BY <1>2, <1>4 DEF RaiseBeforeGate, RowsTrue
<1>5. CASE EnterGate(s)
  <2>1. CASE GateOpens(s)
    <3> DEFINE c == server[s].cid
               k == server[s].kind
               n == row[c].version + 1
               v == [server[s] EXCEPT !.pc = "pre", !.version = n]
    <3>1. /\ c \in Contract /\ k \in Kind /\ row' = To(c, InFlight(k))
          /\ row[c].state = IF k = "forward" THEN "prepared" ELSE "verified"
          /\ server' = [server EXCEPT ![s] = v]
      BY <1>5, <2>1 DEF EnterGate, GateOpens, Matches, ExecInv, ServersInv, Fits, TypeOK, ServerState
    <3>2. InFlight(k) \in RecoveryState \ {"reconciliation", "prepared"} /\ Legal(c, InFlight(k))
      BY <3>1 DEF InFlight, RecoveryState, Legal, Kind
    <3>3. Advances(c, InFlight(k)) /\ SameReadings(c)
      BY <3>1, <3>2, ToAdvances DEF ExecInv
    <3>4. RowsTrue
      BY <3>1, <3>2, <3>3 DEF RowsTrue, SameReadings
    <3>5. v.pc = "pre"
      <4> HIDE DEF n
      <4> QED
        BY <1>0 DEF ServerState
    <3> HIDE DEF v
    <3> QED
      BY <1>0, <3>1, <3>4, <3>5, AtRestTruth
  <2>2. CASE ~GateOpens(s)
    BY <1>2, <1>5, <2>2 DEF EnterGate, RowsTrue
  <2> QED
    BY <2>1, <2>2
<1>6. CASE Finish(s)
  <2>1. RowsTrue
    <3>1. CASE StillMine(s)
      <4> DEFINE c == server[s].cid
                 st == server[s].verdict
      <4>1. /\ c \in Contract /\ Advances(c, st) /\ Legal(c, st) /\ st \in RecoveryState
            /\ row'[c].snap = row[c].snap /\ server[s].pc = "finish" /\ st \in Verdicts(server[s].kind)
            /\ row'[c].seal = IF st = "verified" THEN server[s].pre ELSE row[c].seal
        BY <1>6, <3>1, FinishIs
      <4>2. st = "verified" => ~Pending(c)
        BY <3>1, <4>1 DEF ReserveInv, UnderWayInv, Settled
      <4> QED
        BY <4>1, <4>2 DEF RowsTrue, Verdicts
    <3>2. CASE ~StillMine(s)
      BY <1>6, <3>2, FinishIs DEF RowsTrue
    <3> QED
      BY <3>1, <3>2
  <2> QED
    BY <1>2, <1>6, <2>1 DEF Finish
<1> QED
  BY <1>1, <1>3, <1>4, <1>5, <1>6

\* The change is refused or rejected, and so has had no effect; or in doubt.
LEMMA ConcludeTruth ==
  ASSUME ExecInv, ExecInv', ReserveInv, TruthInv, NEW s \in Server, server[s].pc \in PastGate,
         NEW known \in EffectKnowledge \cup {"none"},
         NEW verdict \in Verdicts(server[s].kind) \ {"verified", "rolled_back"},
         verdict = "failed" => "forward" \notin landed[server[s].cid],
         Conclude(s, known, verdict), UNCHANGED <<row, table, wire, sends, landed, touched>>
  PROVE  TruthInv'
<1>1. PICK v \in ServerState :
        /\ server' = [server EXCEPT ![s] = v]
        /\ v.pc = "finish" /\ v.verdict = verdict
        /\ v.cid = server[s].cid /\ v.kind = server[s].kind /\ v.version = server[s].version
  BY ConcludeIs
<1>2. server'[s] = v
  BY <1>1 DEF ExecInv, TypeOK
<1>3. ASSUME verdict = "failed", StillMine(s)' PROVE landed[server[s].cid] = {}
  <2>1. server[s].kind \in Kind /\ server[s].cid \in Contract
    BY DEF ExecInv, TypeOK, ServerState, ServersInv, Fits
  <2>2. row[server[s].cid].state = "executing"
    BY <1>1, <1>2, <1>3, <2>1 DEF StillMine, Matches, InFlight, Verdicts, Kind
  <2> QED
    BY <1>3, <2>1, <2>2, LandedMeans DEF TruthInv, Beyond
<1>4. Honest(s)
  BY <1>1, <1>2, <1>3 DEF Honest, OutcomeOK, Verdicts
<1> QED
  BY <1>1, <1>4, OneHonest DEF RowsTrue


LEMMA ExchangeTruth ==
  ASSUME ExecInv, ExecInv', ReserveInv, TruthInv, NEW s \in Server,
         SendRefused(s) \/ Receive(s) \/ Timeout(s)
  PROVE  TruthInv'
<1>0. /\ server[s].pc \in {"send", "wait"} /\ server[s] \in ServerState
      /\ server[s].kind \in Kind /\ server[s].cid \in Contract
      /\ UNCHANGED <<row, table, wire, sends, landed, touched>>
  BY DEF SendRefused, Receive, Timeout, PastGate, ExecInv, ServersInv, TypeOK, Fits, ServerState, history
<1>c. ASSUME NEW k \in {"proven_none", "ambiguous", "verified_failure"},
             NEW known \in EffectKnowledge \cup {"none"},
             k # "ambiguous" => server[s].kind \notin landed[server[s].cid],
             Conclude(s, known, ClassifyFault(server[s].kind = "rollback", k))
      PROVE  TruthInv'
  <2> DEFINE verdict == ClassifyFault(server[s].kind = "rollback", k)
  <2>1. /\ verdict \in Verdicts(server[s].kind) \ {"verified", "rolled_back"}
        /\ k = "ambiguous" => verdict = "reconciliation"
    BY <1>0, ClassifyIs DEF EffectKnowledge
  <2>2. verdict = "failed" => "forward" \notin landed[server[s].cid]
    BY <1>0, <1>c, <2>1 DEF Verdicts, Kind
  <2> HIDE DEF verdict
  <2>3. Conclude(s, known, verdict) /\ server[s].pc \in PastGate
    BY <1>0, <1>c DEF verdict, PastGate
  <2> QED
    BY <1>0, <2>1, <2>2, <2>3, ConcludeTruth
<1>1. CASE SendRefused(s)
  <2>1. sends[server[s].cid][server[s].kind] = 0
    BY <1>1 DEF SendRefused, ExecInv, SendInv, Sending
  <2>2. server[s].kind \notin landed[server[s].cid]
    BY <1>0, <2>1, LandedMeans DEF TruthInv
  <2> QED
    BY <1>1, <1>c, <2>2 DEF SendRefused, EffectKnowledge
<1>2. CASE Receive(s)
  <2>1. CASE server[s].reply = "2xx" /\ Goto(s, "post")
    <3> DEFINE v == [server[s] EXCEPT !.pc = "post"]
    <3>1. /\ v.pc = "post" /\ v.cid = server[s].cid /\ v.kind = server[s].kind
          /\ v.pre = server[s].pre /\ v.reply = server[s].reply
          /\ server' = [server EXCEPT ![s] = v]
      BY <1>0, <2>1 DEF ServerState, Goto
    <3> HIDE DEF v
    <3>2. server'[s] = v /\ server[s].pc = "wait"
      BY <1>2, <3>1 DEF ExecInv, TypeOK, Receive
    <3>3. Honest(s)
      BY <3>1, <3>2 DEF Honest
    <3> QED
      BY <1>0, <3>1, <3>3, OneHonest DEF RowsTrue
  <2>2. CASE server[s].reply # "2xx"
    <3>1. server[s].reply = "4xx" => server[s].kind \notin landed[server[s].cid]
      BY <1>2 DEF Receive, TruthInv, RequestInv, LocalsOK
    <3> QED
      BY <1>2, <1>c, <2>2, <3>1, ReceiveIs DEF EffectKnowledge
  <2> QED
    BY <1>2, <2>1, <2>2, ReceiveIs
<1>3. CASE Timeout(s)
  BY <1>3, <1>c DEF Timeout, EffectKnowledge
<1> QED
  BY <1>1, <1>2, <1>3

\* The read-back shows the change, or the alias without it; then it cannot
\* have landed, as it would still be there.
LEMMA ReadPostTruth ==
  ASSUME ExecInv, ExecInv', ReserveInv, TruthInv, NEW s \in Server, ReadPost(s)
  PROVE  TruthInv'
<1> DEFINE c == server[s].cid
<1>0. /\ server[s].pc = "post" /\ server[s].kind \in Kind /\ c \in Contract /\ row[c] \in Row
      /\ UNCHANGED <<row, table, wire, sends, landed, touched>>
  BY ReadPostIs DEF history, ExecInv, TypeOK
<1>1. CASE Conclude(s, "none", "reconciliation")
  BY <1>0, <1>1, ConcludeTruth DEF Verdicts, PastGate
<1>2. CASE ~Conclude(s, "none", "reconciliation")
  <2>1. PICK r \in Readings(AliasOf[c]), v \in ServerState, k \in {"verified_success", "verified_failure"} :
          /\ r.slot = row[c].snap.slot
          /\ k = "verified_success" <=> Verified(c, server[s].kind, server[s].pre, r)
          /\ server' = [server EXCEPT ![s] = v] /\ v.pc = "finish" /\ v.pre = r
          /\ v.verdict = ClassifyFault(server[s].kind = "rollback", k)
          /\ v.cid = c /\ v.kind = server[s].kind /\ v.version = server[s].version
    BY <1>2, ReadPostIs
  <2>2. server'[s] = v
    BY <2>1 DEF ExecInv, TypeOK
  <2>3. /\ v.verdict = "verified" <=> k = "verified_success" /\ server[s].kind = "forward"
        /\ v.verdict = "rolled_back" <=> k = "verified_success" /\ server[s].kind = "rollback"
        /\ v.verdict \in Verdicts(server[s].kind)
    BY <1>0, <2>1, ClassifyIs DEF EffectKnowledge
  <2>4. server[s].kind = "forward" => server[s].pre = row[c].snap
    BY <1>0 DEF TruthInv, RequestInv, LocalsOK
  <2>5. ASSUME StillMine(s)', ~touched[c] PROVE OutcomeOK(c, v)
    <3>1. v.verdict = "verified" => r.obj = [row[c].snap.obj EXCEPT !.descr = Want[c]]
      BY <2>1, <2>3, <2>4 DEF Verified
    <3>2. v.verdict = "rolled_back" => r.obj = row[c].snap.obj
      BY <2>1, <2>3 DEF Verified
    <3>3. ASSUME v.verdict = "failed" PROVE landed[c] = {}
      <4>1. server[s].kind = "forward" /\ ~Verified(c, server[s].kind, server[s].pre, r)
        BY <1>0, <2>1, <2>3, <3>3 DEF Verdicts, Kind
      <4>2. row[c].state = "executing"
        BY <1>0, <2>1, <2>2, <2>5, <4>1 DEF StillMine, Matches, InFlight
      <4>3. EffectOK(c) /\ ~Beyond(c, "rollback")
        BY <1>0, <2>5, <4>2 DEF TruthInv, EffectInv, Beyond
      <4>4. r.obj = table[row[c].snap.slot]
        BY <2>1, ReadingsAre DEF ExecInv
      <4>5. r.obj # [row[c].snap.obj EXCEPT !.descr = Want[c]]
        BY <2>4, <4>1 DEF Verified
      <4>6. "forward" \notin landed[c]
        BY <4>2, <4>3, <4>4, <4>5 DEF EffectOK
      <4> QED
        BY <1>0, <4>3, <4>6, LandedMeans DEF TruthInv
    <3> QED
      BY <2>1, <3>1, <3>2, <3>3 DEF OutcomeOK
  <2>6. Honest(s)
    BY <2>1, <2>2, <2>5 DEF Honest
  <2> QED
    BY <1>0, <2>1, <2>6, OneHonest DEF RowsTrue
<1> QED
  BY <1>1, <1>2

\* The operator's resolution moves a row and no server.
LEMMA ResolveTruth ==
  ASSUME PatientOperator, ExecInv, ExecInv', ReserveInv, TruthInv, NEW c \in Contract,
         ResolveReconciliation(c)
  PROVE  TruthInv'
<1>1. UNCHANGED <<server, table, wire, sends, landed, touched>> /\ ~Pending(c)
  BY DEF ResolveReconciliation, history
<1>2. PICK st \in RecoveryState :
        row[c].state = "reconciliation" /\ Advances(c, st) /\ Legal(c, st) /\ row'[c].snap = row[c].snap
  BY ResolveIs
<1>3. RowsTrue
  BY <1>1, <1>2 DEF RowsTrue, Legal
<1>4. \A t \in Server : Honest(t)
  BY <1>1 DEF Honest
<1> QED
  BY <1>1, <1>3, <1>4, HonestKeeps

\* An edit overtakes everything that was read before it.
LEMMA EditTruth ==
  ASSUME ExecInv, ExecInv', TruthInv, AdminEdit PROVE TruthInv'
<1>1. /\ UNCHANGED <<row, wire, server, sends, landed>>
      /\ \A c \in Contract : touched'[c]
  BY DEF AdminEdit
<1>2. RequestInv'
  BY <1>1 DEF TruthInv, RequestInv, RequestOK, LocalsOK
<1>3. FreshInv' /\ EffectInv' /\ OutcomeInv'
  <2>1. \A r \in wire' : touched'[r.cid]
    BY <1>1 DEF ExecInv, TypeOK, Request
  <2>2. \A s \in Server : server'[s].pc \in PastGate => touched'[server'[s].cid]
    BY <1>1 DEF ExecInv, ServersInv, Fits
  <2> QED
    BY <1>1, <2>1, <2>2 DEF FreshInv, EffectInv, OutcomeInv, PastGate
<1> QED
  BY <1>2, <1>3 DEF TruthInv


\* A contract that is being prepared has nothing under way.
LEMMA PrepareTruth ==
  ASSUME ExecInv, ExecInv', ReserveInv, TruthInv, NEW c \in Contract, Prepare(c)
  PROVE  TruthInv'
<1> USE DEF TruthInv
<1>0. /\ UNCHANGED <<table, wire, server, sends, landed>>
      /\ touched' = [touched EXCEPT ![c] = FALSE]
      /\ row[c].state = "preparing" /\ Advances(c, "prepared")
      /\ row'[c].snap \in Readings(AliasOf[c])
  BY PrepareIs DEF Prepare
<1>1. /\ \A d \in Contract : d # c => row'[d] = row[d] /\ touched'[d] = touched[d]
      /\ row'[c].state = "prepared"
  BY <1>0 DEF Advances, ExecInv, TypeOK
<1>2. ~Pending(c) /\ landed[c] = {} /\ \A k \in Kind : sends[c][k] # 1
  BY <1>0, LandedMeans DEF ReserveInv, PendingKeepsReservation, ReservationStates, Beyond, Kind
<1>3. \A r \in wire : r.cid \in Contract /\ r.cid # c /\ r.kind \in Kind
  BY <1>2 DEF Pending, ExecInv, TypeOK, Request
<1>4. \A t \in Server : server[t].pc \in {"send", "wait", "post"} =>
        server[t].cid \in Contract /\ server[t].kind \in Kind /\ server[t].cid # c
  BY <1>2 DEF Pending, ExecInv, ServersInv, Fits, PastGate, TypeOK, ServerState, RequestInv, LocalsOK
<1>5. RequestInv'
  <2>1. \A r \in wire : RequestOK(r)'
    BY <1>0, <1>1, <1>3 DEF RequestInv, RequestOK
  <2>2. \A t \in Server : LocalsOK(t)'
    BY <1>0, <1>1, <1>4 DEF RequestInv, LocalsOK
  <2> QED
    BY <1>0, <2>1, <2>2 DEF RequestInv
<1>6. FreshInv'
  <2>1. \A r \in wire : ~touched'[r.cid] => AsVerified(r.cid, r.kind, r.slot)'
    BY <1>0, <1>1, <1>3 DEF FreshInv, AsVerified, Expected
  <2>2. ASSUME NEW t \in Server, server'[t].pc = "send", ~touched'[server'[t].cid]
        PROVE  AsVerified(server[t].cid, server[t].kind, server[t].pre.slot)'
    BY <1>0, <1>1, <1>4, <2>2 DEF FreshInv, AsVerified, Expected
  <2> QED
    BY <1>0, <2>1, <2>2 DEF FreshInv
<1>7. EffectInv'
  <2>1. EffectOK(c)'
    <3> DEFINE r == row'[c].snap
    <3>1. r \in Reading /\ r.slot \in DOMAIN table /\ r.obj = table[r.slot] /\ r.obj.name = AliasOf[c]
      BY <1>0, ReadingsAre DEF ExecInv
    <3>2. r.obj = [r.obj EXCEPT !.descr = r.obj.descr]
      BY <3>1 DEF Reading, Alias
    <3> QED
      BY <1>0, <1>1, <3>1, <3>2 DEF EffectOK
  <2>2. ASSUME NEW d \in Contract, d # c, ~touched'[d], row'[d].state # "preparing", ~Beyond(d, "rollback")'
        PROVE  EffectOK(d)'
    BY <1>0, <1>1, <2>2 DEF EffectInv, EffectOK, Beyond
  <2> QED
    BY <2>1, <2>2 DEF EffectInv
<1>8. OutcomeInv'
  <2> SUFFICES ASSUME NEW t \in Server, server'[t].pc = "finish", StillMine(t)', ~touched'[server'[t].cid]
               PROVE  OutcomeOK(server[t].cid, server[t])'
    BY DEF OutcomeInv
  <2>1. PICK d \in Contract : d = server[t].cid
    BY <1>0 DEF ExecInv, ServersInv, Fits, PastGate
  <2>2. d # c
    BY <1>0, <1>1, <2>1 DEF StillMine, Matches, InFlight
  <2>3. OutcomeOK(d, server[t])
    BY <1>0, <1>1, <2>1, <2>2 DEF OutcomeInv, StillMine, Matches
  <2> QED
    BY <1>0, <1>1, <2>1, <2>2, <2>3 DEF OutcomeOK, Readings, Resolves
<1> QED
  BY <1>5, <1>6, <1>7, <1>8

\* The pre-send read finds what the contract expects, or the attempt ends.
LEMMA ReadPreTruth ==
  ASSUME ExecInv, ExecInv', ReserveInv, TruthInv, NEW s \in Server, ReadPre(s)
  PROVE  TruthInv'
<1> USE DEF TruthInv
<1> DEFINE c == server[s].cid
           k == server[s].kind
<1>0. /\ server[s].pc = "pre" /\ k \in Kind /\ c \in Contract /\ row[c] \in Row
      /\ UNCHANGED <<row, table, wire, sends, landed>>
  BY ReadPreIs DEF ExecInv, TypeOK
<1>1. /\ sends[c][k] = 0 /\ Beyond(c, k) /\ k \notin landed[c] /\ ~OnWire(c)
      /\ \A t \in Server : Active(t) /\ server[t].cid = c => t = s
  BY <1>0, LandedMeans DEF ExecInv, SendInv, Sending, Active, ReserveInv, UnderWayInv
<1>2. CASE /\ Conclude(s, "none", ClassifyFault(k = "rollback", "proven_none"))
           /\ UNCHANGED touched
  <2> DEFINE verdict == ClassifyFault(k = "rollback", "proven_none")
  <2>1. verdict \in Verdicts(k) \ {"verified", "rolled_back"}
    BY <1>0, ClassifyIs DEF EffectKnowledge
  <2>2. verdict = "failed" => "forward" \notin landed[c]
    BY <1>0, <1>1, <2>1 DEF Verdicts, Kind
  <2> HIDE DEF verdict
  <2>3. Conclude(s, "none", verdict) /\ server[s].pc \in PastGate
    BY <1>0, <1>2 DEF verdict, PastGate
  <2> QED
    BY <1>0, <1>2, <2>1, <2>2, <2>3, ConcludeTruth
<1>3. CASE ~(/\ Conclude(s, "none", ClassifyFault(k = "rollback", "proven_none"))
             /\ UNCHANGED touched)
  <2>1. PICK r \in Readings(AliasOf[c]), v \in ServerState :
          /\ r = Expected(c, k) /\ server' = [server EXCEPT ![s] = v]
          /\ touched' = [touched EXCEPT ![c] = FALSE]
          /\ v.pc = "send" /\ v.pre = r /\ v.reply = server[s].reply
          /\ v.cid = c /\ v.kind = k
    BY <1>3, ReadPreIs
  <2>2. /\ \A t \in Server : server'[t] = IF t = s THEN v ELSE server[t]
        /\ \A d \in Contract : d # c => touched'[d] = touched[d]
    BY <2>1 DEF ExecInv, TypeOK
  <2>3. /\ r \in Reading /\ r.slot \in DOMAIN table /\ r.obj = table[r.slot] /\ r.obj.name = AliasOf[c]
        /\ r.slot = row[c].snap.slot
        /\ k = "forward" => r.obj = row[c].snap.obj
    BY <1>0, <2>1, ReadingsAre DEF ExecInv, Expected
  <2>4. k = "forward" => r = row[c].snap
    BY <1>0, <2>3 DEF Reading, Row
  <2>5. RequestInv'
    <3>1. \A q \in wire : RequestOK(q)'
      BY <1>0 DEF RequestInv, RequestOK
    <3>2. ASSUME NEW t \in Server PROVE LocalsOK(t)'
      <4>1. CASE t = s
        BY <1>0, <2>1, <2>2, <2>3, <2>4, <4>1 DEF LocalsOK
      <4>2. CASE t # s
        BY <1>0, <2>2, <4>2 DEF LocalsOK, RequestInv
      <4> QED
        BY <4>1, <4>2
    <3> QED
      BY <1>0, <3>1, <3>2 DEF RequestInv
  <2>6. FreshInv'
    <3>1. \A q \in wire : q.cid # c /\ q.cid \in Contract
      BY <1>1 DEF OnWire, ExecInv, TypeOK, Request
    <3>2. \A q \in wire : ~touched'[q.cid] => AsVerified(q.cid, q.kind, q.slot)'
      BY <1>0, <2>2, <3>1 DEF FreshInv, AsVerified, Expected
    <3>3. ASSUME NEW t \in Server, server'[t].pc = "send", ~touched'[server'[t].cid]
          PROVE  AsVerified(server[t].cid, server[t].kind, server[t].pre.slot)'
      <4>1. CASE t = s
        <5>1. server'[t].cid = c /\ server'[t].kind = k /\ server'[t].pre.slot = r.slot
          BY <2>1, <2>2, <4>1
        <5>2. table[r.slot] = Expected(c, k).obj
          BY <2>1, <2>3
        <5> QED
          BY <1>0, <2>3, <5>1, <5>2 DEF AsVerified, Expected
      <4>2. CASE t # s
        <5>1. server'[t] = server[t] /\ server[t].cid \in Contract /\ server[t].cid # c
          BY <1>1, <2>2, <3>3, <4>2 DEF Active, ExecInv, ServersInv, Fits, PastGate
        <5> QED
          BY <1>0, <2>2, <3>3, <5>1 DEF FreshInv, AsVerified, Expected
      <4> QED
        BY <4>1, <4>2
    <3> QED
      BY <1>0, <3>2, <3>3 DEF FreshInv
  <2>7. EffectInv'
    <3> SUFFICES ASSUME NEW d \in Contract, ~touched'[d], row[d].state # "preparing", ~Beyond(d, "rollback")
                 PROVE  EffectOK(d)'
      BY <1>0 DEF EffectInv, Beyond
    <3>1. CASE d = c
      <4>1. k = "forward"
        BY <1>0, <1>1, <3>1 DEF Kind
      <4>2. r.obj = [r.obj EXCEPT !.descr = r.obj.descr]
        BY <2>3 DEF Reading, Alias
      <4> QED
        BY <1>0, <1>1, <2>3, <2>4, <3>1, <4>1, <4>2 DEF EffectOK
    <3>2. CASE d # c
      BY <1>0, <2>2, <3>2 DEF EffectOK, EffectInv
    <3> QED
      BY <3>1, <3>2
  <2>8. OutcomeInv'
    <3> SUFFICES ASSUME NEW t \in Server, server'[t].pc = "finish", StillMine(t)', ~touched'[server'[t].cid]
                 PROVE  OutcomeOK(server[t].cid, server[t])'
      BY DEF OutcomeInv
    <3>1. t # s /\ server'[t] = server[t]
      BY <2>1, <2>2
    <3>2. PICK d \in Contract : d = server[t].cid
      BY <3>1 DEF ExecInv, ServersInv, Fits, PastGate
    <3>3. StillMine(t)
      BY <1>0, <3>1 DEF StillMine, Matches
    <3>4. Pending(c)
      BY <1>0 DEF Pending
    <3>5. OutcomeOK(d, server[t])
      <4>1. CASE d = c
        <5>1. ~Settled(t)
          BY <3>2, <3>3, <3>4, <4>1 DEF ReserveInv, UnderWayInv
        <5> QED
          BY <3>1, <5>1 DEF Settled, OutcomeOK
      <4>2. CASE d # c
        BY <2>2, <3>1, <3>2, <3>3, <4>2 DEF OutcomeInv
      <4> QED
        BY <4>1, <4>2
    <3> QED
      BY <1>0, <3>1, <3>2, <3>5 DEF OutcomeOK, Readings, Resolves
  <2> QED
    BY <2>5, <2>6, <2>7, <2>8
<1> QED
  BY <1>2, <1>3


\* The request inherits what its server verified.
LEMMA SendTruth ==
  ASSUME ExecInv, ExecInv', ReserveInv, TruthInv, NEW s \in Server, Send(s)
  PROVE  TruthInv'
<1> USE DEF TruthInv
<1> DEFINE c == server[s].cid
           k == server[s].kind
           v == [server[s] EXCEPT !.pc = "wait"]
           r == [cid |-> c, kind |-> k, slot |-> server[s].pre.slot,
                 descr |-> IF k = "forward" THEN Want[c] ELSE row[c].snap.obj.descr]
<1>0. server[s] \in ServerState /\ c \in Contract /\ k \in Kind /\ server[s].pc = "send"
  BY DEF ExecInv, TypeOK, ServersInv, Fits, Send, PastGate, ServerState
<1>1. /\ wire' = wire \cup {r} /\ server' = [server EXCEPT ![s] = v]
      /\ sends' = [sends EXCEPT ![c][k] = @ + 1]
      /\ UNCHANGED <<row, table, landed, touched>>
  BY DEF Send, Goto
<1>2. /\ v.pc = "wait" /\ v.cid = c /\ v.kind = k /\ v.reply = "none" /\ v.pre = server[s].pre
      /\ r.cid = c /\ r.kind = k /\ r.slot = server[s].pre.slot
      /\ k = "forward" => r.descr = Want[c]
  BY <1>0 DEF ServerState, ReserveInv, UnderWayInv, Sending
<1> HIDE DEF v, r
<1>3. \A t \in Server : server'[t] = IF t = s THEN v ELSE server[t]
  BY <1>1 DEF ExecInv, TypeOK
<1>4. sends[c][k] = 0 /\ k \notin landed[c]
  BY <1>0, LandedMeans DEF ExecInv, SendInv, Sending
<1>5. /\ sends'[c][k] = 1
      /\ \A d \in Contract, l \in Kind : sends[d][l] = 1 => sends'[d][l] = 1
  BY <1>0, <1>1, <1>4 DEF ExecInv, TypeOK
<1>6. RequestInv'
  <2>1. ASSUME NEW q \in wire' PROVE RequestOK(q)'
    <3>1. CASE q = r
      BY <1>0, <1>1, <1>2, <1>4, <1>5, <3>1 DEF RequestOK, RequestInv, LocalsOK
    <3>2. CASE q \in wire
      BY <1>1, <1>5, <3>2 DEF RequestOK, RequestInv, ExecInv, TypeOK, Request
    <3> QED
      BY <1>1, <3>1, <3>2
  <2>2. ASSUME NEW t \in Server PROVE LocalsOK(t)'
    <3>1. CASE t = s
      BY <1>0, <1>1, <1>2, <1>3, <1>5, <3>1 DEF LocalsOK, RequestInv
    <3>2. CASE t # s
      <4>1. server'[t] = server[t] /\ LocalsOK(t)
        BY <1>3, <3>2 DEF RequestInv
      <4>2. server[t].pc \in {"wait", "post"} => server[t].cid \in Contract /\ server[t].kind \in Kind
        BY DEF ExecInv, ServersInv, Fits, PastGate, TypeOK, ServerState
      <4> QED
        BY <1>1, <1>5, <4>1, <4>2 DEF LocalsOK
    <3> QED
      BY <3>1, <3>2
  <2>3. \A d \in Contract, l \in Kind : l \in landed'[d] => sends'[d][l] = 1
    BY <1>1, <1>5 DEF RequestInv
  <2> QED
    BY <2>1, <2>2, <2>3 DEF RequestInv
<1>7. FreshInv'
  <2>1. ASSUME NEW q \in wire', ~touched[q.cid] PROVE AsVerified(q.cid, q.kind, q.slot)'
    <3>1. AsVerified(q.cid, q.kind, q.slot)
      BY <1>0, <1>1, <1>2, <2>1 DEF FreshInv
    <3> QED
      BY <1>1, <3>1 DEF AsVerified, Expected
  <2>2. ASSUME NEW t \in Server, server'[t].pc = "send", ~touched[server'[t].cid]
        PROVE  AsVerified(server[t].cid, server[t].kind, server[t].pre.slot)'
    <3>1. server'[t] = server[t]
      BY <1>2, <1>3, <2>2
    <3> QED
      BY <1>1, <2>2, <3>1 DEF AsVerified, Expected, FreshInv
  <2> QED
    BY <1>1, <2>1, <2>2 DEF FreshInv
<1>8. EffectInv'
  BY <1>1 DEF EffectInv, EffectOK, Beyond
<1>9. OutcomeInv'
  <2> SUFFICES ASSUME NEW t \in Server, server'[t].pc = "finish", StillMine(t)', ~touched'[server'[t].cid]
               PROVE  OutcomeOK(server[t].cid, server[t])'
    BY DEF OutcomeInv
  <2>1. server'[t] = server[t]
    BY <1>2, <1>3
  <2>2. OutcomeOK(server[t].cid, server[t])
    BY <1>1, <2>1 DEF OutcomeInv, StillMine, Matches
  <2> QED
    BY <1>1, <2>1, <2>2 DEF OutcomeOK, Readings, Resolves
<1> QED
  BY <1>6, <1>7, <1>8, <1>9

\* A request without effect.
LEMMA IgnoreTruth ==
  ASSUME ExecInv, ExecInv', ReserveInv, TruthInv, NEW r \in wire, Ignore(r) PROVE TruthInv'
<1> USE DEF TruthInv
<1>0. wire' = wire \ {r} /\ UNCHANGED <<row, table, sends, landed, touched>>
  BY DEF Ignore, history
<1>1. PICK reply \in Reply : Answer(r, reply)
  BY DEF Ignore
<1>2. /\ OnlyReplies
      /\ \A t \in Server : server'[t].reply = IF t \in Waiting(r) THEN reply ELSE server[t].reply
  BY <1>1, AnswerIs DEF ExecInv
<1>3. RequestInv'
  <2>1. \A q \in wire' : RequestOK(q)'
    BY <1>0 DEF RequestInv, RequestOK
  <2>2. ASSUME NEW t \in Server PROVE LocalsOK(t)'
    <3>1. t \in Waiting(r) => server[t].kind \notin landed[server[t].cid]
      BY DEF Waiting, RequestInv, RequestOK
    <3> QED
      BY <1>0, <1>2, <3>1 DEF OnlyReplies, LocalsOK, RequestInv
  <2> QED
    BY <1>0, <2>1, <2>2 DEF RequestInv
<1>4. FreshInv' /\ EffectInv'
  BY <1>0, <1>2 DEF FreshInv, EffectInv, EffectOK, AsVerified, Expected, OnlyReplies, Beyond
<1>5. OutcomeInv'
  BY <1>0, <1>2 DEF OutcomeInv, OutcomeOK, Readings, Resolves, OnlyReplies, StillMine, Matches
<1> QED
  BY <1>3, <1>4, <1>5

\* A request that nothing overtook takes effect: no other contract holds its
\* target, so nobody else relies on the description it changes.
LEMMA ApplyTruth ==
  ASSUME ExecInv, ExecInv', ReserveInv, TruthInv, NEW r \in wire, Apply(r) PROVE TruthInv'
<1> USE DEF TruthInv
<1>0. /\ r \in Request /\ r.cid \in Contract /\ r.kind \in Kind /\ r.descr \in Descr
      /\ r.slot \in DOMAIN table /\ table' = [table EXCEPT ![r.slot].descr = r.descr]
      /\ wire' = wire \ {r} /\ landed' = [landed EXCEPT ![r.cid] = @ \cup {r.kind}]
      /\ touched' = [c \in Contract |-> touched[c] \/ touched[r.cid]]
      /\ UNCHANGED <<row, sends>>
  BY DEF Apply, ExecInv, TypeOK, Request
<1>1. PICK reply \in {"2xx", "other", "none"} : Answer(r, reply)
  BY DEF Apply
<1>2. /\ OnlyReplies
      /\ \A t \in Server : server'[t].reply = IF t \in Waiting(r) THEN reply ELSE server[t].reply
  BY <1>1, AnswerIs DEF ExecInv, Reply
<1>3. /\ DOMAIN table' = DOMAIN table
      /\ table'[r.slot] = [table[r.slot] EXCEPT !.descr = r.descr]
      /\ table'[r.slot].name = table[r.slot].name /\ table'[r.slot].descr = r.descr
      /\ \A j \in DOMAIN table : j # r.slot => table'[j] = table[j]
  BY <1>0, PatchIs DEF ExecInv
<1>4. \A j \in DOMAIN table : table'[j].name = table[j].name
  BY <1>3
<1>5. /\ \A d \in Contract : d # r.cid => landed'[d] = landed[d]
      /\ landed'[r.cid] = landed[r.cid] \cup {r.kind}
      /\ \A d \in Contract : ~touched'[d] => ~touched[d] /\ ~touched[r.cid]
  BY <1>0 DEF ExecInv, TypeOK
<1>6. RequestOK(r) /\ Pending(r.cid) /\ \A q \in wire : q.cid = r.cid => q = r
  BY DEF RequestInv, Pending, ReserveInv, UnderWayInv
<1>7. RequestInv'
  <2>1. \A d \in Contract, l \in Kind : l \in landed'[d] => sends'[d][l] = 1
    BY <1>0, <1>5, <1>6 DEF RequestInv, RequestOK
  <2>2. ASSUME NEW q \in wire' PROVE RequestOK(q)'
    <3>1. q \in wire /\ q.cid # r.cid /\ q.cid \in Contract
      BY <1>0, <1>6 DEF ExecInv, TypeOK, Request
    <3> QED
      BY <1>0, <1>5, <3>1 DEF RequestInv, RequestOK
  <2>3. ASSUME NEW t \in Server PROVE LocalsOK(t)'
    <3>1. ASSUME server'[t].pc = "wait", server'[t].reply = "4xx"
          PROVE  server'[t].kind \notin landed'[server'[t].cid]
      <4>1. /\ server[t].pc = "wait" /\ server[t].reply = "4xx" /\ server[t].cid \in Contract
            /\ server'[t].cid = server[t].cid /\ server'[t].kind = server[t].kind
        BY <1>2, <3>1 DEF OnlyReplies, ExecInv, ServersInv, Fits, PastGate
      <4>2. server[t].cid # r.cid
        BY <4>1 DEF ReserveInv, UnderWayInv, Answered, OnWire
      <4> QED
        BY <1>5, <4>1, <4>2 DEF RequestInv, LocalsOK
    <3> QED
      BY <1>0, <1>2, <3>1 DEF OnlyReplies, LocalsOK, RequestInv
  <2> QED
    BY <2>1, <2>2, <2>3 DEF RequestInv
<1>8. ASSUME NEW d \in Contract, row[d].state \in ReservationStates, NEW i \in DOMAIN table,
             table[i].name = AliasOf[d], i = r.slot, ~touched[r.cid]
      PROVE  d = r.cid
  <2>1. table[r.slot].name = AliasOf[r.cid]
    BY <1>8 DEF FreshInv, AsVerified
  <2>2. row[r.cid].state \in ReservationStates
    BY <1>0, <1>6 DEF ReserveInv, PendingKeepsReservation
  <2> QED
    BY <1>0, <1>8, <2>1, <2>2 DEF ReserveInv, ReservationExclusive
<1>9. FreshInv'
  <2>1. ASSUME NEW d \in Contract, NEW l \in Kind, NEW i, AsVerified(d, l, i), Pending(d),
               d # r.cid, ~touched[r.cid]
        PROVE  AsVerified(d, l, i)'
    <3>1. i # r.slot
      BY <1>8, <2>1 DEF AsVerified, ReserveInv, PendingKeepsReservation
    <3> QED
      BY <1>0, <1>3, <2>1, <3>1 DEF AsVerified, Expected
  <2>2. ASSUME NEW q \in wire', ~touched'[q.cid] PROVE AsVerified(q.cid, q.kind, q.slot)'
    <3>1. q \in wire /\ q.cid \in Contract /\ q.kind \in Kind /\ q.cid # r.cid /\ Pending(q.cid)
      BY <1>0, <1>6 DEF ExecInv, TypeOK, Request, Pending
    <3> QED
      BY <1>5, <2>1, <2>2, <3>1 DEF FreshInv
  <2>3. ASSUME NEW t \in Server, server'[t].pc = "send", ~touched'[server'[t].cid]
        PROVE  AsVerified(server[t].cid, server[t].kind, server[t].pre.slot)'
    <3>1. /\ server[t].pc = "send" /\ server'[t].cid = server[t].cid
          /\ server'[t].kind = server[t].kind /\ server'[t].pre = server[t].pre
      BY <1>2, <2>3 DEF OnlyReplies
    <3>2. PICK d \in Contract, l \in Kind : d = server[t].cid /\ l = server[t].kind
      BY <3>1 DEF ExecInv, ServersInv, Fits, PastGate, TypeOK, ServerState
    <3>3. d # r.cid /\ Pending(d)
      BY <3>1, <3>2 DEF ReserveInv, UnderWayInv, Sending, OnWire, Pending
    <3>4. AsVerified(d, l, server[t].pre.slot) /\ ~touched[r.cid]
      BY <1>5, <2>3, <3>1, <3>2 DEF FreshInv
    <3>5. AsVerified(d, l, server[t].pre.slot)'
      <4> DEFINE i == server[t].pre.slot
      <4>1. i \in DOMAIN table /\ i # r.slot /\ table[i].name = AliasOf[d]
        BY <1>8, <3>3, <3>4 DEF AsVerified, ReserveInv, PendingKeepsReservation
      <4>2. server'[t].pre.slot = i
        BY <3>1
      <4> HIDE DEF i
      <4> QED
        BY <1>0, <1>3, <3>4, <4>1, <4>2 DEF AsVerified, Expected, i
    <3> QED
      BY <3>1, <3>2, <3>5 DEF AsVerified, Expected
  <2> QED
    BY <1>0, <2>2, <2>3 DEF FreshInv
<1>10. EffectInv'
  <2> SUFFICES ASSUME NEW d \in Contract, ~touched'[d], row'[d].state # "preparing", ~Beyond(d, "rollback")'
               PROVE  EffectOK(d)'
    BY DEF EffectInv
  <2> DEFINE i == row[d].snap.slot
  <2>1. EffectOK(d) /\ ~Beyond(d, "rollback") /\ ~touched[r.cid] /\ row[d] \in Row
    BY <1>0, <1>5 DEF EffectInv, Beyond, ExecInv, TypeOK
  <2>2. i \in DOMAIN table /\ table[i].name = AliasOf[d]
        /\ table[i] = [row[d].snap.obj EXCEPT !.descr = table[i].descr]
    BY <2>1 DEF EffectOK
  <2>3. table'[i] = [row[d].snap.obj EXCEPT !.descr = table'[i].descr]
    <3>1. CASE i = r.slot
      <4>1. table'[i] = [table[i] EXCEPT !.descr = r.descr] /\ table'[i].descr = r.descr
        BY <1>3, <3>1
      <4>2. row[d].snap.obj \in Alias
        BY <2>1 DEF Row, Reading
      <4> QED
        BY <2>2, <4>1, <4>2 DEF Alias
    <3>2. CASE i # r.slot
      BY <1>3, <2>2, <3>2
    <3> QED
      BY <3>1, <3>2
  <2>4. ASSUME row[d].state \in {"executing", "reconciliation"}, "forward" \in landed'[d]
        PROVE  table'[i].descr = Want[d]
    <3>1. CASE d = r.cid
      <4>1. r.kind = "forward"
        BY <1>0, <1>6, <2>1, <3>1, LandedMeans DEF RequestOK, Kind
      <4> QED
        BY <1>3, <1>6, <3>1, <4>1 DEF RequestOK
    <3>2. CASE d # r.cid
      <4>1. i # r.slot
        BY <1>8, <2>1, <2>2, <2>4, <3>2 DEF ReservationStates
      <4> QED
        BY <1>3, <1>5, <2>1, <2>2, <2>4, <3>2, <4>1 DEF EffectOK
    <3> QED
      BY <3>1, <3>2
  <2> QED
    BY <1>0, <1>3, <1>4, <2>2, <2>3, <2>4 DEF EffectOK
<1>11. OutcomeInv'
  <2> SUFFICES ASSUME NEW t \in Server, server'[t].pc = "finish", StillMine(t)', ~touched'[server'[t].cid]
               PROVE  OutcomeOK(server[t].cid, server[t])'
    BY DEF OutcomeInv
  <2>1. /\ server[t].pc = "finish" /\ server'[t].cid = server[t].cid /\ server'[t].kind = server[t].kind
        /\ server'[t].pre = server[t].pre /\ server'[t].verdict = server[t].verdict
        /\ server'[t].version = server[t].version
    BY <1>2 DEF OnlyReplies
  <2>2. PICK d \in Contract : d = server[t].cid
    BY <2>1 DEF ExecInv, ServersInv, Fits, PastGate
  <2>3. StillMine(t) /\ row[d].state \in ReservationStates
    BY <1>0, <2>1, <2>2 DEF StillMine, Matches, InFlight, ReservationStates
  <2>4. OutcomeOK(d, server[t]) /\ ~touched[r.cid]
    BY <1>5, <2>1, <2>2, <2>3 DEF OutcomeInv
  <2>5. Settled(t) => d # r.cid
    BY <1>6, <2>2, <2>3 DEF ReserveInv, UnderWayInv
  <2>6. ASSUME Settled(t), server[t].pre \in Readings(AliasOf[d])
        PROVE  server[t].pre \in {[obj |-> table'[i], slot |-> i] : i \in {j \in DOMAIN table' : Resolves(AliasOf[d], j)'}}
    <3>1. PICK i \in DOMAIN table : server[t].pre = [obj |-> table[i], slot |-> i] /\ Resolves(AliasOf[d], i)
      BY <2>6 DEF Readings
    <3>2. table[i].name = AliasOf[d] /\ i # r.slot
      BY <1>8, <2>3, <2>4, <2>5, <2>6, <3>1 DEF Resolves
    <3>3. Resolves(AliasOf[d], i)'
      BY <1>3, <1>4, <3>1 DEF Resolves
    <3> QED
      BY <1>3, <3>1, <3>2, <3>3
  <2>7. OutcomeOK(d, server[t])'
    BY <1>0, <1>5, <2>1, <2>4, <2>5, <2>6 DEF OutcomeOK, Settled, Readings
  <2> QED
    BY <2>1, <2>2, <2>7 DEF OutcomeOK, Readings, Resolves
<1> QED
  BY <1>7, <1>9, <1>10, <1>11


LEMMA NextKeepsTruth ==
  ASSUME PatientOperator, ~ResetAfterSend, ExecInv, ExecInv', ReserveInv, TruthInv, [Next]_vars
  PROVE  TruthInv'
<1>1. ASSUME NEW c \in Contract, Prepare(c) \/ ResolveReconciliation(c) PROVE TruthInv'
  BY <1>1, PrepareTruth, ResolveTruth
<1>2. ASSUME NEW s \in Server, Boot(s) \/ ServerStep(s) \/ Crash(s) PROVE TruthInv'
  <2>1. ~ConnectionLost(s)
    BY DEF ConnectionLost
  <2> QED
    BY <1>2, <2>1, StartupTruth, CallTruth, SendTruth, ExchangeTruth, ReadPreTruth, ReadPostTruth
    DEF ServerStep
<1>3. ASSUME NEW s \in Server, NEW c \in Contract, NEW k \in Kind, Begin(s, c, k) PROVE TruthInv'
  BY <1>3, CallTruth
<1>4. ASSUME NEW r \in wire, Apply(r) \/ Ignore(r) PROVE TruthInv'
  BY <1>4, ApplyTruth, IgnoreTruth
<1>5. CASE AdminEdit
  BY <1>5, EditTruth
<1>6. CASE UNCHANGED vars
  <2>1. \A t \in Server : Honest(t)
    BY <1>6 DEF vars, Honest
  <2> QED
    BY <1>6, <2>1, HonestKeeps DEF vars, RowsTrue
<1> QED
  BY <1>1, <1>2, <1>3, <1>4, <1>5, <1>6 DEF Next

LEMMA TruthInvariance == PatientOperator /\ ~ResetAfterSend /\ Spec => []TruthInv
<1>1. CASE PatientOperator /\ ~ResetAfterSend
  <2>1. ExecInv /\ ExecInv' /\ ReserveInv /\ TruthInv /\ [Next]_vars => TruthInv'
    BY <1>1, NextKeepsTruth
  <2>2. PatientOperator /\ ~ResetAfterSend /\ Spec => []TruthInv
    BY <2>1, InitTruth, ExecInvariance, ReserveInvariance, PTL DEF Spec
  <2> QED
    BY <2>2
<1> QED
  BY <1>1

\* The same conditions, and no edit since the pre-send read: a request changes
\* the alias its server verified and finds every field as it was then, however
\* many servers, contracts and delayed requests there are (executor.py reads,
\* then sends; only the reservation stands between the two).
THEOREM NoContractOverwritesAnother ==
  PatientOperator /\ ~ResetAfterSend /\ Spec => NoBlindOverwrite
<1> DEFINE A == \A r \in wire \ wire' :
                  table' # table /\ ~touched[r.cid] => table[r.slot] = Expected(r.cid, r.kind).obj
<1>1. TruthInv => A
  BY DEF TruthInv, FreshInv, AsVerified
<1>2. PatientOperator /\ ~ResetAfterSend /\ Spec => [][A]_vars
  BY <1>1, TruthInvariance, PTL
<1> QED
  BY <1>2 DEF NoBlindOverwrite

\* What a step records of a contract that no edit has overtaken is true.
RecordsTruth ==
  \A c \in Contract : ~touched[c] =>
    /\ Became(c, "verified") =>
         \E r \in Readings(AliasOf[c]) : r.obj = [row[c].snap.obj EXCEPT !.descr = Want[c]]
    /\ Became(c, "rolled_back") =>
         \E r \in Readings(AliasOf[c]) : r.obj = row[c].snap.obj
    /\ Became(c, "failed") => landed[c] = {}

LEMMA RecordedOutcomesAreTrue ==
  ASSUME ExecInv, TruthInv, [Next]_vars PROVE RecordsTruth
<1> SUFFICES ASSUME NEW c \in Contract, ~touched[c], row'[c].state # row[c].state,
                    row'[c].state \in {"verified", "rolled_back", "failed"}
             PROVE  /\ row'[c].state = "verified" =>
                         \E r \in Readings(AliasOf[c]) : r.obj = [row[c].snap.obj EXCEPT !.descr = Want[c]]
                    /\ row'[c].state = "rolled_back" =>
                         \E r \in Readings(AliasOf[c]) : r.obj = row[c].snap.obj
                    /\ row'[c].state = "failed" => landed[c] = {}
  BY DEF RecordsTruth, Became
<1>0. row[c] \in Row
  BY DEF ExecInv, TypeOK
<1>1. ASSUME NEW s \in Server, RefuseClass(s)
      PROVE  row'[c].state = "failed" /\ landed[c] = {}
  <2>1. row[c].state = "prepared" /\ row'[c].state = "failed"
    <3> DEFINE d == server[s].cid
    <3>1. d \in Contract /\ row[d].state = "prepared" /\ row' = To(d, "failed")
      BY <1>1 DEF RefuseClass, Matches, ExecInv, ServersInv, Fits
    <3>2. Advances(d, "failed")
      BY <3>1, ToAdvances DEF ExecInv, RecoveryState
    <3> QED
      BY <3>1, <3>2 DEF Advances
  <2> QED
    BY <2>1, LandedMeans DEF TruthInv
<1>2. ASSUME NEW s \in Server, Finish(s)
      PROVE  /\ row'[c].state = "verified" =>
                  \E r \in Readings(AliasOf[c]) : r.obj = [row[c].snap.obj EXCEPT !.descr = Want[c]]
             /\ row'[c].state = "rolled_back" =>
                  \E r \in Readings(AliasOf[c]) : r.obj = row[c].snap.obj
             /\ row'[c].state = "failed" => landed[c] = {}
  <2>1. StillMine(s) /\ server[s].pc = "finish"
    BY <1>2, FinishIs
  <2>2. c = server[s].cid /\ row'[c].state = server[s].verdict
    BY <1>2, <2>1, FinishIs DEF Advances
  <2>3. OutcomeOK(c, server[s])
    BY <2>1, <2>2 DEF TruthInv, OutcomeInv
  <2> QED
    BY <2>2, <2>3 DEF OutcomeOK
<1>3. ASSUME NEW d \in Contract, ResolveReconciliation(d)
      PROVE  /\ row'[c].state = "verified" =>
                  \E r \in Readings(AliasOf[c]) : r.obj = [row[c].snap.obj EXCEPT !.descr = Want[c]]
             /\ row'[c].state = "rolled_back" =>
                  \E r \in Readings(AliasOf[c]) : r.obj = row[c].snap.obj
             /\ row'[c].state = "failed" => landed[c] = {}
  <2>1. PICK r \in Readings(AliasOf[d]), st \in RecoveryState :
          /\ row[d].state = "reconciliation" /\ Advances(d, st) /\ Legal(d, st)
          /\ row[d].origin = "executing" =>
               st = IF r.obj.descr = Want[d] THEN "verified" ELSE "failed"
          /\ row[d].origin = "rolling_back" =>
               st = IF r.obj = row[d].snap.obj THEN "rolled_back" ELSE "rollback_failed"
    BY <1>3, ResolveIs
  <2>2. c = d /\ row'[c].state = st /\ row[c].origin \in {"executing", "rolling_back"}
    BY <2>1 DEF Advances, Legal
  <2>3. CASE row[c].origin = "executing"
    <3>1. ~Beyond(c, "rollback") /\ EffectOK(c)
      BY <2>1, <2>2, <2>3 DEF Beyond, TruthInv, EffectInv
    <3>2. r.obj = table[r.slot] /\ Resolves(AliasOf[c], r.slot) /\ r.slot \in DOMAIN table
      BY <2>1, <2>2, ReadingsAre DEF ExecInv
    <3>3. r.slot = row[c].snap.slot
      BY <3>1, <3>2 DEF EffectOK, Resolves
    <3>4. st = "verified" => r.obj = [row[c].snap.obj EXCEPT !.descr = Want[c]]
      BY <2>1, <2>2, <2>3, <3>1, <3>2, <3>3 DEF EffectOK
    <3>5. st = "failed" => "forward" \notin landed[c]
      BY <2>1, <2>2, <2>3, <3>1, <3>2, <3>3 DEF EffectOK
    <3>6. st = "failed" => landed[c] = {}
      BY <3>1, <3>5, LandedMeans DEF TruthInv
    <3> QED
      BY <2>1, <2>2, <2>3, <3>4, <3>6
  <2>4. CASE row[c].origin = "rolling_back"
    BY <2>1, <2>2, <2>4
  <2> QED
    BY <2>2, <2>3, <2>4
<1>4. \/ \E d \in Contract : ResolveReconciliation(d)
      \/ \E s \in Server : RefuseClass(s) \/ Finish(s)
  <2>1. \/ \E d \in Contract : Prepare(d) \/ ResolveReconciliation(d)
        \/ \E s \in Server : ReconcileNext(s) \/ RefuseClass(s) \/ EnterGate(s) \/ Finish(s)
    BY DEF Next, vars, ServerStep, Boot, Serve, RaiseBeforeGate, ReadPre, Send, SendRefused, Receive,
           Timeout, ConnectionLost, ReadPost, Crash, Begin, Apply, Ignore, AdminEdit
  <2>2. ASSUME NEW d \in Contract, Prepare(d) PROVE FALSE
    BY <2>2, PrepareIs DEF Advances
  <2>3. ASSUME NEW s \in Server, ReconcileNext(s) PROVE FALSE
    <3>1. PICK t \in server[s].todo : Reconcile(s, t[1], t[2])
      BY <2>3 DEF ReconcileNext
    <3>2. t[1] \in Contract /\ Fits(server[s], row)
      BY DEF ExecInv, TypeOK, ServerState, ServersInv
    <3>3. row[t[1]].state \in InterruptedStates /\ row' = To(t[1], "reconciliation")
      BY <3>1, <3>2 DEF Fits, Reconcile
    <3>4. Advances(t[1], "reconciliation")
      BY <3>2, <3>3, ToAdvances DEF RecoveryState, ExecInv
    <3> QED
      BY <3>4 DEF Advances
  <2>4. ASSUME NEW s \in Server, EnterGate(s) PROVE FALSE
    <3> DEFINE d == server[s].cid
               k == server[s].kind
    <3>1. d \in Contract /\ row' = To(d, InFlight(k))
      BY <2>4 DEF EnterGate, ExecInv, ServersInv, Fits
    <3>2. InFlight(k) \in {"executing", "rolling_back"}
      BY DEF InFlight
    <3>3. Advances(d, InFlight(k))
      BY <3>1, <3>2, ToAdvances DEF ExecInv, RecoveryState
    <3> QED
      BY <3>2, <3>3 DEF Advances
  <2> QED
    BY <2>1, <2>2, <2>3, <2>4
<1> QED
  BY <1>1, <1>2, <1>3, <1>4

\* The same conditions, and no edit since the contract's last read: VERIFIED
\* and ROLLED_BACK are recorded only of an alias that is as they say, by the
\* executor or by the operator, and FAILED only of a contract none of whose
\* requests took effect.
THEOREM RecordedOutcomesHold ==
  PatientOperator /\ ~ResetAfterSend /\ Spec => OutcomesAreTrue
<1>1. ExecInv /\ TruthInv /\ [Next]_vars => [RecordsTruth]_vars
  BY RecordedOutcomesAreTrue
<1>2. PatientOperator /\ ~ResetAfterSend /\ Spec => [][RecordsTruth]_vars
  BY <1>1, ExecInvariance, TruthInvariance, PTL DEF Spec
<1> QED
  BY <1>2 DEF OutcomesAreTrue, RecordsTruth

-----------------------------------------------------------------------------
(* What _send proves when it proves that nothing was sent *)

\* The server concluded "zero effect, provably" and has yet to record it.
GaveUp(s) == server[s].pc = "finish" /\ server[s].known = "proven_none"

\* The same request: of the same contract, in the same direction.
SameRequest(s, t) == server[s].cid = server[t].cid /\ server[s].kind = server[t].kind

\* Only a request that was sent is on the wire or has landed.  The contract and
\* direction a server gave up on was not sent, is past its gate, and no other
\* server is on its way to sending it: whoever resolves the doubt about the
\* contract meanwhile, its gate does not open again.
NoneInv ==
  /\ \A r \in wire : sends[r.cid][r.kind] = 1
  /\ \A c \in Contract, k \in Kind : k \in landed[c] => sends[c][k] = 1
  /\ \A s \in Server : GaveUp(s) =>
       /\ sends[server[s].cid][server[s].kind] = 0
       /\ Beyond(server[s].cid, server[s].kind)
       /\ \A t \in Server : Sending(t) => ~SameRequest(s, t)

\* A server gives up before it wrote its request, and is on its way to a
\* request from the gate on; neither changes which request it is about.
ComesFrom(t) ==
  /\ GaveUp(t)' =>
       /\ server'[t].cid = server[t].cid /\ server'[t].kind = server[t].kind
       /\ GaveUp(t) \/ Sending(t)
  /\ Sending(t)' =>
       /\ server'[t].cid = server[t].cid /\ server'[t].kind = server[t].kind
       /\ Sending(t) \/ ~Beyond(server[t].cid, server[t].kind)

LEMMA OtherServersStay ==
  ASSUME ExecInv, NEW s \in Server, NEW v, server' = [server EXCEPT ![s] = v],
         NEW t \in Server, t # s
  PROVE  ComesFrom(t)
<1>1. server'[t] = server[t]
  BY DEF ExecInv, TypeOK
<1> QED
  BY <1>1 DEF ComesFrom, GaveUp, Sending

\* Its own step took the server somewhere it neither gave up nor may send.
LEMMA ElsewhereStays ==
  ASSUME ExecInv, NEW s \in Server, NEW v, server' = [server EXCEPT ![s] = v],
         v.pc \notin {"pre", "send"}, v.pc = "finish" => v.known # "proven_none",
         NEW t \in Server
  PROVE  ComesFrom(t)
<1>1. CASE t = s
  <2>1. server'[t] = v
    BY <1>1 DEF ExecInv, TypeOK
  <2> QED
    BY <2>1 DEF ComesFrom, GaveUp, Sending
<1> QED
  BY <1>1, OtherServersStay

LEMMA ConcludedStays ==
  ASSUME ExecInv, NEW s \in Server, NEW t \in Server, server[s].pc \in PastGate,
         NEW known \in EffectKnowledge \cup {"none"}, NEW k \in EffectKnowledge,
         Conclude(s, known, ClassifyFault(server[s].kind = "rollback", k)),
         known = "proven_none" => server[s].pc = "send"
  PROVE  ComesFrom(t)
<1>1. server[s].kind \in Kind
  BY DEF ExecInv, TypeOK, ServerState
<1>2. PICK v \in ServerState :
        /\ server' = [server EXCEPT ![s] = v]
        /\ v.pc = "finish" /\ v.known = known
        /\ v.cid = server[s].cid /\ v.kind = server[s].kind
  BY <1>1, ClassifyIs, ConcludeIs
<1>3. CASE t = s
  <2>1. server'[t] = v
    BY <1>2, <1>3 DEF ExecInv, TypeOK
  <2> QED
    BY <1>2, <1>3, <2>1 DEF ComesFrom, GaveUp, Sending
<1> QED
  BY <1>2, <1>3, OtherServersStay

LEMMA ServersComeFrom ==
  ASSUME ~ResetAfterSend, ExecInv, [Next]_vars, NEW t \in Server
  PROVE  ComesFrom(t)
<1>s. ASSUME NEW s \in Server, NEW pc \in {"down", "boot", "idle"},
             NEW v \in {Settle(pc)} \cup {[Settle(pc) EXCEPT !.todo = x] : x \in SUBSET (Contract \X Nat)},
             server' = [server EXCEPT ![s] = v]
      PROVE  ComesFrom(t)
  <2>1. v.pc \in {"down", "boot", "idle"}
    BY <1>s DEF Settle
  <2> QED
    BY <1>s, <2>1, ElsewhereStays
<1>0. CASE UNCHANGED server
  BY <1>0 DEF ComesFrom, GaveUp, Sending
<1>1. ASSUME NEW s \in Server, Crash(s) \/ Finish(s) \/ RefuseClass(s) \/ RaiseBeforeGate(s)
      PROVE  ComesFrom(t)
  BY <1>1, <1>s DEF Crash, Finish, RefuseClass, RaiseBeforeGate, Return
<1>2. ASSUME NEW s \in Server, Boot(s) PROVE ComesFrom(t)
  <2>1. server' = [server EXCEPT ![s] = [Settle("boot") EXCEPT !.todo =
          {<<c, row[c].version>> : c \in {d \in Contract : row[d].state \in InterruptedStates}}]]
    BY <1>2 DEF Boot
  <2>2. [Settle("boot") EXCEPT !.todo =
          {<<c, row[c].version>> : c \in {d \in Contract : row[d].state \in InterruptedStates}}].pc = "boot"
    BY DEF Settle
  <2> QED
    BY <2>1, <2>2, ElsewhereStays
<1>3. ASSUME NEW s \in Server, ReconcileNext(s) PROVE ComesFrom(t)
  <2>1. PICK x \in server[s].todo : Reconcile(s, x[1], x[2])
    BY <1>3 DEF ReconcileNext
  <2>2. CASE server' = [server EXCEPT ![s] = Settle("down")]
    BY <2>2, <1>s
  <2>3. CASE server' = [server EXCEPT ![s].todo = @ \ {<<x[1], x[2]>>}]
    <3> DEFINE v == [server[s] EXCEPT !.todo = @ \ {<<x[1], x[2]>>}]
    <3>1. server' = [server EXCEPT ![s] = v]
      BY <2>3
    <3>2. v.pc = "boot"
      BY <1>3 DEF ReconcileNext, ExecInv, TypeOK, ServerState
    <3> HIDE DEF v
    <3> QED
      BY <3>1, <3>2, ElsewhereStays
  <2> QED
    BY <2>1, <2>2, <2>3 DEF Reconcile
<1>4. ASSUME NEW s \in Server, NEW pc \in {"idle", "wait", "post"}, Goto(s, pc) PROVE ComesFrom(t)
  <2> DEFINE v == [server[s] EXCEPT !.pc = pc]
  <2>1. server' = [server EXCEPT ![s] = v]
    BY <1>4 DEF Goto
  <2>2. v.pc = pc
    BY DEF ExecInv, TypeOK, ServerState
  <2> HIDE DEF v
  <2> QED
    BY <2>1, <2>2, ElsewhereStays
<1>5. ASSUME NEW s \in Server, NEW c \in Contract, NEW k \in Kind, Begin(s, c, k) PROVE ComesFrom(t)
  <2> DEFINE v == [Settle("gate") EXCEPT !.cid = c, !.kind = k, !.version = row[c].version]
  <2>1. server' = [server EXCEPT ![s] = v] /\ v.pc = "gate"
    BY <1>5 DEF Begin, Settle
  <2> HIDE DEF v
  <2> QED
    BY <2>1, ElsewhereStays
<1>6. ASSUME NEW s \in Server, EnterGate(s) PROVE ComesFrom(t)
  <2>1. CASE ~GateOpens(s)
    BY <1>6, <2>1, <1>s DEF EnterGate, Return
  <2>2. CASE GateOpens(s)
    <3> DEFINE n == row[server[s].cid].version + 1
               v == [server[s] EXCEPT !.pc = "pre", !.version = n]
    <3>1. server' = [server EXCEPT ![s] = v] /\ server[s] \in ServerState
      BY <1>6, <2>2 DEF EnterGate, ExecInv, TypeOK
    <3>2. v.pc = "pre" /\ v.cid = server[s].cid /\ v.kind = server[s].kind
      BY <3>1 DEF ServerState
    <3>3. ~Beyond(server[s].cid, server[s].kind)
      BY <2>2, <3>1 DEF GateOpens, Matches, Beyond, ServerState, Kind
    <3> HIDE DEF v
    <3>4. CASE t = s
      <4>1. server'[t] = v
        BY <3>1, <3>4 DEF ExecInv, TypeOK
      <4> QED
        BY <3>2, <3>3, <3>4, <4>1 DEF ComesFrom, GaveUp, Sending
    <3> QED
      BY <3>1, <3>4, OtherServersStay
  <2> QED
    BY <2>1, <2>2
<1>7. ASSUME NEW s \in Server, ReadPre(s) PROVE ComesFrom(t)
  <2>0. server[s].pc = "pre"
    BY <1>7, ReadPreIs
  <2>1. CASE Conclude(s, "none", ClassifyFault(server[s].kind = "rollback", "proven_none"))
    BY <2>0, <2>1, ConcludedStays DEF PastGate, EffectKnowledge
  <2>2. CASE ~Conclude(s, "none", ClassifyFault(server[s].kind = "rollback", "proven_none"))
    <3>1. PICK v \in ServerState :
            /\ server' = [server EXCEPT ![s] = v] /\ v.pc = "send"
            /\ v.cid = server[s].cid /\ v.kind = server[s].kind
      BY <1>7, <2>2, ReadPreIs
    <3>2. CASE t = s
      <4>1. server'[t] = v
        BY <3>1, <3>2 DEF ExecInv, TypeOK
      <4> QED
        BY <2>0, <3>1, <3>2, <4>1 DEF ComesFrom, GaveUp, Sending
    <3> QED
      BY <3>1, <3>2, OtherServersStay
  <2> QED
    BY <2>1, <2>2
<1>8. ASSUME NEW s \in Server, SendRefused(s) \/ Timeout(s) PROVE ComesFrom(t)
  BY <1>8, ConcludedStays DEF SendRefused, Timeout, PastGate, EffectKnowledge
<1>9. ASSUME NEW s \in Server, Receive(s) PROVE ComesFrom(t)
  BY <1>9, <1>4, ReceiveIs, ConcludedStays DEF PastGate, EffectKnowledge
<1>10. ASSUME NEW s \in Server, ReadPost(s) PROVE ComesFrom(t)
  <2>1. CASE Conclude(s, "none", "reconciliation")
    <3>1. PICK v \in ServerState :
            server' = [server EXCEPT ![s] = v] /\ v.pc = "finish" /\ v.known = "none"
      BY <1>10, <2>1, ReadPostIs, ConcludeIs DEF PastGate, Verdicts
    <3> QED
      BY <3>1, ElsewhereStays
  <2>2. CASE ~Conclude(s, "none", "reconciliation")
    <3>1. PICK v \in ServerState, k \in {"verified_success", "verified_failure"} :
            server' = [server EXCEPT ![s] = v] /\ v.pc = "finish" /\ v.known = k
      BY <1>10, <2>2, ReadPostIs
    <3> QED
      BY <3>1, ElsewhereStays
  <2> QED
    BY <2>1, <2>2
<1>11. ASSUME NEW r \in wire, Apply(r) \/ Ignore(r) PROVE ComesFrom(t)
  <2>1. PICK reply \in Reply : Answer(r, reply)
    BY <1>11 DEF Apply, Ignore, Reply
  <2>2. OnlyReplies
    BY <2>1, AnswerIs DEF ExecInv
  <2>3. server'[t].known = server[t].known
    BY <2>1 DEF Answer, ExecInv, TypeOK, ServerState
  <2> QED
    BY <2>2, <2>3 DEF OnlyReplies, ComesFrom, GaveUp, Sending
<1>12. ASSUME NEW s \in Server, Serve(s) \/ Send(s) PROVE ComesFrom(t)
  BY <1>12, <1>4 DEF Serve, Send
<1>13. ASSUME NEW c \in Contract, Prepare(c) \/ ResolveReconciliation(c) PROVE ComesFrom(t)
  BY <1>13, <1>0 DEF Prepare, ResolveReconciliation
<1>14. AdminEdit \/ UNCHANGED vars => ComesFrom(t)
  BY <1>0 DEF AdminEdit, vars
<1>15. ASSUME NEW s \in Server, ServerStep(s) PROVE ComesFrom(t)
  <2>1. ~ConnectionLost(s)
    BY DEF ConnectionLost
  <2> QED
    BY <1>15, <2>1, <1>1, <1>3, <1>6, <1>7, <1>8, <1>9, <1>10, <1>12 DEF ServerStep
<1> QED
  BY <1>1, <1>2, <1>5, <1>11, <1>13, <1>14, <1>15 DEF Next

LEMMA InitNone == Init => NoneInv
<1> SUFFICES ASSUME Init PROVE NoneInv
  OBVIOUS
<1>1. \A s \in Server : ~GaveUp(s)
  BY SettleIs DEF Init, GaveUp, PC
<1> QED
  BY <1>1 DEF Init, NoneInv

\* Past a gate is past it for good.
LEMMA BeyondForGood ==
  ASSUME ExecInv, [Next]_vars, NEW c \in Contract, NEW k \in Kind, Beyond(c, k)
  PROVE  Beyond(c, k)'
<1>1. CASE row' = row
  BY <1>1 DEF Beyond
<1>2. CASE row' # row
  BY <1>2, RowSteps, BeyondStays DEF ExecInv
<1> QED
  BY <1>1, <1>2

\* Requests reach the wire by being sent, and land from there.
LEMMA RequestsComeFrom ==
  ASSUME ExecInv, [Next]_vars, ~\E s \in Server : Send(s)
  PROVE  /\ sends' = sends /\ wire' \subseteq wire
         /\ \A c \in Contract, k \in Kind : k \in landed'[c] =>
              k \in landed[c] \/ \E r \in wire : r.cid = c /\ r.kind = k
<1>1. ASSUME NEW r \in wire, Apply(r)
      PROVE  /\ sends' = sends /\ wire' \subseteq wire
             /\ \A c \in Contract, k \in Kind : k \in landed'[c] =>
                  k \in landed[c] \/ (r.cid = c /\ r.kind = k)
  BY <1>1 DEF Apply, ExecInv, TypeOK
<1>2. ASSUME ~\E r \in wire : Apply(r)
      PROVE  sends' = sends /\ wire' \subseteq wire /\ landed' = landed
  <2> DEFINE Quiet == sends' = sends /\ wire' \subseteq wire /\ landed' = landed
  <2>1. ASSUME NEW c \in Contract, Prepare(c) \/ ResolveReconciliation(c) PROVE Quiet
    BY <2>1 DEF Prepare, ResolveReconciliation, history
  <2>2. ASSUME NEW s \in Server, Boot(s) \/ Crash(s) PROVE Quiet
    BY <2>2 DEF Boot, Crash, history
  <2>3. ASSUME NEW s \in Server, ServerStep(s) PROVE Quiet
    <3>1. ~Send(s)
      OBVIOUS
    <3>2. CASE ReconcileNext(s) \/ Serve(s) \/ RefuseClass(s) \/ RaiseBeforeGate(s) \/ EnterGate(s)
      BY <3>2 DEF ReconcileNext, Serve, RefuseClass, RaiseBeforeGate, EnterGate, history
    <3>3. CASE ReadPre(s)
      BY <3>3, ReadPreIs
    <3>4. CASE SendRefused(s) \/ Timeout(s) \/ ConnectionLost(s) \/ Receive(s)
      BY <3>4 DEF SendRefused, Timeout, ConnectionLost, Receive, history
    <3>5. CASE ReadPost(s)
      BY <3>5, ReadPostIs DEF history
    <3>6. CASE Finish(s)
      BY <3>6 DEF Finish, history
    <3> HIDE DEF Quiet
    <3> QED
      BY <2>3, <3>1, <3>2, <3>3, <3>4, <3>5, <3>6 DEF ServerStep
  <2>4. ASSUME NEW s \in Server, NEW c \in Contract, NEW k \in Kind, Begin(s, c, k) PROVE Quiet
    BY <2>4 DEF Begin, history
  <2>5. ASSUME NEW r \in wire, Ignore(r) PROVE Quiet
    BY <2>5 DEF Ignore, history
  <2>6. AdminEdit \/ UNCHANGED vars => Quiet
    BY DEF AdminEdit, vars
  <2> HIDE DEF Quiet
  <2>7. Quiet
    BY <1>2, <2>1, <2>2, <2>3, <2>4, <2>5, <2>6 DEF Next
  <2> QED
    BY <2>7 DEF Quiet
<1> QED
  BY <1>1, <1>2

LEMMA NextKeepsNone ==
  ASSUME ~ResetAfterSend, ExecInv, NoneInv, [Next]_vars
  PROVE  NoneInv'
<1> USE DEF ExecInv
<1>1. \A t \in Server : ComesFrom(t)
  BY ServersComeFrom
<1>2. \A t \in Server : GaveUp(t) \/ Sending(t) => server[t].cid \in Contract /\ server[t].kind \in Kind
  BY DEF GaveUp, Sending, ServersInv, Fits, PastGate, TypeOK, ServerState
<1>3. ASSUME NEW s \in Server, GaveUp(s)'
      PROVE  /\ server'[s].cid = server[s].cid /\ server'[s].kind = server[s].kind
             /\ server[s].cid \in Contract /\ server[s].kind \in Kind
             /\ sends[server[s].cid][server[s].kind] = 0
             /\ Beyond(server[s].cid, server[s].kind)
             /\ \A t \in Server : Sending(t) => ~SameRequest(s, t) \/ (t = s /\ ~GaveUp(s))
    BY <1>1, <1>2, <1>3 DEF ComesFrom, NoneInv, SendInv, SameRequest
<1>4. ASSUME NEW s \in Server, GaveUp(s)'
      PROVE  /\ Beyond(server[s].cid, server[s].kind)'
             /\ \A t \in Server : Sending(t)' => ~SameRequest(s, t)'
  <2>1. PICK c \in Contract, k \in Kind :
          /\ server[s].cid = c /\ server[s].kind = k /\ server'[s].cid = c /\ server'[s].kind = k
          /\ Beyond(c, k)
    BY <1>3, <1>4
  <2>2. Beyond(c, k)'
    BY <2>1, BeyondForGood
  <2>3. ASSUME NEW t \in Server, Sending(t)' PROVE ~SameRequest(s, t)'
    <3>1. t # s
      BY <1>4, <2>3 DEF GaveUp, Sending
    <3>2. /\ server'[t].cid = server[t].cid /\ server'[t].kind = server[t].kind
          /\ Sending(t) \/ ~Beyond(server[t].cid, server[t].kind)
      BY <1>1, <2>3 DEF ComesFrom
    <3>3. ~SameRequest(s, t)
      BY <1>3, <1>4, <2>1, <3>1, <3>2 DEF SameRequest
    <3> QED
      BY <2>1, <3>2, <3>3 DEF SameRequest
  <2> QED
    BY <2>1, <2>2, <2>3 DEF Beyond
<1>5. CASE ~\E s \in Server : Send(s)
  <2>1. /\ sends' = sends /\ wire' \subseteq wire
        /\ \A c \in Contract, k \in Kind : k \in landed'[c] =>
             k \in landed[c] \/ \E r \in wire : r.cid = c /\ r.kind = k
    BY <1>5, RequestsComeFrom
  <2>2. \A r \in wire' : sends'[r.cid][r.kind] = 1
    BY <2>1 DEF NoneInv
  <2>3. \A c \in Contract, k \in Kind : k \in landed'[c] => sends'[c][k] = 1
    BY <2>1 DEF NoneInv
  <2> QED
    BY <1>3, <1>4, <2>1, <2>2, <2>3 DEF NoneInv, Beyond
<1>6. ASSUME NEW s \in Server, Send(s) PROVE NoneInv'
  <2> DEFINE c == server[s].cid
             k == server[s].kind
  <2>0. c \in Contract /\ k \in Kind /\ sends[c][k] = 0 /\ server[s].pc = "send" /\ Sending(s)
    BY <1>2, <1>6 DEF Send, Sending, SendInv
  <2>1. /\ sends'[c][k] = 1
        /\ \A d \in Contract, l \in Kind : d # c \/ l # k => sends'[d][l] = sends[d][l]
    BY <1>6, <2>0 DEF Send, TypeOK
  <2>2. /\ \A r \in wire' : r \in wire \/ (r.cid = c /\ r.kind = k)
        /\ landed' = landed /\ wire \subseteq Request
    BY <1>6 DEF Send, TypeOK
  <2>3. \A r \in wire' : sends'[r.cid][r.kind] = 1
    BY <2>0, <2>1, <2>2 DEF NoneInv, Request
  <2>4. \A d \in Contract, l \in Kind : l \in landed'[d] => sends'[d][l] = 1
    BY <2>0, <2>1, <2>2 DEF NoneInv
  <2>5. ASSUME NEW t \in Server, GaveUp(t)'
        PROVE  sends'[server'[t].cid][server'[t].kind] = 0
    <3>1. t # s
      <4>1. server'[s].pc = "wait"
        BY <1>6 DEF Send, Goto, TypeOK, ServerState
      <4> QED
        BY <2>5, <4>1 DEF GaveUp
    <3>2. ~SameRequest(t, s)
      BY <1>3, <2>0, <2>5, <3>1
    <3> QED
      BY <1>3, <2>1, <2>5, <3>2 DEF SameRequest
  <2> QED
    BY <1>4, <1>3, <2>3, <2>4, <2>5 DEF NoneInv, Beyond
<1> QED
  BY <1>5, <1>6

LEMMA NoneInvariance == ~ResetAfterSend /\ Spec => []NoneInv
<1>1. CASE ~ResetAfterSend
  <2>1. ExecInv /\ NoneInv /\ [Next]_vars => NoneInv'
    BY <1>1, NextKeepsNone
  <2> QED
    BY <2>1, InitNone, ExecInvariance, PTL DEF Spec
<1> QED
  BY <1>1

\* A TransportConnectionError that _send reads as "zero effect, provably" is
\* proof of it in every execution, even with an operator who resolves doubt too
\* early, if no connection breaks after the request was written: that one step
\* of HttpTransport is all that makes it false.
THEOREM ProvenNoneUnlessReset == ~ResetAfterSend /\ Spec => []ProvenNoneIsProven
<1>1. ExecInv /\ NoneInv => ProvenNoneIsProven
  <2> SUFFICES ASSUME ExecInv, NoneInv, NEW s \in Server, GaveUp(s)
               PROVE  /\ server[s].kind \notin landed[server[s].cid]
                      /\ \A r \in wire : ~(r.cid = server[s].cid /\ r.kind = server[s].kind)
    BY DEF ProvenNoneIsProven, GaveUp
  <2>1. server[s].cid \in Contract /\ server[s].kind \in Kind
    BY DEF GaveUp, ExecInv, ServersInv, Fits, PastGate, TypeOK, ServerState
  <2>2. sends[server[s].cid][server[s].kind] = 0
    BY DEF NoneInv
  <2> QED
    BY <2>1, <2>2 DEF NoneInv
<1> QED
  BY <1>1, ExecInvariance, NoneInvariance, PTL
=============================================================================
