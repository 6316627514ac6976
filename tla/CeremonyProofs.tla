--------------------------- MODULE CeremonyProofs ---------------------------
(***************************************************************************)
(* Proofs about the Batch-1 write programme: the owner signs what he saw,  *)
(* and nothing is executed but what he approved at every stage, for any    *)
(* number of capabilities, runs of the signing tool, requests and mishaps. *)
(***************************************************************************)
EXTENDS ShapeASigning, SequenceTheorems, FunctionTheorems, FiniteSetTheorems, TLAPS

PreviewType == [cap : Capability, want : Value, base : Value, plan : Posture]
PendingType == [cap : Capability, want : Value, base : Value, cid : Nat, expires : Nat]
AuthorizationType ==
  [cap : Capability, want : Value, base : Value, plan : Posture, id : Nat, issued : Nat, expires : Nat]
EvidenceType ==
  [cap : Capability, want : Value, base : Value, cid : Nat, issued : Nat, expires : Nat]
Body == PreviewType \cup PendingType \cup AuthorizationType \cup EvidenceType
FileType == [body : Body, mac : Body]

ContractType ==
  [cap : Capability, want : Value, base : Value, auth : AuthorizationType, expires : Nat,
   state : RecoveryState, version : Nat, confirmed : BOOLEAN, executed : BOOLEAN]

Asked(kind) == IF kind = "authorization" THEN PreviewType ELSE PendingType
Signed(kind) == IF kind = "authorization" THEN AuthorizationType ELSE EvidenceType
MemberType == [cap : Capability, request : PreviewType \cup PendingType, id : Nat]

CallType ==
  {Down, NoCall}
    \cup [pc : {"prepare"}, cap : Capability, want : Value, plan : Posture, now : Nat]
    \cup [pc : {"authorize"}, cap : Capability, want : Value, base : Value, plan : Posture, now : Nat,
          auth : AuthorizationType]
    \cup [pc : {"deliver"}, cap : Capability, now : Nat, cid : Nat]
    \cup [pc : {"handoff"}, cap : Capability, now : Nat, cid : Nat, evidence : EvidenceType]

CommandType ==
  [pc : {"next", "prompt", "manifest"}, kind : Kind, todo : SUBSET Capability,
   seen : SUBSET (Capability \X (PreviewType \cup PendingType))]
    \cup [pc : {"member"}, kind : Kind, todo : SUBSET Capability, seen : SUBSET MemberType]

CeremonyType ==
  /\ clock \in Nat /\ posture \in Posture /\ setting \in [Capability -> Value]
  /\ box \in [Capability -> [FileName -> SUBSET FileType]]
  /\ contracts \in Seq(ContractType)
  /\ call \in CallType
  /\ call.pc \in {"deliver", "handoff"} => call.cid \in DOMAIN contracts
  /\ tool \in [SigningTool -> {NoCommand} \cup CommandType]
  /\ drawn \in Nat

\* the kind of artifact each file is for
BodyOf(name) ==
  CASE name = "preview" -> PreviewType [] name = "inbox" -> AuthorizationType
    [] name = "pending" -> PendingType [] name = "signed" -> EvidenceType

\* A file was written by the server or by the tool: its MAC or signature is
\* of something requested or signed.
WrittenFor(c, name, x) ==
  /\ x \in BodyOf(name) /\ x.cap = c
  /\ name \in {"preview", "pending"} => x \in requested
  /\ name \in {"inbox", "signed"} => x \in signatures

FilesInv ==
  \A c \in Capability, n \in FileName :
    /\ \A f, g \in box[c][n] : f = g
    /\ \A f \in box[c][n] : WrittenFor(c, n, f.mac)

\* the owner said yes to this change, or to this contract
YesToChange(i) == \E r \in reviewed : r \in PreviewType /\ Intent(r) = i
YesToContract(i, k) == \E r \in reviewed : r \in PendingType /\ Intent(r) = i /\ r.cid = k

SignedInv ==
  \A s \in signatures :
    \/ s \in AuthorizationType /\ YesToChange(Intent(s))
    \/ s \in EvidenceType /\ YesToContract(Intent(s), s.cid)

CallInv ==
  /\ call.pc = "authorize" => call.auth \in signatures
  /\ call.pc = "handoff" => call.evidence \in signatures

\* What a command has shown or is going to sign.
ShownInv(cmd) ==
  /\ cmd.pc \in {"prompt", "manifest"} =>
       \A x \in cmd.seen : /\ x \in Capability \X Asked(cmd.kind)
                           /\ x[1] \in cmd.todo /\ x[2] \in requested
  /\ cmd.pc = "manifest" => IsFiniteSet(cmd.seen)
  /\ cmd.pc = "member" =>
       \A m \in cmd.seen : m \in MemberType /\ m.request \in Asked(cmd.kind) /\ m.request \in reviewed

ToolInv == \A t \in SigningTool : ShownInv(tool[t])

ContractsInv ==
  \A k \in DOMAIN contracts :
    /\ YesToChange(Intent(contracts[k]))
    /\ contracts[k].executed =>
         /\ contracts[k].confirmed
         /\ YesToContract(Intent(contracts[k]), k)
         /\ contracts[k].cap \in StandardSealed =>
              \E s \in sealed : s.cid = k /\ s.version = contracts[k].version

CeremonyInv ==
  CeremonyType /\ FilesInv /\ OwnerSeesRequests /\ SignedInv /\ CallInv /\ ToolInv /\ ContractsInv

LEMMA Domains ==
  /\ \A x \in PreviewType \cup AuthorizationType : "plan" \in DOMAIN x /\ "cid" \notin DOMAIN x
  /\ \A x \in PendingType \cup EvidenceType : "cid" \in DOMAIN x /\ "plan" \notin DOMAIN x
BY DEF PreviewType, AuthorizationType, PendingType, EvidenceType

LEMMA BodyTypes ==
  /\ BodyOf("preview") = PreviewType /\ BodyOf("inbox") = AuthorizationType
  /\ BodyOf("pending") = PendingType /\ BodyOf("signed") = EvidenceType
  /\ \A n \in FileName : BodyOf(n) \subseteq Body
BY DEF BodyOf, Body, FileName

LEMMA Intents ==
  ASSUME NEW x \in Body
  PROVE  Intent(x) = [cap |-> x.cap, want |-> x.want, base |-> x.base]
         /\ x.cap \in Capability /\ x.want \in Value /\ x.base \in Value
BY DEF Intent, Body, PreviewType, AuthorizationType, PendingType, EvidenceType

LEMMA CeremonyStart == CeremonyInit => CeremonyInv
<1> SUFFICES ASSUME CeremonyInit PROVE CeremonyInv
  OBVIOUS
<1>1. box \in [Capability -> [FileName -> SUBSET FileType]] /\ \A c \in Capability, n \in FileName : box[c][n] = {}
  BY DEF CeremonyInit, NoFiles
<1>2. contracts \in Seq(ContractType) /\ DOMAIN contracts = {}
  BY DEF CeremonyInit
<1>3. CeremonyType
  BY <1>1, <1>2 DEF CeremonyInit, CeremonyType, CallType, Down
<1> QED
  BY <1>1, <1>2, <1>3 DEF CeremonyInit, CeremonyInv, FilesInv, OwnerSeesRequests, SignedInv, CallInv, Down,
     ToolInv, ShownInv, NoCommand, ContractsInv


-----------------------------------------------------------------------------
(* What a step leaves alone.                                               *)

\* nothing that was signed, reviewed, requested or approved is forgotten
HistoryGrows ==
  /\ signatures \subseteq signatures' /\ reviewed \subseteq reviewed'
  /\ requested \subseteq requested' /\ sealed \subseteq sealed'

LEMMA LoadMeans ==
  ASSUME CeremonyType, FilesInv, NEW c \in Capability, NEW n \in FileName, NEW x \in Load(c, n)
  PROVE  WrittenFor(c, n, x)
BY DEF Load, FilesInv

LEMMA YesStays ==
  ASSUME HistoryGrows, NEW i
  PROVE  /\ YesToChange(i) => YesToChange(i)'
         /\ \A k : YesToContract(i, k) => YesToContract(i, k)'
BY DEF HistoryGrows, YesToChange, YesToContract

LEMMA FilesKept ==
  ASSUME FilesInv, HistoryGrows, UNCHANGED box
  PROVE  FilesInv'
BY DEF FilesInv, HistoryGrows, WrittenFor

\* a new file, or the one that was there
LEMMA FileWritten ==
  ASSUME CeremonyType, FilesInv, HistoryGrows, NEW c \in Capability, NEW n \in FileName, NEW x,
         WriteNew(c, n, x), box[c][n] = {} => WrittenFor(c, n, x)'
  PROVE  FilesInv' /\ box' \in [Capability -> [FileName -> SUBSET FileType]]
<1>0. box \in [Capability -> [FileName -> SUBSET FileType]]
  BY DEF CeremonyType
<1>1. CASE box[c][n] # {}
  <2>1. box' = box
    BY <1>0, <1>1 DEF WriteNew
  <2> QED
    BY <1>0, <2>1, FilesKept
<1>2. CASE box[c][n] = {}
  <2>0. PICK F : F = File(x)
    OBVIOUS
  <2>1. box' = [box EXCEPT ![c] = [box[c] EXCEPT ![n] = F]]
    BY <1>0, <1>2, <2>0 DEF WriteNew
  <2>2. WrittenFor(c, n, x)'
    BY <1>2
  <2>3. x \in Body
    BY <2>2, BodyTypes DEF WrittenFor
  <2>4. F \in SUBSET FileType /\ \A f \in F : f.mac = x
    BY <2>0, <2>3 DEF File, FileType
  <2>5. \A f, g \in F : f = g
    BY <2>0 DEF File
  <2>6. box' \in [Capability -> [FileName -> SUBSET FileType]]
    BY <1>0, <2>1, <2>4
  <2>7. ASSUME NEW d \in Capability, NEW m \in FileName
        PROVE  /\ \A f, g \in box'[d][m] : f = g
               /\ \A f \in box'[d][m] : WrittenFor(d, m, f.mac)'
    <3>1. CASE d = c /\ m = n
      BY <1>0, <2>1, <2>2, <2>4, <2>5, <3>1
    <3>2. CASE ~(d = c /\ m = n)
      <4>1. box'[d][m] = box[d][m]
        BY <1>0, <2>1, <3>2
      <4> QED
        BY <4>1 DEF FilesInv, WrittenFor, HistoryGrows
    <3> QED
      BY <3>1, <3>2
  <2>8. FilesInv'
    BY <2>7 DEF FilesInv, WrittenFor
  <2> QED
    BY <2>6, <2>8
<1> QED
  BY <1>1, <1>2

LEMMA ShownKept ==
  ASSUME NEW cmd, ShownInv(cmd), HistoryGrows
  PROVE  ShownInv(cmd)'
BY DEF ShownInv, HistoryGrows

LEMMA ToolKept ==
  ASSUME ToolInv, HistoryGrows, UNCHANGED tool
  PROVE  ToolInv'
<1> SUFFICES ASSUME NEW t \in SigningTool PROVE ShownInv(tool[t])'
  BY DEF ToolInv
<1>1. PICK cmd : cmd = tool[t] /\ cmd = tool'[t]
  OBVIOUS
<1>2. ShownInv(cmd)'
  BY <1>1, ShownKept DEF ToolInv
<1> QED
  BY <1>1, <1>2 DEF ShownInv

\* one run of the tool goes on with another command
LEMMA ToolMoves ==
  ASSUME CeremonyType, ToolInv, HistoryGrows, NEW t \in SigningTool, NEW cmd \in {NoCommand} \cup CommandType,
         tool' = [tool EXCEPT ![t] = cmd], ShownInv(cmd)'
  PROVE  ToolInv' /\ tool' \in [SigningTool -> {NoCommand} \cup CommandType]
<1>0. tool \in [SigningTool -> {NoCommand} \cup CommandType]
  BY DEF CeremonyType
<1>1. tool' \in [SigningTool -> {NoCommand} \cup CommandType]
  BY <1>0
<1>2. ASSUME NEW u \in SigningTool PROVE ShownInv(tool[u])'
  <2>1. PICK d : d = tool'[u] /\ ShownInv(d)'
    <3>1. CASE u = t
      BY <1>0, <3>1
    <3>2. CASE u # t
      <4>1. PICK d : d = tool[u] /\ ShownInv(d)
        BY DEF ToolInv
      <4>2. ShownInv(d)' /\ d = tool'[u]
        BY <1>0, <3>2, <4>1, ShownKept
      <4> QED
        BY <4>2
    <3> QED
      BY <3>1, <3>2
  <2> QED
    BY <2>1 DEF ShownInv
<1> QED
  BY <1>1, <1>2 DEF ToolInv

LEMMA ToolStops ==
  ASSUME CeremonyType, ToolInv, HistoryGrows, NEW t \in SigningTool, Abort(t)
  PROVE  ToolInv' /\ tool' \in [SigningTool -> {NoCommand} \cup CommandType]
<1>1. ShownInv(NoCommand)'
  BY DEF ShownInv, NoCommand
<1> QED
  BY <1>1, ToolMoves DEF Abort

LEMMA ContractsKept ==
  ASSUME ContractsInv, HistoryGrows, UNCHANGED contracts
  PROVE  ContractsInv'
BY YesStays DEF ContractsInv, HistoryGrows

LEMMA SignedKept ==
  ASSUME SignedInv, HistoryGrows, UNCHANGED signatures
  PROVE  SignedInv'
BY YesStays DEF SignedInv

LEMMA CallKept ==
  ASSUME CallInv, HistoryGrows, UNCHANGED call
  PROVE  CallInv'
BY DEF CallInv, HistoryGrows


-----------------------------------------------------------------------------
(* The server.                                                             *)

LEMMA CallTypes ==
  ASSUME CeremonyType
  PROVE  /\ call.pc # "down" /\ call.pc # "idle" => call.cap \in Capability /\ call.now \in Nat
         /\ call.pc \in {"prepare", "authorize"} => call.want \in Value /\ call.plan \in Posture
         /\ call.pc = "authorize" => call.base \in Value /\ call.auth \in AuthorizationType
         /\ call.pc \in {"deliver", "handoff"} => call.cid \in Nat /\ call.cid \in DOMAIN contracts
         /\ call.pc = "handoff" => call.evidence \in EvidenceType
<1>1. call \in CallType
  BY DEF CeremonyType
<1>2. CASE call \in {Down, NoCall}
  BY <1>2 DEF Down, NoCall
<1>3. CASE call \in [pc : {"prepare"}, cap : Capability, want : Value, plan : Posture, now : Nat]
  BY <1>3
<1>4. CASE call \in [pc : {"authorize"}, cap : Capability, want : Value, base : Value, plan : Posture, now : Nat,
                     auth : AuthorizationType]
  BY <1>4
<1>5. CASE call \in [pc : {"deliver"}, cap : Capability, now : Nat, cid : Nat]
  BY <1>5 DEF CeremonyType
<1>6. CASE call \in [pc : {"handoff"}, cap : Capability, now : Nat, cid : Nat, evidence : EvidenceType]
  BY <1>6 DEF CeremonyType
<1> QED
  BY <1>1, <1>2, <1>3, <1>4, <1>5, <1>6 DEF CallType

LEMMA ContractTypes ==
  ASSUME CeremonyType, NEW k \in DOMAIN contracts
  PROVE  contracts[k] \in ContractType /\ k \in Nat /\ DOMAIN contracts = 1..Len(contracts) /\ Len(contracts) \in Nat
<1>1. contracts \in Seq(ContractType)
  BY DEF CeremonyType
<1> QED
  BY <1>1, ElementOfSeq, LenProperties

\* the call of the server ends, or begins
LEMMA CallAnswered ==
  ASSUME CeremonyType, call' \in {NoCall, Down}
  PROVE  call' \in CallType /\ CallInv' /\ call'.pc \notin {"deliver", "handoff"}
BY DEF CallType, NoCall, Down, CallInv

LEMMA RequestChangeInv ==
  ASSUME CeremonyInv, NEW c \in Capability, NEW want \in Value, RequestChange(c, want)
  PROVE  CeremonyInv'
<1> USE DEF CeremonyInv
<1>1. /\ UNCHANGED <<clock, posture, setting, box, contracts, tool, drawn, signatures, reviewed, requested, sealed>>
      /\ call' = [pc |-> "prepare", cap |-> c, want |-> want, plan |-> posture, now |-> clock]
  BY DEF RequestChange, world, store, owner, budget
<1>2. HistoryGrows
  BY <1>1 DEF HistoryGrows
<1>3. call' \in CallType /\ CallInv' /\ call'.pc = "prepare"
  BY <1>1 DEF CallType, CallInv, CeremonyType
<1>4. CeremonyType'
  BY <1>1, <1>3 DEF CeremonyType
<1>5. FilesInv' /\ OwnerSeesRequests' /\ SignedInv' /\ ToolInv' /\ ContractsInv'
  BY <1>1, <1>2, FilesKept, SignedKept, ToolKept, ContractsKept DEF OwnerSeesRequests
<1> QED
  BY <1>3, <1>4, <1>5

LEMMA BuildRuntimeInv ==
  ASSUME CeremonyInv, BuildRuntime
  PROVE  CeremonyInv'
<1> USE DEF CeremonyInv
<1>1. /\ UNCHANGED <<clock, posture, setting, box, tool, drawn, signatures, reviewed, requested, sealed>>
      /\ call' = NoCall
  BY DEF BuildRuntime, world, owner, budget
<1>2. HistoryGrows
  BY <1>1 DEF HistoryGrows
<1>3. call' \in CallType /\ CallInv' /\ call'.pc \notin {"deliver", "handoff"}
  BY <1>1, CallAnswered
<1>4. contracts' \in Seq(ContractType) /\ DOMAIN contracts' = DOMAIN contracts
      /\ \A k \in DOMAIN contracts :
           /\ contracts'[k].cap = contracts[k].cap /\ contracts'[k].want = contracts[k].want
           /\ contracts'[k].base = contracts[k].base /\ contracts'[k].version = contracts[k].version
           /\ contracts'[k].confirmed = contracts[k].confirmed /\ contracts'[k].executed = contracts[k].executed
  <2>0. contracts \in Seq(ContractType) /\ Len(contracts) \in Nat /\ DOMAIN contracts = 1..Len(contracts)
    BY LenProperties DEF CeremonyType
  <2>1. ASSUME NEW k \in DOMAIN contracts
        PROVE  /\ contracts'[k] \in ContractType
               /\ contracts'[k].cap = contracts[k].cap /\ contracts'[k].want = contracts[k].want
               /\ contracts'[k].base = contracts[k].base /\ contracts'[k].version = contracts[k].version
               /\ contracts'[k].confirmed = contracts[k].confirmed /\ contracts'[k].executed = contracts[k].executed
    <3>1. PICK r \in ContractType : r = contracts[k]
      BY ContractTypes
    <3> DEFINE s == [r EXCEPT !.state = "reconciliation"]
    <3>2. /\ s \in ContractType /\ s.cap = r.cap /\ s.want = r.want /\ s.base = r.base
          /\ s.version = r.version /\ s.confirmed = r.confirmed /\ s.executed = r.executed
      BY <3>1 DEF ContractType, RecoveryState
    <3>3. contracts'[k] = r \/ contracts'[k] = s
      BY <3>1 DEF BuildRuntime
    <3> HIDE DEF s
    <3> QED
      BY <3>1, <3>2, <3>3
  <2>2. DOMAIN contracts' = DOMAIN contracts /\ contracts' \in [1..Len(contracts) -> ContractType]
    BY <2>0, <2>1 DEF BuildRuntime
  <2>3. contracts' \in Seq(ContractType)
    BY <2>0, <2>2, SeqDef
  <2> QED
    BY <2>1, <2>2, <2>3
<1>5. CeremonyType'
  BY <1>1, <1>3, <1>4 DEF CeremonyType
<1>6. ContractsInv'
  <2>1. \A k \in DOMAIN contracts : Intent(contracts[k])' = Intent(contracts[k])
    BY <1>4 DEF Intent
  <2> QED
    BY <1>1, <1>4, <2>1 DEF ContractsInv, YesToChange, YesToContract
<1>7. FilesInv' /\ OwnerSeesRequests' /\ SignedInv' /\ ToolInv'
  BY <1>1, <1>2, FilesKept, SignedKept, ToolKept DEF OwnerSeesRequests
<1> QED
  BY <1>3, <1>5, <1>6, <1>7

\* The request put into a file is one the owner may be shown.
LEMMA RequestWritten ==
  ASSUME CeremonyInv, NEW c \in Capability, NEW n \in {"preview", "pending"}, NEW x \in BodyOf(n), x.cap = c,
         WriteNew(c, n, x), requested' = IF Present(c, n) THEN requested ELSE requested \cup {x},
         UNCHANGED <<signatures, reviewed, sealed>>
  PROVE  /\ HistoryGrows /\ FilesInv' /\ box' \in [Capability -> [FileName -> SUBSET FileType]]
         /\ OwnerSeesRequests'
<1> USE DEF CeremonyInv
<1>1. HistoryGrows
  BY DEF HistoryGrows
<1>2. box[c][n] = {} => WrittenFor(c, n, x)'
  BY DEF Present, WrittenFor, BodyOf
<1>3. n \in FileName
  BY DEF FileName
<1> QED
  BY <1>1, <1>2, <1>3, FileWritten DEF OwnerSeesRequests, HistoryGrows


LEMMA Delivery ==
  ASSUME CeremonyType, call.pc \in {"prepare", "authorize"}, NEW k \in Nat, ToDelivery(k)
  PROVE  call' \in CallType /\ CallInv' /\ call'.cid = k
<1>1. call.cap \in Capability /\ call.now \in Nat
  BY CallTypes
<1>2. call' \in [pc : {"deliver"}, cap : Capability, now : Nat, cid : Nat] /\ call'.pc = "deliver" /\ call'.cid = k
  BY <1>1 DEF ToDelivery
<1> QED
  BY <1>2 DEF CallType, CallInv

LEMMA PrepareChangeInv ==
  ASSUME CeremonyInv, PrepareChange
  PROVE  CeremonyInv'
<1> USE DEF CeremonyInv
<1>1. /\ UNCHANGED <<clock, posture, setting, contracts, tool, drawn, signatures, reviewed, sealed>>
      /\ call.pc = "prepare"
  BY DEF PrepareChange, world, store, owner, budget, AtCall
<1>2. call.cap \in Capability /\ call.want \in Value /\ call.plan \in Posture /\ call.now \in Nat
  BY <1>1, CallTypes
<1> DEFINE i == [cap |-> call.cap, want |-> call.want, base |-> setting[call.cap]]
<1>3. /\ i.cap = call.cap /\ i.want = call.want /\ i.base \in Value
  BY <1>2 DEF CeremonyType
<1>4. \/ (Answer \/ \E k \in Blocking(i) : ToDelivery(k)) /\ UNCHANGED <<box, requested>>
      \/ Fetch(i)
  BY DEF PrepareChange
<1>5. \A k \in Blocking(i) : k \in DOMAIN contracts /\ k \in Nat
  BY ContractTypes DEF Blocking
<1> HIDE DEF i
<1>6. CASE (Answer \/ \E k \in Blocking(i) : ToDelivery(k)) /\ UNCHANGED <<box, requested>>
  <2>1. HistoryGrows
    BY <1>1, <1>6 DEF HistoryGrows
  <2>2. call' \in CallType /\ CallInv' /\ (call'.pc \in {"deliver", "handoff"} => call'.cid \in DOMAIN contracts)
    BY <1>1, <1>5, <1>6, CallAnswered, Delivery DEF Answer
  <2>3. CeremonyType'
    BY <1>1, <1>6, <2>2 DEF CeremonyType
  <2> QED
    BY <1>1, <1>6, <2>1, <2>2, <2>3, FilesKept, SignedKept, ToolKept, ContractsKept DEF OwnerSeesRequests
<1>7. CASE Fetch(i)
  <2>1. PICK x : x = Preview(call.cap, i.want, i.base, call.plan)
    OBVIOUS
  <2>2. x \in PreviewType /\ x.cap = call.cap
    BY <1>2, <1>3, <2>1 DEF Preview, PreviewType
  <2>3. /\ WriteNew(call.cap, "preview", x)
        /\ requested' = IF Present(call.cap, "preview") THEN requested ELSE requested \cup {x}
    BY <1>7, <2>1 DEF Fetch
  <2>4. /\ HistoryGrows /\ FilesInv' /\ box' \in [Capability -> [FileName -> SUBSET FileType]]
        /\ OwnerSeesRequests'
    BY <1>1, <1>2, <2>2, <2>3, BodyTypes, RequestWritten
  <2>5. call' \in CallType /\ CallInv' /\ call'.pc \notin {"deliver", "handoff"}
    <3>1. CASE Answer
      BY <3>1, CallAnswered DEF Answer
    <3>2. CASE ~Answer
      <4>1. /\ Load(call.cap, "inbox") # {}
            /\ call' = [pc |-> "authorize", cap |-> call.cap, want |-> i.want, base |-> i.base,
                        plan |-> call.plan, now |-> call.now, auth |-> CHOOSE a \in Load(call.cap, "inbox") : TRUE]
        BY <1>7, <3>2 DEF Fetch
      <4>2. PICK a : a = (CHOOSE b \in Load(call.cap, "inbox") : TRUE) /\ a \in Load(call.cap, "inbox")
        BY <4>1
      <4>3. WrittenFor(call.cap, "inbox", a)
        BY <1>2, <4>2, LoadMeans DEF FileName
      <4>4. a \in AuthorizationType /\ a \in signatures
        BY <4>3, BodyTypes DEF WrittenFor
      <4>5. call' = [pc |-> "authorize", cap |-> call.cap, want |-> i.want, base |-> i.base,
                     plan |-> call.plan, now |-> call.now, auth |-> a]
        BY <4>1, <4>2
      <4> QED
        BY <1>1, <1>2, <1>3, <4>4, <4>5 DEF CallType, CallInv
    <3> QED
      BY <3>1, <3>2
  <2>6. CeremonyType'
    BY <1>1, <2>4, <2>5 DEF CeremonyType
  <2> QED
    BY <1>1, <2>4, <2>5, <2>6, SignedKept, ToolKept, ContractsKept
<1> QED
  BY <1>4, <1>6, <1>7

LEMMA AuthorizeAndCreateInv ==
  ASSUME CeremonyInv, AuthorizeAndCreate
  PROVE  CeremonyInv'
<1> USE DEF CeremonyInv
<1>1. /\ UNCHANGED <<clock, posture, setting, box, tool, drawn, signatures, reviewed, requested, sealed>>
      /\ call.pc = "authorize"
  BY DEF AuthorizeAndCreate, world, owner, budget, AtCall
<1>2. HistoryGrows
  BY <1>1 DEF HistoryGrows
<1>3. PICK a \in AuthorizationType : a = call.auth /\ a \in signatures
  BY <1>1, CallTypes DEF CallInv
<1>4. /\ call.cap \in Capability /\ call.want \in Value /\ call.base \in Value /\ call.now \in Nat
  BY <1>1, CallTypes
<1>5. CASE Answer /\ UNCHANGED contracts
  <2>1. call' \in CallType /\ CallInv' /\ call'.pc \notin {"deliver", "handoff"}
    BY <1>5, CallAnswered DEF Answer
  <2>2. CeremonyType'
    BY <1>1, <1>5, <2>1 DEF CeremonyType
  <2> QED
    BY <1>1, <1>2, <1>5, <2>1, <2>2, FilesKept, SignedKept, ToolKept, ContractsKept DEF OwnerSeesRequests
<1>6. CASE /\ Authorizes(a) /\ contracts' = Append(contracts, NewContract(a)) /\ ToDelivery(Len(contracts) + 1)
  <2>1. PICK r : r = NewContract(a)
    OBVIOUS
  <2>2. /\ r \in ContractType /\ r.cap = call.cap /\ r.want = call.want /\ r.base = call.base
        /\ r.executed = FALSE
    <3>1. Earlier(call.now + ContractValidity, a.expires) \in Nat
      BY <1>3, <1>4, CeremonyAssumption DEF Earlier, AuthorizationType
    <3> QED
      BY <1>3, <1>4, <2>1, <3>1 DEF NewContract, ContractType, RecoveryState
  <2>3. /\ contracts' \in Seq(ContractType) /\ Len(contracts) \in Nat /\ Len(contracts') = Len(contracts) + 1
        /\ \A k \in 1..Len(contracts) : contracts'[k] = contracts[k]
        /\ contracts'[Len(contracts) + 1] = r
        /\ DOMAIN contracts = 1..Len(contracts) /\ DOMAIN contracts' = 1..(Len(contracts) + 1)
    <3>1. contracts \in Seq(ContractType)
      BY DEF CeremonyType
    <3> QED
      BY <1>6, <2>1, <2>2, <3>1, AppendProperties, LenProperties
  <2>4. call' \in CallType /\ CallInv' /\ call'.cid = Len(contracts) + 1
    BY <1>1, <1>6, <2>3, Delivery
  <2>5. CeremonyType'
    BY <1>1, <2>3, <2>4 DEF CeremonyType
  <2>6. YesToChange(Intent(r))
    <3>1. Intent(a) = Intent(r)
      BY <1>6, <2>2 DEF Authorizes, Intent
    <3>2. a \notin EvidenceType
      BY <1>3, Domains
    <3> QED
      BY <1>3, <3>1, <3>2 DEF SignedInv
  <2>7. ContractsInv'
    <3> SUFFICES ASSUME NEW k \in DOMAIN contracts'
                 PROVE  /\ YesToChange(Intent(contracts[k]))'
                        /\ contracts'[k].executed =>
                             /\ contracts'[k].confirmed
                             /\ YesToContract(Intent(contracts[k]), k)'
                             /\ contracts'[k].cap \in StandardSealed =>
                                  \E s \in sealed' : s.cid = k /\ s.version = contracts'[k].version
      BY DEF ContractsInv
    <3>1. CASE k \in DOMAIN contracts
      BY <1>1, <2>3, <3>1 DEF ContractsInv, YesToChange, YesToContract, Intent
    <3>2. CASE k = Len(contracts) + 1
      BY <1>1, <2>2, <2>3, <2>6, <3>2 DEF YesToChange, Intent
    <3> QED
      BY <2>3, <3>1, <3>2
  <2> QED
    BY <1>1, <1>2, <2>4, <2>5, <2>7, FilesKept, SignedKept, ToolKept DEF OwnerSeesRequests
<1> QED
  BY <1>3, <1>5, <1>6 DEF AuthorizeAndCreate, store

LEMMA DeliverPendingInv ==
  ASSUME CeremonyInv, DeliverPending
  PROVE  CeremonyInv'
<1> USE DEF CeremonyInv
<1>1. /\ UNCHANGED <<clock, posture, setting, contracts, tool, drawn, signatures, reviewed, sealed>>
      /\ call.pc = "deliver"
  BY DEF DeliverPending, world, store, owner, budget, AtCall
<1>2. PICK c \in Capability, k \in DOMAIN contracts : c = call.cap /\ k = call.cid /\ k \in Nat /\ call.now \in Nat
  BY <1>1, CallTypes
<1>3. PICK x : x = Pending(c, k)
  OBVIOUS
<1>4. x \in PendingType /\ x.cap = c
  BY <1>2, <1>3, ContractTypes DEF Pending, PendingType, ContractType
<1>5. /\ WriteNew(c, "pending", x)
      /\ requested' = IF Present(c, "pending") THEN requested ELSE requested \cup {x}
      /\ \/ Answer
         \/ \E e \in Load(c, "signed") :
              call' = [pc |-> "handoff", cap |-> c, now |-> call.now, cid |-> k, evidence |-> e]
  BY <1>2, <1>3 DEF DeliverPending
<1>6. /\ HistoryGrows /\ FilesInv' /\ box' \in [Capability -> [FileName -> SUBSET FileType]]
      /\ OwnerSeesRequests'
  BY <1>1, <1>4, <1>5, BodyTypes, RequestWritten
<1>7. call' \in CallType /\ CallInv' /\ (call'.pc \in {"deliver", "handoff"} => call'.cid \in DOMAIN contracts)
  <2>1. CASE Answer
    BY <2>1, CallAnswered DEF Answer
  <2>2. ASSUME NEW e \in Load(c, "signed"),
               call' = [pc |-> "handoff", cap |-> c, now |-> call.now, cid |-> k, evidence |-> e]
        PROVE  call' \in CallType /\ CallInv' /\ call'.cid \in DOMAIN contracts
    <3>1. WrittenFor(c, "signed", e)
      BY <2>2, LoadMeans DEF FileName
    <3>2. e \in EvidenceType /\ e \in signatures
      BY <3>1, BodyTypes DEF WrittenFor
    <3> QED
      BY <1>1, <1>2, <2>2, <3>2 DEF CallType, CallInv
  <2> QED
    BY <1>5, <2>1, <2>2
<1>8. CeremonyType'
  BY <1>1, <1>6, <1>7 DEF CeremonyType
<1> QED
  BY <1>1, <1>6, <1>7, <1>8, SignedKept, ToolKept, ContractsKept

LEMMA ConfirmAndHandoffInv ==
  ASSUME CeremonyInv, ConfirmAndHandoff
  PROVE  CeremonyInv'
<1> USE DEF CeremonyInv
<1>1. /\ UNCHANGED <<clock, posture, box, tool, drawn, signatures, reviewed, requested, sealed>>
      /\ call.pc = "handoff" /\ Answer
  BY DEF ConfirmAndHandoff, owner, budget, AtCall
<1>2. HistoryGrows
  BY <1>1 DEF HistoryGrows
<1>3. call' \in CallType /\ CallInv' /\ call'.pc \notin {"deliver", "handoff"}
  BY <1>1, CallAnswered DEF Answer
<1>4. PICK k \in DOMAIN contracts, e \in EvidenceType, r \in ContractType :
        k = call.cid /\ e = call.evidence /\ e \in signatures /\ r = contracts[k]
  BY <1>1, CallTypes, ContractTypes DEF CallInv
<1>5. YesToContract(Intent(e), e.cid)
  BY <1>4, Domains DEF SignedInv
<1> DEFINE confirmed == [r EXCEPT !.confirmed = TRUE, !.version = @ + 1]
<1>6. CASE UNCHANGED <<contracts, setting>>
  <2>1. CeremonyType'
    BY <1>1, <1>3, <1>6 DEF CeremonyType
  <2> QED
    BY <1>1, <1>2, <1>3, <1>6, <2>1, FilesKept, SignedKept, ToolKept, ContractsKept DEF OwnerSeesRequests
\* one contract is replaced by one of the same intent
<1>7. ASSUME NEW n \in ContractType, contracts' = [contracts EXCEPT ![k] = n], setting' \in [Capability -> Value],
             n.cap = r.cap, n.want = r.want, n.base = r.base,
             n.executed => /\ n.confirmed /\ YesToContract(Intent(r), k)
                           /\ r.cap \in StandardSealed => \E s \in sealed : s.cid = k /\ s.version = n.version
      PROVE  CeremonyInv'
  <2>0. contracts \in Seq(ContractType) /\ Len(contracts) \in Nat /\ DOMAIN contracts = 1..Len(contracts)
    BY LenProperties DEF CeremonyType
  <2>1. /\ contracts' \in Seq(ContractType) /\ DOMAIN contracts' = DOMAIN contracts
        /\ contracts'[k] = n /\ \A j \in DOMAIN contracts : j # k => contracts'[j] = contracts[j]
    BY <1>7, <2>0, ExceptSeq
  <2>2. CeremonyType'
    BY <1>1, <1>3, <1>7, <2>1 DEF CeremonyType
  <2>3. \A j \in DOMAIN contracts : Intent(contracts[j])' = Intent(contracts[j])
    BY <1>4, <1>7, <2>1 DEF Intent
  <2>4. ContractsInv'
    <3> SUFFICES ASSUME NEW j \in DOMAIN contracts
                 PROVE  /\ YesToChange(Intent(contracts[j]))'
                        /\ contracts'[j].executed =>
                             /\ contracts'[j].confirmed
                             /\ YesToContract(Intent(contracts[j]), j)'
                             /\ contracts'[j].cap \in StandardSealed =>
                                  \E s \in sealed' : s.cid = j /\ s.version = contracts'[j].version
      BY <2>1 DEF ContractsInv
    <3>1. YesToChange(Intent(contracts[j]))'
      BY <1>1, <2>3 DEF ContractsInv, YesToChange
    <3>2. CASE j # k
      BY <1>1, <2>1, <2>3, <3>1, <3>2 DEF ContractsInv, YesToContract
    <3>3. CASE j = k
      BY <1>1, <1>4, <1>7, <2>1, <2>3, <3>1, <3>3 DEF YesToContract
    <3> QED
      BY <3>2, <3>3
  <2> QED
    BY <1>1, <1>2, <1>3, <2>2, <2>4, FilesKept, SignedKept, ToolKept DEF OwnerSeesRequests
<1>8. /\ confirmed \in ContractType /\ confirmed.cap = r.cap /\ confirmed.want = r.want /\ confirmed.base = r.base
      /\ confirmed.confirmed = TRUE /\ confirmed.version = r.version + 1 /\ confirmed.executed = r.executed
  <2>1. PICK v \in Nat : v = r.version + 1
    BY DEF ContractType
  <2>2. confirmed = [r EXCEPT !.confirmed = TRUE, !.version = v]
    BY <2>1
  <2> HIDE DEF confirmed
  <2>3. /\ confirmed \in ContractType /\ confirmed.cap = r.cap /\ confirmed.want = r.want /\ confirmed.base = r.base
        /\ confirmed.version = v /\ confirmed.executed = r.executed
    BY <2>2 DEF ContractType
  <2>4. confirmed.confirmed = TRUE
    BY <2>2 DEF ContractType
  <2> QED
    BY <2>1, <2>3, <2>4
<1>9. \/ UNCHANGED <<contracts, setting>>
      \/ /\ ~r.confirmed /\ UNCHANGED setting
         /\ \E n \in {confirmed, [confirmed EXCEPT !.state = "failed"]} : contracts' = [contracts EXCEPT ![k] = n]
      \/ /\ Confirms(e, k)
         /\ SecurityClass(r.cap) = "standard_sealed_write" => SealApproved(k, confirmed.version)
         /\ \E state \in {"verified", "failed", "reconciliation"} :
              /\ setting' = setting \/ setting' = [setting EXCEPT ![r.cap] = r.want]
              /\ contracts' = [contracts EXCEPT ![k] = [confirmed EXCEPT !.state = state, !.executed = TRUE]]
  BY <1>4 DEF ConfirmAndHandoff
<1> HIDE DEF confirmed
<1>10. CASE /\ ~r.confirmed /\ UNCHANGED setting
            /\ \E n \in {confirmed, [confirmed EXCEPT !.state = "failed"]} : contracts' = [contracts EXCEPT ![k] = n]
  <2>1. r.executed = FALSE
    BY <1>4, <1>10 DEF ContractsInv, ContractType
  <2> DEFINE f == [confirmed EXCEPT !.state = "failed"]
  <2>2. f \in ContractType /\ f.cap = r.cap /\ f.want = r.want /\ f.base = r.base /\ f.executed = r.executed
    BY <1>8 DEF ContractType, RecoveryState
  <2>3. contracts' = [contracts EXCEPT ![k] = confirmed] \/ contracts' = [contracts EXCEPT ![k] = f]
    BY <1>10
  <2>4. setting' \in [Capability -> Value]
    BY <1>10 DEF CeremonyType
  <2> HIDE DEF f
  <2> QED
    BY <1>7, <1>8, <2>1, <2>2, <2>3, <2>4
<1>11. CASE /\ Confirms(e, k)
            /\ SecurityClass(r.cap) = "standard_sealed_write" => SealApproved(k, confirmed.version)
            /\ \E state \in {"verified", "failed", "reconciliation"} :
                 /\ setting' = setting \/ setting' = [setting EXCEPT ![r.cap] = r.want]
                 /\ contracts' = [contracts EXCEPT ![k] = [confirmed EXCEPT !.state = state, !.executed = TRUE]]
  <2>1. PICK state \in {"verified", "failed", "reconciliation"} :
                 /\ setting' = setting \/ setting' = [setting EXCEPT ![r.cap] = r.want]
                 /\ contracts' = [contracts EXCEPT ![k] = [confirmed EXCEPT !.state = state, !.executed = TRUE]]
    BY <1>11
  <2> DEFINE n == [confirmed EXCEPT !.state = state, !.executed = TRUE]
  <2>2. /\ n \in ContractType /\ n.cap = r.cap /\ n.want = r.want /\ n.base = r.base /\ n.executed = TRUE
        /\ n.confirmed = TRUE /\ n.version = confirmed.version
    BY <1>8 DEF ContractType, RecoveryState
  <2> HIDE DEF n
  <2>3. setting' \in [Capability -> Value]
    BY <2>1 DEF CeremonyType, ContractType
  <2>4. YesToContract(Intent(r), k)
    BY <1>4, <1>5, <1>11 DEF Confirms
  <2>5. r.cap \in StandardSealed => \E s \in sealed : s.cid = k /\ s.version = n.version
    BY <1>11, <2>2 DEF SecurityClass, SealApproved
  <2>6. contracts' = [contracts EXCEPT ![k] = n]
    BY <2>1 DEF n
  <2> QED
    BY <1>7, <2>2, <2>3, <2>4, <2>5, <2>6
<1> QED
  BY <1>6, <1>9, <1>10, <1>11


-----------------------------------------------------------------------------
(* The signing tool.                                                       *)

LEMMA Requests ==
  ASSUME NEW kind \in Kind
  PROVE  /\ RequestFile(kind) \in {"preview", "pending"} /\ RequestFile(kind) \in FileName
         /\ OutputFile(kind) \in {"inbox", "signed"} /\ OutputFile(kind) \in FileName
         /\ BodyOf(RequestFile(kind)) = Asked(kind) /\ BodyOf(OutputFile(kind)) = Signed(kind)
BY BodyTypes DEF Kind, RequestFile, OutputFile, Asked, Signed, FileName

LEMMA CommandTypes ==
  ASSUME CeremonyType, NEW t \in SigningTool, tool[t].pc # "idle"
  PROVE  /\ tool[t] \in CommandType /\ tool[t].kind \in Kind /\ tool[t].todo \in SUBSET Capability
         /\ tool[t].pc = "member" => tool[t].seen \in SUBSET MemberType
         /\ tool[t].pc # "member" => tool[t].seen \in SUBSET (Capability \X (PreviewType \cup PendingType))
<1>1. tool[t] \in CommandType
  BY DEF CeremonyType, NoCommand
<1> QED
  BY <1>1 DEF CommandType

\* a command goes on, with what it has shown forgotten or its members kept
LEMMA ToolContinues ==
  ASSUME CeremonyType, ToolInv, HistoryGrows, NEW t \in SigningTool, NEW pc, NEW todo \in SUBSET Capability,
         \/ pc = "next" /\ tool[t].pc \in {"next", "prompt"}
         \/ pc = "member" /\ tool[t].pc = "member",
         Continue(t, pc, todo)
  PROVE  ToolInv' /\ tool' \in [SigningTool -> {NoCommand} \cup CommandType]
<1>1. PICK old : old = tool[t]
  OBVIOUS
<1>2. old \in CommandType /\ ShownInv(old)
  BY <1>1, CommandTypes DEF ToolInv
<1>3. CASE todo = {}
  BY <1>3, ToolStops DEF Continue, Abort
<1>4. CASE todo # {}
  <2> DEFINE cmd == [old EXCEPT !.pc = pc, !.todo = todo]
  <2>1. tool' = [tool EXCEPT ![t] = cmd]
    BY <1>1, <1>4 DEF Continue
  <2>2. cmd \in CommandType /\ cmd.pc = pc /\ cmd.seen = old.seen /\ cmd.kind = old.kind
    <3>1. CASE pc = "next" /\ tool[t].pc \in {"next", "prompt"}
      <4>1. old \in [pc : {"next", "prompt", "manifest"}, kind : Kind, todo : SUBSET Capability,
                     seen : SUBSET (Capability \X (PreviewType \cup PendingType))]
        BY <1>1, <1>2, <3>1 DEF CommandType
      <4> QED
        BY <3>1, <4>1 DEF CommandType
    <3>2. CASE pc = "member" /\ tool[t].pc = "member"
      <4>1. old \in [pc : {"member"}, kind : Kind, todo : SUBSET Capability, seen : SUBSET MemberType]
        BY <1>1, <1>2, <3>2 DEF CommandType
      <4> QED
        BY <3>2, <4>1 DEF CommandType
    <3> QED
      BY <3>1, <3>2
  <2> HIDE DEF cmd
  <2>3. ShownInv(cmd)'
    <3>1. CASE pc = "next"
      BY <2>2, <3>1 DEF ShownInv
    <3>2. CASE pc = "member"
      BY <1>1, <1>2, <2>2, <3>2 DEF ShownInv, HistoryGrows
    <3> QED
      BY <3>1, <3>2
  <2> QED
    BY <2>1, <2>2, <2>3, ToolMoves
<1> QED
  BY <1>3, <1>4

\* what remains to be shown of a step that leaves the server alone
LEMMA OwnerStep ==
  ASSUME CeremonyInv, HistoryGrows, UNCHANGED <<clock, posture, setting, contracts, call>>,
         FilesInv', box' \in [Capability -> [FileName -> SUBSET FileType]],
         ToolInv', tool' \in [SigningTool -> {NoCommand} \cup CommandType],
         drawn' \in Nat, OwnerSeesRequests', SignedInv'
  PROVE  CeremonyInv'
<1>1. CeremonyType'
  BY DEF CeremonyInv, CeremonyType
<1> QED
  BY <1>1, CallKept, ContractsKept DEF CeremonyInv

LEMMA BeginCommandInv ==
  ASSUME CeremonyInv, NEW t \in SigningTool, NEW kind \in Kind, NEW todo \in SUBSET Capability,
         BeginCommand(t, kind, todo)
  PROVE  CeremonyInv'
<1> DEFINE cmd == [pc |-> "next", kind |-> kind, todo |-> todo, seen |-> {}]
<1>1. /\ UNCHANGED <<clock, posture, setting, box, contracts, call, drawn, signatures, reviewed, requested, sealed>>
      /\ tool' = [tool EXCEPT ![t] = cmd]
  BY DEF BeginCommand, world, store, owner
<1>2. cmd \in CommandType /\ cmd.pc = "next"
  BY DEF CommandType
<1> HIDE DEF cmd
<1>3. HistoryGrows /\ ShownInv(cmd)'
  BY <1>1, <1>2 DEF HistoryGrows, ShownInv
<1>4. ToolInv' /\ tool' \in [SigningTool -> {NoCommand} \cup CommandType]
  BY <1>1, <1>2, <1>3, ToolMoves DEF CeremonyInv
<1>5. FilesInv' /\ SignedInv' /\ OwnerSeesRequests'
  BY <1>1, <1>3, FilesKept, SignedKept DEF CeremonyInv, OwnerSeesRequests
<1> QED
  BY <1>1, <1>3, <1>4, <1>5, OwnerStep DEF CeremonyInv, CeremonyType

\* what a batch is going to show
Pairs(kind, todo) == UNION {{<<c, p>> : p \in Load(c, RequestFile(kind))} : c \in todo}

LEMMA PairsMean ==
  ASSUME CeremonyInv, NEW kind \in Kind, NEW todo \in SUBSET Capability
  PROVE  /\ \A x \in Pairs(kind, todo) : /\ x \in Capability \X Asked(kind)
                                         /\ x[1] \in todo /\ x[2] \in requested
         /\ IsFiniteSet(Pairs(kind, todo))
<1> DEFINE P == Pairs(kind, todo)
<1>1. ASSUME NEW x \in P
      PROVE  x \in Capability \X Asked(kind) /\ x[1] \in todo /\ x[2] \in requested
             /\ x[2] \in Load(x[1], RequestFile(kind)) /\ x = <<x[1], x[2]>>
    <2>1. PICK c \in todo : \E p \in Load(c, RequestFile(kind)) : x = <<c, p>>
      BY DEF Pairs
    <2>2. PICK p \in Load(c, RequestFile(kind)) : x = <<c, p>>
      BY <2>1
    <2>3. WrittenFor(c, RequestFile(kind), p)
      BY Requests, LoadMeans DEF CeremonyInv
    <2> QED
      BY <2>2, <2>3, Requests DEF WrittenFor
<1>2. ASSUME NEW x \in P, NEW y \in P, x[1] = y[1]
      PROVE  x = y
  <2>1. x[1] \in Capability /\ RequestFile(kind) \in FileName
    BY <1>1, Requests
  <2>2. PICK f \in box[x[1]][RequestFile(kind)] : f.body = x[2]
    BY <1>1 DEF Load
  <2>3. PICK g \in box[x[1]][RequestFile(kind)] : g.body = y[2]
    BY <1>1, <1>2 DEF Load
  <2>4. f = g
    BY <2>1, <2>2, <2>3 DEF CeremonyInv, FilesInv
  <2> QED
    BY <1>1, <1>2, <2>2, <2>3, <2>4
<1>3. IsFiniteSet(todo)
  BY CeremonyAssumption, FS_Subset
\* the pairs are the image of the capabilities that have one
<1> DEFINE have == {c \in todo : \E x \in P : x[1] = c}
           f == [c \in have |-> CHOOSE x \in P : x[1] = c]
<1>4. IsFiniteSet(have)
  BY <1>3, FS_Subset
<1>5. f \in Surjection(have, P)
  <2>1. \A c \in have : f[c] \in P /\ f[c][1] = c
    OBVIOUS
  <2>2. f \in [have -> P]
    BY <2>1
  <2>3. ASSUME NEW x \in P PROVE \E c \in have : f[c] = x
    <3>1. x[1] \in have
      BY <1>1
    <3>2. f[x[1]] \in P /\ f[x[1]][1] = x[1]
      BY <2>1, <3>1
    <3>3. f[x[1]] = x
      BY <1>2, <3>2
    <3> QED
      BY <3>1, <3>3
  <2> QED
    BY <2>2, <2>3 DEF Surjection
<1>6. IsFiniteSet(P)
  BY <1>4, <1>5, FS_Surjection
<1> QED
  BY <1>1, <1>6

LEMMA BeginBatchInv ==
  ASSUME CeremonyInv, NEW t \in SigningTool, NEW kind \in Kind, NEW todo \in SUBSET Capability,
         BeginBatch(t, kind, todo)
  PROVE  CeremonyInv'
<1>0. PICK seen : seen = Pairs(kind, todo)
  OBVIOUS
<1> DEFINE cmd == [pc |-> "manifest", kind |-> kind, todo |-> todo, seen |-> seen]
<1>1. /\ UNCHANGED <<clock, posture, setting, box, contracts, call, drawn, signatures, reviewed, requested, sealed>>
      /\ tool' = [tool EXCEPT ![t] = cmd]
  BY <1>0 DEF BeginBatch, world, store, owner, Pairs
<1>2. /\ \A x \in seen : x \in Capability \X Asked(kind) /\ x[1] \in todo /\ x[2] \in requested
      /\ IsFiniteSet(seen)
  BY <1>0, PairsMean
<1>3. /\ cmd \in CommandType /\ cmd.pc = "manifest" /\ cmd.kind = kind /\ cmd.todo = todo /\ cmd.seen = seen
  <2>1. seen \in SUBSET (Capability \X (PreviewType \cup PendingType))
    BY <1>2 DEF Asked
  <2> QED
    BY <2>1 DEF CommandType
<1> HIDE DEF cmd
<1>4. HistoryGrows
  BY <1>1 DEF HistoryGrows
<1>5. ShownInv(cmd)'
  BY <1>1, <1>2, <1>3 DEF ShownInv
<1>6. ToolInv' /\ tool' \in [SigningTool -> {NoCommand} \cup CommandType]
  BY <1>1, <1>3, <1>4, <1>5, ToolMoves DEF CeremonyInv
<1>7. FilesInv' /\ SignedInv' /\ OwnerSeesRequests'
  BY <1>1, <1>4, FilesKept, SignedKept DEF CeremonyInv, OwnerSeesRequests
<1> QED
  BY <1>1, <1>4, <1>6, <1>7, OwnerStep DEF CeremonyInv, CeremonyType

LEMMA ReviewInv ==
  ASSUME CeremonyInv, NEW t \in SigningTool, Review(t)
  PROVE  CeremonyInv'
<1>1. /\ UNCHANGED <<clock, posture, setting, box, contracts, call, drawn, signatures, reviewed, requested, sealed>>
      /\ tool[t].pc = "next"
  BY DEF Review, AtTool, world, store, owner
<1>2. CeremonyType /\ ToolInv /\ HistoryGrows
  BY <1>1 DEF CeremonyInv, HistoryGrows
<1>3. PICK old : old = tool[t]
  OBVIOUS
<1>4. /\ old \in CommandType /\ old.pc = "next" /\ old.kind \in Kind /\ old.todo \in SUBSET Capability
  BY <1>1, <1>2, <1>3, CommandTypes
<1>5. PICK c \in old.todo :
        \/ Continue(t, "next", old.todo \ {c})
        \/ Abort(t)
        \/ \E p \in Load(c, RequestFile(old.kind)) :
             tool' = [tool EXCEPT ![t].pc = "prompt", ![t].seen = {<<c, p>>}]
  BY <1>3 DEF Review
<1>6. ToolInv' /\ tool' \in [SigningTool -> {NoCommand} \cup CommandType]
  <2>1. CASE Continue(t, "next", old.todo \ {c})
    BY <1>1, <1>2, <1>4, <2>1, ToolContinues
  <2>2. CASE Abort(t)
    BY <1>2, <2>2, ToolStops
  <2>3. ASSUME NEW p \in Load(c, RequestFile(old.kind)),
               tool' = [tool EXCEPT ![t].pc = "prompt", ![t].seen = {<<c, p>>}]
        PROVE  ToolInv' /\ tool' \in [SigningTool -> {NoCommand} \cup CommandType]
    <3>1. WrittenFor(c, RequestFile(old.kind), p)
      BY <1>4, Requests, LoadMeans DEF CeremonyInv
    <3>2. p \in Asked(old.kind) /\ p \in requested /\ c \in Capability
      BY <1>4, <3>1, Requests DEF WrittenFor
    <3> DEFINE cmd == [old EXCEPT !.pc = "prompt", !.seen = {<<c, p>>}]
    <3>3. tool' = [tool EXCEPT ![t] = cmd]
      BY <1>2, <1>3, <2>3 DEF CeremonyType
    <3>4. old \in [pc : {"next", "prompt", "manifest"}, kind : Kind, todo : SUBSET Capability,
                   seen : SUBSET (Capability \X (PreviewType \cup PendingType))]
      BY <1>4 DEF CommandType
    <3>5. {<<c, p>>} \in SUBSET (Capability \X (PreviewType \cup PendingType))
      BY <3>2 DEF Asked
    <3>6. PICK s : s = {<<c, p>>}
      OBVIOUS
    <3>7. /\ cmd \in CommandType /\ cmd.pc = "prompt" /\ cmd.kind = old.kind /\ cmd.todo = old.todo /\ cmd.seen = s
      BY <3>4, <3>5, <3>6 DEF CommandType
    <3> HIDE DEF cmd
    <3>8. \A x \in s : x \in Capability \X Asked(old.kind) /\ x[1] \in old.todo /\ x[2] \in requested
      BY <3>2, <3>6
    <3>9. ShownInv(cmd)'
      BY <1>1, <3>7, <3>8 DEF ShownInv
    <3> QED
      BY <1>2, <3>3, <3>7, <3>9, ToolMoves
  <2> QED
    BY <1>5, <2>1, <2>2, <2>3
<1>7. FilesInv' /\ SignedInv' /\ OwnerSeesRequests'
  BY <1>1, <1>2, FilesKept, SignedKept DEF CeremonyInv, OwnerSeesRequests
<1> QED
  BY <1>1, <1>2, <1>6, <1>7, OwnerStep DEF CeremonyInv, CeremonyType


\* What is signed has an intent the owner said yes to.
LEMMA ArtifactSigned ==
  ASSUME CeremonyType, NEW kind \in Kind, NEW c \in Capability, NEW p \in Asked(kind), NEW id \in Nat,
         NEW validity \in Nat, MaySign(kind, c, p)
  PROVE  LET a == SignedArtifact(kind, p, id, validity)
         IN  /\ a \in Signed(kind) /\ a.cap = c /\ Intent(a) = Intent(p)
             /\ kind = "confirmation" => a.cid = p.cid
<1>0. clock \in Nat /\ posture \in Posture
  BY DEF CeremonyType
<1>1. CASE kind = "authorization"
  <2>1. p \in PreviewType /\ p.cap = c
    BY <1>1 DEF Asked, MaySign, MaySignAuthorization
  <2>2. clock + validity \in Nat
    BY <1>0
  <2>3. SignedArtifact(kind, p, id, validity) = Authorization(p, posture, id, clock, clock + validity)
    BY <1>1 DEF SignedArtifact
  <2>4. Authorization(p, posture, id, clock, clock + validity) \in AuthorizationType
    BY <1>0, <2>1, <2>2 DEF Authorization, AuthorizationType, PreviewType
  <2>5. LET a == Authorization(p, posture, id, clock, clock + validity)
        IN  a.cap = c /\ Intent(a) = Intent(p)
    BY <2>1 DEF Authorization, Intent, PreviewType
  <2> QED
    BY <1>1, <2>3, <2>4, <2>5 DEF Signed
<1>2. CASE kind = "confirmation"
  <2>1. p \in PendingType /\ p.cap = c
    BY <1>2 DEF Asked, MaySign, MaySignConfirmation
  <2>2. SignedArtifact(kind, p, id, validity) = Evidence(p, clock)
    BY <1>2 DEF SignedArtifact
  <2>3. Evidence(p, clock) \in EvidenceType
    BY <1>0, <2>1 DEF Evidence, EvidenceType, PendingType
  <2>4. LET a == Evidence(p, clock) IN a.cap = c /\ Intent(a) = Intent(p) /\ a.cid = p.cid
    BY <2>1 DEF Evidence, Intent, PendingType
  <2> QED
    BY <1>2, <2>2, <2>3, <2>4 DEF Signed
<1> QED
  BY <1>1, <1>2 DEF Kind

LEMMA SignAndWriteInv ==
  ASSUME CeremonyInv, NEW t \in SigningTool, NEW c \in Capability, NEW p, NEW r, NEW id \in Nat,
         NEW validity \in Nat, NEW pc,
         \/ pc = "next" /\ tool[t].pc = "prompt"
         \/ pc = "member" /\ tool[t].pc = "member",
         p \in Asked(tool[t].kind), r \in Asked(tool[t].kind), r \in reviewed', reviewed \subseteq reviewed',
         Intent(r) = Intent(p), tool[t].kind = "confirmation" => r.cid = p.cid,
         UNCHANGED <<requested, sealed>>,
         SignAndWrite(t, c, p, id, validity, pc)
  PROVE  /\ HistoryGrows /\ FilesInv' /\ box' \in [Capability -> [FileName -> SUBSET FileType]]
         /\ SignedInv' /\ ToolInv' /\ tool' \in [SigningTool -> {NoCommand} \cup CommandType]
         /\ \/ UNCHANGED box
            \/ \E x : WriteNew(c, OutputFile(tool[t].kind), x)
<1>0. CeremonyType /\ FilesInv /\ ToolInv /\ SignedInv
  BY DEF CeremonyInv
<1>1. PICK kind \in Kind : kind = tool[t].kind
  BY <1>0, CommandTypes
<1>2. PICK todo \in SUBSET Capability : todo = tool[t].todo
  BY <1>0, CommandTypes
<1>3. CASE MaySign(kind, c, p)
  <2>1. PICK a : a = SignedArtifact(kind, p, id, validity)
    OBVIOUS
  <2>2. a \in Signed(kind) /\ a.cap = c /\ Intent(a) = Intent(p) /\ (kind = "confirmation" => a.cid = p.cid)
    BY <1>0, <1>1, <1>3, <2>1, ArtifactSigned
  <2>3. /\ signatures' = signatures \cup {a} /\ WriteNew(c, OutputFile(kind), a)
        /\ Abort(t) \/ Continue(t, pc, todo \ {c})
    BY <1>1, <1>2, <1>3, <2>1 DEF SignAndWrite
  <2>4. HistoryGrows
    BY <2>3 DEF HistoryGrows
  <2>5. WrittenFor(c, OutputFile(kind), a)'
    BY <2>2, <2>3, Requests DEF WrittenFor
  <2>6. FilesInv' /\ box' \in [Capability -> [FileName -> SUBSET FileType]]
    BY <1>0, <2>3, <2>4, <2>5, Requests, FileWritten
  <2>7. SignedInv'
    <3>1. CASE kind = "authorization"
      <4>1. a \in AuthorizationType /\ r \in PreviewType
        BY <1>1, <2>2, <3>1 DEF Signed, Asked
      <4>2. YesToChange(Intent(a))'
        BY <2>2, <4>1 DEF YesToChange
      <4> QED
        BY <1>0, <2>3, <2>4, <4>1, <4>2, YesStays DEF SignedInv
    <3>2. CASE kind = "confirmation"
      <4>1. a \in EvidenceType /\ r \in PendingType
        BY <1>1, <2>2, <3>2 DEF Signed, Asked
      <4>2. YesToContract(Intent(a), a.cid)'
        BY <1>1, <2>2, <3>2, <4>1 DEF YesToContract
      <4> QED
        BY <1>0, <2>3, <2>4, <4>1, <4>2, YesStays DEF SignedInv
    <3> QED
      BY <3>1, <3>2 DEF Kind
  <2>8. ToolInv' /\ tool' \in [SigningTool -> {NoCommand} \cup CommandType]
    <3>1. CASE Abort(t)
      BY <1>0, <2>4, <3>1, ToolStops
    <3>2. CASE Continue(t, pc, todo \ {c})
      BY <1>0, <1>2, <2>4, <3>2, ToolContinues
    <3> QED
      BY <2>3, <3>1, <3>2
  <2> QED
    BY <1>1, <2>3, <2>4, <2>6, <2>7, <2>8
<1>4. CASE ~MaySign(kind, c, p)
  <2>1. Abort(t) /\ UNCHANGED <<signatures, box>>
    BY <1>1, <1>4 DEF SignAndWrite
  <2>2. HistoryGrows
    BY <2>1 DEF HistoryGrows
  <2> QED
    BY <1>0, <2>1, <2>2, FilesKept, SignedKept, ToolStops DEF CeremonyType
<1> QED
  BY <1>3, <1>4

LEMMA AnswerPromptInv ==
  ASSUME CeremonyInv, NEW t \in SigningTool, AnswerPrompt(t)
  PROVE  /\ CeremonyInv'
         /\ \/ UNCHANGED box
            \/ \E c \in Capability, n \in FileName : \E x : WriteNew(c, n, x)
<1>1. /\ UNCHANGED <<clock, posture, setting, contracts, call, requested, sealed>>
      /\ tool[t].pc = "prompt"
  BY DEF AnswerPrompt, AtTool, world, store
<1>0. CeremonyType /\ FilesInv /\ ToolInv /\ SignedInv /\ OwnerSeesRequests /\ drawn \in Nat
  BY DEF CeremonyInv, CeremonyType
<1>2. PICK kind \in Kind : kind = tool[t].kind
  BY <1>0, <1>1, CommandTypes
<1>3. PICK todo \in SUBSET Capability : todo = tool[t].todo
  BY <1>0, <1>1, CommandTypes
<1>4. PICK shown \in tool[t].seen :
        LET c == shown[1]
            p == shown[2]
        IN  \/ /\ Continue(t, "next", tool[t].todo \ {c})
               /\ UNCHANGED <<box, owner, drawn>>
            \/ /\ reviewed' = reviewed \cup {p}
               /\ drawn' = drawn + 1
               /\ SignAndWrite(t, c, p, drawn + 1, Validity, "next")
               /\ UNCHANGED manifests
  BY DEF AnswerPrompt
<1>5. ShownInv(tool[t])
  BY <1>0 DEF ToolInv
<1>6. PICK c \in Capability, p \in Asked(kind) : c = shown[1] /\ p = shown[2] /\ p \in requested
  BY <1>1, <1>2, <1>5 DEF ShownInv
<1>7. CASE Continue(t, "next", todo \ {c}) /\ UNCHANGED <<box, owner, drawn>>
  <2>1. UNCHANGED <<signatures, reviewed, box, drawn>> /\ HistoryGrows
    BY <1>1, <1>7 DEF owner, HistoryGrows
  <2>2. ToolInv' /\ tool' \in [SigningTool -> {NoCommand} \cup CommandType]
    BY <1>0, <1>1, <1>7, <2>1, ToolContinues
  <2>3. FilesInv' /\ SignedInv' /\ OwnerSeesRequests'
    BY <1>0, <1>1, <2>1, FilesKept, SignedKept DEF OwnerSeesRequests
  <2> QED
    BY <1>0, <1>1, <2>1, <2>2, <2>3, OwnerStep DEF CeremonyType
<1>8. CASE /\ reviewed' = reviewed \cup {p} /\ drawn' = drawn + 1
           /\ SignAndWrite(t, c, p, drawn + 1, Validity, "next")
  <2>1. drawn + 1 \in Nat /\ Validity \in Nat
    BY <1>0, CeremonyAssumption
  <2>2. /\ HistoryGrows /\ FilesInv' /\ box' \in [Capability -> [FileName -> SUBSET FileType]]
        /\ SignedInv' /\ ToolInv' /\ tool' \in [SigningTool -> {NoCommand} \cup CommandType]
        /\ UNCHANGED box \/ \E x : WriteNew(c, OutputFile(tool[t].kind), x)
    BY <1>1, <1>2, <1>6, <1>8, <2>1, SignAndWriteInv
  <2>3. OwnerSeesRequests'
    BY <1>0, <1>1, <1>6, <1>8 DEF OwnerSeesRequests
  <2>4. OutputFile(tool[t].kind) \in FileName
    BY <1>2, Requests
  <2>5. CeremonyInv'
    BY <1>1, <1>8, <2>1, <2>2, <2>3, OwnerStep
  <2> QED
    BY <2>2, <2>4, <2>5
<1> QED
  BY <1>3, <1>4, <1>6, <1>7, <1>8

\* ids can be drawn: the capabilities of a batch are finitely many
LEMMA IdsDrawn ==
  ASSUME NEW caps \in SUBSET Capability, drawn \in Nat
  PROVE  DrawnIds(caps) \in [caps -> Nat]
<1>1. IsFiniteSet(caps)
  BY CeremonyAssumption, FS_Subset
<1>2. PICK n \in Nat : n = Cardinality(caps) /\ ExistsBijection(1..n, caps)
  BY <1>1, FS_CardinalityType
<1>3. ExistsBijection(caps, 1..n)
  BY <1>2, Fun_ExistsBijSymmetric
<1>4. PICK b \in Bijection(caps, 1..n) : TRUE
  BY <1>3 DEF ExistsBijection
<1>5. b \in [caps -> 1..n] /\ \A c, d \in caps : b[c] = b[d] => c = d
  BY <1>4 DEF Bijection, Injection, IsInjective
<1> DEFINE g == [c \in caps |-> drawn + b[c]]
<1>6. g \in [caps -> drawn + 1 .. drawn + n]
  BY <1>5
<1>7. \A c, d \in caps : c # d => g[c] # g[d]
  BY <1>5
<1> HIDE DEF g
<1>8. \E f \in [caps -> drawn + 1 .. drawn + n] : \A c, d \in caps : c # d => f[c] # f[d]
  BY <1>6, <1>7
<1>9. DrawnIds(caps) \in [caps -> drawn + 1 .. drawn + n]
  BY <1>2, <1>8 DEF DrawnIds
<1>10. drawn + 1 .. drawn + n \subseteq Nat
  OBVIOUS
<1> QED
  BY <1>9, <1>10


LEMMA ApproveBatchInv ==
  ASSUME CeremonyInv, NEW t \in SigningTool, ApproveBatch(t)
  PROVE  CeremonyInv' /\ UNCHANGED box
<1>1. /\ UNCHANGED <<clock, posture, setting, box, contracts, call, requested, sealed>>
      /\ tool[t].pc = "manifest"
  BY DEF ApproveBatch, AtTool, world, store
<1>0. CeremonyType /\ FilesInv /\ ToolInv /\ SignedInv /\ OwnerSeesRequests /\ drawn \in Nat
  BY DEF CeremonyInv, CeremonyType
<1>2. PICK old : old = tool[t]
  OBVIOUS
<1>3. /\ old \in CommandType /\ old.pc = "manifest" /\ old.kind \in Kind /\ old.todo \in SUBSET Capability
      /\ ShownInv(old)
  BY <1>0, <1>1, <1>2, CommandTypes DEF ToolInv
<1>4. /\ \A x \in old.seen : x \in Capability \X Asked(old.kind) /\ x[1] \in old.todo /\ x[2] \in requested
      /\ IsFiniteSet(old.seen)
  BY <1>3 DEF ShownInv
<1>5. PICK members :
        members = IF old.kind = "authorization" THEN AuthorizationApproval(old.seen, DrawnIds(old.todo))
                                                ELSE ConfirmationApproval(old.seen)
  OBVIOUS
<1>6. \/ Abort(t) /\ UNCHANGED <<signatures, reviewed, drawn>>
      \/ /\ reviewed' = reviewed \cup {e[2] : e \in old.seen}
         /\ drawn' = IF old.kind = "authorization" THEN drawn + Cardinality(old.seen) ELSE drawn
         /\ tool' = [tool EXCEPT ![t].pc = "member", ![t].seen = members]
         /\ UNCHANGED signatures
  BY <1>2, <1>5 DEF ApproveBatch, owner
<1>7. CASE Abort(t) /\ UNCHANGED <<signatures, reviewed, drawn>>
  <2>1. HistoryGrows
    BY <1>1, <1>7 DEF HistoryGrows
  <2>2. ToolInv' /\ tool' \in [SigningTool -> {NoCommand} \cup CommandType]
    BY <1>0, <1>7, <2>1, ToolStops
  <2>3. FilesInv' /\ SignedInv' /\ OwnerSeesRequests'
    BY <1>0, <1>1, <1>7, <2>1, FilesKept, SignedKept DEF OwnerSeesRequests
  <2> QED
    BY <1>0, <1>1, <1>7, <2>1, <2>2, <2>3, OwnerStep DEF CeremonyType
<1>8. CASE /\ reviewed' = reviewed \cup {e[2] : e \in old.seen}
           /\ drawn' = IF old.kind = "authorization" THEN drawn + Cardinality(old.seen) ELSE drawn
           /\ tool' = [tool EXCEPT ![t].pc = "member", ![t].seen = members]
           /\ UNCHANGED signatures
  <2>1. HistoryGrows
    BY <1>1, <1>8 DEF HistoryGrows
  <2>2. drawn' \in Nat
    BY <1>0, <1>4, <1>8, FS_CardinalityType
  <2>3. OwnerSeesRequests'
    BY <1>0, <1>1, <1>4, <1>8 DEF OwnerSeesRequests
  <2>4. ASSUME NEW m \in members
        PROVE  m \in MemberType /\ m.request \in Asked(old.kind) /\ m.request \in reviewed'
    <3>1. PICK e \in old.seen, i \in Nat : m = [cap |-> e[1], request |-> e[2], id |-> i]
      <4>1. CASE old.kind = "authorization"
        <5>1. PICK ids \in [old.todo -> Nat] : ids = DrawnIds(old.todo)
          BY <1>0, <1>3, IdsDrawn
        <5>2. PICK e \in old.seen : m = [cap |-> e[1], request |-> e[2], id |-> ids[e[1]]]
          BY <1>5, <4>1, <5>1 DEF AuthorizationApproval
        <5>3. ids[e[1]] \in Nat
          BY <1>4
        <5> QED
          BY <5>2, <5>3
      <4>2. CASE old.kind # "authorization"
        BY <1>5, <4>2 DEF ConfirmationApproval
      <4> QED
        BY <4>1, <4>2
    <3>2. e[1] \in Capability /\ e[2] \in Asked(old.kind) /\ e[2] \in reviewed'
      BY <1>4, <1>8
    <3>3. e[2] \in PreviewType \cup PendingType
      BY <3>2 DEF Asked
    <3> QED
      BY <3>1, <3>2, <3>3 DEF MemberType
  <2> DEFINE cmd == [old EXCEPT !.pc = "member", !.seen = members]
  <2>5. tool' = [tool EXCEPT ![t] = cmd]
    BY <1>0, <1>2, <1>8 DEF CeremonyType
  <2>6. members \in SUBSET MemberType
    BY <2>4
  <2>7. old \in [pc : {"next", "prompt", "manifest"}, kind : Kind, todo : SUBSET Capability,
                 seen : SUBSET (Capability \X (PreviewType \cup PendingType))]
    BY <1>3 DEF CommandType
  <2>8. cmd \in CommandType /\ cmd.pc = "member" /\ cmd.kind = old.kind /\ cmd.seen = members
    BY <2>6, <2>7 DEF CommandType
  <2> HIDE DEF cmd
  <2>9. ShownInv(cmd)'
    BY <2>4, <2>8 DEF ShownInv
  <2>10. ToolInv' /\ tool' \in [SigningTool -> {NoCommand} \cup CommandType]
    BY <1>0, <2>1, <2>5, <2>8, <2>9, ToolMoves
  <2>11. FilesInv' /\ SignedInv'
    BY <1>0, <1>1, <1>8, <2>1, FilesKept, SignedKept
  <2> QED
    BY <1>0, <1>1, <2>1, <2>2, <2>3, <2>10, <2>11, OwnerStep DEF CeremonyType
<1> QED
  BY <1>6, <1>7, <1>8

LEMMA SignMemberInv ==
  ASSUME CeremonyInv, NEW t \in SigningTool, SignMember(t)
  PROVE  /\ CeremonyInv'
         /\ \/ UNCHANGED box
            \/ \E c \in Capability, n \in FileName : \E x : WriteNew(c, n, x)
<1>1. /\ UNCHANGED <<clock, posture, setting, contracts, call, drawn, reviewed, requested, sealed>>
      /\ tool[t].pc = "member"
  BY DEF SignMember, AtTool, world, store
<1>0. CeremonyType /\ FilesInv /\ ToolInv /\ SignedInv /\ OwnerSeesRequests /\ drawn \in Nat
  BY DEF CeremonyInv, CeremonyType
<1>2. PICK kind \in Kind : kind = tool[t].kind
  BY <1>0, <1>1, CommandTypes
<1>3. PICK todo \in SUBSET Capability : todo = tool[t].todo
  BY <1>0, <1>1, CommandTypes
<1>4. PICK m \in tool[t].seen :
        /\ m.cap \in todo
        /\ \/ Continue(t, "member", todo \ {m.cap}) /\ UNCHANGED <<signatures, box>>
           \/ Abort(t) /\ UNCHANGED <<signatures, box>>
           \/ \E p \in Load(m.cap, RequestFile(kind)) :
                AsApproved(kind, p, m.request) /\ SignAndWrite(t, m.cap, p, m.id, BatchValidity, "member")
  BY <1>2, <1>3 DEF SignMember
<1>5. m \in MemberType /\ m.request \in Asked(kind) /\ m.request \in reviewed
  BY <1>0, <1>1, <1>2 DEF ToolInv, ShownInv
<1>6. PICK c \in Capability, r \in Asked(kind), i \in Nat : c = m.cap /\ r = m.request /\ i = m.id /\ r \in reviewed
  BY <1>5 DEF MemberType
<1>7. OwnerSeesRequests'
  BY <1>0, <1>1 DEF OwnerSeesRequests
<1>8. CASE (Continue(t, "member", todo \ {m.cap}) \/ Abort(t)) /\ UNCHANGED <<signatures, box>>
  <2>1. HistoryGrows
    BY <1>1, <1>8 DEF HistoryGrows
  <2>2. ToolInv' /\ tool' \in [SigningTool -> {NoCommand} \cup CommandType]
    <3>1. CASE Continue(t, "member", todo \ {m.cap})
      BY <1>0, <1>1, <2>1, <3>1, ToolContinues
    <3>2. CASE Abort(t)
      BY <1>0, <2>1, <3>2, ToolStops
    <3> QED
      BY <1>8, <3>1, <3>2
  <2>3. FilesInv' /\ SignedInv'
    BY <1>0, <1>8, <2>1, FilesKept, SignedKept
  <2> QED
    BY <1>0, <1>1, <1>7, <1>8, <2>1, <2>2, <2>3, OwnerStep DEF CeremonyType
<1>9. ASSUME NEW p \in Load(m.cap, RequestFile(kind)),
             AsApproved(kind, p, m.request), SignAndWrite(t, m.cap, p, m.id, BatchValidity, "member")
      PROVE  /\ CeremonyInv'
             /\ UNCHANGED box \/ \E d \in Capability, n \in FileName : \E x : WriteNew(d, n, x)
  <2>1. WrittenFor(c, RequestFile(kind), p)
    BY <1>0, <1>6, <1>9, Requests, LoadMeans
  <2>2. p \in Asked(kind)
    BY <2>1, Requests DEF WrittenFor
  <2>3. Intent(r) = Intent(p) /\ (kind = "confirmation" => r.cid = p.cid)
    BY <1>6, <1>9 DEF AsApproved
  <2>4. BatchValidity \in Nat /\ r \in reviewed' /\ reviewed \subseteq reviewed'
    BY <1>1, <1>6, CeremonyAssumption
  <2>5. SignAndWrite(t, c, p, i, BatchValidity, "member")
    BY <1>6, <1>9
  <2>6. /\ HistoryGrows /\ FilesInv' /\ box' \in [Capability -> [FileName -> SUBSET FileType]]
        /\ SignedInv' /\ ToolInv' /\ tool' \in [SigningTool -> {NoCommand} \cup CommandType]
        /\ UNCHANGED box \/ \E x : WriteNew(c, OutputFile(tool[t].kind), x)
    BY <1>1, <1>2, <1>6, <2>2, <2>3, <2>4, <2>5, SignAndWriteInv
  <2>7. OutputFile(tool[t].kind) \in FileName
    BY <1>2, Requests
  <2>8. CeremonyInv'
    BY <1>0, <1>1, <1>7, <2>6, OwnerStep
  <2> QED
    BY <2>6, <2>7, <2>8
<1> QED
  BY <1>4, <1>8, <1>9

-----------------------------------------------------------------------------
(* The operator and the world.                                             *)

LEMMA SignSealedApprovalInv ==
  ASSUME CeremonyInv, NEW k, NEW version, SignSealedApproval(k, version)
  PROVE  CeremonyInv' /\ UNCHANGED box
<1>1. /\ UNCHANGED <<clock, posture, setting, box, contracts, call, tool, drawn, signatures, reviewed, requested>>
      /\ sealed \subseteq sealed'
  BY DEF SignSealedApproval, world, store, owner
<1>2. HistoryGrows
  BY <1>1 DEF HistoryGrows
<1>3. FilesInv' /\ SignedInv' /\ OwnerSeesRequests' /\ ToolInv'
  BY <1>1, <1>2, FilesKept, SignedKept, ToolKept DEF CeremonyInv, OwnerSeesRequests
<1> QED
  BY <1>1, <1>2, <1>3, OwnerStep DEF CeremonyInv, CeremonyType

\* one file is replaced
Altered(c, n, F) == box' = [box EXCEPT ![c][n] = F]

\* A file may go, or be altered; whoever wrote it, its MAC stays.
LEMMA FileMishap ==
  ASSUME CeremonyInv, NEW c \in Capability, NEW n \in FileName, RemoveFile(c, n) \/ DamageFile(c, n)
  PROVE  CeremonyInv' /\ NeverReplaced
<1>0. CeremonyType /\ FilesInv /\ box \in [Capability -> [FileName -> SUBSET FileType]]
  BY DEF CeremonyInv, CeremonyType
<1>1. UNCHANGED <<clock, posture, setting, contracts, call, tool, drawn, signatures, reviewed, requested, sealed>>
  BY DEF RemoveFile, DamageFile, world, store, owner
<1>2. PICK F \in SUBSET FileType :
        /\ Altered(c, n, F)
        /\ \A g, h \in F : g = h
        /\ \A g \in F : \E f \in box[c][n] : g.mac = f.mac
  <2>1. CASE RemoveFile(c, n)
    <3>1. Altered(c, n, {})
      BY <2>1 DEF RemoveFile, Altered
    <3> QED
      BY <3>1
  <2>2. CASE DamageFile(c, n)
    <3>1. PICK f \in box[c][n], v \in Value : box' = [box EXCEPT ![c][n] = {[f EXCEPT !.body.want = v]}]
      BY <2>2 DEF DamageFile
    <3>2. f \in FileType
      BY <1>0
    <3>3. PICK b : b = [f.body EXCEPT !.want = v]
      OBVIOUS
    <3>4. b \in Body
      <4>1. f.body \in Body
        BY <3>2 DEF FileType
      <4>2. CASE f.body \in PreviewType
        BY <3>3, <4>2 DEF PreviewType, Body
      <4>3. CASE f.body \in PendingType
        BY <3>3, <4>3 DEF PendingType, Body
      <4>4. CASE f.body \in AuthorizationType
        BY <3>3, <4>4 DEF AuthorizationType, Body
      <4>5. CASE f.body \in EvidenceType
        BY <3>3, <4>5 DEF EvidenceType, Body
      <4> QED
        BY <4>1, <4>2, <4>3, <4>4, <4>5 DEF Body
    <3>5. PICK g : g = [f EXCEPT !.body = b]
      OBVIOUS
    <3>6. g \in FileType /\ g.mac = f.mac
      BY <3>2, <3>4, <3>5 DEF FileType
    <3>7. Altered(c, n, {g})
      BY <3>1, <3>3, <3>5 DEF Altered
    <3>8. {g} \in SUBSET FileType /\ \A x \in {g} : x.mac = f.mac
      BY <3>6
    <3> QED
      BY <3>7, <3>8
  <2> QED
    BY <2>1, <2>2
<1>3. box' = [box EXCEPT ![c] = [box[c] EXCEPT ![n] = F]]
  BY <1>0, <1>2 DEF Altered
<1>4. box' \in [Capability -> [FileName -> SUBSET FileType]]
  BY <1>0, <1>3
<1>5. box'[c][n] = F /\ \A d \in Capability, m \in FileName : d # c \/ m # n => box'[d][m] = box[d][m]
  BY <1>0, <1>3
<1>6. HistoryGrows
  BY <1>1 DEF HistoryGrows
<1>7. ASSUME NEW d \in Capability, NEW m \in FileName
      PROVE  /\ \A f, g \in box'[d][m] : f = g
             /\ \A f \in box'[d][m] : WrittenFor(d, m, f.mac)
             /\ \A f \in box[d][m], g \in box'[d][m] : f.mac = g.mac
  <2>1. CASE d = c /\ m = n
    BY <1>0, <1>2, <1>5, <2>1 DEF FilesInv
  <2>2. CASE d # c \/ m # n
    BY <1>0, <1>5, <2>2 DEF FilesInv
  <2> QED
    BY <2>1, <2>2
<1>8. FilesInv'
  BY <1>1, <1>7 DEF FilesInv, WrittenFor
<1>9. NeverReplaced
  BY <1>7 DEF NeverReplaced
<1>10. SignedInv' /\ OwnerSeesRequests' /\ ToolInv'
  BY <1>1, <1>6, SignedKept, ToolKept DEF CeremonyInv, OwnerSeesRequests
<1> QED
  BY <1>0, <1>1, <1>4, <1>6, <1>8, <1>9, <1>10, OwnerStep DEF CeremonyType

\* the world changes, time passes, or the server stops
LEMMA WorldInv ==
  ASSUME CeremonyInv, ChangeWorld \/ CrashServer \/ Tick
  PROVE  CeremonyInv' /\ UNCHANGED box
<1>0. CeremonyType /\ FilesInv /\ ToolInv /\ SignedInv /\ OwnerSeesRequests /\ CallInv /\ ContractsInv
  BY DEF CeremonyInv
<1>1. UNCHANGED <<box, contracts, tool, drawn, signatures, reviewed, requested, sealed>>
  BY DEF ChangeWorld, CrashServer, Tick, store, owner, world, budget
<1>2. clock' \in Nat /\ posture' \in Posture /\ setting' \in [Capability -> Value]
  <2>1. CASE ChangeWorld
    BY <1>0, <2>1 DEF ChangeWorld, CeremonyType
  <2>2. CASE CrashServer
    BY <1>0, <2>2 DEF CrashServer, CeremonyType, world
  <2>3. CASE Tick
    BY <1>0, <2>3 DEF Tick, CeremonyType
  <2> QED
    BY <2>1, <2>2, <2>3
<1>3. call' = call \/ call' = Down
  BY DEF ChangeWorld, CrashServer, Tick
<1>4. HistoryGrows
  BY <1>1 DEF HistoryGrows
<1>5. CallInv' /\ call' \in CallType /\ (call'.pc \in {"deliver", "handoff"} => call'.cid \in DOMAIN contracts)
  <2>1. CASE call' = call
    BY <1>0, <1>4, <2>1, CallKept DEF CeremonyType
  <2>2. CASE call' = Down
    BY <1>0, <2>2, CallAnswered
  <2> QED
    BY <1>3, <2>1, <2>2
<1>6. CeremonyType'
  BY <1>0, <1>1, <1>2, <1>5 DEF CeremonyType
<1> QED
  BY <1>0, <1>1, <1>4, <1>5, <1>6, FilesKept, SignedKept, ToolKept, ContractsKept DEF CeremonyInv, OwnerSeesRequests


-----------------------------------------------------------------------------
(* Every step, and the theorems.                                           *)

\* O_EXCL: a file that is there is not written over
LEMMA WrittenOnce ==
  ASSUME CeremonyType, FilesInv,
         \/ UNCHANGED box
         \/ \E c \in Capability, n \in FileName : \E x : WriteNew(c, n, x)
  PROVE  NeverReplaced
<1>0. box \in [Capability -> [FileName -> SUBSET FileType]]
  BY DEF CeremonyType
<1>1. CASE UNCHANGED box
  BY <1>1 DEF NeverReplaced, FilesInv
<1>2. ASSUME NEW c \in Capability, NEW n \in FileName, NEW x, WriteNew(c, n, x)
      PROVE  NeverReplaced
  <2>0. PICK F : F = IF box[c][n] = {} THEN File(x) ELSE box[c][n]
    OBVIOUS
  <2>1. box' = [box EXCEPT ![c] = [box[c] EXCEPT ![n] = F]]
    BY <1>0, <1>2, <2>0 DEF WriteNew
  <2>2. box'[c][n] = F /\ \A d \in Capability, m \in FileName : d # c \/ m # n => box'[d][m] = box[d][m]
    BY <1>0, <2>1
  <2>3. \A f \in box[c][n] : box'[c][n] = box[c][n]
    BY <2>0, <2>2
  <2> QED
    BY <2>2, <2>3 DEF NeverReplaced, FilesInv
<1> QED
  BY <1>1, <1>2

LEMMA ServerStepInv ==
  ASSUME CeremonyInv, ServerStep
  PROVE  CeremonyInv' /\ NeverReplaced
<1>0. CeremonyType /\ FilesInv
  BY DEF CeremonyInv
<1>1. CeremonyInv'
  BY BuildRuntimeInv, PrepareChangeInv, AuthorizeAndCreateInv, DeliverPendingInv, ConfirmAndHandoffInv
     DEF ServerStep
<1>2. UNCHANGED box \/ \E c \in Capability, n \in FileName : \E x : WriteNew(c, n, x)
  <2>1. CASE BuildRuntime \/ AuthorizeAndCreate \/ ConfirmAndHandoff
    BY <2>1 DEF BuildRuntime, AuthorizeAndCreate, ConfirmAndHandoff
  <2>2. CASE PrepareChange
    <3>1. call.cap \in Capability /\ "preview" \in FileName
      BY <1>0, <2>2, CallTypes DEF PrepareChange, AtCall, FileName
    <3>2. UNCHANGED box \/ \E x : WriteNew(call.cap, "preview", x)
      BY <2>2 DEF PrepareChange, Fetch
    <3> QED
      BY <3>1, <3>2
  <2>3. CASE DeliverPending
    <3>1. call.cap \in Capability /\ "pending" \in FileName
      BY <1>0, <2>3, CallTypes DEF DeliverPending, AtCall, FileName
    <3>2. \E x : WriteNew(call.cap, "pending", x)
      BY <2>3 DEF DeliverPending
    <3> QED
      BY <3>1, <3>2
  <2> QED
    BY <2>1, <2>2, <2>3 DEF ServerStep
<1> QED
  BY <1>0, <1>1, <1>2, WrittenOnce

LEMMA ToolStepInv ==
  ASSUME CeremonyInv, NEW t \in SigningTool, ToolStep(t)
  PROVE  CeremonyInv' /\ NeverReplaced
<1>0. CeremonyType /\ FilesInv
  BY DEF CeremonyInv
<1>1. CeremonyInv'
  BY ReviewInv, AnswerPromptInv, ApproveBatchInv, SignMemberInv DEF ToolStep
<1>2. UNCHANGED box \/ \E c \in Capability, n \in FileName : \E x : WriteNew(c, n, x)
  <2>1. CASE Review(t)
    BY <2>1 DEF Review
  <2>2. CASE AnswerPrompt(t)
    BY <2>2, AnswerPromptInv
  <2>3. CASE ApproveBatch(t)
    BY <2>3, ApproveBatchInv
  <2>4. CASE SignMember(t)
    BY <2>4, SignMemberInv
  <2> QED
    BY <2>1, <2>2, <2>3, <2>4 DEF ToolStep
<1> QED
  BY <1>0, <1>1, <1>2, WrittenOnce

LEMMA CeremonyStep ==
  ASSUME CeremonyInv, [CeremonyNext]_ceremonyVars
  PROVE  CeremonyInv' /\ NeverReplaced
<1>0. CeremonyType /\ FilesInv
  BY DEF CeremonyInv
<1>1. ASSUME NEW c \in Capability, NEW want \in Value, RequestChange(c, want)
      PROVE  CeremonyInv' /\ NeverReplaced
  <2>1. UNCHANGED box
    BY <1>1 DEF RequestChange
  <2> QED
    BY <1>0, <1>1, <2>1, RequestChangeInv, WrittenOnce
<1>2. CASE ServerStep
  BY <1>2, ServerStepInv
<1>3. ASSUME NEW t \in SigningTool, NEW kind \in Kind, NEW todo \in SUBSET Capability,
             BeginCommand(t, kind, todo) \/ BeginBatch(t, kind, todo)
      PROVE  CeremonyInv' /\ NeverReplaced
  <2>1. UNCHANGED box
    BY <1>3 DEF BeginCommand, BeginBatch
  <2> QED
    BY <1>0, <1>3, <2>1, BeginCommandInv, BeginBatchInv, WrittenOnce
<1>4. ASSUME NEW t \in SigningTool, ToolStep(t)
      PROVE  CeremonyInv' /\ NeverReplaced
  BY <1>4, ToolStepInv
<1>5. ASSUME NEW k \in DOMAIN contracts, NEW version \in 1 .. 2, SignSealedApproval(k, version)
      PROVE  CeremonyInv' /\ NeverReplaced
  BY <1>0, <1>5, SignSealedApprovalInv, WrittenOnce
<1>6. ASSUME NEW c \in Capability, NEW name \in FileName, RemoveFile(c, name) \/ DamageFile(c, name)
      PROVE  CeremonyInv' /\ NeverReplaced
  BY <1>6, FileMishap
<1>7. CASE ChangeWorld \/ CrashServer \/ Tick
  BY <1>0, <1>7, WorldInv, WrittenOnce
<1>8. CASE UNCHANGED ceremonyVars
  <2>1. /\ UNCHANGED <<clock, posture, setting, box, contracts, call, tool, drawn, signatures, reviewed>>
        /\ UNCHANGED <<requested, sealed>>
    BY <1>8 DEF ceremonyVars, world, store, owner
  <2>2. HistoryGrows
    BY <2>1 DEF HistoryGrows
  <2>3. FilesInv' /\ SignedInv' /\ OwnerSeesRequests' /\ ToolInv'
    BY <2>1, <2>2, FilesKept, SignedKept, ToolKept DEF CeremonyInv, OwnerSeesRequests
  <2>4. CeremonyInv'
    BY <1>0, <2>1, <2>2, <2>3, OwnerStep DEF CeremonyType
  <2> QED
    BY <1>0, <2>1, <2>4, WrittenOnce
<1> QED
  BY <1>1, <1>2, <1>3, <1>4, <1>5, <1>6, <1>7, <1>8 DEF CeremonyNext

\* The inductive invariant: what every file, signature, command of the tool
\* and contract goes back to, across the server (write_execution_core.py) and
\* the signing tool (write_batch1_signing.py).
THEOREM CeremonyInvariant == CeremonySpec => []CeremonyInv
<1>1. CeremonyInit => CeremonyInv
  BY CeremonyStart
<1>2. CeremonyInv /\ [CeremonyNext]_ceremonyVars => CeremonyInv'
  BY CeremonyStep
<1> QED
  BY <1>1, <1>2, PTL DEF CeremonySpec

LEMMA InvMeans ==
  ASSUME CeremonyInv
  PROVE  SignedAsReviewed /\ ExecutedAsApproved
<1>0. SignedInv /\ ContractsInv
  BY DEF CeremonyInv
<1>1. SignedAsReviewed
  BY <1>0, Domains DEF SignedAsReviewed, SignedInv, YesToChange, YesToContract
<1>2. ExecutedAsReviewed
  BY <1>0, Domains DEF ExecutedAsReviewed, ContractsInv, YesToChange, YesToContract
<1>3. SealedByName
  BY <1>0 DEF SealedByName, ContractsInv
<1> QED
  BY <1>1, <1>2, <1>3 DEF ExecutedAsApproved

\* A setting is changed only for a contract whose intent the owner said yes to
\* and whose confirmation he signed by name, and a sealed write only under an
\* approval of that contract in its confirmed version; files left behind by
\* earlier requests, damage, crashes and overlapping runs of the tool included
\* (confirm_and_handoff() in write_execution_core.py, sealed_write_approval.py).
THEOREM ExecutedOnlyAsApproved == CeremonySpec => []ExecutedAsApproved
<1>1. CeremonyInv => ExecutedAsApproved
  BY InvMeans
<1> QED
  BY <1>1, CeremonyInvariant, PTL

\* The owner is shown only what the server requested, every signature has an
\* intent (and a contract) he said yes to although a batch reads its files
\* again after the yes, and no step replaces a file by another
\* (alias_description_signing.py, write_batch1_signing.py).
THEOREM OwnerSignsOnlyWhatHeSaw == CeremonySpec => OwnerSignsWhatHeSaw
<1>1. CeremonyInv /\ [CeremonyNext]_ceremonyVars
        => [(OwnerSeesRequests /\ SignedAsReviewed)' /\ NeverReplaced]_ceremonyVars
  <2> SUFFICES ASSUME CeremonyInv, [CeremonyNext]_ceremonyVars
               PROVE  OwnerSeesRequests' /\ SignedAsReviewed' /\ NeverReplaced
    OBVIOUS
  <2>1. CeremonyInv' /\ NeverReplaced
    BY CeremonyStep
  <2>2. SignedAsReviewed'
    BY <2>1, Domains DEF CeremonyInv, SignedInv, SignedAsReviewed, YesToChange, YesToContract
  <2> QED
    BY <2>1, <2>2 DEF CeremonyInv
<1> QED
  BY <1>1, CeremonyInvariant, PTL DEF CeremonySpec, OwnerSignsWhatHeSaw
=============================================================================
