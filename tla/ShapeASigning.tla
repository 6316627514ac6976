---------------------------- MODULE ShapeASigning ----------------------------
(***************************************************************************)
(* The owner's signing tool (write-batch1-signing, standard-sealed-write-  *)
(* signing) and its composition with the server, the operator and the      *)
(* world.  A command names capabilities; the order in which it takes them  *)
(* is left open.                                                           *)
(***************************************************************************)
EXTENDS ShapeACeremony

Kind == {"authorization", "confirmation"}

\* which file is reviewed and which one is written
RequestFile(kind) == IF kind = "authorization" THEN "preview" ELSE "pending"
OutputFile(kind) == IF kind = "authorization" THEN "inbox" ELSE "signed"

AtTool(t, pc) == tool[t].pc = pc
Abort(t) == tool' = [tool EXCEPT ![t] = NoCommand]

\* the command goes on with the capabilities that are left, or ends
Continue(t, pc, todo) ==
  tool' = [tool EXCEPT ![t] =
    IF todo = {} THEN NoCommand ELSE [@ EXCEPT !.pc = pc, !.todo = todo]]

\* _one_authorization() and _one_confirmation() skip a capability without a
\* request and one with a signed artifact
Skipped(kind, c) == ~Present(c, RequestFile(kind)) \/ Present(c, OutputFile(kind))

\* sign_authorization_preview(): the security plan is derived again
MaySignAuthorization(c, p) == p.cap = c /\ p.plan = posture /\ posture \notin UnsafePosture

\* sign_pending_confirmation(): an expired request is not signed
MaySignConfirmation(c, p) == p.cap = c /\ clock < p.expires

MaySign(kind, c, p) ==
  IF kind = "authorization" THEN MaySignAuthorization(c, p) ELSE MaySignConfirmation(c, p)

SignedArtifact(kind, p, id, validity) ==
  IF kind = "authorization" THEN Authorization(p, posture, id, clock, clock + validity)
                            ELSE Evidence(p, clock)

\* The artifact is signed and written to a new file, and the command goes on;
\* it ends if it must not sign, or if the file exists by now.
SignAndWrite(t, c, p, id, validity, pc) ==
  LET kind == tool[t].kind
      artifact == SignedArtifact(kind, p, id, validity)
  IN
  IF MaySign(kind, c, p)
    THEN /\ signatures' = signatures \cup {artifact}
         /\ WriteNew(c, OutputFile(kind), artifact)
         /\ IF Present(c, OutputFile(kind)) THEN Abort(t)
                                            ELSE Continue(t, pc, tool[t].todo \ {c})
    ELSE Abort(t) /\ UNCHANGED <<signatures, box>>

-----------------------------------------------------------------------------
(* sign-authorization, sign-confirmation                                   *)

BeginCommand(t, kind, todo) ==
  /\ AtTool(t, "idle") /\ commands < MaxCommands /\ todo # {}
  /\ commands' = commands + 1
  /\ tool' = [tool EXCEPT ![t] = [pc |-> "next", kind |-> kind, todo |-> todo, seen |-> {}]]
  /\ UNCHANGED <<world, box, store, call, drawn, owner, requested, sealed, calls, mishaps>>

\* The request is read, to be shown to the owner; a damaged one ends the command.
Review(t) ==
  LET kind == tool[t].kind
  IN
  /\ AtTool(t, "next")
  /\ \E c \in tool[t].todo :
       \/ Skipped(kind, c) /\ Continue(t, "next", tool[t].todo \ {c})
       \/ ~Skipped(kind, c) /\ Load(c, RequestFile(kind)) = {} /\ Abort(t)
       \/ /\ ~Skipped(kind, c)
          /\ \E p \in Load(c, RequestFile(kind)) :
               tool' = [tool EXCEPT ![t].pc = "prompt", ![t].seen = {<<c, p>>}]
  /\ UNCHANGED <<world, box, store, call, drawn, owner, requested, sealed, calls, budget>>

\* The owner answers; after a yes, what was shown is signed as of now.
AnswerPrompt(t) ==
  /\ AtTool(t, "prompt")
  /\ \E shown \in tool[t].seen :
       LET c == shown[1]
           p == shown[2]
       IN  \/ /\ Continue(t, "next", tool[t].todo \ {c})
              /\ UNCHANGED <<box, owner, drawn>>
           \/ /\ reviewed' = reviewed \cup {p}
              /\ drawn' = drawn + 1
              /\ SignAndWrite(t, c, p, drawn + 1, Validity, "next")
              /\ UNCHANGED manifests
  /\ UNCHANGED <<world, store, call, requested, sealed, calls, budget>>

-----------------------------------------------------------------------------
(* sign-authorization-batch, sign-confirmation-batch                       *)

\* build_shape_a_batch_manifest(): all previews share one plan
Homogeneous(kind, requests) ==
  kind = "authorization" => \A r, s \in requests : r[2].plan = s[2].plan

\* All requests are read; one that is missing, damaged or answered already
\* refuses the whole batch.
BeginBatch(t, kind, todo) ==
  LET requests == UNION {{<<c, p>> : p \in Load(c, RequestFile(kind))} : c \in todo}
  IN
  /\ AtTool(t, "idle") /\ commands < MaxCommands /\ todo # {}
  /\ \A c \in todo : ~Skipped(kind, c) /\ Load(c, RequestFile(kind)) # {}
  /\ Homogeneous(kind, requests)
  /\ commands' = commands + 1
  /\ tool' = [tool EXCEPT ![t] = [pc |-> "manifest", kind |-> kind, todo |-> todo, seen |-> requests]]
  /\ UNCHANGED <<world, box, store, call, drawn, owner, requested, sealed, calls, mishaps>>

\* a fresh authorization id for each capability
DrawnIds(caps) ==
  CHOOSE f \in [caps -> drawn + 1 .. drawn + Cardinality(caps)] :
    \A c, d \in caps : c # d => f[c] # f[d]

\* ShapeABatchOwnerApproval binds every entry to the id drawn for it
AuthorizationApproval(entries, ids) ==
  {[cap |-> e[1], request |-> e[2], id |-> ids[e[1]]] : e \in entries}

\* ShapeAConfirmationBatchOwnerApproval: the entries name their contracts
ConfirmationApproval(entries) == {[cap |-> e[1], request |-> e[2], id |-> 0] : e \in entries}

\* One yes for the manifest; the owner approval is signed and written.
ApproveBatch(t) ==
  LET entries == tool[t].seen
      authorizing == tool[t].kind = "authorization"
      members == IF authorizing THEN AuthorizationApproval(entries, DrawnIds(tool[t].todo))
                                ELSE ConfirmationApproval(entries)
  IN
  /\ AtTool(t, "manifest")
  /\ \/ Abort(t) /\ UNCHANGED <<owner, drawn>>
     \/ /\ reviewed' = reviewed \cup {e[2] : e \in entries}
        /\ manifests' = manifests \cup {members}
        /\ drawn' = IF authorizing THEN drawn + Cardinality(entries) ELSE drawn
        /\ tool' = [tool EXCEPT ![t].pc = "member", ![t].seen = members]
        /\ UNCHANGED signatures
  /\ UNCHANGED <<world, box, store, call, requested, sealed, calls, budget>>

\* verify_plan_authorization_v2_batch_membership(): id, intent, and the plan
\* that all entries of the manifest share
IsMember(a, approval) ==
  \E e \in approval :
    e.cap = a.cap /\ e.id = a.id /\ Intent(e.request) = Intent(a) /\ e.request.plan = a.plan

\* Mutant: the request is not compared with the manifest again.
AnyRequest(kind, p, approved) == TRUE

\* expected_execution_intent_digest; expected contract, operation and intent
AsApproved(kind, p, approved) ==
  /\ Intent(p) = Intent(approved)
  /\ kind = "confirmation" => p.cid = approved.cid

\* A member's turn: its request is read again and signed under the id drawn
\* for it, without another prompt.
SignMember(t) ==
  LET kind == tool[t].kind
  IN
  /\ AtTool(t, "member")
  /\ \E m \in {e \in tool[t].seen : e.cap \in tool[t].todo} :
       \/ /\ Skipped(kind, m.cap)
          /\ Continue(t, "member", tool[t].todo \ {m.cap}) /\ UNCHANGED <<signatures, box>>
       \/ /\ ~Skipped(kind, m.cap)
          /\ \A p \in Load(m.cap, RequestFile(kind)) : ~AsApproved(kind, p, m.request)
          /\ Abort(t) /\ UNCHANGED <<signatures, box>>
       \/ /\ ~Skipped(kind, m.cap)
          /\ \E p \in Load(m.cap, RequestFile(kind)) :
               /\ AsApproved(kind, p, m.request)
               /\ SignAndWrite(t, m.cap, p, m.id, BatchValidity, "member")
  /\ UNCHANGED <<world, store, call, drawn, reviewed, manifests, requested, sealed, calls, budget>>

ToolStep(t) == Review(t) \/ AnswerPrompt(t) \/ ApproveBatch(t) \/ SignMember(t)

-----------------------------------------------------------------------------
(* sign-approval of a sealed write, the operator and the world             *)

SealedWriteApproval(k, version, issued, expires) ==
  [cid |-> k, version |-> version, cap |-> contracts[k].cap, want |-> contracts[k].want,
   base |-> contracts[k].base, issued |-> issued, expires |-> expires]

\* The operator types the contract and its version; nothing compares them
\* with the store.
SignSealedApproval(k, version) ==
  /\ k \in DOMAIN contracts /\ Cardinality(sealed) < MaxApprovals
  /\ sealed' = sealed \cup {SealedWriteApproval(k, version, clock, clock + Validity)}
  /\ UNCHANGED <<world, box, store, call, tool, drawn, owner, requested, calls, budget>>

RemoveFile(c, name) ==
  /\ Present(c, name) /\ mishaps < MaxMishaps
  /\ mishaps' = mishaps + 1
  /\ box' = [box EXCEPT ![c][name] = {}]
  /\ UNCHANGED <<world, store, call, tool, drawn, owner, requested, sealed, calls, commands>>

DamageFile(c, name) ==
  /\ mishaps < MaxMishaps
  /\ \E f \in box[c][name], v \in Value :
       /\ f.body.want # v
       /\ box' = [box EXCEPT ![c][name] = {[f EXCEPT !.body.want = v]}]
  /\ mishaps' = mishaps + 1
  /\ UNCHANGED <<world, store, call, tool, drawn, owner, requested, sealed, calls, commands>>

ChangeWorld ==
  /\ mishaps < MaxMishaps
  /\ mishaps' = mishaps + 1
  /\ \/ posture' \in Posture \ {posture} /\ UNCHANGED setting
     \/ /\ \E c \in Capability, v \in Value : v # setting[c] /\ setting' = [setting EXCEPT ![c] = v]
        /\ UNCHANGED posture
  /\ UNCHANGED <<clock, box, store, call, tool, drawn, owner, requested, sealed, calls, commands>>

CrashServer ==
  /\ ~AtCall("down") /\ mishaps < MaxMishaps
  /\ mishaps' = mishaps + 1
  /\ call' = Down
  /\ UNCHANGED <<world, box, store, tool, drawn, owner, requested, sealed, calls, commands>>

Tick ==
  /\ clock < MaxClock
  /\ clock' = clock + 1
  /\ UNCHANGED <<posture, setting, box, store, call, tool, drawn, owner, requested, sealed, calls, budget>>

CeremonyNext ==
  \/ \E c \in Capability, want \in Value : RequestChange(c, want)
  \/ ServerStep
  \/ \E t \in SigningTool, kind \in Kind, todo \in SUBSET Capability :
       BeginCommand(t, kind, todo) \/ BeginBatch(t, kind, todo)
  \/ \E t \in SigningTool : ToolStep(t)
  \/ \E k \in DOMAIN contracts, version \in 1 .. 2 : SignSealedApproval(k, version)
  \/ \E c \in Capability, name \in FileName : RemoveFile(c, name) \/ DamageFile(c, name)
  \/ ChangeWorld \/ CrashServer \/ Tick

CeremonySpec == CeremonyInit /\ [][CeremonyNext]_ceremonyVars

-----------------------------------------------------------------------------
(* Properties *)

\* Types; what the call and the tool refer to exists.
CeremonyTypeOK ==
  /\ clock \in 0 .. MaxClock /\ posture \in Posture /\ setting \in [Capability -> Value]
  /\ \A c \in Capability, n \in FileName :
       Cardinality(box[c][n]) <= 1 /\ \A f \in box[c][n] : f.body.cap = c
  /\ \A k \in DOMAIN contracts :
       /\ contracts[k].cap \in Capability /\ {contracts[k].want, contracts[k].base} \subseteq Value
       /\ contracts[k].state \in RecoveryState /\ contracts[k].version \in 1 .. 2
       /\ contracts[k].auth.id \in spent
  /\ spent \subseteq 1 .. drawn
  /\ call.pc \in {"down", "idle", "prepare", "authorize", "deliver", "handoff"}
  /\ call.pc \in {"deliver", "handoff"} => call.cid \in DOMAIN contracts
  /\ \A t \in SigningTool :
       /\ tool[t].pc \in {"idle", "next", "prompt", "manifest", "member"}
       /\ ~AtTool(t, "idle") => tool[t].todo \in SUBSET Capability \ {{}}

\* The owner is shown only what the server wrote: a file that was altered on
\* its way between the hosts is refused before anybody is asked about it.
OwnerSeesRequests == reviewed \subseteq requested

\* Whatever is signed was reviewed: after one yes for a whole manifest the
\* files are read again, and may have been written anew for another change.
SignedAsReviewed ==
  \A s \in signatures : \E r \in reviewed :
    /\ Intent(r) = Intent(s)
    /\ "cid" \in DOMAIN s => "cid" \in DOMAIN r /\ r.cid = s.cid

\* An artifact stays what it is until the operator removes it: neither a later
\* request nor a second run of the tool replaces what the owner is looking at
\* or has signed.
NeverReplaced ==
  \A c \in Capability, n \in FileName :
    \A f \in box[c][n], g \in box'[c][n] : f.mac = g.mac

\* The owner sees what the server wrote, signs what he saw, and neither
\* changes under his hands (alias_description_signing.py, write_batch1_signing.py).
OwnerSignsWhatHeSaw ==
  [][(OwnerSeesRequests /\ SignedAsReviewed)' /\ NeverReplaced]_ceremonyVars

\* A setting is changed only for a contract whose intent the owner authorized
\* and which he confirmed by name, whatever files earlier requests left behind.
ExecutedAsReviewed ==
  \A k \in DOMAIN contracts : contracts[k].executed =>
    /\ \E r \in reviewed : "plan" \in DOMAIN r /\ Intent(r) = Intent(contracts[k])
    /\ \E r \in reviewed : "cid" \in DOMAIN r /\ r.cid = k

\* A sealed write is executed only under an approval of that very contract in
\* the version it has after confirmation.
SealedByName ==
  \A k \in DOMAIN contracts : contracts[k].executed /\ contracts[k].cap \in StandardSealed =>
    \E s \in sealed : s.cid = k /\ s.version = contracts[k].version

\* Nothing is executed but what was approved at every stage
\* (write_execution_core.py, sealed_write_approval.py).
ExecutedAsApproved == ExecutedAsReviewed /\ SealedByName

\* Every authorization signed for a batch passes the membership check against
\* the batch's own owner approval.
BatchMembership ==
  \A approval \in manifests, s \in signatures :
    (\E e \in approval : "id" \in DOMAIN s /\ s.id = e.id) => IsMember(s, approval)
=============================================================================
