----------------------------- MODULE PfrestDocs -----------------------------
(***************************************************************************)
(* pfsense_get_api_guidance (tools/read/api_guidance.py) over the pfREST   *)
(* documentation package: the document cache and the index parsed from it  *)
(* (pfrest_docs/cache.py, provider.py, fetch.py), the cached schema of the *)
(* connected appliance (appliance_schema.py), and the evidence put         *)
(* together from both, each entry with its freshness.                      *)
(*                                                                         *)
(* A document is its content hash; Holds says which endpoints and models   *)
(* it describes. One call runs at a time, but upstream publishes, the      *)
(* appliance is upgraded and time passes while a fetch is under way.       *)
(***************************************************************************)
EXTENDS Naturals, Sequences, SequencesExt, FiniteSets

CONSTANTS Topics,             \* guide topics
          Subjects,           \* endpoints and models that may be asked for
          Documents,          \* OpenAPI documents, by content hash
          Holds,              \* [Documents -> SUBSET Subjects]
          Corrupt,            \* bodies that are not a JSON object
          FieldCount,         \* [Subjects -> Nat]: fields of a model
          MAX_CACHE_ENTRIES, DEFAULT_TTL_SECONDS, HeaderTtls, STALE_GRACE_SECONDS,
          CACHE_TTL_SECONDS,  \* of the appliance's schema
          MaxDocTime, MaxPublications, MaxUpgrades   \* bounds

ASSUME DocsAssumption ==
    /\ Holds \in [Documents -> SUBSET Subjects] /\ FieldCount \in [Subjects -> Nat]
    /\ Corrupt \subseteq Documents /\ MAX_CACHE_ENTRIES \in Nat \ {0}
    /\ {DEFAULT_TTL_SECONDS, STALE_GRACE_SECONDS, CACHE_TTL_SECONDS} \subseteq Nat
    /\ HeaderTtls \subseteq Nat /\ \E t \in HeaderTtls : \A h \in HeaderTtls : h <= t
    /\ {"no_document", "page"} \cap Documents = {} /\ "openapi" \notin Topics

VARIABLES docTime,      \* time.monotonic()
          entries,      \* the document cache, in order of insertion
          docIndex,     \* the parsed document, None if it did not parse
          docIndexHash, \* the hash it was parsed from
          schemaIndex,  \* the appliance's schema last indexed
          schemaSince,  \* when
          asked,        \* the call under way
          guidance,     \* what the last call returned or raised
          published,    \* what upstream serves now
          withdrawn,    \* history: when a document was last replaced upstream
          upgraded,     \* what the appliance serves now
          superseded,   \* history: when a schema was last replaced there
          publications, upgrades

docVars == <<docTime, entries, docIndex, docIndexHash, schemaIndex, schemaSince, asked, guidance,
             published, withdrawn, upgraded, superseded, publications, upgrades>>
docWorld == <<published, withdrawn, upgraded, superseded, publications, upgrades>>

NoDoc == "no_document"
OPENAPI_URL == "openapi"
Page == "page"       \* a guide page: its content is not told apart
NotAsked == [at |-> "none", mode |-> "none", subject |-> "none", url |-> "none", since |-> 0, stale |-> NoDoc, evidence |-> {}]
NoGuidance == [outcome |-> "none", subject |-> "none", since |-> 0, evidence |-> {}, conflicts |-> {}]

DocsInit ==
    /\ docTime = 0 /\ entries = <<>> /\ docIndex = NoDoc /\ docIndexHash = NoDoc
    /\ schemaIndex = NoDoc /\ schemaSince = 0
    /\ asked = NotAsked /\ guidance = NoGuidance
    /\ published \in Documents \ Corrupt /\ withdrawn = [d \in Documents |-> 0]
    /\ upgraded = published /\ superseded = [d \in Documents |-> 0]
    /\ publications = 0 /\ upgrades = 0

-----------------------------------------------------------------------------
(* The cache.                                                              *)

Cached(url) == {i \in DOMAIN entries : entries[i].url = url}
EntryAge(e) == docTime - e.since
Freshness(e) ==
    IF EntryAge(e) <= e.ttl THEN "FRESH"
    ELSE IF EntryAge(e) <= e.ttl + STALE_GRACE_SECONDS THEN "STALE_BUT_USABLE"
    ELSE "MISS"

(* get() drops an entry past its grace.                                    *)
Expired(url) == {i \in Cached(url) : Freshness(entries[i]) = "MISS"}
AfterGet(url) == IF Expired(url) = {} THEN entries ELSE RemoveAt(entries, CHOOSE i \in Expired(url) : TRUE)

(* put() evicts the entry inserted first, and keeps the place of an entry  *)
(* it replaces.                                                            *)
TtlOf(header) == IF header > 0 THEN header ELSE DEFAULT_TTL_SECONDS
Put(url, doc, header) ==
    LET entry == [url |-> url, doc |-> doc, since |-> docTime, ttl |-> TtlOf(header)]
        room == IF Len(entries) >= MAX_CACHE_ENTRIES THEN Tail(entries) ELSE entries
    IN  IF Cached(url) # {} THEN [i \in DOMAIN entries |-> IF entries[i].url = url THEN entry ELSE entries[i]]
        ELSE Append(room, entry)

(* The index is parsed again when the document's hash is another one, or   *)
(* when the last one did not parse.                                        *)
KeptIndex(doc) == IF docIndex # NoDoc THEN docIndex ELSE IF doc \in Corrupt THEN NoDoc ELSE doc
IndexFor(doc) ==
    IF docIndex # NoDoc /\ docIndexHash = doc THEN docIndex
    ELSE IF doc \in Corrupt THEN NoDoc ELSE doc

-----------------------------------------------------------------------------
(* Evidence.                                                               *)

Evidence(source, freshness, hash, found) ==
    [source |-> source, freshness |-> freshness, hash |-> hash, found |-> found]
Unavailable(source) == Evidence(source, "UPSTREAM_UNAVAILABLE", NoDoc, FALSE)

UpstreamEvidence(subject, doc, freshness) ==
    LET index == IndexFor(doc)
    IN  IF index = NoDoc THEN Evidence("PFREST_UPSTREAM", "CORRUPT", doc, FALSE)
        ELSE Evidence("PFREST_UPSTREAM", freshness, doc, subject \in Holds[index])

(* A model's facts are its fields, at most 25, and a heading; evidence     *)
(* with more than 24 facts is refused by its own type.                     *)
MAX_FIELDS_PER_MODEL == 25
MAX_FACTS_PER_EVIDENCE == 24
TooManyFacts(mode, e, subject) ==
    mode = "model" /\ e.found
    /\ 1 + (IF FieldCount[subject] > MAX_FIELDS_PER_MODEL THEN MAX_FIELDS_PER_MODEL ELSE FieldCount[subject])
       > MAX_FACTS_PER_EVIDENCE

ExistenceNotes(up, app) ==
    IF app.freshness = "UPSTREAM_UNAVAILABLE" THEN {}
    ELSE IF up.found /\ ~app.found THEN {"not_on_appliance"}
    ELSE IF app.found /\ ~up.found THEN {"not_in_public_document"}
    ELSE {}

-----------------------------------------------------------------------------
(* A call.                                                                 *)

(* Inputs that are too long, missing or unknown are refused at once.       *)
RefuseQuery ==
    /\ asked = NotAsked /\ guidance = NoGuidance
    /\ guidance' = [NoGuidance EXCEPT !.outcome = "ValueError"]
    /\ UNCHANGED <<docTime, entries, docIndex, docIndexHash, schemaIndex, schemaSince, asked, docWorld>>

(* A tool with no endpoint is answered from the project's own text.        *)
AskLocalTool ==
    /\ asked = NotAsked /\ guidance = NoGuidance
    /\ guidance' = [NoGuidance EXCEPT !.outcome = "result",
                      !.evidence = {Evidence("PROJECT_AUTHORED", "NOT_APPLICABLE", NoDoc, TRUE)}]
    /\ UNCHANGED <<docTime, entries, docIndex, docIndexHash, schemaIndex, schemaSince, asked, docWorld>>

(* What the call has learned upstream: a topic is answered, anything else  *)
(* goes on to the appliance.                                               *)
AfterUpstream(call, e, index, hash) ==
    /\ docIndex' = index /\ docIndexHash' = hash
    /\ IF call.mode = "topic" \/ TooManyFacts(call.mode, e, call.subject)
       THEN /\ guidance' = [outcome |-> IF call.mode = "topic" THEN "result" ELSE "ValidationError",
                            subject |-> call.subject, since |-> call.since,
                            evidence |-> IF call.mode = "topic" THEN {e} ELSE {}, conflicts |-> {}]
            /\ asked' = NotAsked
       ELSE /\ asked' = [call EXCEPT !.at = "appliance", !.evidence = {e}]
            /\ UNCHANGED guidance

UpstreamAnswer(call, doc, freshness) ==
    IF call.mode = "topic"
    THEN AfterUpstream(call, Evidence("PFREST_UPSTREAM", freshness, doc, TRUE), docIndex, docIndexHash)
    ELSE AfterUpstream(call, UpstreamEvidence(call.subject, doc, freshness), IndexFor(doc), doc)

(* A tool is asked for by its endpoint (tool_endpoint_map.py).            *)
(* The lookup in the cache; unless it is fresh the document is fetched,    *)
(* and a stale one remembered.                                             *)
AskGuidance(mode, subject, url) ==
    LET call == [NotAsked EXCEPT !.mode = mode, !.subject = subject, !.url = url, !.since = docTime]
        fresh == {i \in Cached(url) : Freshness(entries[i]) = "FRESH"}
        stale == {i \in Cached(url) : Freshness(entries[i]) = "STALE_BUT_USABLE"}
    IN  /\ asked = NotAsked /\ guidance = NoGuidance
        /\ entries' = AfterGet(url)
        /\ \/ \E i \in fresh : UpstreamAnswer(call, entries[i].doc, "FRESH")
           \/ /\ fresh = {}
              /\ asked' = [call EXCEPT !.at = "fetching",
                             !.stale = IF stale = {} THEN NoDoc ELSE entries[CHOOSE i \in stale : TRUE].doc]
              /\ UNCHANGED <<guidance, docIndex, docIndexHash>>
        /\ UNCHANGED <<docTime, schemaIndex, schemaSince, docWorld>>

(* fetch(): one GET, one redirect within the allowed hosts, a bounded body *)
(* of an expected type.                                                    *)
Responses == {"ok", "redirected_within", "redirected_away", "redirected_twice", "oversized", "bad_status",
              "bad_content_type", "not_utf8", "network_error"}
Fetched(response) == response \in {"ok", "redirected_within"}

FetchReturns(response, header) ==
    LET doc == IF asked.mode = "topic" THEN Page ELSE published
    IN  /\ asked.at = "fetching" /\ Fetched(response)
        /\ entries' = Put(asked.url, doc, header)
        /\ UpstreamAnswer(asked, doc, "FRESH")
        /\ UNCHANGED <<docTime, schemaIndex, schemaSince, docWorld>>

(* A failed fetch falls back on the entry the lookup found stale.          *)
FetchFails(response) ==
    /\ asked.at = "fetching" /\ ~Fetched(response)
    /\ IF asked.stale # NoDoc THEN UpstreamAnswer(asked, asked.stale, "STALE_BUT_USABLE")
       ELSE AfterUpstream(asked, Unavailable("PFREST_UPSTREAM"), docIndex, docIndexHash)
    /\ UNCHANGED <<docTime, entries, schemaIndex, schemaSince, docWorld>>

(* A body that cannot be decompressed is no transport error to httpx: the  *)
(* exception leaves fetch() and the call.                                  *)
FetchRaises ==
    /\ asked.at = "fetching"
    /\ guidance' = [NoGuidance EXCEPT !.outcome = "DecodingError"] /\ asked' = NotAsked
    /\ UNCHANGED <<docTime, entries, docIndex, docIndexHash, schemaIndex, schemaSince, docWorld>>

-----------------------------------------------------------------------------
(* The appliance's schema.                                                 *)

SchemaFresh == schemaIndex # NoDoc /\ docTime - schemaSince <= CACHE_TTL_SECONDS

(* Evidence of the appliance is called fresh whatever the age of the index *)
(* behind it; via says how the index was come by in this call.             *)
Conclude(index, via) ==
    LET up == CHOOSE e \in asked.evidence : TRUE
        app == IF index = NoDoc THEN Unavailable("LIVE_APPLIANCE_SCHEMA")
               ELSE Evidence("LIVE_APPLIANCE_SCHEMA", "FRESH", NoDoc, asked.subject \in Holds[index])
    IN  /\ guidance' = [outcome |-> via, subject |-> asked.subject, since |-> asked.since,
                        evidence |-> {up, app}, conflicts |-> ExistenceNotes(up, app)]
        /\ asked' = NotAsked

SchemaCached ==
    /\ asked.at = "appliance" /\ SchemaFresh
    /\ Conclude(schemaIndex, "cached_schema")
    /\ UNCHANGED <<docTime, entries, docIndex, docIndexHash, schemaIndex, schemaSince, docWorld>>

SchemaRead ==
    /\ asked.at = "appliance" /\ ~SchemaFresh
    /\ schemaIndex' = upgraded /\ schemaSince' = docTime
    /\ Conclude(upgraded, "read_schema")
    /\ UNCHANGED <<docTime, entries, docIndex, docIndexHash, docWorld>>

(* An error, a body that is no object or one too large: the last index     *)
(* serves on, for as long as that goes on.                                 *)
SchemaFails ==
    /\ asked.at = "appliance" /\ ~SchemaFresh
    /\ Conclude(schemaIndex, "failed_schema")
    /\ UNCHANGED <<docTime, entries, docIndex, docIndexHash, schemaIndex, schemaSince, docWorld>>

-----------------------------------------------------------------------------
(* Around the server.                                                      *)

DeliverGuidance ==
    /\ guidance # NoGuidance /\ guidance' = NoGuidance
    /\ UNCHANGED <<docTime, entries, docIndex, docIndexHash, schemaIndex, schemaSince, asked, docWorld>>

TimePasses ==
    /\ guidance = NoGuidance /\ docTime < MaxDocTime
    /\ docTime' = docTime + 1
    /\ UNCHANGED <<entries, docIndex, docIndexHash, schemaIndex, schemaSince, asked, guidance, docWorld>>

Publish(doc) ==
    /\ guidance = NoGuidance /\ doc # published /\ publications < MaxPublications
    /\ published' = doc /\ withdrawn' = [withdrawn EXCEPT ![published] = docTime]
    /\ publications' = publications + 1
    /\ UNCHANGED <<docTime, entries, docIndex, docIndexHash, schemaIndex, schemaSince, asked, guidance,
                   upgraded, superseded, upgrades>>

UpgradeAppliance(doc) ==
    /\ guidance = NoGuidance /\ doc \notin Corrupt \cup {upgraded} /\ upgrades < MaxUpgrades
    /\ upgraded' = doc /\ superseded' = [superseded EXCEPT ![upgraded] = docTime]
    /\ upgrades' = upgrades + 1
    /\ UNCHANGED <<docTime, entries, docIndex, docIndexHash, schemaIndex, schemaSince, asked, guidance,
                   published, withdrawn, publications>>

DocsNext ==
    \/ RefuseQuery \/ AskLocalTool
    \/ \E mode \in {"endpoint", "model"}, s \in Subjects : AskGuidance(mode, s, OPENAPI_URL)
    \/ \E t \in Topics : AskGuidance("topic", t, t)
    \/ \E r \in Responses, header \in HeaderTtls : FetchReturns(r, header)
    \/ \E r \in Responses : FetchFails(r)
    \/ FetchRaises
    \/ SchemaCached \/ SchemaRead \/ SchemaFails
    \/ DeliverGuidance \/ TimePasses
    \/ \E d \in Documents : Publish(d) \/ UpgradeAppliance(d)

DocsSpec == DocsInit /\ [][DocsNext]_docVars

-----------------------------------------------------------------------------
LongestTtl == CHOOSE t \in {TtlOf(h) : h \in HeaderTtls} : \A h \in HeaderTtls : TtlOf(h) <= t

(* A label never overstates how current a document is: what is called      *)
(* fresh was still served upstream within its lifetime before the call     *)
(* began, what is called stale within the grace period after that, however *)
(* long fetches take and whatever fails (cache.py, provider.py).           *)
LabelMatchesAge ==
    \A e \in guidance.evidence :
        (e.source = "PFREST_UPSTREAM" /\ e.hash \in Documents) =>
            LET gone == withdrawn[e.hash]
                current == e.hash = published
            IN  /\ e.freshness = "FRESH" => current \/ gone + LongestTtl >= guidance.since
                /\ e.freshness = "STALE_BUT_USABLE" =>
                       current \/ gone + LongestTtl + STALE_GRACE_SECONDS >= guidance.since

(* The hash in an evidence entry names the document its facts come from,   *)
(* although index and cache are kept apart and either may be older         *)
(* (provider.py _retrieval_from_cached).                                   *)
HashPinsContent ==
    \A e \in guidance.evidence :
        (e.source = "PFREST_UPSTREAM" /\ e.hash \in Documents \ Corrupt) =>
            (e.found <=> guidance.subject \in Holds[e.hash])

(* The schema of a connected appliance that answers is at most its         *)
(* lifetime old: an older one is used only in a call whose own attempt to  *)
(* read it failed (appliance_schema.py _get_index).                        *)
OldSchemaOnlyAfterFailure ==
    guidance.outcome \in {"cached_schema", "read_schema"} =>
        schemaIndex = upgraded \/ superseded[schemaIndex] + CACHE_TTL_SECONDS >= docTime

(* Of the upstream documents, the labels do not overstate the age and the   *)
(* hashes name the facts; of the appliance, a schema that was read or is    *)
(* served within its lifetime is no older than that lifetime. Two things    *)
(* the answer says are not claimed, because the code does not keep them:    *)
(* after a failed read an appliance index of any age is still labelled      *)
(* FRESH (api_guidance.py:200 with appliance_schema.py:118-122, against     *)
(* docs/TOOL_AND_GUIDANCE_REFERENCE.md:136), and a subject is said to be    *)
(* missing from the public document also when upstream was not reached      *)
(* (api_guidance.py:283-288).                                               *)
GuidanceSound == LabelMatchesAge /\ HashPinsContent /\ OldSchemaOnlyAfterFailure
=============================================================================
