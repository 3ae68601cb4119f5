----------------------------- MODULE AnswerCache -----------------------------
(***************************************************************************)
(* The caches a POST /ask goes through, and the corpus they are built on:  *)
(* the idempotency store (backend/src/core/idempotency.py), the response   *)
(* cache (cache/response_cache.py) and the retrieval cache                 *)
(* (cache/retrieval_cache.py), in the order ask and _ask of                *)
(* backend/src/api/routes.py use them, against POST /ingest, POST          *)
(* /ingest/rebuild and POST /cache/invalidate.                             *)
(*                                                                         *)
(* Each ask is one HTTP call and one thread; an action is the part between *)
(* two accesses to something shared.  Every access is under its cache's    *)
(* lock, but nothing is held across two of them.  Time is kept as ages     *)
(* that Tick advances: of the entries, of the calls and of the corpora.    *)
(* The run of the graph (AskWorkflow) is one retrieval and one result.     *)
(***************************************************************************)
EXTENDS Naturals, FiniteSets, Functions

CONSTANTS
    Asks,               \* POST /ask calls
    Calls,              \* what they may be called with
    Similar,            \* for each question, those the embedding finds near it
    Ends,               \* how a run may end, a subset of Kinds
    NoHeader,           \* the header of a call without an Idempotency-Key
    NoResult,           \* an ask that holds nothing yet
    MaxVersion,         \* changes to the corpus (bound)
    RetrievalTTL, ResponseTTL, IdempotencyTTL, MaxEntries,
    MaxAge,             \* how long a call may take
    Horizon,            \* ages are not told apart beyond it
    Faults              \* what may fail: "ingest" after it wrote, "run" in the graph

\* The body is what the caller sends; user and grants (the role with its access
\* scopes and departments) come from the token; "history" is what load_thread found.
CallFields == {"user", "grants", "header", "history", "body"}
BodyFields == {"question", "documents", "thread", "use_cache"}

\* Uncertified is an answer that is degraded, not found or below the threshold;
\* pending is a 202; other is a refusal or a clarification.
Kinds == {"certified", "uncertified", "pending", "other"}

ASSUME AskAssumption == IsFiniteSet(Asks)
ASSUME EndAssumption == Ends \subseteq Kinds
ASSUME CallAssumption ==
    \A c \in Calls : /\ DOMAIN c = CallFields
                     /\ DOMAIN c.body = BodyFields
                     /\ {c.history, c.body.use_cache} \subseteq BOOLEAN
                     /\ c.body.question \in DOMAIN Similar
ASSUME TimeAssumption ==
    {MaxVersion, RetrievalTTL, ResponseTTL, IdempotencyTTL, MaxEntries, MaxAge, Horizon}
        \subseteq Nat
ASSUME FaultAssumption == Faults \subseteq {"ingest", "run"}

VARIABLES
    corpus,     \* version of the vector table
    replaced,   \* for each version, the time since it was replaced
    admin,      \* where the ingestion or the invalidation stands
    retrieval, response, idempotency,   \* key -> entry
    call,       \* what each ask was called with
    pc,         \* each ask's next step
    result,     \* what each ask is about to store and return
    age,        \* the time since each ask began
    raced       \* ghost: an ask overlapped a change, or a change was not followed up
vars == <<corpus, replaced, admin, retrieval, response, idempotency,
          call, pc, result, age, raced>>
Caches == <<retrieval, response, idempotency>>
World == <<corpus, replaced, admin, raced>>

\* build_key: the header alone, or without one a hash of the body.  What the token
\* grants the user is in neither.
BuildKey(c) ==
    IF c.header # NoHeader THEN <<c.user, c.header>> ELSE <<c.user, "auto", c.body>>

\* _cache_scope: all that can change an answer besides the words.
Scope(c) == <<c.grants, c.body.documents>>

\* A call that opts out or has a conversation behind it passes the response cache by.
Eligible(c) == c.body.use_cache /\ ~c.history

\* What is returned: how the run for a call ended, on which corpus.
Results == [kind : Kinds, call : Calls, version : 0..MaxVersion]

Init ==
    /\ corpus = 0
    /\ replaced = [v \in 0..MaxVersion |-> 0]
    /\ admin = "idle"
    /\ retrieval = <<>> /\ response = <<>> /\ idempotency = <<>>
    /\ call \in [Asks -> Calls]
    /\ pc = [a \in Asks |-> "idle"]
    /\ result = [a \in Asks |-> NoResult]
    /\ age = [a \in Asks |-> 0]
    /\ raced = FALSE

-----------------------------------------------------------------------------
(* A cache is a function from its keys to entries with an age. *)

Entry(value) == [value |-> value, age |-> 0]

\* Mutant: the TTL of an entry is not looked at.
MutLive(cache, key, ttl) == key \in DOMAIN cache

\* TTLCache.get_entry: an entry is served while it is younger than its TTL.
Live(cache, key, ttl) == key \in DOMAIN cache /\ cache[key].age < ttl

\* TTLCache.put: beyond max_entries the least recently used entry goes; which
\* one that is, is left open.
Stored(cache, key, value) ==
    LET full == [k \in DOMAIN cache \cup {key} |->
                    IF k = key THEN Entry(value) ELSE cache[k]]
    IN  IF Cardinality(DOMAIN full) <= MaxEntries THEN {full}
        ELSE {Restrict(full, DOMAIN full \ {k}) : k \in DOMAIN cache \ {key}}

Goto(a, step) == pc' = [pc EXCEPT ![a] = step]
Holding(a, r) == result' = [result EXCEPT ![a] = r]

InFlight(a) == pc[a] \notin {"idle", "done"}

-----------------------------------------------------------------------------
(* One ask. *)

\* ask: a replay of the idempotency store, or on to _ask.  Its entries are
\* served up to and including their TTL.
Begin(a) ==
    LET key == BuildKey(call[a])
    IN  /\ pc[a] = "idle"
        /\ IF Live(idempotency, key, IdempotencyTTL + 1)
           THEN Goto(a, "replay") /\ Holding(a, idempotency[key].value)
           ELSE Goto(a, "lookup") /\ UNCHANGED result
        /\ raced' = (raced \/ admin # "idle")
        /\ UNCHANGED <<corpus, replaced, admin, Caches, call, age>>

\* Mutant: the nearest question of any scope is a hit.
MutHits(c) ==
    LET exact == <<Scope(c), c.body.question>>
        near  == {k \in DOMAIN response :
                    Live(response, k, ResponseTTL) /\ k[2] \in Similar[c.body.question]}
    IN  IF Live(response, exact, ResponseTTL) THEN {exact} ELSE near

\* ResponseCache.lookup: the same question, or one near it, in the same scope.
Hits(c) ==
    LET exact == <<Scope(c), c.body.question>>
        near  == {k \in DOMAIN response :
                    /\ Live(response, k, ResponseTTL)
                    /\ k[1] = Scope(c) /\ k[2] \in Similar[c.body.question]}
    IN  IF Live(response, exact, ResponseTTL) THEN {exact} ELSE near

Lookup(a) ==
    /\ pc[a] = "lookup"
    /\ \/ /\ Eligible(call[a])
          /\ \E k \in Hits(call[a]) : Holding(a, response[k].value)
          /\ Goto(a, "store_hit")
       \/ /\ Eligible(call[a]) => Hits(call[a]) = {}
          /\ Goto(a, "retrieve") /\ UNCHANGED result
    /\ UNCHANGED <<World, Caches, call, age>>

RetrievalKey(c) == <<Scope(c), c.body.question>>

Found(a, version) == Holding(a, [kind |-> "other", call |-> call[a], version |-> version])

\* retrieve_policy_evidence: the cached chunks, or a search of the vector table.
Retrieve(a) ==
    LET key == RetrievalKey(call[a])
    IN  /\ pc[a] = "retrieve"
        /\ IF Live(retrieval, key, RetrievalTTL)
           THEN Found(a, retrieval[key].value) /\ Goto(a, "store_key")
           ELSE Found(a, corpus) /\ Goto(a, "store_chunks")
        /\ UNCHANGED <<World, Caches, call, age>>

\* The search is stored after it, unless it found nothing.
StoreChunks(a) ==
    /\ pc[a] = "store_chunks"
    /\ \/ UNCHANGED retrieval
       \/ retrieval' \in Stored(retrieval, RetrievalKey(call[a]), result[a].version)
    /\ Goto(a, "store_key")
    /\ UNCHANGED <<World, response, idempotency, call, result, age>>

Ended(a) ==
    Goto(a, "done") /\ Holding(a, NoResult) /\ age' = [age EXCEPT ![a] = 0]

\* A 202 is replayed only for a key the caller sent.
Keeps(c, r) == r.kind = "pending" => c.header # NoHeader

\* idempotency_store.put
KeptUnderKey(a, r) ==
    LET key == BuildKey(call[a])
    IN  idempotency' =
            IF Keeps(call[a], r)
            THEN [k \in DOMAIN idempotency \cup {key} |->
                      IF k = key THEN Entry(r) ELSE idempotency[k]]
            ELSE idempotency

\* The graph has ended: only an answer goes on to the response cache.
StoreKey(a) ==
    /\ pc[a] = "store_key"
    /\ \E kind \in Ends :
          LET r == [result[a] EXCEPT !.kind = kind]
          IN  /\ Holding(a, r) /\ KeptUnderKey(a, r)
              /\ Goto(a, IF kind \in {"certified", "uncertified"} /\ Eligible(call[a])
                         THEN "store_answer" ELSE "reply")
    /\ UNCHANGED <<World, retrieval, response, call, age>>

\* A run that raises stores and returns nothing.
Raise(a) ==
    /\ "run" \in Faults
    /\ pc[a] = "store_key"
    /\ Ended(a)
    /\ UNCHANGED <<World, Caches, call>>

\* A hit of the response cache is kept under the key as well.
StoreHit(a) ==
    /\ pc[a] = "store_hit"
    /\ KeptUnderKey(a, result[a])
    /\ Goto(a, "reply")
    /\ UNCHANGED <<World, retrieval, response, call, result, age>>

\* Mutant: a degraded answer is stored as well.
MutShouldCache(r) == r.kind \in {"certified", "uncertified"}

\* should_cache_answer
ShouldCache(r) == r.kind = "certified"

StoreAnswer(a) ==
    /\ pc[a] = "store_answer"
    /\ IF ShouldCache(result[a])
       THEN response' \in Stored(response, <<Scope(call[a]), call[a].body.question>>, result[a])
       ELSE UNCHANGED response
    /\ Goto(a, "reply")
    /\ UNCHANGED <<World, retrieval, idempotency, call, result, age>>

Reply(a) ==
    /\ pc[a] \in {"reply", "replay"}
    /\ Ended(a)
    /\ UNCHANGED <<World, Caches, call>>

Steps == {"idle", "lookup", "retrieve", "store_chunks", "store_key", "store_hit",
          "store_answer", "replay", "reply", "done"}

Step(a) ==
    Begin(a) \/ Lookup(a) \/ Retrieve(a) \/ StoreChunks(a)
        \/ StoreKey(a) \/ Raise(a) \/ StoreHit(a) \/ StoreAnswer(a) \/ Reply(a)

-----------------------------------------------------------------------------
(* The administrator. *)

\* insert_nodes, supersede_previous_versions or clear_vector_table: what a search
\* finds is different from here on.  An ingestion does the first two in turn.
ChangeCorpus ==
    /\ admin \in {"idle", "changed"} /\ corpus < MaxVersion
    /\ corpus' = corpus + 1
    /\ admin' = "changed"
    /\ raced' = (raced \/ \E a \in Asks : InFlight(a))
    /\ UNCHANGED <<replaced, Caches, call, pc, result, age>>

\* An ingestion that fails after insert_nodes answers 500 and clears nothing.
IngestFails ==
    /\ "ingest" \in Faults /\ admin = "changed"
    /\ admin' = "idle" /\ raced' = TRUE
    /\ UNCHANGED <<corpus, replaced, Caches, call, pc, result, age>>

\* invalidate_corpus_caches, after a change or for POST /cache/invalidate.  The
\* completion cache it clears last is keyed by whole prompts, extracts included.
ClearResponses ==
    /\ admin \in {"idle", "changed"}
    /\ response' = <<>>
    /\ admin' = "responses_cleared"
    /\ raced' = (raced \/ \E a \in Asks : InFlight(a))
    /\ UNCHANGED <<corpus, replaced, retrieval, idempotency, call, pc, result, age>>

\* Mutant: only the answers are dropped.
MutClearRetrievals ==
    /\ admin = "responses_cleared"
    /\ admin' = "idle"
    /\ UNCHANGED <<corpus, replaced, raced, Caches, call, pc, result, age>>

\* ... and the chunk lists after the answers, in another step.
ClearRetrievals ==
    /\ admin = "responses_cleared"
    /\ retrieval' = <<>>
    /\ admin' = "idle"
    /\ UNCHANGED <<corpus, replaced, raced, response, idempotency, call, pc, result, age>>

Older(cache, limit) ==
    [k \in DOMAIN cache |->
        [cache[k] EXCEPT !.age = IF @ < limit THEN @ + 1 ELSE @]]

\* Everything grows older by one.
Aged ==
    /\ age' = [a \in Asks |-> IF InFlight(a) THEN age[a] + 1 ELSE age[a]]
    /\ replaced' = [v \in 0..MaxVersion |->
                      IF v < corpus /\ replaced[v] < Horizon
                      THEN replaced[v] + 1 ELSE replaced[v]]
    /\ retrieval' = Older(retrieval, RetrievalTTL)
    /\ response' = Older(response, ResponseTTL)
    /\ idempotency' = Older(idempotency, IdempotencyTTL + 1)
    /\ UNCHANGED <<corpus, admin, raced, call, pc, result>>

\* Time passes, but the budget guard ends a call that is out of time.
Tick ==
    /\ \A a \in Asks : InFlight(a) => age[a] < MaxAge
    /\ Aged

Next ==
    \/ \E a \in Asks : Step(a)
    \/ ChangeCorpus \/ IngestFails \/ ClearResponses \/ ClearRetrievals \/ Tick

Spec == Init /\ [][Next]_vars
-----------------------------------------------------------------------------
(* Properties. *)

IsCache(cache, values) ==
    \A k \in DOMAIN cache : cache[k] \in [value : values, age : Nat]

TypeOK ==
    /\ corpus \in 0..MaxVersion
    /\ replaced \in [0..MaxVersion -> 0..Horizon]
    /\ admin \in {"idle", "changed", "responses_cleared"}
    /\ IsCache(retrieval, 0..MaxVersion)
    /\ IsCache(response, Results) /\ IsCache(idempotency, Results)
    /\ call \in [Asks -> Calls]
    /\ pc \in [Asks -> Steps]
    /\ result \in [Asks -> Results \cup {NoResult}]
    /\ age \in [Asks -> 0..MaxAge]
    /\ raced \in BOOLEAN

Replying(a) == pc[a] \in {"reply", "replay"}

\* However the calls, an ingestion and an invalidation interleave, and whether or
\* not an ingestion fails before it clears anything, no reply rests on a corpus
\* that was replaced longer ago than the three TTLs and four calls: chunks of
\* the old corpus can be cached, an answer written from them, that answer kept
\* under a key, and each is served only up to its own TTL.
LongestStale == (RetrievalTTL - 1) + (ResponseTTL - 1) + IdempotencyTTL + 4 * MaxAge
RepliesAreRecent ==
    \A a \in Asks : Replying(a) => replaced[result[a].version] <= LongestStale

\* A change that was followed up, and that no call overlapped, leaves no answer
\* and no chunk list of an older corpus behind (invalidate_corpus_caches).
FreshAfterInvalidation ==
    admin = "idle" /\ ~raced =>
        /\ \A k \in DOMAIN retrieval : retrieval[k].value = corpus
        /\ \A k \in DOMAIN response : response[k].value.version = corpus

\* An answer to the question of call c, or to one near it, found in the scope of c.
Suits(r, c) ==
    /\ Scope(r.call) = Scope(c)
    /\ r.call.body.question \in Similar[c.body.question] \cup {c.body.question}

\* Two callers of different scopes never share an entry of the response cache
\* (response_cache.py): through whichever caches it came, what a call answers suits
\* the call itself, unless it was replayed.  A replay suits a call of the same
\* idempotency key that has begun: one of the same user that sent the same header,
\* or the same body, within IdempotencyTTL, whatever its token granted it then.
AnswersFitTheirCall ==
    \A a \in Asks : Replying(a) =>
        \E b \in Asks :
            /\ pc[a] = "reply" => b = a
            /\ BuildKey(call[b]) = BuildKey(call[a]) /\ pc[b] # "idle"
            /\ Suits(result[a], call[b])

\* What one user's run produced reaches another user only as a certified answer; and
\* a 202 is replayed only under the key its caller sent: "without a key ... asking the
\* same question again ... came straight back as pending_review" (routes.py).
SharedAnswersAreCertified ==
    \A a \in Asks : Replying(a) =>
        /\ result[a].call.user # call[a].user => result[a].kind = "certified"
        /\ pc[a] = "replay" /\ result[a].kind = "pending" =>
               /\ call[a].header # NoHeader
               /\ result[a].call.header = call[a].header
               /\ result[a].call.user = call[a].user
=============================================================================
