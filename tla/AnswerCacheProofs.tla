------------------------- MODULE AnswerCacheProofs -------------------------
(* Proofs about AnswerCache: for any number of calls, caches of any size and *)
(* any TTLs, whose answer a call may be given and how old it may be.         *)
EXTENDS AnswerCache, TLAPS

USE DEF Goto, Holding, Caches, World

-----------------------------------------------------------------------------
(* What the operations on a cache leave in it.                              *)

\* An entry of a cache after put is the new one or one that was there.
LEMMA StoredEntries ==
    ASSUME NEW cache, NEW key, NEW value, NEW new \in Stored(cache, key, value),
           NEW k \in DOMAIN new
    PROVE  (k = key /\ new[k] = Entry(value)) \/ (k \in DOMAIN cache /\ new[k] = cache[k])
<1> DEFINE full == [l \in DOMAIN cache \cup {key} |->
                      IF l = key THEN Entry(value) ELSE cache[l]]
<1>1. new = full \/ \E l \in DOMAIN cache \ {key} : new = Restrict(full, DOMAIN full \ {l})
  BY DEF Stored
<1>2. k \in DOMAIN full /\ new[k] = full[k]
  BY <1>1 DEF Restrict
<1>3. QED
  BY <1>2

\* Growing older touches the ages only, and none beyond the limit.
LEMMA OlderEntries ==
    ASSUME NEW cache, NEW values, IsCache(cache, values), NEW limit \in Nat,
           NEW k \in DOMAIN Older(cache, limit)
    PROVE  /\ k \in DOMAIN cache
           /\ Older(cache, limit)[k] \in [value : values, age : Nat]
           /\ Older(cache, limit)[k].value = cache[k].value
           /\ Older(cache, limit)[k].age = IF cache[k].age < limit THEN cache[k].age + 1
                                           ELSE cache[k].age
<1>1. k \in DOMAIN cache
  BY DEF Older
<1>2. cache[k] \in [value : values, age : Nat]
  BY <1>1 DEF IsCache
<1>3. Older(cache, limit)[k] = [cache[k] EXCEPT !.age = IF @ < limit THEN @ + 1 ELSE @]
  BY <1>1 DEF Older
<1>4. QED
  BY <1>1, <1>2, <1>3

LEMMA OlderIsCache ==
    ASSUME NEW cache, NEW values, IsCache(cache, values), NEW limit \in Nat
    PROVE  IsCache(Older(cache, limit), values)
<1>1. \A k \in DOMAIN Older(cache, limit) :
        Older(cache, limit)[k] \in [value : values, age : Nat]
  BY OlderEntries
<1>2. QED
  BY <1>1 DEF IsCache

LEMMA StoredIsCache ==
    ASSUME NEW cache, NEW values, IsCache(cache, values), NEW key, NEW value \in values,
           NEW new \in Stored(cache, key, value)
    PROVE  IsCache(new, values)
<1>1. ASSUME NEW k \in DOMAIN new PROVE new[k] \in [value : values, age : Nat]
  <2>1. (k = key /\ new[k] = Entry(value)) \/ (k \in DOMAIN cache /\ new[k] = cache[k])
    BY StoredEntries
  <2>2. QED
    BY <2>1 DEF IsCache, Entry
<1>2. QED
  BY <1>1 DEF IsCache

LEMMA EmptyIsCache == ASSUME NEW values PROVE IsCache(<<>>, values)
BY DEF IsCache

-----------------------------------------------------------------------------
(* Types.                                                                   *)

\* Asks that have something to store or to return.
HasResult ==
    \A a \in Asks :
        pc[a] \in {"store_chunks", "store_key", "store_hit", "store_answer", "reply",
                   "replay"} => result[a] \in Results

Typed == TypeOK /\ HasResult

LEMMA InitTyped == Init => Typed
<1> SUFFICES ASSUME Init PROVE Typed
  OBVIOUS
<1> USE TimeAssumption
<1>1. replaced \in [0..MaxVersion -> 0..Horizon] /\ corpus \in 0..MaxVersion
  BY DEF Init
<1>2. /\ pc \in [Asks -> Steps] /\ result \in [Asks -> Results \cup {NoResult}]
      /\ age \in [Asks -> 0..MaxAge]
  BY DEF Init, Steps
<1>3. /\ IsCache(retrieval, 0..MaxVersion) /\ IsCache(response, Results)
      /\ IsCache(idempotency, Results)
  BY EmptyIsCache DEF Init
<1>4. HasResult
  BY DEF Init, HasResult
<1>5. QED
  BY <1>1, <1>2, <1>3, <1>4 DEF Init, TypeOK, Typed

\* The steps at which an ask holds a result.
Holds == {"store_chunks", "store_key", "store_hit", "store_answer", "reply", "replay"}

LEMMA AskTyped ==
    ASSUME Typed, NEW a \in Asks, NEW s \in Steps, pc' = [pc EXCEPT ![a] = s],
           NEW r \in Results \cup {NoResult}, result' = [result EXCEPT ![a] = r],
           s \in Holds => r \in Results
    PROVE  pc' \in [Asks -> Steps] /\ result' \in [Asks -> Results \cup {NoResult}]
               /\ HasResult'
<1>1. pc' \in [Asks -> Steps] /\ result' \in [Asks -> Results \cup {NoResult}]
  BY DEF Typed, TypeOK
<1>2. ASSUME NEW b \in Asks, pc'[b] \in Holds PROVE result'[b] \in Results
  <2>1. CASE b = a
    BY <2>1, <1>2 DEF Typed, TypeOK
  <2>2. CASE b # a
    BY <2>2, <1>2 DEF Typed, TypeOK, HasResult, Holds
  <2>3. QED
    BY <2>1, <2>2
<1>3. HasResult'
  BY <1>2 DEF HasResult, Holds
<1>4. QED
  BY <1>1, <1>3

\* The same when the ask keeps what it holds.
LEMMA AskMoves ==
    ASSUME Typed, NEW a \in Asks, NEW s \in Steps, pc' = [pc EXCEPT ![a] = s],
           result' = result, s \in Holds => result[a] \in Results
    PROVE  pc' \in [Asks -> Steps] /\ result' \in [Asks -> Results \cup {NoResult}]
               /\ HasResult'
<1>1. result[a] \in Results \cup {NoResult} /\ result' = [result EXCEPT ![a] = result[a]]
  BY DEF Typed, TypeOK
<1>2. QED
  BY <1>1, AskTyped

\* What put writes under the key of an ask.
LEMMA KeptEntries ==
    ASSUME NEW a \in Asks, NEW r, KeptUnderKey(a, r), NEW k \in DOMAIN idempotency'
    PROVE  \/ k = BuildKey(call[a]) /\ idempotency'[k] = Entry(r) /\ Keeps(call[a], r)
           \/ k \in DOMAIN idempotency /\ idempotency'[k] = idempotency[k]
<1> DEFINE key == BuildKey(call[a])
           kept == [l \in DOMAIN idempotency \cup {key} |->
                      IF l = key THEN Entry(r) ELSE idempotency[l]]
<1>1. CASE Keeps(call[a], r)
  <2>1. idempotency' = kept
    BY <1>1 DEF KeptUnderKey
  <2>2. k \in DOMAIN idempotency \cup {key}
           /\ kept[k] = IF k = key THEN Entry(r) ELSE idempotency[k]
    BY <2>1
  <2>3. QED
    BY <1>1, <2>1, <2>2
<1>2. CASE ~Keeps(call[a], r)
  BY <1>2 DEF KeptUnderKey
<1>3. QED
  BY <1>1, <1>2

LEMMA KeptIsCache ==
    ASSUME IsCache(idempotency, Results), NEW a \in Asks, NEW r \in Results,
           KeptUnderKey(a, r)
    PROVE  IsCache(idempotency', Results)
<1>1. ASSUME NEW k \in DOMAIN idempotency'
      PROVE  idempotency'[k] \in [value : Results, age : Nat]
  <2>1. \/ k = BuildKey(call[a]) /\ idempotency'[k] = Entry(r) /\ Keeps(call[a], r)
        \/ k \in DOMAIN idempotency /\ idempotency'[k] = idempotency[k]
    BY KeptEntries
  <2>2. QED
    BY <2>1 DEF IsCache, Entry
<1>2. QED
  BY <1>1 DEF IsCache

-----------------------------------------------------------------------------
(* The steps of an ask keep the types.                                      *)

LEMMA BeginTyped == ASSUME Typed, NEW a \in Asks, Begin(a) PROVE Typed'
<1>1. /\ UNCHANGED <<corpus, replaced, admin, retrieval, response, idempotency, call, age>>
      /\ raced' \in BOOLEAN
  BY DEF Begin
<1>2. pc' \in [Asks -> Steps] /\ result' \in [Asks -> Results \cup {NoResult}] /\ HasResult'
  <2> DEFINE key == BuildKey(call[a])
  <2>1. CASE Live(idempotency, key, IdempotencyTTL + 1)
    <3>1. idempotency[key].value \in Results
      BY <2>1 DEF Live, Typed, TypeOK, IsCache
    <3>2. /\ pc' = [pc EXCEPT ![a] = "replay"]
          /\ result' = [result EXCEPT ![a] = idempotency[key].value]
      BY <2>1 DEF Begin
    <3>3. QED
      BY <3>1, <3>2, AskTyped DEF Steps
  <2>2. CASE ~Live(idempotency, key, IdempotencyTTL + 1)
    <3>1. pc' = [pc EXCEPT ![a] = "lookup"] /\ result' = result
      BY <2>2 DEF Begin
    <3>2. QED
      BY <3>1, AskMoves DEF Steps, Holds
  <2>3. QED
    BY <2>1, <2>2
<1>3. QED
  BY <1>1, <1>2 DEF Typed, TypeOK

LEMMA LookupTyped == ASSUME Typed, NEW a \in Asks, Lookup(a) PROVE Typed'
<1>1. UNCHANGED <<corpus, replaced, admin, raced, retrieval, response, idempotency, call, age>>
  BY DEF Lookup
<1>2. pc' \in [Asks -> Steps] /\ result' \in [Asks -> Results \cup {NoResult}] /\ HasResult'
  <2>1. CASE \E k \in Hits(call[a]) : Holding(a, response[k].value) /\ Goto(a, "store_hit")
    <3>1. PICK k \in Hits(call[a]) : Holding(a, response[k].value) /\ Goto(a, "store_hit")
      BY <2>1
    <3>2. k \in DOMAIN response
      BY DEF Hits, Live
    <3>3. response[k].value \in Results
      BY <3>2 DEF Typed, TypeOK, IsCache
    <3>4. QED
      BY <3>1, <3>3, AskTyped DEF Steps
  <2>2. CASE Goto(a, "retrieve") /\ result' = result
    BY <2>2, AskMoves DEF Steps, Holds
  <2>3. QED
    BY <2>1, <2>2 DEF Lookup
<1>3. QED
  BY <1>1, <1>2 DEF Typed, TypeOK

LEMMA RetrieveTyped == ASSUME Typed, NEW a \in Asks, Retrieve(a) PROVE Typed'
<1> DEFINE key == RetrievalKey(call[a])
<1>1. UNCHANGED <<corpus, replaced, admin, raced, retrieval, response, idempotency, call, age>>
  BY DEF Retrieve
<1>2. \E v \in 0..MaxVersion, s \in {"store_key", "store_chunks"} : Found(a, v) /\ Goto(a, s)
  <2>1. CASE Live(retrieval, key, RetrievalTTL)
    BY <2>1 DEF Retrieve, Live, Typed, TypeOK, IsCache
  <2>2. CASE ~Live(retrieval, key, RetrievalTTL)
    BY <2>2 DEF Retrieve, Typed, TypeOK
  <2>3. QED
    BY <2>1, <2>2
<1>3. PICK v \in 0..MaxVersion, s \in {"store_key", "store_chunks"} : Found(a, v) /\ Goto(a, s)
  BY <1>2
<1>4. [kind |-> "other", call |-> call[a], version |-> v] \in Results
  BY DEF Results, Kinds, Typed, TypeOK
<1>5. pc' \in [Asks -> Steps] /\ result' \in [Asks -> Results \cup {NoResult}] /\ HasResult'
  BY <1>3, <1>4, AskTyped DEF Steps, Found
<1>6. QED
  BY <1>1, <1>5 DEF Typed, TypeOK

LEMMA StoreChunksTyped == ASSUME Typed, NEW a \in Asks, StoreChunks(a) PROVE Typed'
<1>1. UNCHANGED <<corpus, replaced, admin, raced, response, idempotency, call, result, age>>
  BY DEF StoreChunks
<1>2. result[a] \in Results
  BY DEF StoreChunks, Typed, HasResult
<1>3. pc' \in [Asks -> Steps] /\ result' \in [Asks -> Results \cup {NoResult}] /\ HasResult'
  BY <1>1, <1>2, AskMoves DEF StoreChunks, Steps
<1>4. IsCache(retrieval', 0..MaxVersion)
  <2>1. CASE UNCHANGED retrieval
    BY <2>1 DEF Typed, TypeOK
  <2>2. CASE retrieval' \in Stored(retrieval, RetrievalKey(call[a]), result[a].version)
    BY <2>2, <1>2, StoredIsCache DEF Results, Typed, TypeOK
  <2>3. QED
    BY <2>1, <2>2 DEF StoreChunks
<1>5. QED
  BY <1>1, <1>3, <1>4 DEF Typed, TypeOK

LEMMA StoreKeyTyped == ASSUME Typed, NEW a \in Asks, StoreKey(a) PROVE Typed'
<1>1. UNCHANGED <<corpus, replaced, admin, raced, retrieval, response, call, age>>
  BY DEF StoreKey
<1>2. PICK kind \in Ends :
        /\ Holding(a, [result[a] EXCEPT !.kind = kind])
        /\ KeptUnderKey(a, [result[a] EXCEPT !.kind = kind])
        /\ Goto(a, IF kind \in {"certified", "uncertified"} /\ Eligible(call[a])
                   THEN "store_answer" ELSE "reply")
  BY DEF StoreKey
<1> DEFINE r == [result[a] EXCEPT !.kind = kind]
<1>3. r \in Results
  BY EndAssumption DEF StoreKey, Typed, HasResult, Results
<1>4. \E s \in {"store_answer", "reply"} : Goto(a, s)
  BY <1>2
<1>5. pc' \in [Asks -> Steps] /\ result' \in [Asks -> Results \cup {NoResult}] /\ HasResult'
  BY <1>2, <1>3, <1>4, AskTyped DEF Steps
<1>6. IsCache(idempotency', Results)
  BY <1>2, <1>3, KeptIsCache DEF Typed, TypeOK
<1>7. QED
  BY <1>1, <1>5, <1>6 DEF Typed, TypeOK

LEMMA EndedTyped ==
    ASSUME Typed, NEW a \in Asks, Ended(a), UNCHANGED <<World, Caches, call>>
    PROVE  Typed'
<1>1. pc' \in [Asks -> Steps] /\ result' \in [Asks -> Results \cup {NoResult}] /\ HasResult'
  BY AskTyped DEF Ended, Steps, Holds
<1>2. age' \in [Asks -> 0..MaxAge]
  BY TimeAssumption DEF Ended, Typed, TypeOK
<1>3. QED
  BY <1>1, <1>2 DEF Typed, TypeOK

LEMMA StoreHitTyped == ASSUME Typed, NEW a \in Asks, StoreHit(a) PROVE Typed'
<1>1. UNCHANGED <<corpus, replaced, admin, raced, retrieval, response, call, result, age>>
  BY DEF StoreHit
<1>2. result[a] \in Results
  BY DEF StoreHit, Typed, HasResult
<1>3. pc' \in [Asks -> Steps] /\ result' \in [Asks -> Results \cup {NoResult}] /\ HasResult'
  BY <1>1, <1>2, AskMoves DEF StoreHit, Steps
<1>4. IsCache(idempotency', Results)
  BY <1>2, KeptIsCache DEF StoreHit, Typed, TypeOK
<1>5. QED
  BY <1>1, <1>3, <1>4 DEF Typed, TypeOK

LEMMA StoreAnswerTyped == ASSUME Typed, NEW a \in Asks, StoreAnswer(a) PROVE Typed'
<1>1. UNCHANGED <<corpus, replaced, admin, raced, retrieval, idempotency, call, result, age>>
  BY DEF StoreAnswer
<1>2. result[a] \in Results
  BY DEF StoreAnswer, Typed, HasResult
<1>3. pc' \in [Asks -> Steps] /\ result' \in [Asks -> Results \cup {NoResult}] /\ HasResult'
  BY <1>1, <1>2, AskMoves DEF StoreAnswer, Steps
<1>4. IsCache(response', Results)
  <2>1. CASE UNCHANGED response
    BY <2>1 DEF Typed, TypeOK
  <2>2. CASE response' \in Stored(response, <<Scope(call[a]), call[a].body.question>>, result[a])
    BY <2>2, <1>2, StoredIsCache DEF Typed, TypeOK
  <2>3. QED
    BY <2>1, <2>2 DEF StoreAnswer
<1>5. QED
  BY <1>1, <1>3, <1>4 DEF Typed, TypeOK

LEMMA StepTyped == ASSUME Typed, NEW a \in Asks, Step(a) PROVE Typed'
<1>1. CASE Raise(a)
  BY <1>1, EndedTyped DEF Raise
<1>2. CASE Reply(a)
  BY <1>2, EndedTyped DEF Reply
<1>3. QED
  BY <1>1, <1>2, BeginTyped, LookupTyped, RetrieveTyped, StoreChunksTyped, StoreKeyTyped,
     StoreHitTyped, StoreAnswerTyped DEF Step

-----------------------------------------------------------------------------
(* So do the steps of the administrator and of the clock.                   *)

LEMMA AdminTyped ==
    ASSUME Typed, ChangeCorpus \/ IngestFails \/ ClearResponses \/ ClearRetrievals
    PROVE  Typed'
<1>1. UNCHANGED <<replaced, idempotency, call, pc, result, age>>
  BY DEF ChangeCorpus, IngestFails, ClearResponses, ClearRetrievals
<1>2. /\ corpus' \in 0..MaxVersion /\ admin' \in {"idle", "changed", "responses_cleared"}
      /\ raced' \in BOOLEAN
  <2>1. corpus' \in 0..MaxVersion /\ admin' \in {"idle", "changed", "responses_cleared"}
    BY TimeAssumption
       DEF ChangeCorpus, IngestFails, ClearResponses, ClearRetrievals, Typed, TypeOK
  <2>2. raced \in BOOLEAN
    BY DEF Typed, TypeOK
  <2>3. raced' \in BOOLEAN
    BY <2>2 DEF ChangeCorpus, IngestFails, ClearResponses, ClearRetrievals
  <2>4. QED
    BY <2>1, <2>3
<1>3. IsCache(response', Results) /\ IsCache(retrieval', 0..MaxVersion)
  BY EmptyIsCache
     DEF ChangeCorpus, IngestFails, ClearResponses, ClearRetrievals, Typed, TypeOK
<1>4. HasResult'
  BY <1>1 DEF Typed, HasResult
<1>5. QED
  BY <1>1, <1>2, <1>3, <1>4 DEF Typed, TypeOK

LEMMA TickTyped == ASSUME Typed, Tick PROVE Typed'
<1> USE TimeAssumption
<1>1. UNCHANGED <<corpus, admin, raced, call, pc, result>>
  BY DEF Tick, Aged
<1>2. age' \in [Asks -> 0..MaxAge]
  <2>1. \A a \in Asks : age[a] \in 0..MaxAge
    BY DEF Typed, TypeOK
  <2>2. \A a \in Asks : (IF InFlight(a) THEN age[a] + 1 ELSE age[a]) \in 0..MaxAge
    BY <2>1 DEF Tick
  <2>3. QED
    BY <2>2 DEF Tick, Aged
<1>3. replaced' \in [0..MaxVersion -> 0..Horizon]
  <2>1. \A v \in 0..MaxVersion : replaced[v] \in 0..Horizon
    BY DEF Typed, TypeOK
  <2>2. \A v \in 0..MaxVersion :
          (IF v < corpus /\ replaced[v] < Horizon THEN replaced[v] + 1 ELSE replaced[v])
             \in 0..Horizon
    BY <2>1
  <2>3. QED
    BY <2>2 DEF Tick, Aged
<1>4. /\ IsCache(retrieval', 0..MaxVersion) /\ IsCache(response', Results)
      /\ IsCache(idempotency', Results)
  BY OlderIsCache DEF Tick, Aged, Typed, TypeOK
<1>5. HasResult'
  BY <1>1 DEF Typed, HasResult
<1>6. QED
  BY <1>1, <1>2, <1>3, <1>4, <1>5 DEF Typed, TypeOK

LEMMA NextTyped == Typed /\ [Next]_vars => Typed'
<1> SUFFICES ASSUME Typed, [Next]_vars PROVE Typed'
  OBVIOUS
<1>1. CASE UNCHANGED vars
  BY <1>1 DEF vars, Typed, TypeOK, HasResult
<1>2. QED
  BY <1>1, StepTyped, AdminTyped, TickTyped DEF Next

\* The caches, the calls and the clock keep their types.
THEOREM TypeCorrect == Spec => []TypeOK
<1>1. Typed => TypeOK
  BY DEF Typed
<1>2. QED
  BY InitTyped, NextTyped, <1>1, PTL DEF Spec

-----------------------------------------------------------------------------
(* Whose answer a call may be given.                                        *)

\* A result that a call may be given: one that suits it, and a certified one, unless
\* it is its own user's.
Fits(c, r) == Suits(r, c) /\ (r.call.user # c.user => r.kind = "certified")

\* A result that some call of key k, begun by now, may be given.
Earned(k, r) ==
    \E b \in Asks : BuildKey(call[b]) = k /\ pc[b] # "idle" /\ Fits(call[b], r)

\* A 202 that a call may be given back.
KeyedFits(c, r) ==
    r.kind = "pending" =>
        c.header # NoHeader /\ r.call.header = c.header /\ r.call.user = c.user

\* What an ask has from its own run is its own.
OwnResult ==
    \A a \in Asks : pc[a] \in {"store_chunks", "store_key", "store_answer"} =>
        result[a].call = call[a]

ResponseFits ==
    \A k \in DOMAIN response :
        LET r == response[k].value IN
        r.kind = "certified" /\ k = <<Scope(r.call), r.call.body.question>>

\* What is kept under a key was right for the call that kept it, and is no 202 unless
\* whoever computes the key sent it.
StoreFits ==
    \A k \in DOMAIN idempotency :
        /\ Earned(k, idempotency[k].value)
        /\ \A c \in Calls : BuildKey(c) = k => KeyedFits(c, idempotency[k].value)

ResultFits ==
    \A a \in Asks :
        /\ pc[a] \in {"store_hit", "reply"} => Fits(call[a], result[a])
        /\ pc[a] = "replay" =>
               Earned(BuildKey(call[a]), result[a]) /\ KeyedFits(call[a], result[a])
        /\ pc[a] = "store_hit" => result[a].kind = "certified"

Sharing == Typed /\ OwnResult /\ ResponseFits /\ StoreFits /\ ResultFits

\* Two calls of one key are of one user and chose the key alike.
LEMMA SameKey ==
    ASSUME NEW c, NEW d, BuildKey(c) = BuildKey(d)
    PROVE  c.user = d.user /\ c.header = d.header
<1>1. CASE c.header # NoHeader /\ d.header # NoHeader
  BY <1>1 DEF BuildKey
<1>2. CASE c.header = NoHeader /\ d.header = NoHeader
  BY <1>2 DEF BuildKey
<1>3. ASSUME NEW u, NEW h, NEW v, NEW b PROVE <<u, h>> # <<v, "auto", b>>
  <2>1. DOMAIN <<u, h>> = 1..2 /\ DOMAIN <<v, "auto", b>> = 1..3
    OBVIOUS
  <2>2. 3 \in 1..3 /\ 3 \notin 1..2
    OBVIOUS
  <2>3. QED
    BY <2>1, <2>2
<1>4. ~(c.header # NoHeader /\ d.header = NoHeader)
  BY <1>3 DEF BuildKey
<1>5. ~(c.header = NoHeader /\ d.header # NoHeader)
  BY <1>3 DEF BuildKey
<1>6. QED
  BY <1>1, <1>2, <1>4, <1>5

LEMMA InitSharing == Init => Sharing
<1> SUFFICES ASSUME Init PROVE Sharing
  OBVIOUS
<1>1. \A a \in Asks : pc[a] = "idle"
  BY DEF Init
<1>2. DOMAIN response = {} /\ DOMAIN idempotency = {}
  BY DEF Init
<1>3. QED
  BY <1>1, <1>2, InitTyped DEF Sharing, OwnResult, ResponseFits, StoreFits, ResultFits

\* No ask returns to where it had not begun.
Goes == call' = call /\ \A b \in Asks : pc[b] # "idle" => pc'[b] # "idle"

LEMMA StaysEarned ==
    ASSUME Goes, NEW k, NEW r, Earned(k, r)
    PROVE  \E b \in Asks : BuildKey(call'[b]) = k /\ pc'[b] # "idle" /\ Fits(call'[b], r)
<1>1. PICK b \in Asks : BuildKey(call[b]) = k /\ pc[b] # "idle" /\ Fits(call[b], r)
  BY DEF Earned
<1>2. call' = call /\ pc'[b] # "idle"
  BY <1>1 DEF Goes
<1>3. QED
  BY <1>1, <1>2

LEMMA MoveGoes ==
    ASSUME Typed, NEW a \in Asks, NEW s, s # "idle", Goto(a, s), call' = call
    PROVE  Goes
BY DEF Goes, Goto, Typed, TypeOK

\* An entry keeps its promise while the asks go on.
LEMMA StoreStays ==
    ASSUME Sharing, Goes,
           \A k \in DOMAIN idempotency' :
               k \in DOMAIN idempotency /\ idempotency'[k].value = idempotency[k].value
    PROVE  StoreFits'
<1>1. ASSUME NEW k \in DOMAIN idempotency'
      PROVE  \E b \in Asks : /\ BuildKey(call'[b]) = k /\ pc'[b] # "idle"
                             /\ Fits(call'[b], idempotency'[k].value)
  BY <1>1, StaysEarned DEF Sharing, StoreFits
<1>2. ASSUME NEW k \in DOMAIN idempotency', NEW c \in Calls, BuildKey(c) = k
      PROVE  KeyedFits(c, idempotency'[k].value)
  BY <1>2 DEF Sharing, StoreFits
<1>3. QED
  BY <1>1, <1>2 DEF StoreFits, Earned, Fits, Suits, Scope, KeyedFits, BuildKey

\* One ask moved to step s with the result r: what it now holds is what matters.
LEMMA AskShares ==
    ASSUME Sharing, NEW a \in Asks, NEW s \in Steps, pc' = [pc EXCEPT ![a] = s],
           NEW r \in Results \cup {NoResult}, result' = [result EXCEPT ![a] = r], call' = call,
           s \in {"store_chunks", "store_key", "store_answer"} => r.call = call[a],
           s # "idle",
           s \in {"store_hit", "reply"} => Fits(call[a], r),
           s = "replay" => Earned(BuildKey(call[a]), r) /\ KeyedFits(call[a], r),
           s = "store_hit" => r.kind = "certified"
    PROVE  OwnResult' /\ ResultFits' /\ Goes
<1>1. pc'[a] = s /\ result'[a] = r
  BY DEF Sharing, Typed, TypeOK
<1>2. \A b \in Asks \ {a} : pc'[b] = pc[b] /\ result'[b] = result[b]
  BY DEF Sharing, Typed, TypeOK
<1>3. OwnResult'
  BY <1>1, <1>2 DEF Sharing, OwnResult
<1>4. ASSUME NEW b \in Asks
      PROVE  /\ pc'[b] \in {"store_hit", "reply"} => Fits(call[b], result'[b])
             /\ pc'[b] = "replay" =>
                    Earned(BuildKey(call[b]), result'[b]) /\ KeyedFits(call[b], result'[b])
             /\ pc'[b] = "store_hit" => result'[b].kind = "certified"
  <2>1. CASE b = a
    BY <1>1, <2>1
  <2>2. CASE b # a
    BY <1>2, <2>2 DEF Sharing, ResultFits
  <2>3. QED
    BY <2>1, <2>2
<1>5. Goes
  BY MoveGoes DEF Goto, Sharing
<1>6. ASSUME NEW b \in Asks, pc'[b] = "replay"
      PROVE  \E d \in Asks : /\ BuildKey(call'[d]) = BuildKey(call[b]) /\ pc'[d] # "idle"
                             /\ Fits(call'[d], result'[b])
  BY <1>4, <1>5, <1>6, StaysEarned
<1>7. ASSUME NEW b \in Asks, pc'[b] = "replay"
      PROVE  Earned(BuildKey(call[b]), result[b])'
  BY <1>6, <1>7 DEF Earned, Fits, Suits, Scope, BuildKey
<1>8. ASSUME NEW b \in Asks
      PROVE  /\ pc'[b] \in {"store_hit", "reply"} => Fits(call'[b], result'[b])
             /\ pc'[b] = "replay" => KeyedFits(call'[b], result'[b])
  BY <1>4
<1>9. ResultFits'
  BY <1>4, <1>7, <1>8 DEF ResultFits, Fits, Suits, Scope, KeyedFits
<1>10. QED
  BY <1>3, <1>5, <1>9

\* What it keeps under its key must be a result its own call may be given.
LEMMA KeptShares ==
    ASSUME Sharing, NEW a \in Asks, NEW r, KeptUnderKey(a, r), call' = call,
           Goes, pc[a] # "idle", Fits(call[a], r), r.kind = "pending" => r.call = call[a]
    PROVE  StoreFits'
<1>1. ASSUME NEW k \in DOMAIN idempotency', NEW c \in Calls, BuildKey(c) = k
      PROVE  KeyedFits(c, idempotency'[k].value)
  <2>1. CASE k = BuildKey(call[a]) /\ idempotency'[k] = Entry(r) /\ Keeps(call[a], r)
    <3>1. idempotency'[k].value = r
      BY <2>1 DEF Entry
    <3>2. c.user = call[a].user /\ c.header = call[a].header
      BY <1>1, <2>1, SameKey
    <3>3. QED
      BY <2>1, <3>1, <3>2 DEF KeyedFits, Keeps
  <2>2. CASE k \in DOMAIN idempotency /\ idempotency'[k] = idempotency[k]
    BY <1>1, <2>2 DEF Sharing, StoreFits
  <2>3. QED
    BY <2>1, <2>2, KeptEntries
<1>2. ASSUME NEW k \in DOMAIN idempotency'
      PROVE  \E b \in Asks : /\ BuildKey(call'[b]) = k /\ pc'[b] # "idle"
                             /\ Fits(call'[b], idempotency'[k].value)
  <2>1. CASE k = BuildKey(call[a]) /\ idempotency'[k] = Entry(r)
    BY <2>1 DEF Entry, Goes
  <2>2. CASE k \in DOMAIN idempotency /\ idempotency'[k] = idempotency[k]
    BY <2>2, StaysEarned DEF Sharing, StoreFits
  <2>3. QED
    BY <2>1, <2>2, KeptEntries
<1>3. QED
  BY <1>1, <1>2 DEF StoreFits, Earned, Fits, Suits, Scope, KeyedFits, BuildKey

LEMMA BeginShares == ASSUME Sharing, NEW a \in Asks, Begin(a) PROVE Sharing'
<1> DEFINE key == BuildKey(call[a])
<1>1. UNCHANGED <<response, idempotency, call>>
  BY DEF Begin
<1>2. Typed'
  BY BeginTyped DEF Sharing
<1>3. OwnResult' /\ ResultFits' /\ Goes
  <2>1. CASE Live(idempotency, key, IdempotencyTTL + 1)
    <3>1. /\ Earned(key, idempotency[key].value)
          /\ KeyedFits(call[a], idempotency[key].value)
          /\ idempotency[key].value \in Results
      BY <2>1 DEF Live, Sharing, StoreFits, Typed, TypeOK, IsCache
    <3>2. /\ pc' = [pc EXCEPT ![a] = "replay"]
          /\ result' = [result EXCEPT ![a] = idempotency[key].value]
      BY <2>1 DEF Begin
    <3>3. QED
      BY <1>1, <3>1, <3>2, AskShares DEF Steps
  <2>2. CASE ~Live(idempotency, key, IdempotencyTTL + 1)
    <3>1. pc' = [pc EXCEPT ![a] = "lookup"]
      BY <2>2 DEF Begin
    <3>2. result' = [result EXCEPT ![a] = result[a]] /\ result[a] \in Results \cup {NoResult}
      BY <2>2 DEF Begin, Sharing, Typed, TypeOK
    <3>3. QED
      BY <1>1, <3>1, <3>2, AskShares DEF Steps
  <2>3. QED
    BY <2>1, <2>2
<1>4. ResponseFits' /\ StoreFits'
  BY <1>1, <1>3, StoreStays DEF Sharing, ResponseFits
<1>5. QED
  BY <1>2, <1>3, <1>4 DEF Sharing

LEMMA LookupShares == ASSUME Sharing, NEW a \in Asks, Lookup(a) PROVE Sharing'
<1>1. UNCHANGED <<response, idempotency, call>>
  BY DEF Lookup
<1>2. Typed'
  BY LookupTyped DEF Sharing
<1>3. OwnResult' /\ ResultFits' /\ Goes
  <2>1. CASE \E k \in Hits(call[a]) : Holding(a, response[k].value) /\ Goto(a, "store_hit")
    <3>1. PICK k \in Hits(call[a]) : Holding(a, response[k].value) /\ Goto(a, "store_hit")
      BY <2>1
    <3>2. /\ k \in DOMAIN response
          /\ k[1] = Scope(call[a])
          /\ k[2] \in Similar[call[a].body.question] \cup {call[a].body.question}
      BY DEF Hits, Live
    <3>3. /\ response[k].value.kind = "certified"
          /\ k = <<Scope(response[k].value.call), response[k].value.call.body.question>>
          /\ response[k].value \in Results
      BY <3>2 DEF Sharing, ResponseFits, Typed, TypeOK, IsCache
    <3>4. Fits(call[a], response[k].value)
      BY <3>2, <3>3 DEF Fits, Suits
    <3>5. QED
      BY <1>1, <3>1, <3>3, <3>4, AskShares DEF Steps
  <2>2. CASE Goto(a, "retrieve") /\ result' = result
    <3>1. result' = [result EXCEPT ![a] = result[a]] /\ result[a] \in Results \cup {NoResult}
      BY <2>2 DEF Sharing, Typed, TypeOK
    <3>2. QED
      BY <1>1, <2>2, <3>1, AskShares DEF Steps
  <2>3. QED
    BY <2>1, <2>2 DEF Lookup
<1>4. ResponseFits' /\ StoreFits'
  BY <1>1, <1>3, StoreStays DEF Sharing, ResponseFits
<1>5. QED
  BY <1>2, <1>3, <1>4 DEF Sharing

LEMMA RetrieveShares == ASSUME Sharing, NEW a \in Asks, Retrieve(a) PROVE Sharing'
<1>1. UNCHANGED <<response, idempotency, call>>
  BY DEF Retrieve
<1>2. Typed'
  BY RetrieveTyped DEF Sharing
<1>3. \E s \in {"store_key", "store_chunks"} : Goto(a, s)
  BY DEF Retrieve
<1>4. PICK s \in {"store_key", "store_chunks"} : Goto(a, s)
  BY <1>3
<1>5. \E v : result' = [result EXCEPT ![a] = [kind |-> "other", call |-> call[a], version |-> v]]
  BY DEF Retrieve, Found
<1>6. PICK v : result' = [result EXCEPT ![a] = [kind |-> "other", call |-> call[a], version |-> v]]
  BY <1>5
<1> DEFINE r == [kind |-> "other", call |-> call[a], version |-> v]
<1>7. r \in Results /\ r.call = call[a]
  <2>1. result'[a] = r
    BY <1>6 DEF Sharing, Typed, TypeOK
  <2>2. result'[a] \in Results
    BY <1>2, <1>4 DEF Typed, TypeOK, HasResult, Sharing
  <2>3. QED
    BY <2>1, <2>2
<1> HIDE DEF r
<1>8. OwnResult' /\ ResultFits' /\ Goes
  BY <1>1, <1>4, <1>6, <1>7, AskShares DEF Steps, r
<1>9. ResponseFits' /\ StoreFits'
  BY <1>1, <1>8, StoreStays DEF Sharing, ResponseFits
<1>10. QED
  BY <1>2, <1>8, <1>9 DEF Sharing

LEMMA StoreChunksShares == ASSUME Sharing, NEW a \in Asks, StoreChunks(a) PROVE Sharing'
<1>1. UNCHANGED <<response, idempotency, call, result>> /\ Goto(a, "store_key")
  BY DEF StoreChunks
<1>2. Typed'
  BY StoreChunksTyped DEF Sharing
<1>3. /\ result' = [result EXCEPT ![a] = result[a]] /\ result[a].call = call[a]
      /\ result[a] \in Results \cup {NoResult}
  BY <1>1 DEF StoreChunks, Sharing, OwnResult, Typed, TypeOK
<1>4. OwnResult' /\ ResultFits' /\ Goes
  BY <1>1, <1>3, AskShares DEF Steps
<1>5. ResponseFits' /\ StoreFits'
  BY <1>1, <1>4, StoreStays DEF Sharing, ResponseFits
<1>6. QED
  BY <1>2, <1>4, <1>5 DEF Sharing

LEMMA StoreKeyShares == ASSUME Sharing, NEW a \in Asks, StoreKey(a) PROVE Sharing'
<1>1. UNCHANGED <<response, call>>
  BY DEF StoreKey
<1>2. Typed'
  BY StoreKeyTyped DEF Sharing
<1>3. PICK kind \in Ends, s \in {"store_answer", "reply"} :
        /\ Holding(a, [result[a] EXCEPT !.kind = kind])
        /\ KeptUnderKey(a, [result[a] EXCEPT !.kind = kind])
        /\ Goto(a, s)
  BY DEF StoreKey
<1> DEFINE r == [result[a] EXCEPT !.kind = kind]
<1>4. r.call = call[a] /\ r \in Results
  BY EndAssumption DEF StoreKey, Sharing, OwnResult, Typed, HasResult, Results
<1>5. Fits(call[a], r)
  BY <1>4 DEF Fits, Suits
<1> HIDE DEF r
<1>6. OwnResult' /\ ResultFits' /\ Goes
  BY <1>1, <1>3, <1>4, <1>5, AskShares DEF r, Steps
<1>7. StoreFits'
  BY <1>1, <1>3, <1>4, <1>5, <1>6, KeptShares DEF r, StoreKey
<1>8. ResponseFits'
  BY <1>1 DEF Sharing, ResponseFits
<1>9. QED
  BY <1>2, <1>6, <1>7, <1>8 DEF Sharing

LEMMA EndedShares ==
    ASSUME Sharing, NEW a \in Asks, Ended(a), UNCHANGED <<World, Caches, call>>
    PROVE  Sharing'
<1>1. Typed'
  BY EndedTyped DEF Sharing
<1>2. OwnResult' /\ ResultFits' /\ Goes
  BY AskShares DEF Ended, Steps
<1>3. ResponseFits' /\ StoreFits'
  BY <1>2, StoreStays DEF Sharing, ResponseFits
<1>4. QED
  BY <1>1, <1>2, <1>3 DEF Sharing

LEMMA StoreHitShares == ASSUME Sharing, NEW a \in Asks, StoreHit(a) PROVE Sharing'
<1>1. UNCHANGED <<response, call, result>> /\ Goto(a, "reply")
  BY DEF StoreHit
<1>2. Typed'
  BY StoreHitTyped DEF Sharing
<1>3. Fits(call[a], result[a]) /\ result[a].kind = "certified"
  BY DEF StoreHit, Sharing, ResultFits
<1>4. result' = [result EXCEPT ![a] = result[a]] /\ result[a] \in Results \cup {NoResult}
  BY <1>1 DEF Sharing, Typed, TypeOK
<1>5. OwnResult' /\ ResultFits' /\ Goes
  BY <1>1, <1>3, <1>4, AskShares DEF Steps
<1>6. StoreFits'
  BY <1>1, <1>3, <1>5, KeptShares DEF StoreHit
<1>7. ResponseFits'
  BY <1>1 DEF Sharing, ResponseFits
<1>8. QED
  BY <1>2, <1>5, <1>6, <1>7 DEF Sharing

LEMMA StoreAnswerShares == ASSUME Sharing, NEW a \in Asks, StoreAnswer(a) PROVE Sharing'
<1>1. UNCHANGED <<idempotency, call, result>> /\ Goto(a, "reply")
  BY DEF StoreAnswer
<1>2. Typed'
  BY StoreAnswerTyped DEF Sharing
<1>3. result[a].call = call[a]
  BY DEF StoreAnswer, Sharing, OwnResult
<1>4. /\ result' = [result EXCEPT ![a] = result[a]] /\ Fits(call[a], result[a])
      /\ result[a] \in Results \cup {NoResult}
  BY <1>1, <1>3 DEF Sharing, Typed, TypeOK, Fits, Suits
<1>5. OwnResult' /\ ResultFits' /\ Goes
  BY <1>1, <1>4, AskShares DEF Steps
<1>6. StoreFits'
  BY <1>1, <1>5, StoreStays
<1>7. ResponseFits'
  <2> DEFINE key == <<Scope(call[a]), call[a].body.question>>
  <2>1. CASE UNCHANGED response
    BY <2>1 DEF Sharing, ResponseFits
  <2>2. CASE ShouldCache(result[a]) /\ response' \in Stored(response, key, result[a])
    <3>1. ASSUME NEW k \in DOMAIN response'
          PROVE  LET r == response'[k].value IN
                 r.kind = "certified" /\ k = <<Scope(r.call), r.call.body.question>>
      <4>1. CASE k = key /\ response'[k] = Entry(result[a])
        BY <2>2, <1>3, <4>1 DEF Entry, ShouldCache
      <4>2. CASE k \in DOMAIN response /\ response'[k] = response[k]
        BY <4>2 DEF Sharing, ResponseFits
      <4>3. QED
        BY <2>2, <4>1, <4>2, StoredEntries
    <3>2. QED
      BY <3>1 DEF ResponseFits
  <2>3. QED
    BY <2>1, <2>2 DEF StoreAnswer
<1>8. QED
  BY <1>2, <1>5, <1>6, <1>7 DEF Sharing

LEMMA StepShares == ASSUME Sharing, NEW a \in Asks, Step(a) PROVE Sharing'
<1>1. CASE Raise(a)
  BY <1>1, EndedShares DEF Raise
<1>2. CASE Reply(a)
  BY <1>2, EndedShares DEF Reply
<1>3. QED
  BY <1>1, <1>2, BeginShares, LookupShares, RetrieveShares, StoreChunksShares,
     StoreKeyShares, StoreHitShares, StoreAnswerShares DEF Step

LEMMA AdminShares ==
    ASSUME Sharing, ChangeCorpus \/ IngestFails \/ ClearResponses \/ ClearRetrievals
    PROVE  Sharing'
<1>1. UNCHANGED <<idempotency, call, pc, result>>
  BY DEF ChangeCorpus, IngestFails, ClearResponses, ClearRetrievals
<1>2. Typed'
  BY AdminTyped DEF Sharing
<1>3. response' = response \/ response' = <<>>
  BY DEF ChangeCorpus, IngestFails, ClearResponses, ClearRetrievals
<1>4. ResponseFits'
  BY <1>3 DEF Sharing, ResponseFits
<1>5. OwnResult' /\ ResultFits' /\ StoreFits'
  BY <1>1 DEF Sharing, OwnResult, ResultFits, StoreFits, Earned, Fits, Suits, Scope, KeyedFits,
              BuildKey
<1>6. QED
  BY <1>2, <1>4, <1>5 DEF Sharing

LEMMA TickShares == ASSUME Sharing, Tick PROVE Sharing'
<1> USE TimeAssumption
<1>1. UNCHANGED <<call, pc, result>>
  BY DEF Tick, Aged
<1>2. Typed'
  BY TickTyped DEF Sharing
<1>3. \A k \in DOMAIN response' :
        k \in DOMAIN response /\ response'[k].value = response[k].value
  BY OlderEntries DEF Tick, Aged, Sharing, Typed, TypeOK
<1>4. ResponseFits'
  BY <1>3 DEF Sharing, ResponseFits
<1>5. IdempotencyTTL + 1 \in Nat
  OBVIOUS
<1>6. \A k \in DOMAIN idempotency' :
        k \in DOMAIN idempotency /\ idempotency'[k].value = idempotency[k].value
  BY <1>5, OlderEntries DEF Tick, Aged, Sharing, Typed, TypeOK
<1>7. StoreFits'
  BY <1>1, <1>6, StoreStays DEF Goes
<1>8. OwnResult' /\ ResultFits' /\ Goes
  BY <1>1 DEF Sharing, OwnResult, ResultFits, Earned, Fits, Suits, Scope, KeyedFits, BuildKey,
              Goes
<1>9. QED
  BY <1>2, <1>4, <1>7, <1>8 DEF Sharing

LEMMA NextShares == Sharing /\ [Next]_vars => Sharing'
<1> SUFFICES ASSUME Sharing, [Next]_vars PROVE Sharing'
  OBVIOUS
<1>1. CASE UNCHANGED vars
  <2>1. Typed'
    BY <1>1, NextTyped DEF Sharing
  <2>2. QED
    BY <1>1, <2>1 DEF vars, Sharing, OwnResult, ResponseFits, StoreFits, ResultFits, Earned,
                      Fits, Suits, Scope, KeyedFits, BuildKey
<1>2. QED
  BY <1>1, StepShares, AdminShares, TickShares DEF Next

LEMMA SharingHolds == Spec => []Sharing
BY InitSharing, NextShares, PTL DEF Spec

\* Through whichever caches it came, what a call is answered suits its question and its
\* scope (response_cache.py, lookup), or is a replay of what suited an earlier call of
\* the same user with the same header or body (idempotency.py, build_key).
THEOREM AnswersFit == Spec => []AnswersFitTheirCall
<1>1. ASSUME Sharing, NEW a \in Asks, Replying(a)
      PROVE  \E b \in Asks : /\ pc[a] = "reply" => b = a
                             /\ BuildKey(call[b]) = BuildKey(call[a]) /\ pc[b] # "idle"
                             /\ Suits(result[a], call[b])
  <2>1. CASE pc[a] = "reply"
    BY <1>1, <2>1 DEF Sharing, ResultFits, Fits
  <2>2. CASE pc[a] = "replay"
    BY <1>1, <2>2 DEF Sharing, ResultFits, Earned, Fits
  <2>3. QED
    BY <1>1, <2>1, <2>2 DEF Replying
<1>2. Sharing => AnswersFitTheirCall
  BY <1>1 DEF AnswersFitTheirCall
<1>3. QED
  BY SharingHolds, <1>2, PTL

\* Another user's answer is a certified one (should_cache_answer), and a 202 is given
\* back only to its own user and under the key they sent (_ask).
THEOREM OnlyCertifiedIsShared == Spec => []SharedAnswersAreCertified
<1>1. ASSUME Sharing, NEW a \in Asks, Replying(a), result[a].call.user # call[a].user
      PROVE  result[a].kind = "certified"
  <2>1. CASE pc[a] = "reply"
    BY <1>1, <2>1 DEF Sharing, ResultFits, Fits
  <2>2. CASE pc[a] = "replay"
    <3>1. PICK b \in Asks : BuildKey(call[b]) = BuildKey(call[a]) /\ Fits(call[b], result[a])
      BY <1>1, <2>2 DEF Sharing, ResultFits, Earned
    <3>2. call[b].user = call[a].user
      BY <3>1, SameKey
    <3>3. QED
      BY <1>1, <3>1, <3>2 DEF Fits
  <2>3. QED
    BY <1>1, <2>1, <2>2 DEF Replying
<1>2. Sharing => SharedAnswersAreCertified
  BY <1>1 DEF Sharing, ResultFits, KeyedFits, SharedAnswersAreCertified
<1>3. QED
  BY SharingHolds, <1>2, PTL

-----------------------------------------------------------------------------
(* What an invalidation leaves behind.                                      *)

Quiet == admin # "idle" => \A a \in Asks : ~InFlight(a)
OwnCurrent ==
    \A a \in Asks : pc[a] \in {"store_chunks", "store_key", "store_answer"} =>
        result[a].version = corpus
RetrievalCurrent ==
    admin = "idle" => \A k \in DOMAIN retrieval : retrieval[k].value = corpus
ResponseCurrent ==
    admin # "changed" => \A k \in DOMAIN response : response[k].value.version = corpus

\* While no ask has met a change, all that is under way is of the corpus there is.
Current == Quiet /\ OwnCurrent /\ RetrievalCurrent /\ ResponseCurrent
Fresh == Typed /\ (~raced => Current)

LEMMA InitFresh == Init => Fresh
<1> SUFFICES ASSUME Init PROVE Fresh
  OBVIOUS
<1>1. \A a \in Asks : pc[a] = "idle"
  BY DEF Init
<1>2. DOMAIN response = {} /\ DOMAIN retrieval = {} /\ admin = "idle"
  BY DEF Init
<1>3. QED
  BY <1>1, <1>2, InitTyped
     DEF Fresh, Current, Quiet, OwnCurrent, RetrievalCurrent, ResponseCurrent

\* One ask moved: only what it now holds of its own run matters.
LEMMA AskFresh ==
    ASSUME Typed, Current, NEW a \in Asks, NEW s \in Steps, pc' = [pc EXCEPT ![a] = s],
           NEW r \in Results \cup {NoResult}, result' = [result EXCEPT ![a] = r],
           corpus' = corpus, admin' = admin, admin = "idle",
           s \in {"store_chunks", "store_key", "store_answer"} => r.version = corpus
    PROVE  Quiet' /\ OwnCurrent'
<1>1. pc'[a] = s /\ result'[a] = r
  BY DEF Typed, TypeOK
<1>2. \A b \in Asks \ {a} : pc'[b] = pc[b] /\ result'[b] = result[b]
  BY DEF Typed, TypeOK
<1>3. OwnCurrent'
  BY <1>1, <1>2 DEF Current, OwnCurrent
<1>4. QED
  BY <1>3 DEF Quiet

\* An ask that is under way meets no administrator.
LEMMA IdleAdmin ==
    ASSUME Current, NEW a \in Asks, InFlight(a) PROVE admin = "idle"
BY DEF Current, Quiet

LEMMA StepCurrent ==
    ASSUME Typed, Current, ~raced', NEW a \in Asks, Step(a) PROVE Current'
<1> USE DEF InFlight
<1>1. corpus' = corpus /\ admin' = admin
  BY DEF Step, Begin, Lookup, Retrieve, StoreChunks, StoreKey, Raise, StoreHit, StoreAnswer,
         Reply
<1>2. result[a] \in Results \cup {NoResult} /\ result = [result EXCEPT ![a] = result[a]]
  BY DEF Typed, TypeOK
<1>3. CASE Begin(a)
  <2> DEFINE key == BuildKey(call[a])
  <2>1. admin = "idle" /\ UNCHANGED <<retrieval, response>>
    BY <1>3 DEF Begin
  <2>2. Quiet' /\ OwnCurrent'
    <3>1. CASE Live(idempotency, key, IdempotencyTTL + 1)
      <4>1. idempotency[key].value \in Results
        BY <3>1 DEF Live, Typed, TypeOK, IsCache
      <4>2. /\ pc' = [pc EXCEPT ![a] = "replay"]
            /\ result' = [result EXCEPT ![a] = idempotency[key].value]
        BY <1>3, <3>1 DEF Begin
      <4>3. QED
        BY <1>1, <2>1, <4>1, <4>2, AskFresh DEF Steps
    <3>2. CASE ~Live(idempotency, key, IdempotencyTTL + 1)
      <4>1. pc' = [pc EXCEPT ![a] = "lookup"] /\ result' = result
        BY <1>3, <3>2 DEF Begin
      <4>2. QED
        BY <1>1, <1>2, <2>1, <4>1, AskFresh DEF Steps
    <3>3. QED
      BY <3>1, <3>2
  <2>3. QED
    BY <1>1, <2>1, <2>2 DEF Current, RetrievalCurrent, ResponseCurrent
<1>4. CASE Lookup(a)
  <2>1. admin = "idle" /\ UNCHANGED <<retrieval, response>>
    BY <1>4, IdleAdmin DEF Lookup
  <2>2. Quiet' /\ OwnCurrent'
    <3>1. CASE \E k \in Hits(call[a]) : Holding(a, response[k].value) /\ Goto(a, "store_hit")
      <4>1. PICK k \in Hits(call[a]) : Holding(a, response[k].value) /\ Goto(a, "store_hit")
        BY <3>1
      <4>2. response[k].value \in Results
        BY DEF Hits, Live, Typed, TypeOK, IsCache
      <4>3. QED
        BY <1>1, <2>1, <4>1, <4>2, AskFresh DEF Steps
    <3>2. CASE Goto(a, "retrieve") /\ result' = result
      BY <1>1, <1>2, <2>1, <3>2, AskFresh DEF Steps
    <3>3. QED
      BY <1>4, <3>1, <3>2 DEF Lookup
  <2>3. QED
    BY <1>1, <2>1, <2>2 DEF Current, RetrievalCurrent, ResponseCurrent
<1>5. CASE Retrieve(a)
  <2> DEFINE key == RetrievalKey(call[a])
             r == [kind |-> "other", call |-> call[a], version |-> corpus]
  <2>1. admin = "idle" /\ UNCHANGED <<retrieval, response>>
    BY <1>5, IdleAdmin DEF Retrieve
  <2>2. Live(retrieval, key, RetrievalTTL) => retrieval[key].value = corpus
    BY <2>1 DEF Current, RetrievalCurrent, Live
  <2>3. Found(a, corpus) /\ \E s \in {"store_key", "store_chunks"} : Goto(a, s)
    BY <1>5, <2>2 DEF Retrieve
  <2>4. r \in Results /\ r.version = corpus /\ result' = [result EXCEPT ![a] = r]
    BY <2>3 DEF Results, Kinds, Typed, TypeOK, Found
  <2> HIDE DEF r
  <2>5. Quiet' /\ OwnCurrent'
    BY <1>1, <2>1, <2>3, <2>4, AskFresh DEF Steps
  <2>6. QED
    BY <1>1, <2>1, <2>5 DEF Current, RetrievalCurrent, ResponseCurrent
<1>6. CASE StoreChunks(a)
  <2>1. admin = "idle" /\ UNCHANGED <<response, result>> /\ Goto(a, "store_key")
    BY <1>6, IdleAdmin DEF StoreChunks
  <2>2. result[a].version = corpus
    BY <1>6 DEF StoreChunks, Current, OwnCurrent
  <2>3. Quiet' /\ OwnCurrent'
    BY <1>1, <1>2, <2>1, <2>2, AskFresh DEF Steps
  <2>4. ASSUME NEW k \in DOMAIN retrieval' PROVE retrieval'[k].value = corpus
    <3>1. CASE UNCHANGED retrieval
      BY <2>1, <3>1 DEF Current, RetrievalCurrent
    <3>2. CASE retrieval' \in Stored(retrieval, RetrievalKey(call[a]), result[a].version)
      <4>1. \/ retrieval'[k] = Entry(result[a].version)
            \/ k \in DOMAIN retrieval /\ retrieval'[k] = retrieval[k]
        BY <3>2, StoredEntries
      <4>2. QED
        BY <2>1, <2>2, <4>1 DEF Entry, Current, RetrievalCurrent
    <3>3. QED
      BY <1>6, <3>1, <3>2 DEF StoreChunks
  <2>5. QED
    BY <1>1, <2>1, <2>3, <2>4 DEF Current, RetrievalCurrent, ResponseCurrent
<1>7. CASE StoreKey(a)
  <2>1. admin = "idle" /\ UNCHANGED <<retrieval, response>>
    BY <1>7, IdleAdmin DEF StoreKey
  <2>2. PICK kind \in Ends, s \in {"store_answer", "reply"} :
          Holding(a, [result[a] EXCEPT !.kind = kind]) /\ Goto(a, s)
    BY <1>7 DEF StoreKey
  <2> DEFINE r == [result[a] EXCEPT !.kind = kind]
  <2>3. r \in Results /\ r.version = corpus
    BY <1>7, EndAssumption DEF StoreKey, Current, OwnCurrent, Typed, HasResult, Results
  <2> HIDE DEF r
  <2>4. Quiet' /\ OwnCurrent'
    BY <1>1, <2>1, <2>2, <2>3, AskFresh DEF Steps, r
  <2>5. QED
    BY <1>1, <2>1, <2>4 DEF Current, RetrievalCurrent, ResponseCurrent
<1>8. CASE Raise(a) \/ Reply(a)
  <2>1. admin = "idle" /\ UNCHANGED <<retrieval, response>>
    BY <1>8, IdleAdmin DEF Raise, Reply
  <2>2. Goto(a, "done") /\ Holding(a, NoResult)
    BY <1>8 DEF Raise, Reply, Ended
  <2>3. Quiet' /\ OwnCurrent'
    BY <1>1, <2>1, <2>2, AskFresh DEF Steps
  <2>4. QED
    BY <1>1, <2>1, <2>3 DEF Current, RetrievalCurrent, ResponseCurrent
<1>9. CASE StoreHit(a)
  <2>1. admin = "idle" /\ UNCHANGED <<retrieval, response, result>> /\ Goto(a, "reply")
    BY <1>9, IdleAdmin DEF StoreHit
  <2>2. Quiet' /\ OwnCurrent'
    BY <1>1, <1>2, <2>1, AskFresh DEF Steps
  <2>3. QED
    BY <1>1, <2>1, <2>2 DEF Current, RetrievalCurrent, ResponseCurrent
<1>10. CASE StoreAnswer(a)
  <2>1. admin = "idle" /\ UNCHANGED <<retrieval, result>> /\ Goto(a, "reply")
    BY <1>10, IdleAdmin DEF StoreAnswer
  <2>2. Quiet' /\ OwnCurrent'
    BY <1>1, <1>2, <2>1, AskFresh DEF Steps
  <2>3. ASSUME NEW k \in DOMAIN response' PROVE response'[k].value.version = corpus
    <3> DEFINE key == <<Scope(call[a]), call[a].body.question>>
    <3>1. CASE UNCHANGED response
      BY <2>1, <3>1 DEF Current, ResponseCurrent
    <3>2. CASE response' \in Stored(response, key, result[a])
      <4>1. \/ response'[k] = Entry(result[a])
            \/ k \in DOMAIN response /\ response'[k] = response[k]
        BY <3>2, StoredEntries
      <4>2. result[a].version = corpus
        BY <1>10 DEF StoreAnswer, Current, OwnCurrent
      <4>3. QED
        BY <2>1, <4>1, <4>2 DEF Entry, Current, ResponseCurrent
    <3>3. QED
      BY <1>10, <3>1, <3>2 DEF StoreAnswer
  <2>4. QED
    BY <1>1, <2>1, <2>2, <2>3 DEF Current, RetrievalCurrent, ResponseCurrent
<1>11. QED
  BY <1>3, <1>4, <1>5, <1>6, <1>7, <1>8, <1>9, <1>10 DEF Step

LEMMA AdminCurrent ==
    ASSUME Typed, Current, ~raced',
           ChangeCorpus \/ IngestFails \/ ClearResponses \/ ClearRetrievals
    PROVE  Current'
<1>1. UNCHANGED <<pc, result>>
  BY DEF ChangeCorpus, IngestFails, ClearResponses, ClearRetrievals
<1>2. \A a \in Asks : ~InFlight(a)
  BY DEF ChangeCorpus, IngestFails, ClearResponses, ClearRetrievals, Current, Quiet
<1>3. Quiet' /\ OwnCurrent'
  BY <1>1, <1>2 DEF Quiet, OwnCurrent, InFlight
<1>4. RetrievalCurrent'
  BY DEF ChangeCorpus, IngestFails, ClearResponses, ClearRetrievals, RetrievalCurrent
<1>5. ResponseCurrent'
  BY DEF ChangeCorpus, IngestFails, ClearResponses, ClearRetrievals, ResponseCurrent, Current
<1>6. QED
  BY <1>3, <1>4, <1>5 DEF Current

LEMMA TickCurrent == ASSUME Typed, Current, Tick PROVE Current'
<1> USE TimeAssumption
<1>1. UNCHANGED <<corpus, admin, pc, result>>
  BY DEF Tick, Aged
<1>2. Quiet' /\ OwnCurrent'
  BY <1>1 DEF Current, Quiet, OwnCurrent, InFlight
<1>3. \A k \in DOMAIN retrieval' :
        k \in DOMAIN retrieval /\ retrieval'[k].value = retrieval[k].value
  BY OlderEntries DEF Tick, Aged, Typed, TypeOK
<1>4. \A k \in DOMAIN response' :
        k \in DOMAIN response /\ response'[k].value = response[k].value
  BY OlderEntries DEF Tick, Aged, Typed, TypeOK
<1>5. RetrievalCurrent' /\ ResponseCurrent'
  BY <1>1, <1>3, <1>4 DEF Current, RetrievalCurrent, ResponseCurrent
<1>6. QED
  BY <1>2, <1>5 DEF Current

LEMMA NextFresh == Fresh /\ [Next]_vars => Fresh'
<1> SUFFICES ASSUME Fresh, [Next]_vars PROVE Fresh'
  OBVIOUS
<1>1. Typed /\ Typed'
  BY NextTyped DEF Fresh
<1>2. ASSUME ~raced' PROVE Current'
  <2>1. CASE UNCHANGED vars
    BY <1>2, <2>1 DEF vars, Fresh, Current, Quiet, OwnCurrent, RetrievalCurrent,
                      ResponseCurrent, InFlight
  <2>2. CASE Next
    <3>1. ~raced
      BY <1>2, <2>2
         DEF Next, Step, Begin, Lookup, Retrieve, StoreChunks, StoreKey, Raise, StoreHit,
             StoreAnswer, Reply, ChangeCorpus, IngestFails, ClearResponses, ClearRetrievals,
             Tick, Aged
    <3>2. Current
      BY <3>1 DEF Fresh
    <3>3. QED
      BY <1>1, <1>2, <2>2, <3>2, StepCurrent, AdminCurrent, TickCurrent DEF Next
  <2>3. QED
    BY <2>1, <2>2
<1>3. QED
  BY <1>1, <1>2 DEF Fresh

\* A change that no call overlapped and that was followed up leaves nothing of an
\* older corpus in the two caches (registry.py, invalidate_corpus_caches).
THEOREM InvalidationClears == Spec => []FreshAfterInvalidation
<1>1. Fresh => FreshAfterInvalidation
  BY DEF Fresh, Current, RetrievalCurrent, ResponseCurrent, FreshAfterInvalidation
<1>2. QED
  BY InitFresh, NextFresh, <1>1, PTL DEF Spec

-----------------------------------------------------------------------------
(* How old an answer may be.                                                *)

PositiveTTLs == RetrievalTTL > 0 /\ ResponseTTL > 0

\* How long ago the corpus of a chunk list, an answer and a kept answer may have
\* been replaced, beyond the age of its entry or of the call that holds it.
ChunksAge == (RetrievalTTL - 1) + MaxAge
AnswerAge == ChunksAge + (ResponseTTL - 1) + MaxAge
KeptAge == AnswerAge + MaxAge
ReplyAge == KeptAge + IdempotencyTTL

Limit(s) ==
    IF s = "store_chunks" THEN 0
    ELSE IF s \in {"store_key", "store_answer"} THEN ChunksAge
    ELSE IF s = "store_hit" THEN AnswerAge
    ELSE ReplyAge

CorpusIsNow == \A v \in 0..MaxVersion : corpus <= v => replaced[v] = 0
RetrievalRecent ==
    \A k \in DOMAIN retrieval : retrieval[k].age < RetrievalTTL =>
        replaced[retrieval[k].value] <= retrieval[k].age + MaxAge
ResponseRecent ==
    \A k \in DOMAIN response : response[k].age < ResponseTTL =>
        replaced[response[k].value.version] <= response[k].age + ChunksAge + MaxAge
StoreRecent ==
    \A k \in DOMAIN idempotency : idempotency[k].age <= IdempotencyTTL =>
        replaced[idempotency[k].value.version] <= idempotency[k].age + KeptAge
ResultRecent ==
    \A a \in Asks : pc[a] \in Holds => replaced[result[a].version] <= Limit(pc[a]) + age[a]

CachesRecent == RetrievalRecent /\ ResponseRecent /\ StoreRecent
Recent == Typed /\ PositiveTTLs /\ CorpusIsNow /\ CachesRecent /\ ResultRecent

LEMMA Bounds ==
    ASSUME PositiveTTLs
    PROVE  /\ ChunksAge \in Nat /\ AnswerAge \in Nat /\ KeptAge \in Nat /\ ReplyAge \in Nat
           /\ RetrievalTTL \in Nat /\ ResponseTTL \in Nat /\ IdempotencyTTL \in Nat
           /\ MaxAge \in Nat /\ MaxVersion \in Nat
           /\ MaxAge + RetrievalTTL = ChunksAge + 1
           /\ ChunksAge + MaxAge + ResponseTTL = AnswerAge + 1
           /\ AnswerAge + MaxAge = KeptAge
           /\ ChunksAge + MaxAge <= KeptAge
           /\ KeptAge + IdempotencyTTL = ReplyAge
           /\ ReplyAge + MaxAge = LongestStale
BY TimeAssumption DEF PositiveTTLs, ChunksAge, AnswerAge, KeptAge, ReplyAge, LongestStale

LEMMA InitRecent == ASSUME PositiveTTLs PROVE Init => Recent
<1> SUFFICES ASSUME Init PROVE Recent
  OBVIOUS
<1>1. DOMAIN retrieval = {} /\ DOMAIN response = {} /\ DOMAIN idempotency = {}
  BY DEF Init
<1>2. \A a \in Asks : pc[a] = "idle"
  BY DEF Init
<1>3. CorpusIsNow
  BY DEF Init, CorpusIsNow
<1>4. ResultRecent
  BY <1>2 DEF ResultRecent, Holds
<1>5. CachesRecent
  BY <1>1 DEF CachesRecent, RetrievalRecent, ResponseRecent, StoreRecent
<1>6. QED
  BY <1>3, <1>4, <1>5, InitTyped DEF Recent

\* What an ask may be doing while the clock stands still.
LEMMA AskRecent ==
    ASSUME Recent, NEW a \in Asks, NEW s \in Steps, pc' = [pc EXCEPT ![a] = s],
           NEW r \in Results \cup {NoResult}, result' = [result EXCEPT ![a] = r],
           replaced' = replaced, age' = age,
           s \in Holds => replaced[r.version] <= Limit(s) + age[a]
    PROVE  ResultRecent'
<1>1. pc'[a] = s /\ result'[a] = r
  BY DEF Recent, Typed, TypeOK
<1>2. \A b \in Asks \ {a} : pc'[b] = pc[b] /\ result'[b] = result[b]
  BY DEF Recent, Typed, TypeOK
<1>3. ASSUME NEW b \in Asks, pc'[b] \in Holds
      PROVE  replaced'[result'[b].version] <= Limit(pc'[b]) + age'[b]
  <2>1. CASE b = a
    BY <1>1, <1>3, <2>1
  <2>2. CASE b # a
    BY <1>2, <1>3, <2>2 DEF Recent, ResultRecent
  <2>3. QED
    BY <2>1, <2>2
<1>4. QED
  BY <1>3 DEF ResultRecent, Limit

\* The times that are compared are natural numbers.
LEMMA Times ==
    ASSUME Recent, NEW a \in Asks
    PROVE  /\ age[a] \in 0..MaxAge /\ age[a] \in Nat
           /\ \A v \in 0..MaxVersion : replaced[v] \in Nat
           /\ pc[a] \in Holds => result[a] \in Results /\ result[a].version \in 0..MaxVersion
<1>1. age[a] \in 0..MaxAge /\ \A v \in 0..MaxVersion : replaced[v] \in Nat
  BY TimeAssumption DEF Recent, Typed, TypeOK
<1>2. pc[a] \in Holds => result[a] \in Results
  BY DEF Recent, Typed, HasResult, Holds
<1>3. QED
  BY <1>1, <1>2, TimeAssumption DEF Results

LEMMA KeptRecent ==
    ASSUME Recent, NEW a \in Asks, NEW r \in Results, KeptUnderKey(a, r),
           replaced' = replaced, replaced[r.version] <= KeptAge
    PROVE  StoreRecent'
<1>1. ASSUME NEW k \in DOMAIN idempotency', idempotency'[k].age <= IdempotencyTTL
      PROVE  replaced[idempotency'[k].value.version] <= idempotency'[k].age + KeptAge
  <2>1. CASE idempotency'[k] = Entry(r)
    <3>1. KeptAge \in Nat
      BY Bounds DEF Recent
    <3>2. QED
      BY <2>1, <3>1 DEF Entry
  <2>2. CASE k \in DOMAIN idempotency /\ idempotency'[k] = idempotency[k]
    BY <1>1, <2>2 DEF Recent, CachesRecent, StoreRecent
  <2>3. QED
    BY <2>1, <2>2, KeptEntries
<1>2. QED
  BY <1>1 DEF StoreRecent, KeptAge, AnswerAge, ChunksAge

LEMMA StepRecent == ASSUME Recent, NEW a \in Asks, Step(a) PROVE Recent'
<1> USE DEF Limit, Steps, Holds
<1>1. Typed'
  BY StepTyped DEF Recent
<1>2. UNCHANGED <<corpus, replaced>>
  BY DEF Step, Begin, Lookup, Retrieve, StoreChunks, StoreKey, Raise, StoreHit, StoreAnswer,
         Reply
<1>3. CorpusIsNow'
  BY <1>2 DEF Recent, CorpusIsNow
<1>4. /\ result[a] \in Results \cup {NoResult} /\ result = [result EXCEPT ![a] = result[a]]
      /\ age[a] \in 0..MaxAge /\ age[a] \in Nat
      /\ \A v \in 0..MaxVersion : replaced[v] \in Nat
      /\ pc[a] \in Holds => result[a] \in Results /\ result[a].version \in 0..MaxVersion
  BY Times DEF Recent, Typed, TypeOK
<1>5. pc[a] \in Holds => replaced[result[a].version] <= Limit(pc[a]) + age[a]
  BY DEF Recent, ResultRecent
<1>6. ASSUME UNCHANGED <<retrieval, response, idempotency>> PROVE CachesRecent'
  BY <1>2, <1>6 DEF Recent, CachesRecent, RetrievalRecent, ResponseRecent, StoreRecent
<1>7. CASE Begin(a)
  <2> DEFINE key == BuildKey(call[a])
  <2>1. age' = age /\ CachesRecent'
    BY <1>6, <1>7 DEF Begin
  <2>2. ResultRecent'
    <3>1. CASE Live(idempotency, key, IdempotencyTTL + 1)
      <4>1. /\ idempotency[key] \in [value : Results, age : Nat]
            /\ key \in DOMAIN idempotency /\ idempotency[key].age < IdempotencyTTL + 1
        BY <3>1 DEF Live, Recent, Typed, TypeOK, IsCache
      <4>2. idempotency[key].age <= IdempotencyTTL
        BY <4>1, TimeAssumption
      <4>3. replaced[idempotency[key].value.version] <= idempotency[key].age + KeptAge
        BY <4>1, <4>2 DEF Recent, CachesRecent, StoreRecent
      <4>4. /\ idempotency[key].value \in Results
            /\ replaced[idempotency[key].value.version] \in Nat
        BY <1>4, <4>1 DEF Results
      <4>5. replaced[idempotency[key].value.version] <= ReplyAge + age[a]
        BY <1>4, <4>1, <4>2, <4>3, <4>4, Bounds DEF Recent
      <4>6. /\ pc' = [pc EXCEPT ![a] = "replay"]
            /\ result' = [result EXCEPT ![a] = idempotency[key].value]
        BY <1>7, <3>1 DEF Begin
      <4>7. QED
        BY <1>2, <2>1, <4>4, <4>5, <4>6, AskRecent
    <3>2. CASE ~Live(idempotency, key, IdempotencyTTL + 1)
      <4>1. pc' = [pc EXCEPT ![a] = "lookup"] /\ result' = result
        BY <1>7, <3>2 DEF Begin
      <4>2. QED
        BY <1>2, <1>4, <2>1, <4>1, AskRecent
    <3>3. QED
      BY <3>1, <3>2
  <2>3. QED
    BY <1>1, <1>3, <2>1, <2>2 DEF Recent, PositiveTTLs
<1>8. CASE Lookup(a)
  <2>1. age' = age /\ CachesRecent'
    BY <1>6, <1>8 DEF Lookup
  <2>2. ResultRecent'
    <3>1. CASE \E k \in Hits(call[a]) : Holding(a, response[k].value) /\ Goto(a, "store_hit")
      <4>1. PICK k \in Hits(call[a]) : Holding(a, response[k].value) /\ Goto(a, "store_hit")
        BY <3>1
      <4>2. /\ k \in DOMAIN response /\ response[k].age < ResponseTTL
            /\ response[k] \in [value : Results, age : Nat]
        BY DEF Hits, Live, Recent, Typed, TypeOK, IsCache
      <4>3. replaced[response[k].value.version] <= response[k].age + ChunksAge + MaxAge
        BY <4>2 DEF Recent, CachesRecent, ResponseRecent
      <4>4. response[k].value \in Results /\ replaced[response[k].value.version] \in Nat
        BY <1>4, <4>2 DEF Results
      <4>5. replaced[response[k].value.version] <= AnswerAge + age[a]
        BY <1>4, <4>2, <4>3, <4>4, Bounds DEF Recent
      <4>6. QED
        BY <1>2, <2>1, <4>1, <4>4, <4>5, AskRecent
    <3>2. CASE Goto(a, "retrieve") /\ result' = result
      BY <1>2, <1>4, <2>1, <3>2, AskRecent
    <3>3. QED
      BY <1>8, <3>1, <3>2 DEF Lookup
  <2>3. QED
    BY <1>1, <1>3, <2>1, <2>2 DEF Recent, PositiveTTLs
<1>9. CASE Retrieve(a)
  <2> DEFINE key == RetrievalKey(call[a])
             r(v) == [kind |-> "other", call |-> call[a], version |-> v]
  <2>1. age' = age /\ CachesRecent'
    BY <1>6, <1>9 DEF Retrieve
  <2>2. \A v \in 0..MaxVersion : r(v) \in Results /\ r(v).version = v
    BY DEF Results, Kinds, Recent, Typed, TypeOK
  <2>3. ResultRecent'
    <3>1. CASE Live(retrieval, key, RetrievalTTL)
      <4> DEFINE v == retrieval[key].value
      <4>1. /\ key \in DOMAIN retrieval /\ retrieval[key].age < RetrievalTTL
            /\ retrieval[key] \in [value : 0..MaxVersion, age : Nat]
        BY <3>1 DEF Live, Recent, Typed, TypeOK, IsCache
      <4>2. replaced[v] <= retrieval[key].age + MaxAge
        BY <4>1 DEF Recent, CachesRecent, RetrievalRecent
      <4>3. v \in 0..MaxVersion /\ replaced[v] \in Nat
        BY <1>4, <4>1
      <4>4. replaced[v] <= ChunksAge + age[a]
        BY <1>4, <4>1, <4>2, <4>3, Bounds DEF Recent
      <4>5. Goto(a, "store_key") /\ result' = [result EXCEPT ![a] = r(v)]
        BY <1>9, <3>1 DEF Retrieve, Found
      <4> HIDE DEF v
      <4>6. r(v) \in Results /\ r(v).version = v
        BY <2>2, <4>3
      <4> HIDE DEF r
      <4>7. QED
        BY <1>2, <2>1, <4>4, <4>5, <4>6, AskRecent
    <3>2. CASE ~Live(retrieval, key, RetrievalTTL)
      <4>1. Goto(a, "store_chunks") /\ result' = [result EXCEPT ![a] = r(corpus)]
        BY <1>9, <3>2 DEF Retrieve, Found
      <4>2. corpus \in 0..MaxVersion
        BY DEF Recent, Typed, TypeOK
      <4>3. replaced[corpus] = 0
        BY <4>2, TimeAssumption DEF Recent, CorpusIsNow
      <4>4. r(corpus) \in Results /\ r(corpus).version = corpus
        BY <2>2, <4>2
      <4>5. replaced[corpus] <= 0 + age[a]
        BY <1>4, <4>3
      <4> HIDE DEF r
      <4>6. QED
        BY <1>2, <2>1, <4>1, <4>4, <4>5, AskRecent
    <3>3. QED
      BY <3>1, <3>2
  <2>4. QED
    BY <1>1, <1>3, <2>1, <2>3 DEF Recent, PositiveTTLs
<1>10. CASE StoreChunks(a)
  <2>1. UNCHANGED <<age, result, response, idempotency>> /\ Goto(a, "store_key")
    BY <1>10 DEF StoreChunks
  <2>2. replaced[result[a].version] <= age[a] /\ replaced[result[a].version] \in Nat
    BY <1>4, <1>5, <1>10 DEF StoreChunks
  <2>3. replaced[result[a].version] <= ChunksAge + age[a]
    BY <1>4, <2>2, Bounds DEF Recent
  <2>4. ResultRecent'
    BY <1>2, <1>4, <2>1, <2>3, AskRecent
  <2>5. ASSUME NEW k \in DOMAIN retrieval', retrieval'[k].age < RetrievalTTL
        PROVE  replaced[retrieval'[k].value] <= retrieval'[k].age + MaxAge
    <3>1. CASE k \in DOMAIN retrieval /\ retrieval'[k] = retrieval[k]
      BY <2>5, <3>1 DEF Recent, CachesRecent, RetrievalRecent
    <3>2. CASE retrieval'[k] = Entry(result[a].version)
      <4>1. replaced[result[a].version] <= 0 + MaxAge
        BY <1>4, <2>2, TimeAssumption
      <4>2. QED
        BY <3>2, <4>1 DEF Entry
    <3>3. QED
      BY <1>10, <3>1, <3>2, StoredEntries DEF StoreChunks
  <2>6. RetrievalRecent'
    BY <1>2, <2>5 DEF RetrievalRecent
  <2>7. ResponseRecent' /\ StoreRecent'
    BY <1>2, <2>1 DEF Recent, CachesRecent, ResponseRecent, StoreRecent
  <2>8. QED
    BY <1>1, <1>3, <2>4, <2>6, <2>7 DEF Recent, PositiveTTLs, CachesRecent
<1>11. CASE StoreKey(a)
  <2>1. UNCHANGED <<age, retrieval, response>>
    BY <1>11 DEF StoreKey
  <2>2. PICK kind \in Ends, s \in {"store_answer", "reply"} :
          /\ Holding(a, [result[a] EXCEPT !.kind = kind])
          /\ KeptUnderKey(a, [result[a] EXCEPT !.kind = kind])
          /\ Goto(a, s)
    BY <1>11 DEF StoreKey
  <2> DEFINE r == [result[a] EXCEPT !.kind = kind]
  <2>3. r \in Results /\ r.version = result[a].version
    BY <1>4, <1>11, EndAssumption DEF StoreKey, Results
  <2>4. /\ replaced[r.version] <= ChunksAge + age[a] /\ replaced[r.version] \in Nat
    BY <1>4, <1>5, <1>11, <2>3 DEF StoreKey
  <2> HIDE DEF r
  <2>5. replaced[r.version] <= KeptAge /\ replaced[r.version] <= ReplyAge + age[a]
    BY <1>4, <2>4, Bounds DEF Recent
  <2>6. ResultRecent'
    BY <1>2, <2>1, <2>2, <2>3, <2>4, <2>5, AskRecent DEF r
  <2>7. StoreRecent'
    BY <1>2, <2>2, <2>3, <2>5, KeptRecent DEF r
  <2>8. RetrievalRecent' /\ ResponseRecent'
    BY <1>2, <2>1 DEF Recent, CachesRecent, RetrievalRecent, ResponseRecent
  <2>9. QED
    BY <1>1, <1>3, <2>6, <2>7, <2>8 DEF Recent, PositiveTTLs, CachesRecent
<1>12. CASE Raise(a) \/ Reply(a)
  <2>1. CachesRecent'
    BY <1>6, <1>12 DEF Raise, Reply
  <2>2. pc' = [pc EXCEPT ![a] = "done"] /\ result' = [result EXCEPT ![a] = NoResult]
           /\ age' = [age EXCEPT ![a] = 0]
    BY <1>12 DEF Raise, Reply, Ended
  <2>3. pc'[a] = "done"
           /\ \A b \in Asks \ {a} : pc'[b] = pc[b] /\ result'[b] = result[b] /\ age'[b] = age[b]
    BY <2>2 DEF Recent, Typed, TypeOK
  <2>4. ResultRecent'
    BY <1>2, <2>3 DEF Recent, ResultRecent
  <2>5. QED
    BY <1>1, <1>3, <2>1, <2>4 DEF Recent, PositiveTTLs
<1>13. CASE StoreHit(a)
  <2>1. UNCHANGED <<age, retrieval, response, result>> /\ Goto(a, "reply")
    BY <1>13 DEF StoreHit
  <2>2. /\ result[a] \in Results /\ replaced[result[a].version] \in Nat
        /\ replaced[result[a].version] <= AnswerAge + age[a]
    BY <1>4, <1>5, <1>13 DEF StoreHit
  <2>3. /\ replaced[result[a].version] <= KeptAge
        /\ replaced[result[a].version] <= ReplyAge + age[a]
    BY <1>4, <2>2, Bounds DEF Recent
  <2>4. ResultRecent'
    BY <1>2, <1>4, <2>1, <2>3, AskRecent
  <2>5. StoreRecent'
    BY <1>2, <1>13, <2>2, <2>3, KeptRecent DEF StoreHit
  <2>6. RetrievalRecent' /\ ResponseRecent'
    BY <1>2, <2>1 DEF Recent, CachesRecent, RetrievalRecent, ResponseRecent
  <2>7. QED
    BY <1>1, <1>3, <2>4, <2>5, <2>6 DEF Recent, PositiveTTLs, CachesRecent
<1>14. CASE StoreAnswer(a)
  <2> DEFINE key == <<Scope(call[a]), call[a].body.question>>
  <2>1. UNCHANGED <<age, retrieval, idempotency, result>> /\ Goto(a, "reply")
    BY <1>14 DEF StoreAnswer
  <2>2. /\ replaced[result[a].version] \in Nat
        /\ replaced[result[a].version] <= ChunksAge + age[a]
    BY <1>4, <1>5, <1>14 DEF StoreAnswer
  <2>3. /\ replaced[result[a].version] <= 0 + ChunksAge + MaxAge
        /\ replaced[result[a].version] <= ReplyAge + age[a]
    BY <1>4, <2>2, Bounds DEF Recent
  <2>4. ResultRecent'
    BY <1>2, <1>4, <2>1, <2>3, AskRecent
  <2>5. ASSUME NEW k \in DOMAIN response', response'[k].age < ResponseTTL
        PROVE  replaced[response'[k].value.version] <= response'[k].age + ChunksAge + MaxAge
    <3>1. CASE k \in DOMAIN response /\ response'[k] = response[k]
      BY <2>5, <3>1 DEF Recent, CachesRecent, ResponseRecent
    <3>2. CASE response'[k] = Entry(result[a])
      BY <2>3, <3>2 DEF Entry
    <3>3. QED
      <4>1. CASE UNCHANGED response
        BY <3>1, <4>1
      <4>2. CASE response' \in Stored(response, key, result[a])
        BY <3>1, <3>2, <4>2, StoredEntries
      <4>3. QED
        BY <1>14, <4>1, <4>2 DEF StoreAnswer
  <2>6. ResponseRecent'
    BY <1>2, <2>5 DEF ResponseRecent, ChunksAge
  <2>7. RetrievalRecent' /\ StoreRecent'
    BY <1>2, <2>1 DEF Recent, CachesRecent, RetrievalRecent, StoreRecent
  <2>8. QED
    BY <1>1, <1>3, <2>4, <2>6, <2>7 DEF Recent, PositiveTTLs, CachesRecent
<1>15. QED
  BY <1>7, <1>8, <1>9, <1>10, <1>11, <1>12, <1>13, <1>14 DEF Step

LEMMA AdminRecent ==
    ASSUME Recent, ChangeCorpus \/ IngestFails \/ ClearResponses \/ ClearRetrievals
    PROVE  Recent'
<1>1. Typed'
  BY AdminTyped DEF Recent
<1>2. UNCHANGED <<replaced, idempotency, pc, result, age>>
  BY DEF ChangeCorpus, IngestFails, ClearResponses, ClearRetrievals
<1>3. corpus' = corpus \/ corpus' = corpus + 1
  BY DEF ChangeCorpus, IngestFails, ClearResponses, ClearRetrievals
<1>4. CorpusIsNow'
  <2>1. corpus \in Nat /\ corpus <= corpus'
    BY <1>3, TimeAssumption DEF Recent, Typed, TypeOK
  <2>2. ASSUME NEW v \in 0..MaxVersion, corpus' <= v PROVE replaced[v] = 0
    <3>1. corpus <= v
      BY <1>3, <2>1, <2>2
    <3>2. QED
      BY <3>1 DEF Recent, CorpusIsNow
  <2>3. QED
    BY <1>2, <2>2 DEF CorpusIsNow
<1>5. ResultRecent'
  BY <1>2 DEF Recent, ResultRecent
<1>6. (retrieval' = retrieval \/ retrieval' = <<>>) /\ (response' = response \/ response' = <<>>)
  BY DEF ChangeCorpus, IngestFails, ClearResponses, ClearRetrievals
<1>7. RetrievalRecent' /\ ResponseRecent' /\ StoreRecent'
  BY <1>2, <1>6 DEF Recent, CachesRecent, RetrievalRecent, ResponseRecent, StoreRecent
<1>8. QED
  BY <1>1, <1>4, <1>5, <1>7 DEF Recent, PositiveTTLs, CachesRecent

\* An entry that is still served has grown as old as what it rests on.
LEMMA TickRecent == ASSUME Recent, Tick PROVE Recent'
<1>1. Typed'
  BY TickTyped DEF Recent
<1>2. UNCHANGED <<corpus, pc, result>>
  BY DEF Tick, Aged
<1>3. \A v \in 0..MaxVersion :
        /\ replaced[v] \in Nat /\ replaced'[v] \in Nat /\ replaced'[v] <= replaced[v] + 1
        /\ corpus <= v => replaced'[v] = replaced[v]
  <2>1. \A v \in 0..MaxVersion : replaced[v] \in Nat
    BY TimeAssumption DEF Recent, Typed, TypeOK
  <2>2. \A v \in 0..MaxVersion :
          replaced'[v] = IF v < corpus /\ replaced[v] < Horizon
                         THEN replaced[v] + 1 ELSE replaced[v]
    BY DEF Tick, Aged
  <2>3. corpus \in 0..MaxVersion
    BY DEF Recent, Typed, TypeOK
  <2>4. QED
    BY <2>1, <2>2, <2>3, TimeAssumption
<1>4. CorpusIsNow'
  BY <1>2, <1>3 DEF Recent, CorpusIsNow
<1>5. ResultRecent'
  <2>1. ASSUME NEW a \in Asks, pc[a] \in Holds
        PROVE  replaced'[result[a].version] <= Limit(pc[a]) + age'[a]
    <3> DEFINE v == result[a].version
    <3>1. age'[a] = age[a] + 1 /\ age[a] \in Nat
      BY <2>1, Times DEF Tick, Aged, InFlight, Holds
    <3>2. v \in 0..MaxVersion /\ replaced[v] <= Limit(pc[a]) + age[a]
      BY <2>1, Times DEF Recent, ResultRecent
    <3>3. Limit(pc[a]) \in Nat
      BY Bounds DEF Limit, Recent
    <3> HIDE DEF v
    <3>4. replaced'[v] <= Limit(pc[a]) + age'[a]
      BY <1>3, <3>1, <3>2, <3>3
    <3>5. QED
      BY <3>4 DEF v
  <2>2. QED
    BY <1>2, <2>1 DEF ResultRecent, Limit
<1>6. RetrievalRecent'
  <2>1. ASSUME NEW k \in DOMAIN retrieval', retrieval'[k].age < RetrievalTTL
        PROVE  replaced'[retrieval'[k].value] <= retrieval'[k].age + MaxAge
    <3>1. IsCache(retrieval, 0..MaxVersion) /\ retrieval' = Older(retrieval, RetrievalTTL)
             /\ RetrievalTTL \in Nat /\ MaxAge \in Nat
      BY TimeAssumption DEF Tick, Aged, Recent, Typed, TypeOK
    <3>2. /\ k \in DOMAIN retrieval /\ retrieval'[k].value = retrieval[k].value
          /\ retrieval'[k].age = IF retrieval[k].age < RetrievalTTL
                                 THEN retrieval[k].age + 1 ELSE retrieval[k].age
      BY <3>1, OlderEntries
    <3>3. retrieval[k].value \in 0..MaxVersion /\ retrieval[k].age \in Nat
      BY <3>1, <3>2 DEF IsCache
    <3>4. retrieval[k].age < RetrievalTTL /\ retrieval'[k].age = retrieval[k].age + 1
      BY <2>1, <3>1, <3>2, <3>3
    <3>5. replaced[retrieval[k].value] <= retrieval[k].age + MaxAge
      BY <3>2, <3>4 DEF Recent, CachesRecent, RetrievalRecent
    <3>6. QED
      BY <1>3, <3>1, <3>2, <3>3, <3>4, <3>5
  <2>2. QED
    BY <2>1 DEF RetrievalRecent
<1>7. ResponseRecent'
  <2>1. ASSUME NEW k \in DOMAIN response', response'[k].age < ResponseTTL
        PROVE  replaced'[response'[k].value.version]
                  <= response'[k].age + ChunksAge + MaxAge
    <3>1. IsCache(response, Results) /\ response' = Older(response, ResponseTTL)
             /\ ResponseTTL \in Nat /\ MaxAge \in Nat /\ ChunksAge \in Nat
      BY TimeAssumption, Bounds DEF Tick, Aged, Recent, Typed, TypeOK
    <3>2. /\ k \in DOMAIN response /\ response'[k].value = response[k].value
          /\ response'[k].age = IF response[k].age < ResponseTTL
                                THEN response[k].age + 1 ELSE response[k].age
      BY <3>1, OlderEntries
    <3>3. response[k].value.version \in 0..MaxVersion /\ response[k].age \in Nat
      BY <3>1, <3>2 DEF IsCache, Results
    <3>4. response[k].age < ResponseTTL /\ response'[k].age = response[k].age + 1
      BY <2>1, <3>1, <3>2, <3>3
    <3>5. replaced[response[k].value.version] <= response[k].age + ChunksAge + MaxAge
      BY <3>2, <3>4 DEF Recent, CachesRecent, ResponseRecent
    <3>6. QED
      BY <1>3, <3>1, <3>2, <3>3, <3>4, <3>5
  <2>2. QED
    BY <2>1 DEF ResponseRecent, ChunksAge
<1>8. StoreRecent'
  <2>1. ASSUME NEW k \in DOMAIN idempotency', idempotency'[k].age <= IdempotencyTTL
        PROVE  replaced'[idempotency'[k].value.version] <= idempotency'[k].age + KeptAge
    <3> DEFINE limit == IdempotencyTTL + 1
    <3>1. /\ IsCache(idempotency, Results) /\ idempotency' = Older(idempotency, limit)
          /\ IdempotencyTTL \in Nat /\ limit \in Nat /\ KeptAge \in Nat
      <4>1. IsCache(idempotency, Results) /\ idempotency' = Older(idempotency, limit)
        BY DEF Tick, Aged, Recent, Typed, TypeOK
      <4>2. IdempotencyTTL \in Nat /\ KeptAge \in Nat
        BY Bounds DEF Recent
      <4>3. QED
        BY <4>1, <4>2
    <3>2. /\ k \in DOMAIN idempotency /\ idempotency'[k].value = idempotency[k].value
          /\ idempotency'[k].age = IF idempotency[k].age < limit
                                   THEN idempotency[k].age + 1 ELSE idempotency[k].age
      BY <3>1, OlderEntries
    <3>3. idempotency[k].value.version \in 0..MaxVersion /\ idempotency[k].age \in Nat
      BY <3>1, <3>2 DEF IsCache, Results
    <3>4. idempotency[k].age <= IdempotencyTTL
             /\ idempotency'[k].age = idempotency[k].age + 1
      BY <2>1, <3>1, <3>2, <3>3
    <3>5. replaced[idempotency[k].value.version] <= idempotency[k].age + KeptAge
      BY <3>2, <3>4 DEF Recent, CachesRecent, StoreRecent
    <3>6. QED
      BY <1>3, <3>1, <3>2, <3>3, <3>4, <3>5
  <2>2. QED
    BY <2>1 DEF StoreRecent, KeptAge, AnswerAge, ChunksAge
<1>9. QED
  BY <1>1, <1>4, <1>5, <1>6, <1>7, <1>8 DEF Recent, PositiveTTLs, CachesRecent

LEMMA NextRecent == Recent /\ [Next]_vars => Recent'
<1> SUFFICES ASSUME Recent, [Next]_vars PROVE Recent'
  OBVIOUS
<1>1. CASE UNCHANGED vars
  <2>1. Typed'
    BY <1>1, NextTyped DEF Recent
  <2>2. QED
    BY <1>1, <2>1 DEF vars, Recent, PositiveTTLs, CorpusIsNow, CachesRecent, RetrievalRecent,
                      ResponseRecent, StoreRecent, ResultRecent
<1>2. QED
  BY <1>1, StepRecent, AdminRecent, TickRecent DEF Next

LEMMA RecentImplies == Recent => RepliesAreRecent
<1> SUFFICES ASSUME Recent, NEW a \in Asks, Replying(a)
             PROVE  replaced[result[a].version] <= LongestStale
  BY DEF RepliesAreRecent
<1>1. replaced[result[a].version] <= ReplyAge + age[a]
  BY DEF Recent, ResultRecent, Replying, Holds, Limit
<1>2. age[a] \in 0..MaxAge /\ replaced[result[a].version] \in Nat
  BY Times DEF Replying, Holds
<1>3. ReplyAge \in Nat /\ MaxAge \in Nat /\ LongestStale = ReplyAge + MaxAge
  BY Bounds DEF Recent
<1>4. QED
  BY <1>1, <1>2, <1>3

\* For any TTLs and any number of calls, entries and changes of the corpus, no reply
\* rests on a corpus replaced longer ago than the three TTLs and four calls.
THEOREM RepliesStayRecent == ASSUME PositiveTTLs PROVE Spec => []RepliesAreRecent
<1>1. Init => Recent
  BY InitRecent
<1>2. QED
  BY <1>1, NextRecent, RecentImplies, PTL DEF Spec
=============================================================================
