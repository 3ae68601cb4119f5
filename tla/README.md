# Verification of the Retail Policy Intelligence system

TLA+ models of the parts of this repository whose correctness depends on order, failure and
accumulated state: the LangGraph workflow behind `POST /ask`, the review of what it escalates, the
caches in front of it, the clauses its answers cite, the policy corpus under it, the records path,
the books it keeps beside the answer, and the chat page that shows it. TLC checks them on small instances; TLAPS proves the main
invariants for every value of the constants. Paths below are relative to `src/backend/src/` of the
repository unless they start with `frontend/`.

## 1. Inventory

| Component | State it keeps | Operations | Interacts with | Hard because |
|---|---|---|---|---|
| **Ask graph** `graph/`, `nodes/`, `core/budget.py` | `AgentState`: meters, risk, plan, route, evidence, draft, verdict, outcome | 17 nodes, 12 conditional edges, a guard in front of every node | models, database, index; writes the review queue; called by `routes.py` | a decision taken in one node is obeyed several nodes later; a repair loop runs over half-cleared state; any node may be refused for time or tokens; a call may raise |
| **Route policy** `graph/path_policy.py` | none | clamp a proposed path to the intent, to the role's grants and to the clock | planner, reflection | three independent reasons to change a path, applied in order |
| **Review queue** `api/escalation_service.py`, `submit_review` | one `escalation_queue` row and one LangGraph checkpoint per request | enqueue, record, reopen, store, resume, poll | reviewers race; the run that escalated may still be going; the server restarts | three shared stores written one after the other with no transaction over them |
| **Caches** `cache/`, `core/idempotency.py` | idempotency store, response cache (exact and near), retrieval cache, completion cache | look up, store, expire, evict, clear | every `/ask`, `/ingest`, `/cache/invalidate` | each cache is locked, no two of them together; one feeds the next, each with its own TTL |
| **Corpus** `ingestion/`, `index/` | the vector table, its copy for the BM25 leg, versions of documents | bootstrap, ingest, supersede, rebuild, reload | searches, caches | several transactions, failures in between, workers in threads without a lock between them |
| **Retrieval** `retrieval/` | none (the table is the corpus's) | search, fuse, filter by version and scope, rerank | retrieval cache, corpus | ranking and filters over metadata that is kept twice |
| **Citations** `retrieval/citations.py`, `sibling_expansion.py`, `nodes/validation.py`, `guardrails/output_guard.py` | markers in the draft's sentences, the extracts they name | place a clause, fall back on the writer's, append siblings, check | the two evidence nodes, validator, repair, reviewer | placing, two checks and a repair read the same sentences by different rules |
| **Records path** `sqlpath/`, `guardrails/sql_guard.py` | none | match or select a template, generate a query, check, scope, execute, disclose | RBAC scopes | the scope of a role must hold for every shape of statement, counts included |
| **Guardrails** `guardrails/` | none | verdicts on a question, an answer or SQL | nodes | text matching |
| **Model routing** `llm_routing/`, `configs/llms.py` | cost ledger, completion cache | pick a tier, reuse a completion, record a cost | every model call | one cache for all requests and both tiers; counters under threads |
| **Audit log** `core/audit.py` | a circuit: failures, opening time, skipped rows | write, suspend, resume | every node, several threads | a circuit breaker with racing threads |
| **Conversation** `core/conversation.py` | turns and one summary per thread | record, load, summarise in the background | `/ask`, `/review` | read, call a model, write back |
| **Web client** `frontend/src` | conversations, messages, what is busy | ask, reveal, check a status, poll the scores, store, reload | the API | many tasks of one page over one set of fields |
| **Authentication, prompts, observability, evaluation, tools** | — | — | — | libraries, text, reporting, retired paths |

What makes each correct:

* *Ask graph*: no answer leaves with a reason for a person standing; such a reason is never undone;
  every run ends, with an outcome or an exception, within its repair bound and LangGraph's recursion
  limit; stages touch only granted sources; the evidence a repair leaves fits the route that runs next.
* *Review queue*: one reviewer owns a request at a time; a release or a rejection is final; the
  asker is shown only what was released; a request does not get stuck.
* *Caches*: an answer reaches only a call of the same scope and the same or a near question, or is
  replayed to the same user for the same header or body; another user's only when it is certified; how
  old a corpus an answer can rest on is bounded.
* *Corpus*: a document type has one current version; no type vanishes; two embedding models never
  meet in the table; the BM25 copy is the table; a start makes good what a failure left.
* *Citations*: a released claim of a policy answer names a clause that was retrieved for it; what the
  validator has passed the guardrail does not refuse.
* *Records path*: no row outside the caller's scope is read through a reference that the table check
  or the CTE in front catches, and no partial figure is given without its caveat.
* *Routing, ledger, audit, conversation*: the tier a High-risk answer is written by; no usage lost;
  an outage holds up a bounded number of rows; a summary refreshed by one task at a time does not fall
  behind.
* *Chat page*: a finished message shows its own text in whole; a follow-up goes to the thread it
  belongs to; the page never stays busy.

`PROJECT.json` lists every component with its status, and under `hazards` each behaviour above at
the line where it bites, with the properties that would catch it going wrong.

## 2. Modules

| Module | Models | Uses |
|---|---|---|
| `PathPolicy` | the rule table, `resolve_path`, `degrade_for_budget`, the stages of a route | |
| `AskWorkflow` | one run of the compiled graph | EXTENDS `PathPolicy`; implements `ReleaseContract` |
| `ReleaseContract` | what a run promises whoever asked (abstract specification) | |
| `ReviewQueue` | one escalated request: row, checkpoint, submissions, polls, restarts | |
| `AnswerCache` | the caches in front of the graph, against a changing corpus | |
| `Corpus` | the vector table, its versions and its copy in memory, with those who write and search it | |
| `CitedAnswer` | how the sentences of one answer come by their clauses, and who checks them | |
| `RecordsPath` | one question put to the compliance database | |
| `ModelRouting` | which tier a node's call goes to, which calls may use the completion cache | |
| `CostLedger` | the per-request rows of the ledger | |
| `Bookkeeping` | calls, ledger, audit circuit and thread summary of concurrent requests | EXTENDS `ModelRouting`; INSTANCE `CostLedger` |
| `ServedRequests` | the server as a page sees it (abstract) | implemented by `ReviewQueue` |
| `ChatPage` | the chat page and the conversations it stores | EXTENDS `ServedRequests` |
| `MC*` + `.cfg` | instances for TLC | |
| `*Proofs` | theorems | EXTEND the module they are about |

### AskWorkflow

`node` is the node that runs next, `st` the fields of `AgentState` the control flow reads, `now` the
clock since the request began, `req` what the role is granted and whether the question asks for a
person (`handoff.wants_human`), `steps` LangGraph's superstep count. One action is one node: the
guard of `traced_node` (`Allowed`), then the node's body as a set of states it may leave (`Runs`),
then the conditional edge on the state it leaves. Time passes inside a node: it is admitted at `now`
and ends at any later clock, and `after_validation` reads the later one. What a model, the index or
the database answers is a free choice among the values the code tells apart; a call that nothing
catches is `Raise`.

Data is abstracted to what edges and nodes compare: `clauses` is "none", "unmatched" (retrieved, but
no clause matched the question) or "matched"; `rows` whether there is SQL evidence; `confident` on
which side of the threshold the score lies; `missing` is `not_found_reason`. Medium risk is routed
like Low and is folded into it. The verdict's possibilities depend on the evidence as in
`_deterministic_defects` and the model's verdict on it: see `Judgements`.

Left out: the exotic case of a caller-supplied `budget`; a reviewer's `update_state`, which is
`ReviewQueue`'s; the parallel fetch of intent and risk, whose results the two nodes read in order
all the same; the panel's agents, which run at once in the code and as one node here; the retired
agentic path, which every clamp maps to another route (`EvidencePaths` keeps the value, so that a
model may still propose it).

### ReviewQueue

The run's last node is two steps (`Enqueue`, `Interrupt`), because the row is visible before the
e-mail is sent and before LangGraph saves the checkpoint. A submission is a thread with a program
counter; one action is the code between two accesses to shared state: fetch, release check,
`record_decision`, `update_state`, `invoke`, then `store_released_answer` or `reopen`. `ckpt` is where
the request's checkpoint stands, and `Updated` is what `update_state` makes of it, which evaluates the
edge of the last node again on the new state. `Restart` removes the threads, cuts the run off and,
with the in-memory checkpointer, the checkpoint. "accept" stands for accept and edit, which differ
only in the text.

### AnswerCache

An ask is a thread: `Begin` (idempotency store), `Lookup` (response cache), `Retrieve`,
`StoreChunks` (retrieval cache), `StoreKey`, `StoreAnswer`, `Reply`. A call is what the caller sends (the
body and the header), what the token says (the user and what the role grants) and whether the thread
has a history. `BuildKey` is made of the user and the header, or the user and the body; `Scope`, the key
of the other two caches, of the grants and the documents asked for. So a call may be replayed what its
user was told under an earlier role, and `AnswersFitTheirCall` says no more than that: an answer that is
not a replay suits the call's own scope and question, and a replay suits a call of the same key that has
begun. The administrator changes the
corpus (`ChangeCorpus`, once or twice: `insert_nodes`, then `supersede_previous_versions`) and then
clears response and retrieval cache in two steps, or fails before. Ages replace time stamps: `Tick`
makes everything one older, and no call outlives `MaxAge`. `raced` is a ghost variable: a call
overlapped a change, or a change was never followed up. The run of the graph is one retrieval and one
result. One administrator at a time; the completion cache is in `Bookkeeping`: its key contains the
whole prompt, chunks included, so it ages with them. `MCAnswerCache!MCSpec` bounds what the calls of one
run have in common; see the bounds below.

### CitedAnswer

A sentence is what the regular expressions make of it: a kind (a claim, a report of rows, a gap, a
closing phrase, a courtesy), what it says, and the clauses its markers name. A clause is an extract or a
heading inside one, with the words it shares with a statement and whether it contradicts it. `Placed`
is `cite_uncited_sentences` with its two passes, its tie-breaks and its thresholds, `WithFallback` the
two callers' use of `with_inline_citations`, `Completed` is `append_sibling_clauses`. The actions are
the nodes an answer goes through: `RagPath`, `Nl2sqlPath`, the validator's two verdicts, `Reflection`
onto whichever route the planner then takes, `ConfidenceScoring`, `Review`, `OutputGuardrail`. What is
not about citations is left open: the search may find any extracts, the writer may return any draft,
the validator and the guardrail may object to something else. `ValidationPasses` has no such freedom:
it needs the deterministic checks to find nothing. Only policy and hybrid answers are in it: the
records route cites no clause, and the panel writes its own. A question without a request for a person
and one with it are told apart, because the second is answered even over no evidence.

### Corpus

The bootstrap of the lifespan and the administrators' uploads and rebuilds are workers
(`asyncio.to_thread`), a worker's action is the code between two accesses to the database: the
truncate of a rebuild, the probe of the `embed_model` stamps, the probe of the file's hash, the
insert, the UPDATE that supersedes. Each may fail as the code lets it (a probe fails open, a failed
UPDATE is logged and forgotten, a failed document is passed over). A search that finds no copy of the
corpus reads the table and assigns the copy later. `Crash` restarts the process, perhaps with another
embedding model. A row stands for the chunks of one document with the metadata the code compares;
`IsCurrent` is the field a rebuilt node carries, which is not the column the UPDATE writes.
`effective_date` and the retriever that lets a model write filters are left out.

### RecordsPath

One question is one behaviour: `Guard`, `Match`, `Classify`, `Select`, `Generate`, `Gate`, `Scope`,
`Execute`, in the order of `run_vetted_sql`. A statement is a record of what the checks compare and of
what decides the rows PostgreSQL reads: its references to relations, the names its own WITH defines,
whether it counts. A reference has a plain name or one with a schema, and is seen or not by
`referenced_tables`, whose scan breaks off at the condition of a join and does not know the TABLE
command; "other" stands for every relation that is no compliance table. `ReadFrom` is the effect of
`scope_statement`: PostgreSQL takes a plain name for the CTE in front before it takes it for the table,
but a name with a schema is the table. What no CTE stands for and the table check misses, or takes for a
name the statement defines, `Escapes`: `ReadsAreScoped` and `SecondLineIsIdle` are about the rest, and the
run `records_hidden` shows what a reference that escapes may read. The rows are those of a
small database with vendors in four bands. A generated statement's own smaller LIMIT is left out.

### ModelRouting, CostLedger and Bookkeeping

`RouteTier` is `route_tier` with `assess_complexity` under every strategy, and the fixed table behind
`model_for`. `CostLedger` is the ordered dict of a request's usages with its eviction; prices and the
process totals are sums over it and left out. `Bookkeeping` runs requests side by side and gives each
the accesses to what they share: a call is looked up in the completion cache, answered and billed in
two steps; an audit row is admitted by `should_attempt` and written or not in another; the background
tasks of the response append the turns and then count, read, summarise and save. `Outage` and
`Recovery` are PostgreSQL's. Left out: the completion cache's expiry and eviction; the hand-picked
`turn_count` column, which nothing reads; a thread longer than `summary_input_turns`.

### ServedRequests and ChatPage

`ServedRequests` abstracts `AskWorkflow` and `ReviewQueue` to what `POST /ask` and `GET /requests/{id}`
return, the latter only as far as the page tells its replies apart: an answer or none. An answer is
given out from `record_decision` on, and may be taken back by `reopen` (`Reopen`) after a page has shown
it. `ReviewQueue` implements these steps, which is proved (section 4). In `ChatPage` an action is what
runs between two awaits of `ChatPage.tsx`, with the effects React runs after it: `Send` and `Returned`,
`Check` and `Checked`, the pieces of `streamText`, the polls of `fetchQuality`, and the conversations
that are begun, selected, deleted and kept by `saveThreads`. A button is pressed only while the page
enables it. `Reload` loses every task and reads back what was stored. Not-found answers are answers;
what only colours the display is left out.

## 3. Runs

| Run | Module, cfg | Question |
|---|---|---|
| `ask_workflow` | `MCAskWorkflow` | all properties of the graph: what may be released, what a repair leaves, the refinement of `ReleaseContract`, and that every run ends and every request that needs a reviewer reaches one |
| `review_queue` | `ReviewQueue`, `MCReviewQueue` | three racing reviewers, faults, refusals and a restart; an undisturbed request is decided for good |
| `review_shown` | `ReviewQueue`, `MCReviewShown` | *violation*: is a poll ever shown the unreleased text |
| `review_reopened` | `ReviewQueue`, `MCReviewReopened` | *violation*: can a reopened request still be released |
| `answer_caches` | `MCAnswerCache` | how old may the corpus of an answer be, and whose answer may a call be given |
| `cited_answer` | `MCCitedAnswer` | is every released claim cited, and do validator and guardrail agree |
| `corpus` | `MCCorpus` | workers, a search, faults, a crash: which versions are current, what the copy holds, what a start makes good |
| `corpus_superseded` | `MCCorpus`, `MCCorpusSuperseded` | *violation*: does superseding keep the old version out of the retrieval |
| `records` | `MCRecordsPath` | is every row read within the scope, unless its reference escapes both lines, and every partial figure disclosed |
| `records_hidden` | `MCRecordsPath`, `MCRecordsHidden` | *violation*: does a table that was never granted read as empty, however a statement names it |
| `bookkeeping` | `MCBookkeeping` | which tier answers; ledger, circuit and summary under concurrent requests |
| `chat_page` | `ChatPage`, `MCChatPage` | what a finished message shows, which thread a follow-up goes to, whether the page is always freed |

The passing runs are exhaustive: 241 448 distinct states (`ask_workflow`), 97 924 (`review_queue`),
4 039 445 (`answer_caches`), 549 760 (`cited_answer`), 655 090 (`corpus`), 1 239 260 (`records`),
6 844 318 (`bookkeeping`) and 174 046 (`chat_page`).

### Bounds

*ask_workflow* uses the default settings on a scaled clock. For the code only the order of the clock
and the thresholds of the deadline in force matters: for a deadline d, the instants d - 8 s
(`repair_headroom_seconds`), d - 2 s (`hybrid_min_seconds`), d - 1 s (the reranker's), d and, unless
the risk is High, d + 15 s (`validation_grace_seconds`). The model has d = 4, 6 and 11 for 30, 45 and
90 s, with 3, 2, 1 and 4 for 8, 2, 1 and 15 s, so these instants stand in the code's order for each
deadline, and there is a clock value in every interval between them and one before the first. Across
two deadlines, which meet only when one is widened into another, the clock has values at which the
old one is past and the new one has its headroom, only less than it, and nothing left.
`MaxElapsed` = 11 is past the longest deadline; at it every node is refused, so that a later clock adds
nothing. Tokens are the real budget (16 000) and estimates in hundreds, and the costs charged by the
nodes are the constants of their code. 16 000 is the default and the least the settings admit
(`MINIMUM_TOKEN_BUDGET`, `configs/settings.py:17`). With it the second repair of a hybrid answer never
fits (`OneRepairFits`); with the 24 000 that `.env.example:75` ships it does, and `OneRepairFits` is a
statement about the default, not about every deployment. The proofs about the loop hold for any budget.

*review_queue*: three submissions, so that one may record while a second waits and a third comes
after a reopen; two refusals; one restart. *answer_caches*: three calls out of six: the first, one of
another user with the same role and body, the first again once the role has changed or once the
conversation has gone on, one with a near question, and one under a header that opts out of the cache;
caches of one entry, so that evictions happen, and TTLs of 1. Either all three ask one question, of a
corpus that changes and ages; or they are to be told apart, over a corpus and a clock that stand still
(`MCSpec`): who is given whose answer does not depend on ages, and how old an answer is does not depend
on who asked. The bound of `RepliesAreRecent` adds three TTLs and four calls, so three calls come
within one of it; that it holds for more is proved. *cited_answer*: four extracts, one of them a whole
document with two headings inside, one without a number, two of one section, and a numbered list that
is no heading; five statements, so that a clause fits alone, fits and contradicts, ties with an
unrelated one, ties with a relative, or does not fit; every draft of up to two sentences; one repair.
*corpus*: two
versions of one type beside another type, the bootstrap and two administrators' tasks, one search,
two embedding models, one fault and one crash: two versions can be ingested at once, and a fault or a
crash falls between any two steps. *records*: a vendor in each band, two departments, the three kinds
of role with and without a department, a table that is not of the compliance set, and generated
statements that join at most one more reference, seen or not, with or without a schema, and define at
most one name; a limit of two rows, so that a result is below, at and above it. *records_hidden* takes of
these statements the ones with an ordinary FROM and no WITH. *bookkeeping*: two requests of
one thread beside other traffic, a node of each routing class, two ledger rows for three callers,
three calls, three audit rows, one outage; a failure threshold of 1 and a summary after 2 turns, so
that both boundaries are crossed. *chat_page*: two questions, conversations and checks, texts of two
pieces, two polls, one conversation kept, so that a reload can lose the one a question came from.

Deadlock checking is off where the modelled run ends (the graph at END; reviewers who have decided; an
answer released, refused or rejected; a statement executed; requests that are done; a page with all questions asked).

### Fairness

`AskWorkflow!FairSpec` is weak fairness of `Next`: the request's own thread runs the graph to its
end, and every model call has a timeout and a retry limit (`llm_timeout_seconds`,
`llm_max_retries`), so a node that can run does run. `ReviewQueue!FairSpec` is weak fairness of the
run's last node and of a started handler, and strong fairness of `Fetch`: reviewers who again and
again see the request in the queue try to decide it. `Corpus!FairSpec`: a worker's thread that has
begun runs on; nobody has to upload or to search. `ChatPage!Spec`: the server answers every call, and
the browser delivers every answer and runs every timer of a page that stays open; no user has to press
a button, and one who reloads for ever may keep the scores from arriving (`NothingStaysBusy` says so).
The caches, the cited answer, the records path and the bookkeeping have safety properties only.

### Findings

The four violation runs each contradict a line of the repository; `PROJECT.json` quotes it.

1. `review_shown`: between `record_decision` and `store_released_answer` (or `reopen`, or for ever
   after a crash) a poll returns the answer as submitted, before the output guardrail has seen it. A
   chat page that polled then shows it as the released answer from then on, even if it is reopened.
2. `review_reopened`: a request the graph's guardrail refused once can be accepted again and again
   and is never released: `update_state` after `output_guardrail` leads to END, not back to the
   guardrail.
3. `records_hidden`: a table the role was never granted "reads as empty, even if a comma join slipped
   it past the table check" (`sqlpath/scoping.py:140`), because a CTE of its name stands in front. A name
   with a schema skips the CTE, and the check that should refuse it does not look behind the condition
   of a join (`guardrails/sql_guard.py:259-273`).
4. `corpus_superseded`: the UPDATE that supersedes a version changes the columns of the table; the
   filter of a search reads the serialised node, in which the old version is still current.

### Known divergences without a run of their own

Met while modelling; the models behave as the code does.

* A search that overlaps an ingestion puts chunks of the old corpus back after the invalidation
  (`retrieval/hybrid_search.py:114`; `cache/retrieval_cache.py:15` says entries are dropped when the
  corpus changes). `raced` in `AnswerCache` excepts it, and `RepliesAreRecent` bounds its effect.
* A keyed retry during its first attempt runs the graph again (`api/routes.py:541` against
  `README.md:1875`): the store is written after the run, and nothing marks a run in progress.
* A used `Idempotency-Key` with another body replays the first answer (`core/idempotency.py:60` keys by
  user and header; `README.md:1876`, and `tests/test_api_routes.py:666` repeats an identical body).
* A call without a header is keyed by user and body (`core/idempotency.py:63`), and the store is read
  before any scope is computed: a user whose role or departments have changed is replayed what the old
  ones were told, for up to 900 s. `cache/response_cache.py:5` keeps callers of different scopes apart;
  `AnswersFitTheirCall` says how far the replay goes beyond it.
* A claim that permits what a clause prohibits is left bare by the placing and then given that very
  clause by the fallback, if the writer listed it (`nodes/rag_path.py:177` against
  `retrieval/citations.py:440`). `PlacedClausesAreBacked` is about the placing.
* Two refreshes of one thread's summary may overlap, and the older one may be written last
  (`core/conversation.py:153`). `SummaryIsCurrent` excepts overlapping and failed refreshes.
* An appended sibling clause has one marker behind its last sentence (`retrieval/sibling_expansion.py:172`),
  so that a clause of several sentences leaves bare ones, and the validator's check of every sentence
  (`nodes/validation.py:187`) sends the answer back.
* A closing phrase of `COURTESY_PREFIXES` is no claim to the validator and substantive to the guardrail:
  an answer of nothing else passes the one and is refused by the other. `ValidatedClaimsPassTheGuard` is
  about answers that claim something.
* The summary's model calls, those of the evaluation and those of the index library are not billed:
  the ledger's "what the provider actually billed" is that of the nodes.
* A client's own `X-Request-ID` is taken over (`main.py:54`), so two requests may share a checkpoint,
  a queue row and a ledger row. The models give each request an id of its own.
* The audit's "recovered after N skipped rows" is never logged once a cooldown has passed, because
  the count is reset before the write (`core/audit.py:48`).
* `rbac.is_department_restricted` is called by nobody: departments come from the token alone.
* A template that takes no vendor is used although the question names one; the answer is then over
  all vendors of the scope. `FiguresAreDisclosed` is about the statement that ran.
* `frontend/README.md:128` says a 202 is polled every six seconds; the page asks only on a click.
* `frontend/src/threadStore.ts:48` says half-streamed states are not kept; what had been revealed is
  kept, as a finished message. `disturbed` in `ChatPage` excepts it.
* A check that ends frees the button of another message's check as well, so that a message can be
  checked twice at once (`ChatPage.tsx:134` says "one request"); again `disturbed`.

## 4. Proofs

Eight modules hold theorems, with no assumption beyond the named `ASSUME`s of the modules, which TLC
evaluates on every run.

`AskWorkflowProofs` begins with the policy. Its decision is granted (`DecisionIsGranted`): for every intent,
proposal and grant with some source, a settled route needs only granted sources, and is the panel's
exactly for High risk. The assumption that the role has *some* source is needed: the gate that falls
back to the other half does not look whether that one is granted.

What follows about the graph needs only that deadlines, headrooms, budget and limits are natural numbers. The
properties are not inductive as they stand: `ReleasedOnlyWhenCleared` speaks of the last state, but
what makes it true was decided up to six nodes earlier. The invariant `Control` says, node by node,
what is already settled there:

* `RouteIsGranted`: the route in the state needs only granted sources, the panel's route and the
  panel's split occur only with High risk, and a node of a stage is on such a route;
* `NothingStands`: at the stages, the validator, the repair and the scoring nothing has been refused
  and no reason is set; at `no_answer` and `output_guardrail` no reason for a person stands at all,
  and at the latter the answer is certified;
* `VerdictFits`: the verdict is empty until the validator ran, failed at the repair (which empties
  it), passed at the scoring;
* `RepairIsAffordable`: at the repair an attempt, the headroom and the tokens for the node are
  left, so that with a positive headroom the guard never refuses it;
* `Bounded`: the superstep count is bounded by the longest way to the node plus six per repair.

There is one lemma per node; lemmas shared by the nodes before the planner, by the stages, by those
that leave for a final node and by the closing nodes keep them short. `StepKeeps` gathers them, and
the theorems follow: types, release, honest reply, grants, meters, the loop bound (with the
assumption `RepairHeadroom > 0`: with zero a repair may be entered exactly at the deadline, refused,
and its attempt not counted) and the refinement of `ReleaseContract`.

A second invariant, `Evidence`, stands on `Control`: what each node finds of `clauses`, `rows`, `draft`,
`path` and `not_found_reason`. Until the run leaves for a reply or a person, no "nothing found" stands
(`missing` is "none"). The planner never finds a clause, and finds rows only together with the plan they
were gathered under (`Carried`), because a repair that keeps rows keeps the plan too. `RouteFits` then
holds of whatever the policy decides: a records route has no clauses, and rows on the policy route are
there only because a kept plan was turned into a degraded one. A stage runs only on a route that has it,
and the last stage of every route writes the draft that the validator finds, on the path that is the
current route. `DraftedForTheValidator` and `EvidenceFits` follow, for any settings and any number of
repairs.

A third, `Meter`, is about tokens. It gives each node the least and the most that can have been spent
when it is reached, for the first pass, and for a repair how much less than the budget is gone, since
`after_validation` let it begin only with the estimate of its route left. The costs differ by route, and
a degraded plan costs what its new route does, which is why it needs `Control` and `Evidence`.
`TokensSuffice`: no node that may be refused is ever short of tokens, for every budget of at least
15 200 (the settings admit none below 16 000) and any limits on repairs. The case that nearly fails is a
records answer: its repair is let in with an estimate of 5 400, less than another route costs. What keeps
it there is that the reflection hands the plan back and the policy does not change it
(`StandingRecordsPlan`: the planner asked for tables, and the intent allows the route), so that the small
estimate is that of the route taken. `SecondRepairNeverFits`: for budgets from 15 200 to 16 500, which
include the default, and at most one repair of a policy or a records answer, no answer is repaired twice.

`ReviewQueueProofs`: for any finite number of submissions, refusals and restarts. `OneOwner` is the
heart: the submission that won the UPDATE is alone between that and its last UPDATE. `IInv` joins it
with the row's consistency and with the count of releases, which `ReleasedAtMostOnce` needs.
`ImplementsServed` maps the run and the row to the reply and the answer that `ServedRequests` shows the
page, and every step to one of its steps or a stutter. The mapping says what the page can know: nothing
before the reply, and a call cut off by a restart has failed. The theorem is why `Reopen` is there: with a
release that is final, as the row's is, the step that puts an accepted row back maps to nothing.

`AnswerCacheProofs` proves every invariant of the cache run, for any calls, settings and number of
versions. `AnswersFit` and `OnlyCertifiedIsShared`, which has the 202 that only its key replays, rest on what an entry of each
cache, and a call that has found or made a result, may hold: in the response cache, what suits the
entry's own scope; under a key, what some call of that key was entitled to (`Earned`), which need not be
the call it is replayed to. `InvalidationClears` follows chunks and
answers step by step through the two clears. `RepliesStayRecent` is the one with arithmetic: an
administrator's change dates the corpus, a chunk list that is live was replaced at most `MaxAge` plus
its age ago, and each further cache adds its TTL and one call. It assumes `PositiveTTLs`: an entry
whose TTL is zero is as old as it may be when it is written.

`CitedAnswerProofs`: for any documents, statements, drafts, edits and limits. Three theorems are about the
operators. `PlacedClausesAreBacked`: a clause is put on a sentence only when it was retrieved, can be
named, shares enough words and does not contradict it, and whatever does as well is its relative or was
not named by the writer. `FinishedAdds`: what placing, fallback and sibling clauses make of a draft keeps
its sentences, in order, and adds only markers of retrieved extracts, or in their own text.
`SiblingsAreCited`: siblings no more than may be appended are all in the answer, with their markers. The
text of the siblings is the flattening of a sequence of any length, a recursion over data: its lemmas
need induction, and the library's theorem takes an operator, so `SetInduction` proves it for a *set* of
numbers from the well-foundedness of < on Nat. `DraftsAreFaithful` carries `FinishedAdds` through any
number of repairs: until a reviewer edits it, the answer is the last writer's, over the extracts in hand.
`ReleasedAreCited` and `ValidatedPass` rest on the invariant `Vetted`: who passed the validator is still
passed when the score and the guardrail are reached, over the same extracts, and a policy answer that
nobody asked a person for has extracts.

`CorpusProofs`: for any files, workers, models and faults. `VersionsSettle` and `NoneWithdrawn` need
to know that a worker about to supersede has its own row current, unless a rival overlapped it;
`ModelsNeverMeet` needs that a worker past its check runs over a table of the process's own model, so
it holds of the workers rather than of the table; `CopyIsComplete` needs that what a search has read is
the table, unless a write raced it.

`RecordsPathProofs`: for every database, catalogue, set of grants and of generated statements. The
theorems about the scope rest on two facts: a compliance table named plainly is read through a CTE that
keeps only owned rows, or is granted and needs none; and any other name that the table check sees is
refused, unless the statement defines it. They claim nothing of a reference that escapes both
(`Escapes`). All rest on the assumption `GrantAssumption`: an empty list of bands means every band to `risk_filter`, so a role that
reads a table must have one.

`BookkeepingProofs`: for any number of requests. `TierHolds` needs that a stored completion came from
the deployment in its key; `OutageHolds` that a request that is writing was admitted below the
threshold; `SummaryHolds` an account of the one refresh that is not excused. `LedgerHolds`: the row of a
request is in the ledger, with every usage the request was billed, unless as many others as the ledger
has rows were billed since. `LedgerInv` says where it stands: every row behind it is of a caller that was
billed since, and rows have distinct callers, so a ledger that is full without it has as many such
callers as rows (the pigeonhole, `FullLedgerHasManyCallers`).

`ChatPageProofs`: for any number of questions, conversations, checks and pieces. `MessagesAreWhole` needs
to know of every task which message it reveals, which text, and how far: a message that streams has
exactly the pieces up to the task's next one, unless it was `disturbed`. `OneThreadHolds` needs that a
question goes out under the thread its conversation had, and that a thread is set by the first reply.

Only model-checked is liveness (`EventuallyEnds`, `HighRiskReachesAReviewer`,
`HumanRequestReachesAReviewer`, `EventuallySettled`, `StartRepairs`, `NothingStaysBusy`), which is out of
the prover's reach. Every safety property of a passing run is a theorem.

## 5. Not modelled

Besides the components marked so in `PROJECT.json`:

* *Document parsing and chunking, figure grounding, guardrails on text, prompts*: what they
  compute is text over text; their verdicts are the free choices of the models above.
* *Retrieval's ranking*: fusion, reranking and which siblings are fetched are arithmetic over scores.
* *Authentication, observability, evaluation, seed data*: libraries and reports; they change nothing
  of what is modelled.
* *Agent tools and the MCP server*: no route of the graph reaches them any more.
* *The review console and the dashboards* of the web client: each is a call and what it shows. A
  package or an outcome that arrives late is shown although another request has been opened meanwhile
  (`ReviewPage.tsx:76`); the server decides by request id all the same.
* Two server processes (the idempotency store, the caches, the ledger and the circuit are per
  process); two administrators at once in `AnswerCache` (they are in `Corpus`); the failed fork
  LangGraph leaves when a node raises in the middle of a resumed run; the size limit of the
  idempotency store; the operators' reset of the ledger.

## 6. Plan

Done: the graph with its policy and contract, the review queue, the caches, the corpus, the cited
answer, the records path, routing with ledger, audit and conversation, the chat page over an abstract
server; and a theorem for each safety property. Left, in this order:

1. `AnswerCache` against `ServedRequests`: a 202 kept under a key is replayed to a page that asks again,
   while the review it announced goes on.
2. What the writer of a records draft is shown of the rows that `ReadsAreScoped` speaks of: the prompt,
   and the figures taken from it.
