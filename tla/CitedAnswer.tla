----------------------------- MODULE CitedAnswer -----------------------------
(***************************************************************************)
(* How the sentences of one policy or hybrid answer come by their clauses: *)
(* what the writer is given (rag_path, nl2sql_path), the clauses that are  *)
(* placed on the sentences it left bare (retrieval/citations.py), the      *)
(* sibling clauses that are appended (retrieval/sibling_expansion.py), the *)
(* deterministic checks of nodes/validation.py, the repairs, the review    *)
(* and the output guardrail (guardrails/output_guard.py).                  *)
(*                                                                         *)
(* A sentence is what the regular expressions make of it: its kind, what   *)
(* it says, and the clauses its markers name.  A clause is a numbered      *)
(* section or a numbered heading inside one, an extract the clause whose   *)
(* whole text was retrieved.                                               *)
(***************************************************************************)
EXTENDS Naturals, FiniteSets, Sequences, SequencesExt

CONSTANTS
    Clauses,        \* what the documents number
    Extracts,       \* those that are extracts of the index, named by their own clause
    Home,           \* Home[c]: the extract whose text has the clause
    Document,       \* Document[c]: its title
    Number,         \* Number[c]: <<4, 1>> for 4.1, <<>> for an extract without a number
    Whole,          \* extracts that are a whole document ("General 1")
    Contained,      \* Contained[c]: the clauses whose citation has the text of c's in it
    Statements,     \* what a sentence may say
    Width,          \* Width[s]: its content words
    Shared,         \* Shared[s][c]: how many of them the clause has
    Consistent,     \* Consistent[s]: clauses that neither say the opposite nor lack a figure
    Body,           \* Body[e]: the sentences of an extract
    Drafts,         \* what the writer may return
    Edits,          \* what a reviewer may write instead
    MaxSiblings,    \* max_sibling_clauses
    MaxRepairs,     \* max_reflection_retries
    NoClause

\* A record sentence reports rows, a gap what the evidence leaves open.  A closing
\* is a phrase only the claim check knows (COURTESY_PREFIXES), a courtesy one the
\* guardrail knows, too (NON_CLAIM_PREFIXES, or too short).
Kinds == {"claim", "record", "gap", "closing", "courtesy"}
Sentences == [kind : Kinds, says : Statements, marks : SUBSET Clauses]

ASSUME ClauseAssumption ==
    Extracts \subseteq Clauses /\ IsFiniteSet(Clauses) /\ NoClause \notin Clauses
ASSUME HomeAssumption ==
    Home \in [Clauses -> Extracts] /\ \A e \in Extracts : Home[e] = e
ASSUME NumberAssumption ==
    Number \in [Clauses -> Seq(Nat)] /\ DOMAIN Document = Clauses /\ Whole \subseteq Extracts
ASSUME TextAssumption ==
    /\ Contained \in [Clauses -> SUBSET Clauses]
    /\ Statements # {} /\ Width \in [Statements -> Nat]
    /\ Shared \in [Statements -> [Clauses -> Nat]]
    /\ Consistent \in [Statements -> SUBSET Clauses]
    /\ Body \in [Extracts -> Seq(Sentences)]
ASSUME DraftAssumption ==
    \A d \in Drafts : /\ d.answer \in Seq(Sentences)
                      /\ d.cited \subseteq Clauses
                      /\ d.found \in BOOLEAN
ASSUME EditAssumption == Edits \subseteq Seq(Sentences)
ASSUME BoundAssumption == MaxSiblings \in Nat /\ MaxRepairs \in Nat

VARIABLES
    node,       \* the node that runs next, or how the run ended
    route,      \* the route in force: "rag" or "hybrid"
    human,      \* the user asked for a person
    chunks,     \* retrieved_chunks
    rows,       \* there is SQL evidence
    written,    \* the answer as the writer wrote it
    answer,     \* the answer of the draft
    repairs,    \* reflection_count
    reviewed    \* reviewer_decision is accept or edit
vars == <<node, route, human, chunks, rows, written, answer, repairs, reviewed>>

Routes == {"rag", "hybrid"}

Init ==
    /\ node = "rag_path"
    /\ route \in Routes
    /\ human \in BOOLEAN
    /\ chunks = {} /\ rows = FALSE
    /\ written = <<>> /\ answer = <<>>
    /\ repairs = 0
    /\ reviewed = FALSE
-----------------------------------------------------------------------------
(* What may be cited. *)

\* A heading inside an extract counts when it is numbered below the extract's own
\* number, or when the extract is a whole document; a numbered list does not.
IsHeading(c) ==
    \/ Home[c] \in Whole
    \/ Number[Home[c]] # <<>> /\ IsStrictPrefix(Number[Home[c]], Number[c])

\* citable_clauses
Citable(found) == {c \in Clauses : Home[c] \in found /\ (c \in Extracts \/ IsHeading(c))}

\* An extract without a number is cited by its title, which is not a marker.
Marker(c) == Number[c] # <<>>

Marks(text) == UNION {text[i].marks : i \in DOMAIN text}

\* uncited_sentences.  On a hybrid answer the placing leaves out the sentences
\* that report rows.
IsBare(s, skipRecords) ==
    /\ s.marks = {}
    /\ s.kind \in IF skipRecords THEN {"claim"} ELSE {"claim", "record"}
-----------------------------------------------------------------------------
(* The clause that supports a sentence: cite_uncited_sentences. *)

MinShared == 2

\* _same_clause_family: one clause, a clause and one inside it, or one document whole.
SameFamily(c, d) ==
    /\ Document[c] = Document[d]
    /\ \/ IsPrefix(Number[c], Number[d]) \/ IsPrefix(Number[d], Number[c])
       \/ Home[c] \in Whole \/ Home[d] \in Whole

\* A whole document lends its headings; its own number comes second.
IsParent(c) == c \in Whole /\ \E h \in Clauses : h # c /\ Home[h] = c

Candidates(s, found, withParents) ==
    {c \in Citable(found) :
        Shared[s][c] > 0 /\ Marker(c) /\ (withParents \/ ~IsParent(c))}

\* More words, or as many and named by the writer.
Beats(s, primary, c, d) ==
    \/ Shared[s][c] > Shared[s][d]
    \/ Shared[s][c] = Shared[s][d] /\ c \in primary /\ d \notin primary

Best(s, found, primary, withParents) ==
    LET all == Candidates(s, found, withParents)
    IN  {c \in all : \A d \in all : ~Beats(s, primary, d, c)}

\* MIN_SHARED, MIN_COVERAGE and _consistent.
Supports(s, c) ==
    /\ Shared[s][c] >= MinShared
    /\ 5 * Shared[s][c] >= 2 * Width[s]
    /\ c \in Consistent[s]

\* _placed_clause: of the best the first heading, if there is one; nothing when
\* another clause that is no relative of it is as good.
PlacedClause(s, found, primary, withParents) ==
    LET best == Best(s, found, primary, withParents)
        first == CHOOSE c \in best : c \notin Extracts \/ best \subseteq Extracts
    IN  IF best # {} /\ Supports(s, first) /\ \A d \in best : SameFamily(first, d)
        THEN first ELSE NoClause

SupportingClause ==
    [s \in Statements |-> [found \in SUBSET Extracts |-> [primary \in SUBSET Clauses |->
        LET inner == PlacedClause(s, found, primary, FALSE)
        IN  IF inner # NoClause THEN inner ELSE PlacedClause(s, found, primary, TRUE)]]]

\* cite_uncited_sentences: the clauses the writer named anywhere break ties.
Placed(text, cited, found, skipRecords) ==
    LET primary == (cited \cup Marks(text)) \cap Citable(found)
        clause  == [i \in DOMAIN text |-> SupportingClause[text[i].says][found][primary]]
    IN  [i \in DOMAIN text |->
            IF IsBare(text[i], skipRecords) /\ clause[i] # NoClause
            THEN [text[i] EXCEPT !.marks = {clause[i]}]
            ELSE text[i]]

\* with_inline_citations: the clauses the writer listed, on the last sentence.
\* An answer without a word becomes the markers alone.
Inlined(text, cited, found) ==
    LET tag == {c \in cited \cap Citable(found) : Marker(c)}
    IN  IF text # <<>>
        THEN [text EXCEPT ![Len(text)].marks = @ \cup tag]
        ELSE IF tag = {} THEN text
        ELSE <<[kind |-> "courtesy", says |-> CHOOSE s \in Statements : TRUE, marks |-> tag]>>

\* _cite_every_sentence on the policy route, draft_hybrid_answer on the other: the
\* fallback is for an answer without any marker.
WithFallback(text, cited, found) ==
    IF /\ Marks(text) = {}
       /\ route = "rag" => \E i \in DOMAIN text : IsBare(text[i], FALSE)
    THEN Inlined(text, cited, found) ELSE text
-----------------------------------------------------------------------------
(* Sibling clauses: append_sibling_clauses. *)

HasParent(c) == Len(Number[c]) > 1

SameSection(e, f) ==
    /\ HasParent(e) /\ HasParent(f)
    /\ Document[e] = Document[f]
    /\ Front(Number[e]) = Front(Number[f])
    /\ Number[e] # Number[f]

\* The citation is looked for as a text: "3.1" is mentioned where "3.10" is.
Mentioned(e, text) == Contained[e] \cap Marks(text) # {}

Siblings(text, cited, found) ==
    {e \in found : ~Mentioned(e, text) /\ \E seed \in cited \cap found : SameSection(seed, e)}

\* The body of the extract word by word, its citation behind it.
Appended(e) ==
    [i \in DOMAIN Body[e] |->
        IF i = Len(Body[e]) THEN [Body[e][i] EXCEPT !.marks = {e}] ELSE Body[e][i]]

\* In the order of the extracts, which is that of the search.
Completed(text, siblings) ==
    {text \o FlattenSeq([i \in DOMAIN order |-> Appended(order[i])]) :
        order \in {o \in SetToAllKPermutations(siblings) :
                      \/ Len(o) = MaxSiblings
                      \/ Len(o) < MaxSiblings /\ ToSet(o) = siblings}}

\* The whole of it: what may become of the answer a writer returned.  A clause that
\* was placed has its siblings added, whether or not the writer had named it elsewhere.
Finished(d, found, skipRecords) ==
    LET placed   == Placed(d.answer, d.cited, found, skipRecords)
        attached == UNION {placed[i].marks : i \in {j \in DOMAIN placed : d.answer[j].marks = {}}}
        marked   == WithFallback(placed, d.cited, found)
    IN  Completed(marked, Siblings(marked, d.cited \cup attached, found))
-----------------------------------------------------------------------------
(* The nodes. *)

\* only_names_gaps: whatever is stated is a gap, without a clause.
OnlyNamesGaps(text) ==
    LET stated == {i \in DOMAIN text :
                      text[i].kind \in {"claim", "record", "gap"} \/ text[i].marks # {}}
    IN  /\ stated # {} \/ text = <<>>
        /\ \A i \in stated : text[i].kind = "gap" /\ text[i].marks = {}

\* _writer_found_nothing
WriterFoundNothing(d, found) ==
    \/ OnlyNamesGaps(d.answer)
    \/ ~d.found /\ (d.cited \cup Marks(d.answer)) \cap Citable(found) = {}

Write(d, found, skipRecords) ==
    /\ written' = d.answer
    /\ answer' \in Finished(d, found, skipRecords)
    /\ node' = "compliance_validation"

\* The honest "I don't know", which is for nobody who asked for a person.
NotFound == ~human /\ node' = "not_found" /\ UNCHANGED <<written, answer>>

\* rag_path_node: any extracts may be found, and none of them be about the question.
\* On the hybrid route they are for the next stage to write from.
RagPath ==
    /\ node = "rag_path"
    /\ \E found \in SUBSET Extracts :
          /\ chunks' = found
          /\ \/ route = "hybrid" /\ node' = "nl2sql_path" /\ UNCHANGED <<written, answer>>
             \/ route = "rag" /\ NotFound
             \/ /\ route = "rag" /\ (found # {} \/ human)
                /\ \E d \in Drafts : IF WriterFoundNothing(d, found) /\ ~human
                                     THEN NotFound ELSE Write(d, found, FALSE)
    /\ UNCHANGED <<route, human, rows, repairs, reviewed>>

\* _reconcile_with_policy: rows that a repair kept are not queried again; without
\* rows and without an extract about the question there is nothing to write from.
Nl2sqlPath ==
    /\ node = "nl2sql_path"
    /\ rows' \in IF rows THEN {TRUE} ELSE BOOLEAN
    /\ UNCHANGED chunks
    /\ \/ ~rows' /\ NotFound
       \/ /\ rows' \/ human \/ chunks # {}
          /\ \E d \in Drafts : Write(d, chunks, TRUE)
    /\ UNCHANGED <<route, human, repairs, reviewed>>

\* Mutant: the sentences are looked at on the first pass only.
MutRagPolicyAnswer == chunks # {} /\ ~rows /\ route = "rag" /\ repairs = 0

\* _rag_policy_answer
RagPolicyAnswer == chunks # {} /\ ~rows /\ route = "rag"

\* _deterministic_defects, those that are about citations.
Defective ==
    \/ ~(Marks(answer) \subseteq Citable(chunks))
    \/ RagPolicyAnswer /\ \E i \in DOMAIN answer : IsBare(answer[i], FALSE)

\* compliance_validation_node: what else the code or the model objects to is left open.
ValidationPasses ==
    /\ node = "compliance_validation"
    /\ ~Defective
    /\ node' = "confidence_scoring"
    /\ UNCHANGED <<route, human, chunks, rows, written, answer, repairs, reviewed>>

\* ... and after_validation: a repair, a person, or "I don't know" when the search
\* found nothing about the question.
ValidationFails ==
    /\ node = "compliance_validation"
    /\ \/ repairs < MaxRepairs /\ node' = "reflection"
       \/ node' = "escalation_manager"
       \/ ~human /\ ~rows /\ node' = "not_found"
    /\ UNCHANGED <<route, human, chunks, rows, written, answer, repairs, reviewed>>

\* reflection_node: a hybrid answer keeps its rows, on whichever route the planner
\* then has the time for.
Reflection ==
    /\ node = "reflection"
    /\ node' = "rag_path"
    /\ repairs' = repairs + 1
    /\ rows' = (rows /\ route = "hybrid")
    /\ route' \in Routes
    /\ chunks' = {} /\ written' = <<>> /\ answer' = <<>>
    /\ UNCHANGED <<human, reviewed>>

\* after_confidence: a request for a person goes to one whatever the score.
ConfidenceScoring ==
    /\ node = "confidence_scoring"
    /\ \/ ~human /\ node' = "output_guardrail"
       \/ node' = "escalation_manager"
    /\ UNCHANGED <<route, human, chunks, rows, written, answer, repairs, reviewed>>

\* A reviewer accepts the answer or writes another, or rejects the request.
Review ==
    /\ node = "escalation_manager"
    /\ \/ /\ answer' \in {answer} \cup Edits
          /\ reviewed' = TRUE /\ node' = "output_guardrail"
       \/ node' = "rejected" /\ UNCHANGED <<answer, reviewed>>
    /\ UNCHANGED <<route, human, chunks, rows, written, repairs>>

\* Mutant: a heading inside an extract was not retrieved.
MutAllowed(found) == found

\* citable_citation_texts
Allowed(found) == Citable(found)

\* _substantive_sentences of the guardrail.
Substantive(text) == {i \in DOMAIN text : text[i].kind # "courtesy"}

\* run_output_guardrail, as far as it is about citations.
Refused ==
    \/ ~(Marks(answer) \subseteq Allowed(chunks))
    \/ /\ Marks(answer) = {} /\ Substantive(answer) # {}
       /\ ~(rows /\ chunks = {}) /\ ~reviewed

\* output_guardrail_node; the check for personal data may refuse any answer.
OutputGuardrail ==
    /\ node = "output_guardrail"
    /\ \/ ~Refused /\ node' = "released"
       \/ node' = IF reviewed THEN "refused" ELSE "escalation_manager"
    /\ UNCHANGED <<route, human, chunks, rows, written, answer, repairs, reviewed>>

Next ==
    \/ RagPath \/ Nl2sqlPath \/ ValidationPasses \/ ValidationFails \/ Reflection
    \/ ConfidenceScoring \/ Review \/ OutputGuardrail

Spec == Init /\ [][Next]_vars
-----------------------------------------------------------------------------
(* Properties. *)

Claims(text) == {i \in DOMAIN text : text[i].kind \in {"claim", "record"}}

\* What is released cites only what the pass that wrote it retrieved.  Nobody has to
\* have read it for this: each claim of a policy answer has a clause, however often
\* it was repaired and whichever routes the repairs took; and an answer that had
\* extracts to draw on has one clause at least.
ReleasedClaimsAreCited ==
    node = "released" =>
        /\ Marks(answer) \subseteq Citable(chunks)
        /\ ~reviewed /\ route = "rag" /\ ~rows =>
               \A i \in Claims(answer) : answer[i].marks # {}
        /\ ~reviewed /\ chunks # {} => Marks(answer) # {} \/ Substantive(answer) = {}

\* The validator and the guardrail agree: a policy answer that claims something and
\* that the validator has passed is not refused for its citations, which it once was
\* ("rejected every one of them as never retrieved", citations.py).
ValidatedClaimsPassTheGuard ==
    node = "output_guardrail" /\ ~reviewed /\ route = "rag" /\ ~rows /\ Claims(answer) # {}
        => ~Refused
=============================================================================
