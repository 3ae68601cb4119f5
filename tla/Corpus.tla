------------------------------- MODULE Corpus -------------------------------
(***************************************************************************)
(* The policy corpus: the vector table, the in-memory copy of it the BM25  *)
(* leg of a search works on (backend/src/index/vector_index.py), and those *)
(* who write it: the bootstrap at startup (ingestion/bootstrap.py) and the *)
(* administrators' POST /ingest and POST /ingest/rebuild, each in a thread *)
(* of its own (asyncio.to_thread) and without a lock between them.         *)
(*                                                                         *)
(* An action is the part of a worker between two accesses to the database. *)
(* Of a document the model keeps what the code compares: its type, its     *)
(* version and its content hash, which is the identity of the file.        *)
(***************************************************************************)
EXTENDS Naturals, FiniteSets

CONSTANTS
    Files,          \* documents, told apart by their SHA-256
    DocTypes,
    TypeOf,         \* file -> doc_type
    VersionOf,      \* file -> version
    Directory,      \* the files of POLICY_CORPUS_DIR
    Admins,         \* concurrent POST /ingest and /ingest/rebuild calls
    Boot,           \* the bootstrap thread of the lifespan
    Searchers,      \* searches that find no copy of the corpus in memory
    NoCorpus,       \* _lexical_corpus is None
    NoFile,         \* a worker that is not in ingest_file
    Models,         \* embedding models the process may be configured with
    MaxTasks, MaxFaults, MaxCrashes     \* bounds

ASSUME FileAssumption ==
    TypeOf \in [Files -> DocTypes] /\ Directory \subseteq Files
ASSUME WorkerAssumption == Boot \notin Admins
ASSUME NoneAssumption == NoFile \notin Files /\ \A copy \in SUBSET Files : copy # NoCorpus
ASSUME BoundAssumption == MaxTasks \in Nat /\ MaxFaults \in Nat /\ MaxCrashes \in Nat

VARIABLES
    active,     \* the embedding model of this process
    up,         \* the startup is over: requests are served
    table,      \* the rows of data_policy_kb
    lexical,    \* _lexical_corpus: the files it holds, or NoCorpus
    reading,    \* for each search, the rows it read and has not yet kept
    pc, file, todo, force,      \* for each worker
    tasks, faults, crashes,
    unsettled,  \* ghost: types whose last insert was not followed by its UPDATE
    overlapped, \* ghost: types on which two versions were ingested at once
    raced,      \* ghost: the table changed under a search that was reading it
    unprobed    \* ghost: a worker went on although the stamps were unreadable
store == <<active, up, table, lexical>>
work == <<pc, file, todo, force>>
ghosts == <<unsettled, overlapped, raced, unprobed>>
vars == <<store, reading, work, tasks, faults, crashes, ghosts>>

Workers == Admins \cup {Boot}
Steps == {"idle", "clear", "check", "files", "insert", "supersede"}

\* A row stands for the nodes of one document: metadata_ columns that matter.
Row(f, m, current) == [file |-> f, model |-> m, current |-> current]
Rows == [file : Files, model : Models, current : BOOLEAN]
Copies == {NoCorpus} \cup SUBSET Files
FilesOf(rows) == {r.file : r \in rows}
SameType(f, g) == TypeOf[f] = TypeOf[g]
Rival(f, g) == SameType(f, g) /\ VersionOf[f] # VersionOf[g]

Goto(w, step) == pc' = [pc EXCEPT ![w] = step]
Fault == faults < MaxFaults /\ faults' = faults + 1

\* The lifespan before the first request: run_startup_bootstrap over Directory.
Start(model) ==
    /\ active' = model
    /\ up' = FALSE
    /\ lexical' = NoCorpus
    /\ reading' = [s \in Searchers |-> NoCorpus]
    /\ pc' = [w \in Workers |-> IF w = Boot THEN "check" ELSE "idle"]
    /\ todo' = [w \in Workers |-> IF w = Boot THEN Directory ELSE {}]
    /\ file' = [w \in Workers |-> NoFile]
    /\ force' = [w \in Workers |-> FALSE]

Init ==
    /\ active \in Models
    /\ up = FALSE
    /\ table = {}
    /\ lexical = NoCorpus
    /\ reading = [s \in Searchers |-> NoCorpus]
    /\ pc = [w \in Workers |-> IF w = Boot THEN "check" ELSE "idle"]
    /\ file = [w \in Workers |-> NoFile]
    /\ todo = [w \in Workers |-> IF w = Boot THEN Directory ELSE {}]
    /\ force = [w \in Workers |-> FALSE]
    /\ tasks = 0 /\ faults = 0 /\ crashes = 0
    /\ unsettled = {} /\ overlapped = {} /\ raced = FALSE /\ unprobed = FALSE

-----------------------------------------------------------------------------
(* What an administrator starts. *)

\* POST /ingest of one file, after the checks of the upload itself.
Upload(w) ==
    /\ up /\ pc[w] = "idle" /\ tasks < MaxTasks
    /\ tasks' = tasks + 1
    /\ Goto(w, "check")
    /\ \E f \in Files : todo' = [todo EXCEPT ![w] = {f}]
    /\ \E forced \in BOOLEAN : force' = [force EXCEPT ![w] = forced]
    /\ UNCHANGED <<store, reading, file, faults, crashes, ghosts>>

\* POST /ingest/rebuild with confirm=true.
Rebuild(w) ==
    /\ up /\ pc[w] = "idle" /\ tasks < MaxTasks
    /\ tasks' = tasks + 1
    /\ Goto(w, "clear")
    /\ todo' = [todo EXCEPT ![w] = Directory]
    /\ force' = [force EXCEPT ![w] = FALSE]
    /\ UNCHANGED <<store, reading, file, faults, crashes, ghosts>>

\* clear_vector_table: TRUNCATE and reset_index; a failure ends the rebuild.
Clear(w) ==
    /\ pc[w] = "clear"
    /\ \/ /\ table' = {} /\ lexical' = NoCorpus
          /\ Goto(w, "check")
          /\ unsettled' = {} /\ unprobed' = FALSE
          /\ raced' = (\E s \in Searchers : reading[s] # NoCorpus)
          /\ UNCHANGED faults
       \/ /\ Fault /\ Goto(w, "idle")
          /\ UNCHANGED <<table, lexical, unsettled, raced, unprobed>>
    /\ UNCHANGED <<active, up, reading, file, todo, force, tasks, crashes, overlapped>>

-----------------------------------------------------------------------------
(* The pipeline: ingest_file for each file a worker has to do. *)

\* check_embed_model_compatibility; a failed probe reads as an empty table.
Compatible == \A r \in table : r.model = active

\* Mutant: "ingest only when there is nothing indexed".
MutCheck(w) ==
    /\ pc[w] = "check"
    /\ Goto(w, IF Compatible /\ (w = Boot => table = {}) THEN "files" ELSE "idle")
    /\ up' = (up \/ (w = Boot /\ pc'[w] = "idle"))
    /\ UNCHANGED <<active, table, lexical, reading, file, todo, force, tasks,
                   faults, crashes, ghosts>>

\* Mutant: nobody looks at the stamps.
MutBlindCheck(w) ==
    /\ pc[w] = "check"
    /\ Goto(w, "files")
    /\ UNCHANGED <<store, reading, file, todo, force, tasks, faults, crashes, ghosts>>

\* ingest_document (409), ingest_directory and bootstrap_corpus (an error, which
\* at startup is logged: the application starts with what there is).
Check(w) ==
    /\ pc[w] = "check"
    /\ \/ Compatible /\ Goto(w, "files") /\ UNCHANGED <<up, faults, unprobed>>
       \/ /\ ~Compatible /\ Goto(w, "idle")
          /\ up' = (up \/ w = Boot)
          /\ UNCHANGED <<faults, unprobed>>
       \/ /\ Fault /\ Goto(w, "files")
          /\ unprobed' = TRUE /\ UNCHANGED up
    /\ UNCHANGED <<active, table, lexical, reading, file, todo, force, tasks,
                   crashes, unsettled, overlapped, raced>>

\* file_hash_exists, unless force: a known file is skipped.  A probe that fails
\* says no.  The order of the files is that of their names, so any.
CheckHash(w) ==
    /\ pc[w] = "files"
    /\ \E f \in todo[w] :
          LET known == ~force[w] /\ f \in FilesOf(table)
          IN  /\ todo' = [todo EXCEPT ![w] = @ \ {f}]
              /\ \/ known /\ UNCHANGED <<pc, file, faults>>
                 \/ /\ (known /\ Fault) \/ (~known /\ UNCHANGED faults)
                    /\ Goto(w, "insert")
                    /\ file' = [file EXCEPT ![w] = f]
    /\ UNCHANGED <<store, reading, force, tasks, crashes, ghosts>>

\* Another worker has inserted a rival version and has yet to supersede ours.
Rivals(w) == {x \in Workers \ {w} : pc[x] = "supersede" /\ Rival(file[x], file[w])}

\* Mutant: the copy in memory is kept.
MutInsert(w) ==
    /\ pc[w] = "insert"
    /\ table' = table \cup {Row(file[w], active, TRUE)}
    /\ Goto(w, "supersede")
    /\ UNCHANGED <<active, up, lexical, reading, file, todo, force, tasks, faults,
                   crashes, ghosts>>

\* build_nodes and insert_nodes: the rows are committed and _lexical_corpus is
\* dropped.  A file that cannot be parsed, embedded or stored is passed over.
Insert(w) ==
    /\ pc[w] = "insert"
    /\ \/ /\ table' = table \cup {Row(file[w], active, TRUE)}
          /\ lexical' = NoCorpus
          /\ Goto(w, "supersede")
          /\ overlapped' = IF Rivals(w) # {} THEN overlapped \cup {TypeOf[file[w]]}
                           ELSE overlapped \ {TypeOf[file[w]]}
          /\ raced' = (\E s \in Searchers : reading[s] # NoCorpus)
          /\ UNCHANGED <<file, faults>>
       \/ /\ Fault /\ Goto(w, "files")
          /\ file' = [file EXCEPT ![w] = NoFile]
          /\ UNCHANGED <<table, lexical, overlapped, raced>>
    /\ UNCHANGED <<active, up, reading, todo, force, tasks, crashes,
                   unsettled, unprobed>>

\* Mutant: every row of the type, the new version's too.
MutSuperseded(f) ==
    {IF SameType(r.file, f) THEN [r EXCEPT !.current = FALSE] ELSE r : r \in table}

\* Mutant: rows of the same version, not of the others.
MutSupersededSame(f) ==
    {IF SameType(r.file, f) /\ ~Rival(r.file, f) /\ r.file # f
     THEN [r EXCEPT !.current = FALSE] ELSE r : r \in table}

\* UPDATE ... SET is_current = false WHERE doc_type = ... AND version <> ...
Superseded(f) ==
    {IF Rival(r.file, f) THEN [r EXCEPT !.current = FALSE] ELSE r : r \in table}

\* supersede_previous_versions: a failed UPDATE is logged and counted as 0 rows.
Supersede(w) ==
    LET t == TypeOf[file[w]]
    IN  /\ pc[w] = "supersede"
        /\ Goto(w, "files")
        /\ file' = [file EXCEPT ![w] = NoFile]
        /\ \/ /\ table' = Superseded(file[w])
              /\ unsettled' = unsettled \ {t}
              /\ UNCHANGED faults
           \/ /\ Fault
              /\ unsettled' = unsettled \cup {t}
              /\ UNCHANGED table
        /\ UNCHANGED <<active, up, lexical, reading, todo, force, tasks,
                       crashes, overlapped, raced, unprobed>>

\* The report is returned; after the bootstrap the application starts to serve.
Finish(w) ==
    /\ pc[w] = "files" /\ todo[w] = {}
    /\ Goto(w, "idle")
    /\ up' = (up \/ w = Boot)
    /\ UNCHANGED <<active, table, lexical, reading, file, todo, force, tasks,
                   faults, crashes, ghosts>>

Ingesting(w) ==
    Clear(w) \/ Check(w) \/ CheckHash(w) \/ Insert(w) \/ Supersede(w) \/ Finish(w)

-----------------------------------------------------------------------------
(* Searches, and the process. *)

\* load_lexical_corpus: the SELECT, and later the assignment.
Load(s) ==
    /\ up /\ lexical = NoCorpus /\ reading[s] = NoCorpus
    /\ reading' = [reading EXCEPT ![s] = FilesOf(table)]
    /\ UNCHANGED <<store, work, tasks, faults, crashes, ghosts>>

Keep(s) ==
    /\ reading[s] # NoCorpus
    /\ lexical' = reading[s]
    /\ reading' = [reading EXCEPT ![s] = NoCorpus]
    /\ UNCHANGED <<active, up, table, work, tasks, faults, crashes, ghosts>>

\* The process dies and is started again, perhaps with another embedding model.
Crash ==
    /\ crashes < MaxCrashes
    /\ crashes' = crashes + 1
    /\ \E model \in Models : Start(model)
    /\ unsettled' = unsettled \cup {TypeOf[file[w]] : w \in {x \in Workers : pc[x] = "supersede"}}
    /\ raced' = FALSE
    /\ UNCHANGED <<table, tasks, faults, overlapped, unprobed>>

Next ==
    \/ \E w \in Admins : Upload(w) \/ Rebuild(w)
    \/ \E w \in Workers : Ingesting(w)
    \/ \E s \in Searchers : Load(s) \/ Keep(s)
    \/ Crash

Spec == Init /\ [][Next]_vars

\* A thread that has begun runs on; nobody has to upload or search.
FairSpec == Spec /\ \A w \in Workers : WF_vars(Ingesting(w))

-----------------------------------------------------------------------------
(* What a search can be given. *)

\* PGVectorStore stores a node twice, in the metadata_ columns and serialised in
\* their _node_content, and builds what it returns from the latter; there,
\* is_current is what build_structural_metadata stamped at the ingestion.
IsCurrent(row) == TRUE

\* build_scope_filters: a document scope outside the grant falls back to it.
ScopeFilter(allowed, scope) ==
    LET effective == (IF scope = {} THEN allowed ELSE scope) \cap allowed
    IN  IF effective = {} THEN allowed ELSE effective

\* The vector leg, through CurrentVersionFilter.
Retrievable(allowed, scope) ==
    {r \in table : TypeOf[r.file] \in ScopeFilter(allowed, scope) /\ IsCurrent(r)}

-----------------------------------------------------------------------------
(* Properties. *)

TypeOK ==
    /\ active \in Models
    /\ up \in BOOLEAN
    /\ table \subseteq Rows
    /\ lexical \in Copies
    /\ reading \in [Searchers -> Copies]
    /\ pc \in [Workers -> Steps]
    /\ file \in [Workers -> Files \cup {NoFile}]
    /\ \A w \in Workers : pc[w] \in {"insert", "supersede"} <=> file[w] \in Files
    /\ todo \in [Workers -> SUBSET Files]
    /\ force \in [Workers -> BOOLEAN]
    /\ tasks \in Nat /\ faults \in Nat /\ crashes \in Nat
    /\ unsettled \subseteq DocTypes /\ overlapped \subseteq DocTypes
    /\ raced \in BOOLEAN /\ unprobed \in BOOLEAN

\* However the workers interleave, two versions of a document type are current
\* together only while one of them is being ingested, or once an UPDATE that
\* should have followed an insert failed or died with the process.
Superseding(t) == \E w \in Workers : pc[w] = "supersede" /\ TypeOf[file[w]] = t
OneCurrentVersion ==
    \A r, q \in table : r.current /\ q.current /\ Rival(r.file, q.file) =>
        TypeOf[r.file] \in unsettled \/ Superseding(TypeOf[r.file])

\* A document type that has rows has a current one: nothing but two versions
\* ingested at once, each superseding the other, withdraws a policy altogether.
HasRows(t) == \E r \in table : TypeOf[r.file] = t
HasCurrent(t) == \E r \in table : TypeOf[r.file] = t /\ r.current
NoTypeIsWithdrawn == \A t \in DocTypes \ overlapped : HasRows(t) => HasCurrent(t)

\* "vectors from two different embedding models are not comparable": the checks
\* that guard each way in are made long before the insert, and still no two
\* models meet in the table unless a probe of the stamps failed.
OneEmbeddingModel == ~unprobed => \A r, q \in table : r.model = q.model

\* The copy the BM25 leg works on holds every document of the table, and no
\* other, unless the table was written while a search was reading it: then the
\* old copy outlives the reset, until the next ingestion.
LexicalIsComplete == ~raced /\ lexical # NoCorpus => lexical = FilesOf(table)

\* A start makes good what a failed rebuild or a crash left: with a model that
\* fits the table and no further fault, the application serves only once every
\* document of the directory is indexed.
Undisturbed == faults = MaxFaults /\ crashes = MaxCrashes
StartRepairs ==
    (pc[Boot] = "check" /\ Compatible /\ Undisturbed)
        ~> (up /\ Directory \subseteq FilesOf(table))

\* "marks every other version of that doc_type as is_current: false, which is
\* what keeps a superseded clause out of an answer".
SupersededIsNotRetrieved ==
    (\A t \in DocTypes : ~Superseding(t)) =>
        \A r \in Retrievable(DocTypes, {}) : r.current
=============================================================================
