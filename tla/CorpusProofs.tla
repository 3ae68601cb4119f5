---------------------------- MODULE CorpusProofs ----------------------------
(***************************************************************************)
(* What Corpus keeps for any set of documents, workers, searches, faults   *)
(* and crashes.  Each property is inductive together with the types and,   *)
(* where it needs one, a clause on what the workers are in the middle of.  *)
(***************************************************************************)
EXTENDS Corpus, TLAPS

USE FileAssumption, WorkerAssumption, NoneAssumption, BoundAssumption

\* An inserted row is of the file it was made from, and an UPDATE keeps the file
\* and the stamp of every row.
LEMMA RowIsTyped == ASSUME NEW f \in Files, NEW m \in Models, NEW b \in BOOLEAN
                    PROVE  Row(f, m, b) \in Rows
BY DEF Row, Rows

LEMMA SupersededRows ==
    ASSUME table \subseteq Rows, NEW f \in Files
    PROVE  /\ Superseded(f) \subseteq Rows
           /\ \A r \in Superseded(f) : \E q \in table :
                 /\ r.file = q.file /\ r.model = q.model
                 /\ r.current <=> q.current /\ ~Rival(q.file, f)
           /\ \A q \in table : \E r \in Superseded(f) :
                 /\ r.file = q.file /\ r.model = q.model
                 /\ r.current <=> q.current /\ ~Rival(q.file, f)
<1> DEFINE After(q) == IF Rival(q.file, f) THEN [q EXCEPT !.current = FALSE] ELSE q
<1>1. ASSUME NEW q \in table
      PROVE  /\ After(q) \in Rows
             /\ After(q).file = q.file /\ After(q).model = q.model
             /\ After(q).current <=> q.current /\ ~Rival(q.file, f)
  <2>1. q \in Rows
    OBVIOUS
  <2>2. CASE Rival(q.file, f)
    BY <2>1, <2>2 DEF Rows
  <2>3. CASE ~Rival(q.file, f)
    BY <2>1, <2>3 DEF Rows
  <2>4. QED
    BY <2>2, <2>3
<1>2. Superseded(f) = {After(q) : q \in table}
  BY DEF Superseded
<1> HIDE DEF After
<1>3. QED
  BY <1>1, <1>2

LEMMA SupersededFiles ==
    ASSUME table \subseteq Rows, NEW f \in Files
    PROVE  FilesOf(Superseded(f)) = FilesOf(table)
BY SupersededRows DEF FilesOf

-----------------------------------------------------------------------------
(* Types. *)

LEMMA InitTypes == Init => TypeOK
<1> SUFFICES ASSUME Init PROVE TypeOK
  OBVIOUS
<1> USE DEF Init, TypeOK, Copies, Workers, Steps
<1>1. active \in Models /\ up \in BOOLEAN
  OBVIOUS
<1>2. table \subseteq Rows
  OBVIOUS
<1>3. lexical \in Copies
  OBVIOUS
<1>4. reading \in [Searchers -> Copies]
  OBVIOUS
<1>5. pc \in [Workers -> Steps]
  OBVIOUS
<1>6. file \in [Workers -> Files \cup {NoFile}]
  OBVIOUS
<1>7. \A x \in Workers : pc[x] \in {"insert", "supersede"} <=> file[x] \in Files
  OBVIOUS
<1>8. todo \in [Workers -> SUBSET Files]
  OBVIOUS
<1>9. force \in [Workers -> BOOLEAN]
  OBVIOUS
<1>10. tasks \in Nat /\ faults \in Nat /\ crashes \in Nat
  OBVIOUS
<1>11. unsettled \subseteq DocTypes
  OBVIOUS
<1>12. overlapped \subseteq DocTypes
  OBVIOUS
<1>13. raced \in BOOLEAN /\ unprobed \in BOOLEAN
  OBVIOUS
<1>14. QED
  BY <1>1, <1>2, <1>3, <1>4, <1>5, <1>6, <1>7, <1>8, <1>9, <1>10, <1>11, <1>12, <1>13

LEMMA TypesKept == TypeOK /\ [Next]_vars => TypeOK'
<1> SUFFICES ASSUME TypeOK, [Next]_vars PROVE TypeOK'
  OBVIOUS
<1> USE DEF TypeOK, Workers, Steps, Copies, Goto, store, work, ghosts, Fault
<1>1. ASSUME NEW w \in Admins, Upload(w) PROVE TypeOK'
  <2>1. active' \in Models /\ up' \in BOOLEAN
    BY <1>1 DEF Upload
  <2>2. table' \subseteq Rows
    BY <1>1 DEF Upload
  <2>3. lexical' \in Copies
    BY <1>1 DEF Upload
  <2>4. reading' \in [Searchers -> Copies]
    BY <1>1 DEF Upload
  <2>5. pc' \in [Workers -> Steps]
    BY <1>1 DEF Upload
  <2>6. file' \in [Workers -> Files \cup {NoFile}]
    BY <1>1 DEF Upload
  <2>7. \A x \in Workers : pc'[x] \in {"insert", "supersede"} <=> file'[x] \in Files
    BY <1>1 DEF Upload
  <2>8. todo' \in [Workers -> SUBSET Files]
    BY <1>1 DEF Upload
  <2>9. force' \in [Workers -> BOOLEAN]
    BY <1>1 DEF Upload
  <2>10. tasks' \in Nat /\ faults' \in Nat /\ crashes' \in Nat
    BY <1>1 DEF Upload
  <2>11. unsettled' \subseteq DocTypes
    BY <1>1 DEF Upload
  <2>12. overlapped' \subseteq DocTypes
    BY <1>1 DEF Upload
  <2>13. raced' \in BOOLEAN /\ unprobed' \in BOOLEAN
    BY <1>1 DEF Upload
  <2>14. QED
    BY <2>1, <2>2, <2>3, <2>4, <2>5, <2>6, <2>7, <2>8, <2>9, <2>10, <2>11, <2>12, <2>13
<1>2. ASSUME NEW w \in Admins, Rebuild(w) PROVE TypeOK'
  <2>1. active' \in Models /\ up' \in BOOLEAN
    BY <1>2 DEF Rebuild
  <2>2. table' \subseteq Rows
    BY <1>2 DEF Rebuild
  <2>3. lexical' \in Copies
    BY <1>2 DEF Rebuild
  <2>4. reading' \in [Searchers -> Copies]
    BY <1>2 DEF Rebuild
  <2>5. pc' \in [Workers -> Steps]
    BY <1>2 DEF Rebuild
  <2>6. file' \in [Workers -> Files \cup {NoFile}]
    BY <1>2 DEF Rebuild
  <2>7. \A x \in Workers : pc'[x] \in {"insert", "supersede"} <=> file'[x] \in Files
    BY <1>2 DEF Rebuild
  <2>8. todo' \in [Workers -> SUBSET Files]
    BY <1>2 DEF Rebuild
  <2>9. force' \in [Workers -> BOOLEAN]
    BY <1>2 DEF Rebuild
  <2>10. tasks' \in Nat /\ faults' \in Nat /\ crashes' \in Nat
    BY <1>2 DEF Rebuild
  <2>11. unsettled' \subseteq DocTypes
    BY <1>2 DEF Rebuild
  <2>12. overlapped' \subseteq DocTypes
    BY <1>2 DEF Rebuild
  <2>13. raced' \in BOOLEAN /\ unprobed' \in BOOLEAN
    BY <1>2 DEF Rebuild
  <2>14. QED
    BY <2>1, <2>2, <2>3, <2>4, <2>5, <2>6, <2>7, <2>8, <2>9, <2>10, <2>11, <2>12, <2>13
<1>3. ASSUME NEW w \in Workers, Clear(w) PROVE TypeOK'
  <2>1. active' \in Models /\ up' \in BOOLEAN
    BY <1>3 DEF Clear
  <2>2. table' \subseteq Rows
    BY <1>3 DEF Clear
  <2>3. lexical' \in Copies
    BY <1>3 DEF Clear
  <2>4. reading' \in [Searchers -> Copies]
    BY <1>3 DEF Clear
  <2>5. pc' \in [Workers -> Steps]
    BY <1>3 DEF Clear
  <2>6. file' \in [Workers -> Files \cup {NoFile}]
    BY <1>3 DEF Clear
  <2>7. \A x \in Workers : pc'[x] \in {"insert", "supersede"} <=> file'[x] \in Files
    BY <1>3 DEF Clear
  <2>8. todo' \in [Workers -> SUBSET Files]
    BY <1>3 DEF Clear
  <2>9. force' \in [Workers -> BOOLEAN]
    BY <1>3 DEF Clear
  <2>10. tasks' \in Nat /\ faults' \in Nat /\ crashes' \in Nat
    <3>1. tasks' = tasks /\ crashes' = crashes /\ faults' \in {faults, faults + 1}
      BY <1>3 DEF Clear
    <3>2. QED
      BY <3>1
  <2>11. unsettled' \subseteq DocTypes
    BY <1>3 DEF Clear
  <2>12. overlapped' \subseteq DocTypes
    BY <1>3 DEF Clear
  <2>13. raced' \in BOOLEAN /\ unprobed' \in BOOLEAN
    BY <1>3 DEF Clear
  <2>14. QED
    BY <2>1, <2>2, <2>3, <2>4, <2>5, <2>6, <2>7, <2>8, <2>9, <2>10, <2>11, <2>12, <2>13
<1>4. ASSUME NEW w \in Workers, Check(w) PROVE TypeOK'
  <2>1. active' \in Models /\ up' \in BOOLEAN
    BY <1>4 DEF Check
  <2>2. table' \subseteq Rows
    BY <1>4 DEF Check
  <2>3. lexical' \in Copies
    BY <1>4 DEF Check
  <2>4. reading' \in [Searchers -> Copies]
    BY <1>4 DEF Check
  <2>5. pc' \in [Workers -> Steps]
    BY <1>4 DEF Check
  <2>6. file' \in [Workers -> Files \cup {NoFile}]
    BY <1>4 DEF Check
  <2>7. \A x \in Workers : pc'[x] \in {"insert", "supersede"} <=> file'[x] \in Files
    BY <1>4 DEF Check
  <2>8. todo' \in [Workers -> SUBSET Files]
    BY <1>4 DEF Check
  <2>9. force' \in [Workers -> BOOLEAN]
    BY <1>4 DEF Check
  <2>10. tasks' \in Nat /\ faults' \in Nat /\ crashes' \in Nat
    BY <1>4 DEF Check
  <2>11. unsettled' \subseteq DocTypes
    BY <1>4 DEF Check
  <2>12. overlapped' \subseteq DocTypes
    BY <1>4 DEF Check
  <2>13. raced' \in BOOLEAN /\ unprobed' \in BOOLEAN
    BY <1>4 DEF Check
  <2>14. QED
    BY <2>1, <2>2, <2>3, <2>4, <2>5, <2>6, <2>7, <2>8, <2>9, <2>10, <2>11, <2>12, <2>13
<1>5. ASSUME NEW w \in Workers, CheckHash(w) PROVE TypeOK'
  <2>1. active' \in Models /\ up' \in BOOLEAN
    BY <1>5 DEF CheckHash
  <2>2. table' \subseteq Rows
    BY <1>5 DEF CheckHash
  <2>3. lexical' \in Copies
    BY <1>5 DEF CheckHash
  <2>4. reading' \in [Searchers -> Copies]
    BY <1>5 DEF CheckHash
  <2>5. pc' \in [Workers -> Steps]
    BY <1>5 DEF CheckHash
  <2>6. file' \in [Workers -> Files \cup {NoFile}]
    BY <1>5 DEF CheckHash
  <2>7. \A x \in Workers : pc'[x] \in {"insert", "supersede"} <=> file'[x] \in Files
    BY <1>5 DEF CheckHash
  <2>8. todo' \in [Workers -> SUBSET Files]
    BY <1>5 DEF CheckHash
  <2>9. force' \in [Workers -> BOOLEAN]
    BY <1>5 DEF CheckHash
  <2>10. tasks' \in Nat /\ faults' \in Nat /\ crashes' \in Nat
    BY <1>5 DEF CheckHash
  <2>11. unsettled' \subseteq DocTypes
    BY <1>5 DEF CheckHash
  <2>12. overlapped' \subseteq DocTypes
    BY <1>5 DEF CheckHash
  <2>13. raced' \in BOOLEAN /\ unprobed' \in BOOLEAN
    BY <1>5 DEF CheckHash
  <2>14. QED
    BY <2>1, <2>2, <2>3, <2>4, <2>5, <2>6, <2>7, <2>8, <2>9, <2>10, <2>11, <2>12, <2>13
<1>6. ASSUME NEW w \in Workers, Insert(w) PROVE TypeOK'
  <2>1. Row(file[w], active, TRUE) \in Rows /\ TypeOf[file[w]] \in DocTypes
    BY <1>6, RowIsTyped DEF Insert
  <2>0. overlapped' \in {overlapped, overlapped \cup {TypeOf[file[w]]},
                        overlapped \ {TypeOf[file[w]]}}
    BY <1>6 DEF Insert
  <2>2. active' \in Models /\ up' \in BOOLEAN
    BY <1>6, <2>1 DEF Insert
  <2>3. table' \subseteq Rows
    BY <1>6, <2>1 DEF Insert
  <2>4. lexical' \in Copies
    BY <1>6, <2>1 DEF Insert
  <2>5. reading' \in [Searchers -> Copies]
    BY <1>6, <2>1 DEF Insert
  <2>6. pc' \in [Workers -> Steps]
    BY <1>6, <2>1 DEF Insert
  <2>7. file' \in [Workers -> Files \cup {NoFile}]
    BY <1>6, <2>1 DEF Insert
  <2>8. \A x \in Workers : pc'[x] \in {"insert", "supersede"} <=> file'[x] \in Files
    BY <1>6, <2>1 DEF Insert
  <2>9. todo' \in [Workers -> SUBSET Files]
    BY <1>6, <2>1 DEF Insert
  <2>10. force' \in [Workers -> BOOLEAN]
    BY <1>6, <2>1 DEF Insert
  <2>11. tasks' \in Nat /\ faults' \in Nat /\ crashes' \in Nat
    <3>1. tasks' = tasks /\ crashes' = crashes /\ faults' \in {faults, faults + 1}
      BY <1>6 DEF Insert
    <3>2. QED
      BY <3>1
  <2>12. unsettled' \subseteq DocTypes
    BY <1>6, <2>1 DEF Insert
  <2>13. overlapped' \subseteq DocTypes
    BY <2>0, <2>1
  <2>14. raced' \in BOOLEAN /\ unprobed' \in BOOLEAN
    BY <1>6, <2>1 DEF Insert
  <2>15. QED
    BY <2>2, <2>3, <2>4, <2>5, <2>6, <2>7, <2>8, <2>9, <2>10, <2>11, <2>12, <2>13, <2>14
<1>7. ASSUME NEW w \in Workers, Supersede(w) PROVE TypeOK'
  <2>1. Superseded(file[w]) \subseteq Rows /\ TypeOf[file[w]] \in DocTypes
    BY <1>7, SupersededRows DEF Supersede
  <2>2. QED
    BY <1>7, <2>1 DEF Supersede
<1>8. ASSUME NEW w \in Workers, Finish(w) PROVE TypeOK'
  <2>1. active' \in Models /\ up' \in BOOLEAN
    BY <1>8 DEF Finish
  <2>2. table' \subseteq Rows
    BY <1>8 DEF Finish
  <2>3. lexical' \in Copies
    BY <1>8 DEF Finish
  <2>4. reading' \in [Searchers -> Copies]
    BY <1>8 DEF Finish
  <2>5. pc' \in [Workers -> Steps]
    BY <1>8 DEF Finish
  <2>6. file' \in [Workers -> Files \cup {NoFile}]
    BY <1>8 DEF Finish
  <2>7. \A x \in Workers : pc'[x] \in {"insert", "supersede"} <=> file'[x] \in Files
    BY <1>8 DEF Finish
  <2>8. todo' \in [Workers -> SUBSET Files]
    BY <1>8 DEF Finish
  <2>9. force' \in [Workers -> BOOLEAN]
    BY <1>8 DEF Finish
  <2>10. tasks' \in Nat /\ faults' \in Nat /\ crashes' \in Nat
    BY <1>8 DEF Finish
  <2>11. unsettled' \subseteq DocTypes
    BY <1>8 DEF Finish
  <2>12. overlapped' \subseteq DocTypes
    BY <1>8 DEF Finish
  <2>13. raced' \in BOOLEAN /\ unprobed' \in BOOLEAN
    BY <1>8 DEF Finish
  <2>14. QED
    BY <2>1, <2>2, <2>3, <2>4, <2>5, <2>6, <2>7, <2>8, <2>9, <2>10, <2>11, <2>12, <2>13
<1>9. ASSUME NEW s \in Searchers, Load(s) PROVE TypeOK'
  BY <1>9 DEF Load, FilesOf, Rows
<1>10. ASSUME NEW s \in Searchers, Keep(s) PROVE TypeOK'
  BY <1>10 DEF Keep
<1>11. CASE Crash
  <2>1. {TypeOf[file[w]] : w \in {x \in Workers : pc[x] = "supersede"}} \subseteq DocTypes
    OBVIOUS
  <2>2. active' \in Models /\ up' \in BOOLEAN
    BY <1>11, <2>1 DEF Crash, Start
  <2>3. table' \subseteq Rows
    BY <1>11, <2>1 DEF Crash, Start
  <2>4. lexical' \in Copies
    BY <1>11, <2>1 DEF Crash, Start
  <2>5. reading' \in [Searchers -> Copies]
    BY <1>11, <2>1 DEF Crash, Start
  <2>6. pc' \in [Workers -> Steps]
    BY <1>11, <2>1 DEF Crash, Start
  <2>7. file' \in [Workers -> Files \cup {NoFile}]
    BY <1>11, <2>1 DEF Crash, Start
  <2>8. \A x \in Workers : pc'[x] \in {"insert", "supersede"} <=> file'[x] \in Files
    BY <1>11, <2>1 DEF Crash, Start
  <2>9. todo' \in [Workers -> SUBSET Files]
    BY <1>11, <2>1 DEF Crash, Start
  <2>10. force' \in [Workers -> BOOLEAN]
    BY <1>11, <2>1 DEF Crash, Start
  <2>11. tasks' \in Nat /\ faults' \in Nat /\ crashes' \in Nat
    BY <1>11, <2>1 DEF Crash, Start
  <2>12. unsettled' \subseteq DocTypes
    BY <1>11, <2>1 DEF Crash, Start
  <2>13. overlapped' \subseteq DocTypes
    BY <1>11, <2>1 DEF Crash, Start
  <2>14. raced' \in BOOLEAN /\ unprobed' \in BOOLEAN
    BY <1>11, <2>1 DEF Crash, Start
  <2>15. QED
    BY <2>2, <2>3, <2>4, <2>5, <2>6, <2>7, <2>8, <2>9, <2>10, <2>11, <2>12, <2>13, <2>14
<1>12. CASE UNCHANGED vars
  BY <1>12 DEF vars
<1>13. QED
  BY <1>1, <1>2, <1>3, <1>4, <1>5, <1>6, <1>7, <1>8, <1>9, <1>10, <1>11, <1>12
     DEF Next, Ingesting

\* The rows, the workers, the copies and the marks keep their types.
THEOREM TypeCorrect == Spec => []TypeOK
<1>1. QED
  BY InitTypes, TypesKept, PTL DEF Spec

-----------------------------------------------------------------------------
(* One current version. *)

\* A step that leaves the rows, the workers in the middle of an ingestion and
\* the marks of a lost UPDATE alone keeps the property.
LEMMA SettlingFrame ==
    ASSUME TypeOK, OneCurrentVersion, table' = table, unsettled \subseteq unsettled',
           \A w \in Workers : pc[w] = "supersede" =>
               TypeOf[file[w]] \in unsettled'
                   \/ (pc'[w] = "supersede" /\ file'[w] = file[w])
    PROVE  OneCurrentVersion'
BY DEF OneCurrentVersion, Superseding

LEMMA SettlingKept == TypeOK /\ OneCurrentVersion /\ [Next]_vars => OneCurrentVersion'
<1> SUFFICES ASSUME TypeOK, OneCurrentVersion, [Next]_vars PROVE OneCurrentVersion'
  OBVIOUS
<1> USE DEF Workers, Goto, store, work, ghosts
<1>1. ASSUME NEW w \in Admins, Upload(w) PROVE OneCurrentVersion'
  BY <1>1, SettlingFrame DEF Upload, TypeOK
<1>2. ASSUME NEW w \in Admins, Rebuild(w) PROVE OneCurrentVersion'
  BY <1>2, SettlingFrame DEF Rebuild, TypeOK
<1>3. ASSUME NEW w \in Workers, Clear(w) PROVE OneCurrentVersion'
  <2>1. CASE table' = {}
    BY <2>1 DEF OneCurrentVersion
  <2>2. CASE table' # {}
    BY <1>3, <2>2, SettlingFrame DEF Clear, TypeOK
  <2>3. QED
    BY <2>1, <2>2
<1>4. ASSUME NEW w \in Workers, Check(w) PROVE OneCurrentVersion'
  BY <1>4, SettlingFrame DEF Check, TypeOK
<1>5. ASSUME NEW w \in Workers, CheckHash(w) PROVE OneCurrentVersion'
  BY <1>5, SettlingFrame DEF CheckHash, TypeOK
<1>6. ASSUME NEW w \in Workers, Insert(w) PROVE OneCurrentVersion'
  <2>1. CASE table' = table
    BY <1>6, <2>1, SettlingFrame DEF Insert, TypeOK
  <2>2. CASE table' = table \cup {Row(file[w], active, TRUE)} /\ pc' = [pc EXCEPT ![w] = "supersede"]
    <3> SUFFICES ASSUME NEW r \in table', NEW q \in table', r.current, q.current,
                        Rival(r.file, q.file)
                 PROVE  TypeOf[r.file] \in unsettled' \/ Superseding(TypeOf[r.file])'
      BY DEF OneCurrentVersion
    <3>1. unsettled' = unsettled /\ file' = file /\ pc'[w] = "supersede"
      BY <1>6, <2>2 DEF Insert, TypeOK
    <3>2. CASE r \in table /\ q \in table
      <4>1. TypeOf[r.file] \in unsettled \/ Superseding(TypeOf[r.file])
        BY <3>2 DEF OneCurrentVersion
      <4>2. \A x \in Workers : pc[x] = "supersede" => pc'[x] = "supersede"
        BY <2>2 DEF TypeOK
      <4>3. QED
        BY <3>1, <4>1, <4>2 DEF Superseding
    <3>3. CASE r \notin table \/ q \notin table
      <4>1. TypeOf[r.file] = TypeOf[file[w]]
        BY <2>2, <3>3 DEF Row, Rival, SameType
      <4>2. QED
        BY <3>1, <4>1 DEF Superseding
    <3>4. QED
      BY <3>2, <3>3
  <2>3. QED
    BY <1>6, <2>1, <2>2 DEF Insert
<1>7. ASSUME NEW w \in Workers, Supersede(w) PROVE OneCurrentVersion'
  <2>1. CASE table' = table /\ unsettled' = unsettled \cup {TypeOf[file[w]]}
    BY <1>7, <2>1, SettlingFrame DEF Supersede, TypeOK
  <2>2. CASE table' = Superseded(file[w]) /\ unsettled' = unsettled \ {TypeOf[file[w]]}
    <3> SUFFICES ASSUME NEW r \in table', NEW q \in table', r.current, q.current,
                        Rival(r.file, q.file)
                 PROVE  TypeOf[r.file] \in unsettled' \/ Superseding(TypeOf[r.file])'
      BY DEF OneCurrentVersion
    <3>1. file[w] \in Files /\ table \subseteq Rows
      BY <1>7 DEF Supersede, TypeOK
    <3>2. PICK r0 \in table : r.file = r0.file /\ r0.current /\ ~Rival(r0.file, file[w])
      BY <2>2, <3>1, SupersededRows
    <3>3. PICK q0 \in table : q.file = q0.file /\ q0.current /\ ~Rival(q0.file, file[w])
      BY <2>2, <3>1, SupersededRows
    <3>4. TypeOf[r0.file] # TypeOf[file[w]]
      BY <3>2, <3>3 DEF Rival, SameType
    <3>5. TypeOf[r0.file] \in unsettled \/ Superseding(TypeOf[r0.file])
      BY <3>2, <3>3 DEF OneCurrentVersion
    <3>6. \A x \in Workers : x # w => pc'[x] = pc[x] /\ file'[x] = file[x]
      BY <1>7 DEF Supersede, TypeOK
    <3>7. QED
      BY <2>2, <3>2, <3>4, <3>5, <3>6 DEF Superseding
  <2>3. QED
    BY <1>7, <2>1, <2>2 DEF Supersede
<1>8. ASSUME NEW w \in Workers, Finish(w) PROVE OneCurrentVersion'
  BY <1>8, SettlingFrame DEF Finish, TypeOK
<1>9. ASSUME NEW s \in Searchers, Load(s) PROVE OneCurrentVersion'
  BY <1>9, SettlingFrame DEF Load
<1>10. ASSUME NEW s \in Searchers, Keep(s) PROVE OneCurrentVersion'
  BY <1>10, SettlingFrame DEF Keep
<1>11. CASE Crash
  BY <1>11, SettlingFrame DEF Crash
<1>12. CASE UNCHANGED vars
  BY <1>12, SettlingFrame DEF vars
<1>13. QED
  BY <1>1, <1>2, <1>3, <1>4, <1>5, <1>6, <1>7, <1>8, <1>9, <1>10, <1>11, <1>12
     DEF Next, Ingesting

\* Two versions are current together only while one of them is being ingested or
\* after a lost UPDATE, for any number of workers.
THEOREM VersionsSettle == Spec => []OneCurrentVersion
<1>1. Init => OneCurrentVersion
  BY DEF Init, OneCurrentVersion
<1>2. QED
  BY <1>1, InitTypes, TypesKept, SettlingKept, PTL DEF Spec

-----------------------------------------------------------------------------
(* The stamps: who is past the check writes what the table holds. *)

PastCheck(w) == pc[w] \in {"files", "insert", "supersede"}
Stamped ==
    ~unprobed =>
        /\ \A r, q \in table : r.model = q.model
        /\ (\E w \in Workers : PastCheck(w)) => Compatible

LEMMA StampedFrame ==
    ASSUME Stamped, table' = table, active' = active, unprobed' = unprobed,
           \A w \in Workers : PastCheck(w)' => Compatible \/ PastCheck(w) \/ unprobed
    PROVE  Stamped'
BY DEF Stamped, Compatible

LEMMA StampedKept == TypeOK /\ Stamped /\ [Next]_vars => Stamped'
<1> SUFFICES ASSUME TypeOK, Stamped, [Next]_vars PROVE Stamped'
  OBVIOUS
<1> USE DEF Workers, Goto, store, work, ghosts
<1>1. ASSUME NEW w \in Admins, Upload(w) PROVE Stamped'
  BY <1>1, StampedFrame DEF Upload, TypeOK, PastCheck
<1>2. ASSUME NEW w \in Admins, Rebuild(w) PROVE Stamped'
  BY <1>2, StampedFrame DEF Rebuild, TypeOK, PastCheck
<1>3. ASSUME NEW w \in Workers, Clear(w) PROVE Stamped'
  <2>1. CASE table' = {}
    BY <2>1 DEF Stamped, Compatible
  <2>2. CASE table' # {}
    BY <1>3, <2>2, StampedFrame DEF Clear, TypeOK, PastCheck
  <2>3. QED
    BY <2>1, <2>2
<1>4. ASSUME NEW w \in Workers, Check(w) PROVE Stamped'
  <2>1. CASE unprobed'
    BY <2>1 DEF Stamped
  <2>2. CASE ~unprobed'
    BY <1>4, <2>2, StampedFrame DEF Check, TypeOK, PastCheck
  <2>3. QED
    BY <2>1, <2>2
<1>5. ASSUME NEW w \in Workers, CheckHash(w) PROVE Stamped'
  BY <1>5, StampedFrame DEF CheckHash, TypeOK, PastCheck
<1>6. ASSUME NEW w \in Workers, Insert(w) PROVE Stamped'
  <2>1. CASE table' = table
    BY <1>6, <2>1, StampedFrame DEF Insert, TypeOK, PastCheck
  <2>2. CASE table' = table \cup {Row(file[w], active, TRUE)}
    <3> SUFFICES ASSUME ~unprobed
                 PROVE  \A r \in table' : r.model = active /\ active' = active
      BY <1>6 DEF Insert, Stamped, Compatible
    <3>1. \A r \in table : r.model = active
      BY <1>6 DEF Insert, Stamped, Compatible, PastCheck
    <3>2. QED
      BY <1>6, <2>2, <3>1 DEF Insert, Row
  <2>3. QED
    BY <1>6, <2>1, <2>2 DEF Insert
<1>7. ASSUME NEW w \in Workers, Supersede(w) PROVE Stamped'
  <2>1. CASE table' = table
    BY <1>7, <2>1, StampedFrame DEF Supersede, TypeOK, PastCheck
  <2>2. CASE table' = Superseded(file[w])
    <3>1. file[w] \in Files /\ table \subseteq Rows
      BY <1>7 DEF Supersede, TypeOK
    <3>2. \A r \in table' : \E q \in table : r.model = q.model
      BY <2>2, <3>1, SupersededRows
    <3>3. PastCheck(w) /\ active' = active /\ unprobed' = unprobed
      BY <1>7 DEF Supersede, PastCheck
    <3>4. QED
      BY <3>2, <3>3 DEF Stamped, Compatible
  <2>3. QED
    BY <1>7, <2>1, <2>2 DEF Supersede
<1>8. ASSUME NEW w \in Workers, Finish(w) PROVE Stamped'
  BY <1>8, StampedFrame DEF Finish, TypeOK, PastCheck
<1>9. ASSUME NEW s \in Searchers, Load(s) PROVE Stamped'
  BY <1>9, StampedFrame DEF Load, PastCheck
<1>10. ASSUME NEW s \in Searchers, Keep(s) PROVE Stamped'
  BY <1>10, StampedFrame DEF Keep, PastCheck
<1>11. CASE Crash
  <2>1. \A w \in Workers : ~PastCheck(w)'
    BY <1>11 DEF Crash, Start, PastCheck
  <2>2. QED
    BY <1>11, <2>1 DEF Crash, Stamped
<1>12. CASE UNCHANGED vars
  BY <1>12, StampedFrame DEF vars, PastCheck
<1>13. QED
  BY <1>1, <1>2, <1>3, <1>4, <1>5, <1>6, <1>7, <1>8, <1>9, <1>10, <1>11, <1>12
     DEF Next, Ingesting

\* Vectors of two models never meet in the table, for any number of workers and
\* restarts with any model, unless the stamps could not be read.
THEOREM ModelsNeverMeet == Spec => []OneEmbeddingModel
<1>1. Init => Stamped
  BY DEF Init, Stamped, Compatible
<1>2. Stamped => OneEmbeddingModel
  BY DEF Stamped, OneEmbeddingModel
<1>3. QED
  BY <1>1, <1>2, InitTypes, TypesKept, StampedKept, PTL DEF Spec

-----------------------------------------------------------------------------
(* The copy in memory. *)

Copied(copy) == copy \in {NoCorpus, FilesOf(table)}
CopiesAgree == ~raced => Copied(lexical) /\ \A s \in Searchers : Copied(reading[s])

LEMMA CopiesFrame ==
    ASSUME TypeOK, CopiesAgree, FilesOf(table') = FilesOf(table), raced' = raced,
           lexical' = lexical, reading' = reading
    PROVE  CopiesAgree'
BY DEF CopiesAgree, Copied

LEMMA CopiesKept == TypeOK /\ CopiesAgree /\ [Next]_vars => CopiesAgree'
<1> SUFFICES ASSUME TypeOK, CopiesAgree, [Next]_vars PROVE CopiesAgree'
  OBVIOUS
<1> USE DEF store, work, ghosts
<1>1. ASSUME NEW w \in Admins, Upload(w) \/ Rebuild(w) PROVE CopiesAgree'
  BY <1>1, CopiesFrame DEF Upload, Rebuild
<1>2. ASSUME NEW w \in Workers, Clear(w) PROVE CopiesAgree'
  <2>1. CASE table' = {} /\ lexical' = NoCorpus
             /\ raced' = (\E s \in Searchers : reading[s] # NoCorpus)
    BY <1>2, <2>1 DEF Clear, CopiesAgree, Copied
  <2>2. CASE UNCHANGED <<table, lexical, raced>>
    BY <1>2, <2>2, CopiesFrame DEF Clear
  <2>3. QED
    BY <1>2, <2>1, <2>2 DEF Clear
<1>3. ASSUME NEW w \in Workers, Check(w) \/ CheckHash(w) \/ Finish(w)
      PROVE  CopiesAgree'
  BY <1>3, CopiesFrame DEF Check, CheckHash, Finish
<1>4. ASSUME NEW w \in Workers, Insert(w) PROVE CopiesAgree'
  <2>1. CASE lexical' = NoCorpus
             /\ raced' = (\E s \in Searchers : reading[s] # NoCorpus)
    BY <1>4, <2>1 DEF Insert, CopiesAgree, Copied
  <2>2. CASE UNCHANGED <<table, lexical, raced>>
    BY <1>4, <2>2, CopiesFrame DEF Insert
  <2>3. QED
    BY <1>4, <2>1, <2>2 DEF Insert
<1>5. ASSUME NEW w \in Workers, Supersede(w) PROVE CopiesAgree'
  <2>1. file[w] \in Files /\ table \subseteq Rows
    BY <1>5 DEF Supersede, TypeOK
  <2>2. FilesOf(table') = FilesOf(table)
    BY <1>5, <2>1, SupersededFiles DEF Supersede
  <2>3. QED
    BY <1>5, <2>2, CopiesFrame DEF Supersede
<1>6. ASSUME NEW s \in Searchers, Load(s) PROVE CopiesAgree'
  BY <1>6 DEF Load, CopiesAgree, Copied, TypeOK
<1>7. ASSUME NEW s \in Searchers, Keep(s) PROVE CopiesAgree'
  BY <1>7 DEF Keep, CopiesAgree, Copied, TypeOK
<1>8. CASE Crash
  BY <1>8 DEF Crash, Start, CopiesAgree, Copied
<1>9. CASE UNCHANGED vars
  BY <1>9, CopiesFrame DEF vars
<1>10. QED
  BY <1>1, <1>2, <1>3, <1>4, <1>5, <1>6, <1>7, <1>8, <1>9 DEF Next, Ingesting

\* The copy of the corpus in memory holds the documents of the table, whatever
\* the workers do, unless one of them wrote while a search was reading.
THEOREM CopyIsComplete == Spec => []LexicalIsComplete
<1>1. Init => CopiesAgree
  BY DEF Init, CopiesAgree, Copied
<1>2. CopiesAgree => LexicalIsComplete
  BY DEF CopiesAgree, Copied, LexicalIsComplete
<1>3. QED
  BY <1>1, <1>2, InitTypes, TypesKept, CopiesKept, PTL DEF Spec

-----------------------------------------------------------------------------
(* No type is withdrawn: the workers about to supersede a type on which nothing *)
(* overlapped agree on the version, and that version has a current row.         *)

Pending(w, t) == pc[w] = "supersede" /\ TypeOf[file[w]] = t
Kept(t) ==
    /\ HasRows(t) => HasCurrent(t)
    /\ \A w \in Workers : Pending(w, t) /\ HasRows(t) =>
          \E r \in table :
             TypeOf[r.file] = t /\ r.current /\ VersionOf[r.file] = VersionOf[file[w]]
    /\ \A w, x \in Workers :
          Pending(w, t) /\ Pending(x, t) => VersionOf[file[w]] = VersionOf[file[x]]
AllKept == \A t \in DocTypes \ overlapped : Kept(t)

LEMMA KeptFrame ==
    ASSUME AllKept, table' = table, overlapped' = overlapped,
           \A w \in Workers :
               pc'[w] = "supersede" => pc[w] = "supersede" /\ file'[w] = file[w]
    PROVE  AllKept'
BY DEF AllKept, Kept, Pending, HasRows, HasCurrent

\* An insert of a type with no rival in the middle of its ingestion.
LEMMA InsertKeeps ==
    ASSUME TypeOK, AllKept, NEW w \in Workers, pc[w] = "insert",
           table' = table \cup {Row(file[w], active, TRUE)},
           pc' = [pc EXCEPT ![w] = "supersede"], file' = file,
           overlapped' = IF Rivals(w) # {} THEN overlapped \cup {TypeOf[file[w]]}
                         ELSE overlapped \ {TypeOf[file[w]]},
           NEW t \in DocTypes \ overlapped'
    PROVE  Kept(t)'
<1>1. file[w] \in Files
  BY DEF TypeOK
<1>2. /\ \A x \in Workers \ {w} : Pending(x, t)' <=> Pending(x, t)
      /\ Pending(w, t)' <=> TypeOf[file[w]] = t
  BY <1>1 DEF Pending, TypeOK
<1>3. CASE TypeOf[file[w]] # t
  <2>1. t \notin overlapped
    BY <1>3
  <2>2. Kept(t)
    BY <2>1 DEF AllKept
  <2>3. HasRows(t)' => HasRows(t)
    BY <1>3 DEF HasRows, Row
  <2>4. HasCurrent(t) => HasCurrent(t)'
    BY DEF HasCurrent
  <2>5. \A x \in Workers : Pending(x, t)' => Pending(x, t)
    BY <1>2, <1>3
  <2>6. QED
    BY <2>2, <2>3, <2>4, <2>5 DEF Kept
<1>4. CASE TypeOf[file[w]] = t
  <2>1. Rivals(w) = {}
    BY <1>4
  <2>2. \A x \in Workers \ {w} : Pending(x, t) => VersionOf[file[x]] = VersionOf[file[w]]
    BY <1>4, <2>1 DEF Rivals, Rival, SameType, Pending
  <2>3. /\ Row(file[w], active, TRUE) \in table'
        /\ Row(file[w], active, TRUE).file = file[w]
        /\ Row(file[w], active, TRUE).current
    BY DEF Row
  <2> HIDE DEF Row
  <2>4. HasCurrent(t)'
    BY <1>4, <2>3 DEF HasCurrent
  <2>5. \A x \in Workers : Pending(x, t)' => VersionOf[file'[x]] = VersionOf[file[w]]
    BY <1>2, <2>2
  <2>6. \E r \in table' :
           TypeOf[r.file] = t /\ r.current /\ VersionOf[r.file] = VersionOf[file[w]]
    BY <1>4, <2>3
  <2>7. QED
    BY <2>4, <2>5, <2>6 DEF Kept
<1>5. QED
  BY <1>3, <1>4

\* An UPDATE leaves the version it is for, which has a current row.
LEMMA SupersedeKeeps ==
    ASSUME TypeOK, AllKept, NEW w \in Workers, Supersede(w),
           table' = Superseded(file[w]), NEW t \in DocTypes \ overlapped
    PROVE  Kept(t)'
<1>1. /\ pc[w] = "supersede" /\ file[w] \in Files /\ table \subseteq Rows
      /\ \A x \in Workers \ {w} : file'[x] = file[x] /\ pc'[x] = pc[x]
      /\ pc'[w] = "files"
  BY DEF Supersede, TypeOK, Goto
<1>2. Kept(t)
  BY DEF AllKept
<1>3. HasRows(t)' => HasRows(t)
  <2>1. \A r \in table' : \E q \in table : r.file = q.file
    BY <1>1, SupersededRows
  <2>2. QED
    BY <2>1 DEF HasRows
<1>4. \A q \in table : q.current /\ ~Rival(q.file, file[w])
                          => \E r \in table' : r.file = q.file /\ r.current
  BY <1>1, SupersededRows
<1>5. \A x \in Workers : Pending(x, t)' => Pending(x, t) /\ file'[x] = file[x]
  BY <1>1 DEF Pending
<1>6. CASE TypeOf[file[w]] = t
  <2>1. Pending(w, t)
    BY <1>1, <1>6 DEF Pending
  <2>2. ASSUME HasRows(t)
        PROVE  \E r \in table' : /\ TypeOf[r.file] = t /\ r.current
                                 /\ VersionOf[r.file] = VersionOf[file[w]]
    <3>1. PICK q \in table :
             TypeOf[q.file] = t /\ q.current /\ VersionOf[q.file] = VersionOf[file[w]]
      BY <1>2, <2>1, <2>2 DEF Kept
    <3>2. ~Rival(q.file, file[w])
      BY <3>1 DEF Rival
    <3>3. PICK r \in table' : r.file = q.file /\ r.current
      BY <1>4, <3>1, <3>2
    <3>4. QED
      BY <3>1, <3>3
  <2>3. \A x \in Workers : Pending(x, t) => VersionOf[file[x]] = VersionOf[file[w]]
    BY <1>2, <2>1 DEF Kept
  <2>4. HasRows(t)' => HasCurrent(t)'
    BY <1>3, <2>2 DEF HasCurrent
  <2>5. \A x \in Workers : Pending(x, t)' => VersionOf[file'[x]] = VersionOf[file[w]]
    BY <1>5, <2>3
  <2>6. QED
    BY <1>3, <2>2, <2>4, <2>5 DEF Kept
<1>7. CASE TypeOf[file[w]] # t
  <2>1. \A q \in table : TypeOf[q.file] = t => ~Rival(q.file, file[w])
    BY <1>7 DEF Rival, SameType
  <2>2. \A q \in table : TypeOf[q.file] = t /\ q.current
                            => \E r \in table' : r.file = q.file /\ r.current
    BY <1>4, <2>1
  <2>3. HasCurrent(t) => HasCurrent(t)'
    BY <2>2 DEF HasCurrent
  <2>4. HasRows(t)' => HasCurrent(t)'
    BY <1>2, <1>3, <2>3 DEF Kept
  <2>5. ASSUME NEW x \in Workers, Pending(x, t)', HasRows(t)'
        PROVE  \E r \in table' : /\ TypeOf[r.file] = t /\ r.current
                                 /\ VersionOf[r.file] = VersionOf[file'[x]]
    <3>1. Pending(x, t) /\ HasRows(t) /\ file'[x] = file[x]
      BY <1>3, <1>5, <2>5
    <3>2. PICK q \in table :
             TypeOf[q.file] = t /\ q.current /\ VersionOf[q.file] = VersionOf[file[x]]
      BY <1>2, <3>1 DEF Kept
    <3>3. PICK r \in table' : r.file = q.file /\ r.current
      BY <2>2, <3>2
    <3>4. QED
      BY <3>1, <3>2, <3>3
  <2>6. \A x, y \in Workers : Pending(x, t)' /\ Pending(y, t)'
                                => VersionOf[file'[x]] = VersionOf[file'[y]]
    BY <1>2, <1>5 DEF Kept
  <2>7. QED
    BY <2>4, <2>5, <2>6 DEF Kept
<1>8. QED
  BY <1>6, <1>7

LEMMA AllKeptKept == TypeOK /\ AllKept /\ [Next]_vars => AllKept'
<1> SUFFICES ASSUME TypeOK, AllKept, [Next]_vars PROVE AllKept'
  OBVIOUS
<1> USE DEF Workers, Goto, store, work, ghosts
<1>1. ASSUME NEW w \in Admins, Upload(w) PROVE AllKept'
  BY <1>1, KeptFrame DEF Upload, TypeOK
<1>2. ASSUME NEW w \in Admins, Rebuild(w) PROVE AllKept'
  BY <1>2, KeptFrame DEF Rebuild, TypeOK
<1>3. ASSUME NEW w \in Workers, Clear(w) PROVE AllKept'
  <2>1. CASE table' = table
    BY <1>3, <2>1, KeptFrame DEF Clear, TypeOK
  <2>2. CASE table' = {}
    <3>1. overlapped' = overlapped /\ file' = file
          /\ \A x \in Workers : pc'[x] = "supersede" => pc[x] = "supersede"
      BY <1>3 DEF Clear, TypeOK
    <3>2. \A t \in DocTypes : ~HasRows(t)'
      BY <2>2 DEF HasRows
    <3>3. QED
      BY <3>1, <3>2 DEF AllKept, Kept, Pending
  <2>3. QED
    BY <1>3, <2>1, <2>2 DEF Clear
<1>4. ASSUME NEW w \in Workers, Check(w) PROVE AllKept'
  BY <1>4, KeptFrame DEF Check, TypeOK
<1>5. ASSUME NEW w \in Workers, CheckHash(w) PROVE AllKept'
  BY <1>5, KeptFrame DEF CheckHash, TypeOK
<1>6. ASSUME NEW w \in Workers, Insert(w) PROVE AllKept'
  <2>1. CASE UNCHANGED <<table, overlapped>> /\ pc' = [pc EXCEPT ![w] = "files"]
             /\ file' = [file EXCEPT ![w] = NoFile]
    BY <2>1, KeptFrame DEF TypeOK
  <2>2. CASE /\ table' = table \cup {Row(file[w], active, TRUE)}
             /\ pc' = [pc EXCEPT ![w] = "supersede"] /\ file' = file
             /\ overlapped' = IF Rivals(w) # {} THEN overlapped \cup {TypeOf[file[w]]}
                              ELSE overlapped \ {TypeOf[file[w]]}
    BY <1>6, <2>2, InsertKeeps DEF AllKept, Insert
  <2>3. QED
    BY <1>6, <2>1, <2>2 DEF Insert
<1>7. ASSUME NEW w \in Workers, Supersede(w) PROVE AllKept'
  <2>1. CASE table' = table
    BY <1>7, <2>1, KeptFrame DEF Supersede, TypeOK
  <2>2. CASE table' = Superseded(file[w])
    <3>1. overlapped' = overlapped
      BY <1>7 DEF Supersede
    <3>2. QED
      BY <1>7, <2>2, <3>1, SupersedeKeeps DEF AllKept
  <2>3. QED
    BY <1>7, <2>1, <2>2 DEF Supersede
<1>8. ASSUME NEW w \in Workers, Finish(w) PROVE AllKept'
  BY <1>8, KeptFrame DEF Finish, TypeOK
<1>9. ASSUME NEW s \in Searchers, Load(s) \/ Keep(s) PROVE AllKept'
  BY <1>9, KeptFrame DEF Load, Keep
<1>10. CASE Crash
  BY <1>10, KeptFrame DEF Crash, Start
<1>11. CASE UNCHANGED vars
  BY <1>11, KeptFrame DEF vars
<1>12. QED
  BY <1>1, <1>2, <1>3, <1>4, <1>5, <1>6, <1>7, <1>8, <1>9, <1>10, <1>11
     DEF Next, Ingesting

\* Nothing but two versions ingested at once withdraws a policy altogether.
THEOREM NoneWithdrawn == Spec => []NoTypeIsWithdrawn
<1>1. Init => AllKept
  BY DEF Init, AllKept, Kept, Pending, HasRows
<1>2. AllKept => NoTypeIsWithdrawn
  BY DEF AllKept, Kept, NoTypeIsWithdrawn
<1>3. QED
  BY <1>1, <1>2, InitTypes, TypesKept, AllKeptKept, PTL DEF Spec
=============================================================================
