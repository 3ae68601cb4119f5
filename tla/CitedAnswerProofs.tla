------------------------- MODULE CitedAnswerProofs --------------------------
(***************************************************************************)
(* What a placed clause has to do with its sentence, what is added to a    *)
(* draft and where the markers of an answer come from, and what is         *)
(* released, for any documents, drafts, edits and number of repairs.       *)
(***************************************************************************)
EXTENDS CitedAnswer, TLAPS, FiniteSetTheorems, WellFoundedInduction

-----------------------------------------------------------------------------
(* Sequences one behind the other. *)

Less == {p \in Nat \X Nat : p[1] < p[2]}

LEMMA LessIsWellFounded == IsWellFoundedOn(Less, Nat)
BY NatLessThanWellFounded DEF OpToRel, Less

\* Induction, for a set instead of an operator.
LEMMA SetInduction ==
    ASSUME NEW S, 0 \in S, \A n \in Nat : n \in S => n + 1 \in S
    PROVE  Nat \subseteq S
<1> DEFINE T == {n \in Nat : n \notin S}
<1>1. SUFFICES ASSUME T # {} PROVE FALSE
  OBVIOUS
<1>2. PICK least \in T : \A n \in T : <<n, least>> \notin Less
  <2>1. T \subseteq Nat
    OBVIOUS
  <2> HIDE DEF T
  <2>2. QED
    BY <1>1, <2>1, LessIsWellFounded, WFMin
<1>3. least # 0 /\ least - 1 \in Nat
  OBVIOUS
<1>4. <<least - 1, least>> \in Less
  BY <1>3 DEF Less
<1>5. QED
  BY <1>2, <1>3, <1>4

\* The recursion of FlattenSeq, cut off after m sequences.
Grown(q, g, m) == [i \in 1..m |-> IF i = 1 THEN q[i] ELSE g[i - 1] \o q[i]]

LEMMA GrownAt ==
    ASSUME NEW q, NEW g, NEW m \in Nat, g = Grown(q, g, m), NEW i \in 1..m
    PROVE  /\ i = 1 => g[i] = q[i]
           /\ i # 1 => g[i] = g[i - 1] \o q[i]
<1>1. Grown(q, g, m)[i] = IF i = 1 THEN q[i] ELSE g[i - 1] \o q[i]
  BY DEF Grown
<1>2. g[i] = Grown(q, g, m)[i]
  OBVIOUS
<1>3. QED
  BY <1>1, <1>2

LEMMA FlatteningExists ==
    ASSUME NEW q, NEW n \in Nat
    PROVE  \E g : g = Grown(q, g, n)
<1> DEFINE S == {m \in Nat : \E g : g = Grown(q, g, m)}
<1>1. 0 \in S
  <2>1. Grown(q, <<>>, 0) = Grown(q, Grown(q, <<>>, 0), 0)
    BY DEF Grown
  <2>2. QED
    BY <2>1
<1>2. ASSUME NEW m \in Nat, m \in S PROVE m + 1 \in S
  <2>1. PICK g : g = Grown(q, g, m)
    BY <1>2
  <2> DEFINE last == IF m = 0 THEN q[1] ELSE g[m] \o q[m + 1]
             h == [i \in 1..(m + 1) |-> IF i <= m THEN g[i] ELSE last]
  <2>2. (\A i \in 1..m : h[i] = g[i]) /\ h[m + 1] = last
    <3> HIDE DEF last
    <3>1. QED
      OBVIOUS
  <2>3. \A i \in 1..(m + 1) : h[i] = IF i = 1 THEN q[i] ELSE h[i - 1] \o q[i]
    <3> HIDE DEF h
    <3>1. TAKE i \in 1..(m + 1)
    <3>2. CASE i <= m /\ i = 1
      <4>1. i \in 1..m
        BY <3>2
      <4>2. h[i] = g[i] /\ g[i] = q[i]
        BY <2>1, <2>2, <3>2, <4>1, GrownAt
      <4>3. QED
        BY <3>2, <4>2
    <3>3. CASE i <= m /\ i # 1
      <4>1. i - 1 \in 1..m /\ i \in 1..m
        BY <3>3
      <4>2. h[i - 1] = g[i - 1] /\ h[i] = g[i] /\ g[i] = g[i - 1] \o q[i]
        BY <2>1, <2>2, <3>3, <4>1, GrownAt
      <4>3. QED
        BY <3>3, <4>2
    <3>4. CASE i = m + 1 /\ m # 0
      <4>1. m \in 1..m /\ i - 1 = m /\ i # 1
        BY <3>4
      <4>2. h[m] = g[m] /\ h[i] = g[m] \o q[m + 1]
        BY <2>2, <3>4, <4>1
      <4>3. QED
        BY <3>4, <4>1, <4>2
    <3>5. CASE i = m + 1 /\ m = 0
      BY <2>2, <3>5
    <3>6. QED
      BY <3>2, <3>3, <3>4, <3>5
  <2>4. h = Grown(q, h, m + 1)
    <3>1. DOMAIN h = 1..(m + 1) /\ h = [i \in 1..(m + 1) |-> h[i]]
      OBVIOUS
    <3> HIDE DEF h
    <3>2. QED
      BY <2>3, <3>1 DEF Grown
  <2> HIDE DEF h
  <2>5. QED
    BY <2>4
<1> HIDE DEF S
<1>3. n \in S
  BY <1>1, <1>2, SetInduction
<1>4. QED
  BY <1>3 DEF S

LEMMA ElementsOfConcat ==
    ASSUME NEW V, NEW s \in Seq(V), NEW t \in Seq(V)
    PROVE  s \o t \in Seq(V) /\ ToSet(s \o t) = ToSet(s) \cup ToSet(t)
<1>1. s \o t \in Seq(V) /\ Len(s \o t) = Len(s) + Len(t)
  OBVIOUS
<1>2. \A i \in 1..Len(s) : (s \o t)[i] = s[i]
  OBVIOUS
<1>3. \A i \in 1..Len(t) : (s \o t)[Len(s) + i] = t[i]
  OBVIOUS
<1>4. ToSet(s \o t) \subseteq ToSet(s) \cup ToSet(t)
  BY <1>1 DEF ToSet
<1>5. ToSet(s) \subseteq ToSet(s \o t)
  BY <1>1, <1>2 DEF ToSet
<1>6. ToSet(t) \subseteq ToSet(s \o t)
  <2>1. ASSUME NEW i \in 1..Len(t) PROVE \E k \in DOMAIN (s \o t) : (s \o t)[k] = t[i]
    <3>1. Len(s) + i \in DOMAIN (s \o t)
      BY <1>1
    <3>2. QED
      BY <1>3, <3>1
  <2>2. DOMAIN t = 1..Len(t)
    OBVIOUS
  <2>3. QED
    BY <2>1, <2>2 DEF ToSet
<1>7. QED
  BY <1>1, <1>4, <1>5, <1>6

\* FlattenSeq has the elements of its sequences.
LEMMA ElementsOfFlattened ==
    ASSUME NEW V, NEW q \in Seq(Seq(V))
    PROVE  /\ FlattenSeq(q) \in Seq(V)
           /\ ToSet(FlattenSeq(q)) = UNION {ToSet(q[i]) : i \in DOMAIN q}
<1> DEFINE n == Len(q)
<1>1. CASE n = 0
  BY <1>1 DEF FlattenSeq, ToSet
<1>2. CASE n # 0
  <2> DEFINE f == CHOOSE g : g = Grown(q, g, n)
  <2>1. FlattenSeq(q) = f[n]
    BY <1>2 DEF FlattenSeq, Grown
  <2>2. f = Grown(q, f, n)
    BY FlatteningExists
  <2> HIDE DEF f
  <2> HIDE DEF n
  <2> n \in Nat
    BY DEF n
  <2>3. f[1] = q[1] /\ \A m \in 1..(n - 1) : f[m + 1] = f[m] \o q[m + 1]
    <3>1. f[1] = q[1]
      <4>1. 1 \in 1..n
        BY <1>2
      <4>2. \A i \in 1..n : i = 1 => f[i] = q[i]
        BY <2>2, GrownAt
      <4>3. QED
        BY <4>1, <4>2
    <3>2. ASSUME NEW m \in 1..(n - 1) PROVE f[m + 1] = f[m] \o q[m + 1]
      <4>1. m + 1 \in 1..n /\ m + 1 # 1 /\ (m + 1) - 1 = m
        OBVIOUS
      <4>2. f[m + 1] = f[(m + 1) - 1] \o q[m + 1]
        BY <2>2, <4>1, GrownAt
      <4>3. QED
        BY <4>1, <4>2
    <3>3. QED
      BY <3>1, <3>2
  <2>9. DOMAIN q = 1..n /\ \A i \in 1..n : q[i] \in Seq(V)
    BY DEF n
  <2> DEFINE Fits(m) == /\ f[m] \in Seq(V)
                        /\ ToSet(f[m]) = UNION {ToSet(q[i]) : i \in 1..m}
             S == {m \in Nat : m + 1 \in 1..n => Fits(m + 1)}
  <2>4. 0 \in S
    <3>1. 1..1 = {1}
      OBVIOUS
    <3>2. Fits(1)
      BY <1>2, <2>3, <2>9, <3>1
    <3>3. QED
      BY <3>2
  <2>5. ASSUME NEW m \in Nat, m \in S PROVE m + 1 \in S
    <3>1. SUFFICES ASSUME (m + 1) + 1 \in 1..n PROVE Fits((m + 1) + 1)
      BY DEF S
    <3>0. (m + 1) + 1 = m + 2 /\ m + 1 \in 1..(n - 1) /\ m + 2 \in 1..n
      BY <3>1
    <3>2. Fits(m + 1)
      BY <2>5, <3>0
    <3>3. f[m + 2] = f[m + 1] \o q[m + 2] /\ q[m + 2] \in Seq(V)
      BY <2>3, <2>9, <3>0
    <3>4. /\ f[m + 2] \in Seq(V)
          /\ ToSet(f[m + 2]) = ToSet(f[m + 1]) \cup ToSet(q[m + 2])
      BY <3>2, <3>3, ElementsOfConcat
    <3>5. 1..(m + 2) = (1..(m + 1)) \cup {m + 2}
      OBVIOUS
    <3>6. QED
      BY <3>0, <3>2, <3>4, <3>5
  <2>6. n - 1 \in S
    <3> HIDE DEF S
    <3>1. n - 1 \in Nat
      BY <1>2
    <3>2. QED
      BY <2>4, <2>5, <3>1, SetInduction
  <2>7. Fits(n)
    <3>1. (n - 1) + 1 = n /\ n \in 1..n
      BY <1>2
    <3>2. (n - 1) + 1 \in 1..n => Fits((n - 1) + 1)
      BY <2>6
    <3> HIDE DEF Fits
    <3>3. QED
      BY <3>1, <3>2
  <2>8. QED
    BY <2>1, <2>7, <2>9
<1>3. QED
  BY <1>1, <1>2
-----------------------------------------------------------------------------
(* The clause that is placed on a sentence. *)

\* Of the clauses with a marker none shares more words, and whichever shares as many
\* is a relative, or was not named where this one was.
Unrivalled(s, c, found, primary, withParents) ==
    \A d \in Candidates(s, found, withParents) :
        /\ Shared[s][d] <= Shared[s][c]
        /\ Shared[s][d] = Shared[s][c] =>
               SameFamily(c, d) \/ (c \in primary /\ d \notin primary)

Backed(s, c, found) ==
    /\ c \in Citable(found) /\ Marker(c)
    /\ Supports(s, c)

LEMMA CandidatesAreShared ==
    ASSUME NEW s \in Statements, NEW found, NEW withParents \in BOOLEAN,
           NEW c \in Candidates(s, found, withParents)
    PROVE  c \in Clauses /\ c \in Citable(found) /\ Marker(c) /\ Shared[s][c] \in Nat
BY TextAssumption DEF Candidates, Citable

\* Who is beaten by nobody shares the most words, and as many with those it does not
\* beat by its name.
LEMMA BestIsUnrivalled ==
    ASSUME NEW s \in Statements, NEW found, NEW primary, NEW withParents \in BOOLEAN,
           NEW c \in Best(s, found, primary, withParents),
           \A d \in Best(s, found, primary, withParents) : SameFamily(c, d)
    PROVE  Unrivalled(s, c, found, primary, withParents)
<1> DEFINE all == Candidates(s, found, withParents)
<1>1. c \in all /\ \A d \in all : ~Beats(s, primary, d, c)
  BY DEF Best
<1>2. SUFFICES ASSUME NEW d \in all
               PROVE  /\ Shared[s][d] <= Shared[s][c]
                      /\ Shared[s][d] = Shared[s][c] =>
                             SameFamily(c, d) \/ (c \in primary /\ d \notin primary)
  BY DEF Unrivalled
<1>3. Shared[s][c] \in Nat /\ Shared[s][d] \in Nat
  BY <1>1, CandidatesAreShared
<1>4. Shared[s][d] <= Shared[s][c]
  BY <1>1, <1>3 DEF Beats
<1>5. ASSUME Shared[s][d] = Shared[s][c], ~(c \in primary /\ d \notin primary)
      PROVE  SameFamily(c, d)
  <2>1. d \in primary => c \in primary
    BY <1>1, <1>5 DEF Beats
  <2>2. ASSUME NEW e \in all, Beats(s, primary, e, d)
        PROVE  FALSE
    <3>1. Shared[s][e] \in Nat
      BY CandidatesAreShared
    <3>2. ~Beats(s, primary, e, c)
      BY <1>1
    <3>3. Beats(s, primary, e, c)
      BY <1>5, <2>1, <2>2, <3>1, <1>3 DEF Beats
    <3>4. QED
      BY <3>2, <3>3
  <2>3. d \in Best(s, found, primary, withParents)
    BY <2>2 DEF Best
  <2>4. QED
    BY <2>3
<1>6. QED
  BY <1>4, <1>5

LEMMA PlacedClauseIsBacked ==
    ASSUME NEW s \in Statements, NEW found, NEW primary, NEW withParents \in BOOLEAN,
           PlacedClause(s, found, primary, withParents) # NoClause
    PROVE  LET c == PlacedClause(s, found, primary, withParents)
           IN  Backed(s, c, found) /\ Unrivalled(s, c, found, primary, withParents)
<1> DEFINE best == Best(s, found, primary, withParents)
           first == CHOOSE c \in best : c \notin Extracts \/ best \subseteq Extracts
<1>1. /\ PlacedClause(s, found, primary, withParents) = first
      /\ best # {} /\ Supports(s, first) /\ \A d \in best : SameFamily(first, d)
  BY DEF PlacedClause
<1>2. \E c \in best : c \notin Extracts \/ best \subseteq Extracts
  BY <1>1
<1>3. first \in best
  BY <1>2
<1>4. first \in Candidates(s, found, withParents)
  BY <1>3 DEF Best
<1>5. Backed(s, first, found)
  BY <1>1, <1>4, CandidatesAreShared DEF Backed
<1>6. Unrivalled(s, first, found, primary, withParents)
  BY <1>1, <1>3, BestIsUnrivalled
<1>7. QED
  BY <1>1, <1>5, <1>6

\* A clause is placed on a sentence only when it was retrieved, shares enough of its
\* words, does not contradict it, and no unrelated clause does as well
\* (cite_uncited_sentences).
THEOREM PlacedClausesAreBacked ==
    ASSUME NEW s \in Statements, NEW found \in SUBSET Extracts, NEW primary \in SUBSET Clauses,
           SupportingClause[s][found][primary] # NoClause
    PROVE  LET c == SupportingClause[s][found][primary]
           IN  /\ Backed(s, c, found)
               /\ \E withParents \in BOOLEAN : Unrivalled(s, c, found, primary, withParents)
<1> DEFINE inner == PlacedClause(s, found, primary, FALSE)
           outer == PlacedClause(s, found, primary, TRUE)
<1>1. SupportingClause[s][found][primary] = IF inner # NoClause THEN inner ELSE outer
  BY DEF SupportingClause
<1>2. CASE inner # NoClause
  BY <1>1, <1>2, PlacedClauseIsBacked
<1>3. ASSUME inner = NoClause
      PROVE  /\ Backed(s, outer, found)
             /\ Unrivalled(s, outer, found, primary, TRUE)
  <2>1. outer # NoClause
    BY <1>1, <1>3
  <2>2. QED
    BY <2>1, PlacedClauseIsBacked
<1>4. CASE inner = NoClause
  BY <1>1, <1>3, <1>4
<1>5. QED
  BY <1>2, <1>4

-----------------------------------------------------------------------------
(* Where the markers of an answer come from. *)

\* The sentence is as it was, or has a clause that supports it where it had none.
Cited(old, new, found) ==
    /\ new \in Sentences /\ new.kind = old.kind /\ new.says = old.says
    /\ old.marks \subseteq new.marks
    /\ \/ new = old
       \/ \E c \in Citable(found) :
             /\ new.marks = {c} /\ old.marks = {}
             /\ Marker(c) /\ Supports(old.says, c)

LEMMA PlacedSentence ==
    ASSUME NEW text \in Seq(Sentences), NEW cited, NEW found \in SUBSET Extracts,
           NEW skipRecords \in BOOLEAN, NEW i \in DOMAIN text
    PROVE  Cited(text[i], Placed(text, cited, found, skipRecords)[i], found)
<1> DEFINE primary == (cited \cup Marks(text)) \cap Citable(found)
           clause == SupportingClause[text[i].says][found][primary]
           new == Placed(text, cited, found, skipRecords)[i]
<1>1. text[i] \in Sentences /\ text[i].says \in Statements
  <2>1. text[i] \in Sentences
    OBVIOUS
  <2>2. QED
    BY <2>1 DEF Sentences
<1>2. primary \in SUBSET Clauses
  BY DEF Citable
<1>3. new = IF IsBare(text[i], skipRecords) /\ clause # NoClause
            THEN [text[i] EXCEPT !.marks = {clause}] ELSE text[i]
  BY DEF Placed
<1> HIDE DEF primary, new
<1>4. CASE IsBare(text[i], skipRecords) /\ clause # NoClause
  <2>1. clause \in Citable(found) /\ Marker(clause) /\ Supports(text[i].says, clause)
    BY <1>1, <1>2, <1>4, PlacedClausesAreBacked DEF Backed
  <2>2. /\ new \in Sentences /\ new.kind = text[i].kind /\ new.says = text[i].says
        /\ new.marks = {clause} /\ text[i].marks = {}
    BY <1>1, <1>3, <1>4, <2>1 DEF Sentences, IsBare, Citable
  <2>3. QED
    BY <1>4, <2>1, <2>2 DEF new, Cited
<1>5. CASE ~(IsBare(text[i], skipRecords) /\ clause # NoClause)
  BY <1>1, <1>3, <1>5 DEF new, Cited
<1>6. QED
  BY <1>4, <1>5

-----------------------------------------------------------------------------
(* What is added to what the writer wrote. *)

\* What the extracts name in their own text, and what may be cited or appended of them.
BodyMarks(found) == UNION {Marks(Body[e]) : e \in found}
Retrieved(found) == Citable(found) \cup BodyMarks(found)

\* Every sentence of the text is still there, in its place and word by word, with its
\* markers; and whatever marker there is besides is one of the clauses.
Adds(text, made, clauses) ==
    /\ Len(text) <= Len(made)
    /\ \A i \in DOMAIN text :
          /\ made[i].kind = text[i].kind /\ made[i].says = text[i].says
          /\ text[i].marks \subseteq made[i].marks
    /\ Marks(made) \subseteq Marks(text) \cup clauses

LEMMA MarksOfElements ==
    ASSUME NEW text
    PROVE  Marks(text) = UNION {s.marks : s \in ToSet(text)}
BY DEF Marks, ToSet

LEMMA PlacedAdds ==
    ASSUME NEW text \in Seq(Sentences), NEW cited \in SUBSET Clauses,
           NEW found \in SUBSET Extracts, NEW skipRecords \in BOOLEAN
    PROVE  LET placed == Placed(text, cited, found, skipRecords)
           IN  /\ placed \in Seq(Sentences) /\ DOMAIN placed = DOMAIN text
               /\ Adds(text, placed, Citable(found))
<1> DEFINE placed == Placed(text, cited, found, skipRecords)
<1>1. DOMAIN placed = 1..Len(text) /\ Len(text) \in Nat /\ DOMAIN text = 1..Len(text)
  BY DEF Placed
<1>2. ASSUME NEW i \in DOMAIN text
      PROVE  /\ placed[i] \in Sentences
             /\ placed[i].kind = text[i].kind /\ placed[i].says = text[i].says
             /\ text[i].marks \subseteq placed[i].marks
             /\ placed[i].marks \subseteq Marks(text) \cup Citable(found)
  <2>1. text[i].marks \subseteq Marks(text)
    BY DEF Marks
  <2>2. Cited(text[i], placed[i], found)
    BY PlacedSentence
  <2>3. QED
    BY <2>1, <2>2 DEF Cited
<1>3. placed = [i \in 1..Len(text) |-> placed[i]]
  BY <1>1 DEF Placed
<1> HIDE DEF placed
<1>4. placed \in Seq(Sentences) /\ Len(placed) = Len(text)
  BY <1>1, <1>2, <1>3
<1>5. Marks(placed) \subseteq Marks(text) \cup Citable(found)
  BY <1>1, <1>2 DEF Marks
<1>6. QED
  BY <1>1, <1>2, <1>4, <1>5 DEF Adds, placed

LEMMA InlinedAdds ==
    ASSUME NEW text \in Seq(Sentences), NEW cited \in SUBSET Clauses,
           NEW found \in SUBSET Extracts
    PROVE  LET made == Inlined(text, cited, found)
           IN  made \in Seq(Sentences) /\ Adds(text, made, Citable(found))
<1> DEFINE tag == {c \in cited \cap Citable(found) : Marker(c)}
           made == Inlined(text, cited, found)
<1>1. tag \subseteq Citable(found) /\ tag \in SUBSET Clauses
  OBVIOUS
<1>2. CASE text # <<>>
  <2> DEFINE n == Len(text)
             last == [text[n] EXCEPT !.marks = @ \cup tag]
  <2>1. made = [text EXCEPT ![n] = last]
    BY <1>2 DEF Inlined
  <2>2. n \in 1..n /\ DOMAIN text = 1..n /\ text[n] \in Sentences
    BY <1>2
  <2>3. /\ last \in Sentences /\ last.kind = text[n].kind /\ last.says = text[n].says
        /\ last.marks = text[n].marks \cup tag
    BY <1>1, <2>2 DEF Sentences
  <2> HIDE DEF tag, last, made
  <2>4. /\ made \in Seq(Sentences) /\ Len(made) = n /\ DOMAIN made = 1..n
        /\ \A i \in 1..n : made[i] = IF i = n THEN last ELSE text[i]
    BY <2>1, <2>2, <2>3
  <2>5. \A i \in 1..n :
            made[i].marks \subseteq Marks(text) \cup Citable(found) /\ text[i].marks \subseteq made[i].marks
            /\ made[i].kind = text[i].kind /\ made[i].says = text[i].says
    BY <1>1, <2>2, <2>3, <2>4 DEF Marks
  <2>6. Marks(made) \subseteq Marks(text) \cup Citable(found)
    BY <2>4, <2>5 DEF Marks
  <2>7. Adds(text, made, Citable(found))
    <3>1. Len(text) <= Len(made)
      <4>1. n \in Nat
        OBVIOUS
      <4>2. Len(made) = n
        BY <2>4
      <4>3. QED
        BY <4>1, <4>2
    <3>2. Marks(made) \subseteq Marks(text) \cup Citable(found)
      BY <2>6
    <3>3. \A i \in DOMAIN text :
              /\ made[i].kind = text[i].kind /\ made[i].says = text[i].says
              /\ text[i].marks \subseteq made[i].marks
      BY <2>2, <2>5
    <3>4. QED
      BY <3>1, <3>2, <3>3 DEF Adds
  <2>8. QED
    BY <2>4, <2>7 DEF made
<1>3. CASE text = <<>> /\ tag = {}
  BY <1>3 DEF Inlined, Adds, Marks
<1>4. CASE text = <<>> /\ tag # {}
  <2> DEFINE alone == [kind |-> "courtesy", says |-> CHOOSE t \in Statements : TRUE,
                       marks |-> tag]
  <2>1. made = <<alone>>
    BY <1>4 DEF Inlined
  <2>2. (CHOOSE t \in Statements : TRUE) \in Statements
    BY TextAssumption
  <2>3. alone \in Sentences /\ alone.marks = tag
    BY <1>1, <2>2 DEF Sentences, Kinds
  <2> HIDE DEF tag, alone, made
  <2>4. made \in Seq(Sentences) /\ Len(made) = 1 /\ Marks(made) = tag
    BY <2>1, <2>3 DEF Marks
  <2>5. DOMAIN text = {} /\ Len(text) = 0
    BY <1>4
  <2>6. QED
    BY <1>1, <2>4, <2>5 DEF Adds, made
<1>5. QED
  BY <1>2, <1>3, <1>4

LEMMA AddsTwice ==
    ASSUME NEW text \in Seq(Sentences), NEW made \in Seq(Sentences), NEW more \in Seq(Sentences),
           NEW few, NEW many, few \subseteq many, Adds(text, made, few), Adds(made, more, many)
    PROVE  Adds(text, more, many)
<1>1. DOMAIN text \subseteq DOMAIN made /\ Len(text) <= Len(more)
  BY DEF Adds
<1>2. QED
  BY <1>1 DEF Adds

LEMMA NothingAdded ==
    ASSUME NEW text \in Seq(Sentences), NEW clauses
    PROVE  Adds(text, text, clauses)
BY DEF Adds

LEMMA FallbackAdds ==
    ASSUME NEW text \in Seq(Sentences), NEW cited \in SUBSET Clauses,
           NEW found \in SUBSET Extracts
    PROVE  LET made == WithFallback(text, cited, found)
           IN  made \in Seq(Sentences) /\ Adds(text, made, Citable(found))
BY InlinedAdds, NothingAdded DEF WithFallback

LEMMA OrderOfSiblings ==
    ASSUME NEW S \in SUBSET Extracts, NEW o \in SetToAllKPermutations(S)
    PROVE  /\ o \in Seq(S)
           /\ \A i, j \in DOMAIN o : i # j => o[i] # o[j]
<1>1. PICK s \in SUBSET S : o \in SetToSeqs(s)
  BY DEF SetToAllKPermutations
<1>2. IsFiniteSet(s) /\ Cardinality(s) \in Nat
  BY ClauseAssumption, FS_Subset, FS_CardinalityType
<1>3. /\ o \in [1..Cardinality(s) -> s]
      /\ \A i, j \in 1..Cardinality(s) : i # j => o[i] # o[j]
  BY <1>1 DEF SetToSeqs
<1>4. o \in [1..Cardinality(s) -> S]
  BY <1>3
<1>5. QED
  BY <1>2, <1>3, <1>4

LEMMA AppendedExtract ==
    ASSUME NEW e \in Extracts
    PROVE  /\ Appended(e) \in Seq(Sentences)
           /\ Marks(Appended(e)) \subseteq {e} \cup Marks(Body[e])
           /\ Body[e] # <<>> => e \in Marks(Appended(e))
<1> DEFINE b == Body[e]
           n == Len(b)
           a == Appended(e)
<1>1. b \in Seq(Sentences) /\ n \in Nat /\ DOMAIN b = 1..n /\ e \in Clauses
  BY TextAssumption, ClauseAssumption
<1>2. /\ DOMAIN a = 1..n /\ a = [i \in 1..n |-> a[i]]
      /\ \A i \in 1..n : a[i] = IF i = n THEN [b[i] EXCEPT !.marks = {e}] ELSE b[i]
  BY <1>1 DEF Appended
<1> HIDE DEF a, b, n
<1>3. \A i \in 1..n : /\ a[i] \in Sentences
                      /\ a[i].marks \subseteq {e} \cup b[i].marks
                      /\ i = n => a[i].marks = {e}
  <2>1. TAKE i \in 1..n
  <2>2. b[i] \in Sentences
    BY <1>1
  <2>3. CASE i = n
    <3>1. a[i] = [b[i] EXCEPT !.marks = {e}]
      BY <1>2, <2>3
    <3>2. QED
      BY <1>1, <2>2, <2>3, <3>1 DEF Sentences
  <2>4. CASE i # n
    BY <1>2, <2>2, <2>4
  <2>5. QED
    BY <2>3, <2>4
<1>4. a \in Seq(Sentences)
  BY <1>1, <1>2, <1>3
<1>5. Marks(a) \subseteq {e} \cup Marks(b)
  BY <1>1, <1>2, <1>3 DEF Marks
<1>6. ASSUME b # <<>> PROVE e \in Marks(a)
  <2>1. n \in 1..n
    BY <1>1, <1>6 DEF n
  <2>2. QED
    BY <1>2, <1>3, <2>1 DEF Marks
<1>7. QED
  BY <1>4, <1>5, <1>6 DEF a, b

\* What is appended, in whatever order.
LEMMA AppendedExtracts ==
    ASSUME NEW S \in SUBSET Extracts, NEW o \in Seq(S)
    PROVE  LET tail == FlattenSeq([i \in DOMAIN o |-> Appended(o[i])])
           IN  /\ tail \in Seq(Sentences)
               /\ Marks(tail) \subseteq S \cup BodyMarks(S)
               /\ \A e \in ToSet(o) : Body[e] # <<>> => e \in Marks(tail)
<1> DEFINE q == [i \in DOMAIN o |-> Appended(o[i])]
           tail == FlattenSeq(q)
<1>1. DOMAIN o = 1..Len(o) /\ Len(o) \in Nat /\ \A i \in DOMAIN o : o[i] \in S /\ o[i] \in Extracts
  OBVIOUS
<1>2. \A i \in DOMAIN o : q[i] = Appended(o[i]) /\ q[i] \in Seq(Sentences)
  BY <1>1, AppendedExtract
<1>3. DOMAIN q = DOMAIN o /\ q \in Seq(Seq(Sentences))
  BY <1>1, <1>2
<1> HIDE DEF q
<1>4. /\ tail \in Seq(Sentences)
      /\ ToSet(tail) = UNION {ToSet(q[i]) : i \in DOMAIN q}
  BY <1>3, ElementsOfFlattened
<1> HIDE DEF tail
<1>5. Marks(tail) = UNION {Marks(q[i]) : i \in DOMAIN q}
  BY <1>4, MarksOfElements
<1>6. \A i \in DOMAIN o : /\ Marks(q[i]) \subseteq {o[i]} \cup Marks(Body[o[i]])
                          /\ Body[o[i]] # <<>> => o[i] \in Marks(q[i])
  BY <1>1, <1>2, AppendedExtract
<1>7. Marks(tail) \subseteq S \cup BodyMarks(S)
  BY <1>1, <1>3, <1>5, <1>6 DEF BodyMarks
<1>8. \A e \in ToSet(o) : Body[e] # <<>> => e \in Marks(tail)
  BY <1>3, <1>5, <1>6 DEF ToSet
<1>9. QED
  BY <1>4, <1>7, <1>8 DEF tail, q

\* An extract in hand may be cited.
LEMMA ExtractsAreCitable ==
    ASSUME NEW found \in SUBSET Extracts
    PROVE  found \subseteq Citable(found)
BY ClauseAssumption, HomeAssumption DEF Citable

LEMMA CompletedAdds ==
    ASSUME NEW text \in Seq(Sentences), NEW found \in SUBSET Extracts,
           NEW siblings \in SUBSET found, NEW made \in Completed(text, siblings)
    PROVE  made \in Seq(Sentences) /\ Adds(text, made, Retrieved(found))
<1>1. PICK o \in SetToAllKPermutations(siblings) :
          made = text \o FlattenSeq([i \in DOMAIN o |-> Appended(o[i])])
  BY DEF Completed
<1> DEFINE tail == FlattenSeq([i \in DOMAIN o |-> Appended(o[i])])
<1>2. o \in Seq(siblings) /\ siblings \in SUBSET Extracts
  BY OrderOfSiblings
<1>3. tail \in Seq(Sentences) /\ Marks(tail) \subseteq siblings \cup BodyMarks(siblings)
  BY <1>2, AppendedExtracts
<1> HIDE DEF tail
<1>4. made = text \o tail
  BY <1>1 DEF tail
<1>5. made \in Seq(Sentences) /\ Marks(made) = Marks(text) \cup Marks(tail)
  BY <1>3, <1>4, ElementsOfConcat, MarksOfElements
<1>6. Marks(made) \subseteq Marks(text) \cup Retrieved(found)
  BY <1>3, <1>5, ExtractsAreCitable DEF Retrieved, BodyMarks
<1>7. Len(text) <= Len(made) /\ \A i \in DOMAIN text : made[i] = text[i]
  BY <1>3, <1>4
<1>8. QED
  BY <1>5, <1>6, <1>7 DEF Adds

\* As long as there are no more siblings than may be appended, each of them is in the
\* answer with its marker: the list the writer left a hole in is whole
\* (append_sibling_clauses).
THEOREM SiblingsAreCited ==
    ASSUME NEW text \in Seq(Sentences), NEW siblings \in SUBSET Extracts,
           Cardinality(siblings) <= MaxSiblings, \A e \in siblings : Body[e] # <<>>,
           NEW made \in Completed(text, siblings)
    PROVE  siblings \subseteq Marks(made)
<1>1. PICK o \in SetToAllKPermutations(siblings) :
          /\ made = text \o FlattenSeq([i \in DOMAIN o |-> Appended(o[i])])
          /\ Len(o) = MaxSiblings \/ ToSet(o) = siblings
  BY DEF Completed
<1> DEFINE tail == FlattenSeq([i \in DOMAIN o |-> Appended(o[i])])
<1>2. o \in Seq(siblings) /\ \A i, j \in DOMAIN o : i # j => o[i] # o[j]
  BY OrderOfSiblings
<1>3. IsFiniteSet(siblings) /\ Cardinality(siblings) \in Nat /\ MaxSiblings \in Nat
  BY ClauseAssumption, BoundAssumption, FS_Subset, FS_CardinalityType
<1>4. siblings \subseteq ToSet(o)
  <2>1. CASE Len(o) = MaxSiblings
    <3> DEFINE n == Len(o)
    <3>1. n \in Nat /\ DOMAIN o = 1..n /\ o \in [1..n -> siblings]
      BY <1>2
    <3>2. IsFiniteSet(1..n) /\ Cardinality(1..n) = n
      <4> HIDE DEF n
      <4>1. IsFiniteSet(1..n) /\ Cardinality(1..n) = IF 1 > n THEN 0 ELSE n - 1 + 1
        BY <3>1, FS_Interval
      <4>2. QED
        BY <3>1, <4>1
    <3>3. o \in Injection(1..n, ToSet(o)) /\ o \in Surjection(1..n, ToSet(o))
      BY <1>2, <3>1 DEF ToSet, Injection, Surjection, IsInjective
    <3>4. IsFiniteSet(ToSet(o)) /\ ToSet(o) \subseteq siblings
      BY <1>3, <3>1, FS_Subset DEF ToSet
    <3>5. Cardinality(ToSet(o)) = n
      BY <3>2, <3>3, <3>4, FS_Injection, FS_Surjection
    <3>6. QED
      BY <1>3, <2>1, <3>4, <3>5, FS_Subset
  <2>2. QED
    BY <1>1, <2>1
<1>5. tail \in Seq(Sentences) /\ siblings \subseteq Marks(tail)
  BY <1>2, <1>4, AppendedExtracts
<1> HIDE DEF tail
<1>6. made = text \o tail
  BY <1>1 DEF tail
<1>7. QED
  BY <1>5, <1>6, ElementsOfConcat, MarksOfElements

\* Whatever becomes of a draft before it is validated, the writer's sentences stay as
\* they are, and no marker is made up: what is added is of a retrieved extract, or in
\* its text (_cite_every_sentence, append_sibling_clauses).
THEOREM FinishedAdds ==
    ASSUME NEW d \in Drafts, NEW found \in SUBSET Extracts, NEW skipRecords \in BOOLEAN,
           NEW made \in Finished(d, found, skipRecords)
    PROVE  made \in Seq(Sentences) /\ Adds(d.answer, made, Retrieved(found))
<1> DEFINE placed == Placed(d.answer, d.cited, found, skipRecords)
           attached == UNION {placed[i].marks : i \in {j \in DOMAIN placed : d.answer[j].marks = {}}}
           marked == WithFallback(placed, d.cited, found)
           siblings == Siblings(marked, d.cited \cup attached, found)
<1>1. d.answer \in Seq(Sentences) /\ d.cited \in SUBSET Clauses
  BY DraftAssumption
<1>2. placed \in Seq(Sentences) /\ Adds(d.answer, placed, Citable(found))
  BY <1>1, PlacedAdds
<1>3. made \in Completed(marked, siblings)
  BY DEF Finished
<1> HIDE DEF placed
<1>4. marked \in Seq(Sentences) /\ Adds(placed, marked, Citable(found))
  BY <1>1, <1>2, FallbackAdds
<1>5. siblings \in SUBSET found
  BY DEF Siblings
<1> HIDE DEF marked, siblings
<1>6. made \in Seq(Sentences) /\ Adds(marked, made, Retrieved(found))
  BY <1>3, <1>4, <1>5, CompletedAdds
<1>7. Citable(found) \subseteq Retrieved(found)
  BY DEF Retrieved
<1>8. Adds(d.answer, marked, Citable(found))
  BY <1>1, <1>2, <1>4, AddsTwice
<1>9. QED
  BY <1>1, <1>4, <1>6, <1>7, <1>8, AddsTwice

-----------------------------------------------------------------------------
(* Types, and what becomes of a draft. *)

Nodes == {"rag_path", "nl2sql_path", "compliance_validation", "reflection",
          "confidence_scoring", "escalation_manager", "output_guardrail"}
Ends == {"not_found", "rejected", "refused", "released"}

TypeOK ==
    /\ node \in Nodes \cup Ends
    /\ route \in Routes
    /\ human \in BOOLEAN /\ rows \in BOOLEAN /\ reviewed \in BOOLEAN
    /\ chunks \in SUBSET Extracts
    /\ written \in Seq(Sentences) /\ answer \in Seq(Sentences)
    /\ repairs \in 0..MaxRepairs

\* A stage starts from no draft, and a reviewer comes after the last repair.
DraftStands ==
    /\ node \in {"rag_path", "nl2sql_path"} => written = <<>> /\ answer = <<>>
    /\ node \in Nodes \ {"escalation_manager", "output_guardrail"} => ~reviewed
    /\ node = "reflection" => repairs < MaxRepairs
    /\ ~reviewed => Adds(written, answer, Retrieved(chunks))

LEMMA EmptySequence == <<>> \in Seq(Sentences)
OBVIOUS

LEMMA InitStands == Init => TypeOK /\ DraftStands
<1> SUFFICES ASSUME Init PROVE TypeOK /\ DraftStands
  OBVIOUS
<1>1. TypeOK
  <2>1. 0 \in 0..MaxRepairs
    BY BoundAssumption
  <2>2. QED
    BY <2>1, EmptySequence DEF Init, TypeOK, Nodes
<1>2. Adds(written, answer, Retrieved(chunks))
  BY EmptySequence, NothingAdded DEF Init
<1>3. QED
  BY <1>1, <1>2 DEF Init, DraftStands

LEMMA WriteStands ==
    ASSUME TypeOK, ~reviewed', chunks' \in SUBSET Extracts,
           NEW d \in Drafts, NEW skipRecords \in BOOLEAN, Write(d, chunks', skipRecords)
    PROVE  /\ node' = "compliance_validation"
           /\ written' \in Seq(Sentences) /\ answer' \in Seq(Sentences)
           /\ Adds(written', answer', Retrieved(chunks'))
BY FinishedAdds, DraftAssumption DEF Write

LEMMA StepStands == TypeOK /\ DraftStands /\ [Next]_vars => TypeOK' /\ DraftStands'
<1> SUFFICES ASSUME TypeOK, DraftStands, [Next]_vars
             PROVE  TypeOK' /\ DraftStands'
  OBVIOUS
<1>1. MaxRepairs \in Nat
  BY BoundAssumption
<1>2. CASE RagPath
  <2>1. ~reviewed /\ written = <<>> /\ answer = <<>> /\ chunks' \in SUBSET Extracts
        /\ UNCHANGED <<route, human, rows, repairs, reviewed>>
    BY <1>2 DEF RagPath, DraftStands, Nodes
  <2>2. CASE node' \in {"not_found", "nl2sql_path"} /\ UNCHANGED <<written, answer>>
    <3>1. Adds(<<>>, <<>>, Retrieved(chunks'))
      BY EmptySequence, NothingAdded
    <3>2. QED
      BY <2>1, <2>2, <3>1 DEF TypeOK, DraftStands, Nodes, Ends
  <2>3. CASE \E d \in Drafts : Write(d, chunks', FALSE)
    BY <2>1, <2>3, WriteStands DEF TypeOK, DraftStands, Nodes
  <2>4. QED
    BY <1>2, <2>2, <2>3 DEF RagPath, NotFound
<1>3. CASE Nl2sqlPath
  <2>1. /\ ~reviewed /\ written = <<>> /\ answer = <<>>
        /\ rows' \in BOOLEAN
        /\ UNCHANGED <<chunks, route, human, repairs, reviewed>>
    BY <1>3 DEF Nl2sqlPath, DraftStands, Nodes, TypeOK
  <2>2. CASE NotFound
    BY <2>1, <2>2 DEF NotFound, TypeOK, DraftStands, Nodes, Ends
  <2>3. CASE \E d \in Drafts : Write(d, chunks, TRUE)
    <3>1. chunks' \in SUBSET Extracts /\ \E d \in Drafts : Write(d, chunks', TRUE)
      BY <2>1, <2>3 DEF TypeOK
    <3>2. QED
      BY <2>1, <3>1, WriteStands DEF TypeOK, DraftStands, Nodes
  <2>4. QED
    BY <1>3, <2>2, <2>3 DEF Nl2sqlPath
<1>4. CASE ValidationPasses
  BY <1>4 DEF ValidationPasses, TypeOK, DraftStands, Nodes
<1>5. CASE ValidationFails
  BY <1>5 DEF ValidationFails, TypeOK, DraftStands, Nodes, Ends
<1>6. CASE Reflection
  <2>1. Adds(<<>>, <<>>, Retrieved({}))
    BY EmptySequence, NothingAdded
  <2>2. repairs' \in 0..MaxRepairs /\ ~reviewed
    BY <1>1, <1>6 DEF Reflection, TypeOK, DraftStands, Nodes
  <2>3. QED
    BY <1>6, <2>1, <2>2 DEF Reflection, TypeOK, DraftStands, Nodes
<1>7. CASE ConfidenceScoring
  BY <1>7 DEF ConfidenceScoring, TypeOK, DraftStands, Nodes
<1>8. CASE Review
  BY <1>8, EditAssumption DEF Review, TypeOK, DraftStands, Nodes, Ends
<1>9. CASE OutputGuardrail
  BY <1>9 DEF OutputGuardrail, TypeOK, DraftStands, Nodes, Ends
<1>10. CASE UNCHANGED vars
  BY <1>10 DEF vars, TypeOK, DraftStands
<1>11. QED
  BY <1>2, <1>3, <1>4, <1>5, <1>6, <1>7, <1>8, <1>9, <1>10 DEF Next

LEMMA Stands == Spec => [](TypeOK /\ DraftStands)
BY InitStands, StepStands, PTL DEF Spec

\* Nodes, sentences and extracts stay what they are declared to be, and no answer is
\* repaired more often than the settings allow (reflection_count).
THEOREM TypeCorrect == Spec => []TypeOK
BY Stands, PTL

\* Until a reviewer has edited it, an answer is what its writer wrote, sentence by
\* sentence, with nothing but markers of what its own pass retrieved and whole sibling
\* clauses added: no clause of an earlier pass outlives a repair (reflection_node).
THEOREM DraftsAreFaithful == Spec => [](~reviewed => Adds(written, answer, Retrieved(chunks)))
<1>1. DraftStands => (~reviewed => Adds(written, answer, Retrieved(chunks)))
  BY DEF DraftStands
<1>2. QED
  BY <1>1, Stands, PTL

-----------------------------------------------------------------------------
(* What is released. *)

\* The validator may pass only what has a clause under every claim, and on the policy
\* route that needs an extract: without one nobody writes but for a user who asked for a
\* person, who is answered by one.  So what comes to the guardrail unread was passed.
Passed ==
    /\ ~Defective
    /\ route = "rag" /\ ~human => chunks # {}

Vetted ==
    /\ node = "nl2sql_path" => route = "hybrid"
    /\ node = "compliance_validation" /\ route = "rag" /\ ~human => chunks # {}
    /\ node = "confidence_scoring" => Passed
    /\ node \in {"output_guardrail", "released"} /\ ~reviewed => ~human /\ Passed
    /\ node = "released" => ~Refused

LEMMA InitVetted == Init => Vetted
BY DEF Init, Vetted

\* Nothing that the verdicts on an answer are about changes.
LEMMA SameVerdicts ==
    ASSUME UNCHANGED <<route, human, chunks, rows, answer, reviewed>>
    PROVE  (Passed <=> Passed') /\ (Refused <=> Refused')
BY DEF Passed, Refused, Defective, RagPolicyAnswer, Citable, Allowed, Marks, IsBare, Substantive

LEMMA NextVetted == Vetted /\ [Next]_vars => Vetted'
<1> SUFFICES ASSUME Vetted, [Next]_vars
             PROVE  Vetted'
  OBVIOUS
<1>1. CASE RagPath
  BY <1>1 DEF RagPath, NotFound, Write, Vetted
<1>2. CASE Nl2sqlPath
  BY <1>2 DEF Nl2sqlPath, NotFound, Write, Vetted
<1>3. CASE ValidationPasses
  <2>1. Passed
    BY <1>3 DEF ValidationPasses, Vetted, Passed
  <2>2. QED
    BY <1>3, <2>1, SameVerdicts DEF ValidationPasses, Vetted
<1>4. CASE ValidationFails
  BY <1>4 DEF ValidationFails, Vetted
<1>5. CASE Reflection
  BY <1>5 DEF Reflection, Vetted
<1>6. CASE ConfidenceScoring
  BY <1>6, SameVerdicts DEF ConfidenceScoring, Vetted
<1>7. CASE Review
  BY <1>7 DEF Review, Vetted
<1>8. CASE OutputGuardrail
  BY <1>8, SameVerdicts DEF OutputGuardrail, Vetted
<1>9. CASE UNCHANGED vars
  BY <1>9, SameVerdicts DEF vars, Vetted
<1>10. QED
  BY <1>1, <1>2, <1>3, <1>4, <1>5, <1>6, <1>7, <1>8, <1>9 DEF Next

LEMMA VettedHolds == Spec => []Vetted
BY InitVetted, NextVetted, PTL DEF Spec

\* A policy answer that passed has a clause under each of its claims.
LEMMA PassedClaimsAreCited ==
    ASSUME Passed, route = "rag", ~rows, ~human
    PROVE  \A i \in Claims(answer) : answer[i].marks # {}
<1>1. RagPolicyAnswer
  BY DEF Passed, RagPolicyAnswer
<1>2. \A i \in DOMAIN answer : ~IsBare(answer[i], FALSE)
  BY <1>1 DEF Passed, Defective
<1>3. QED
  BY <1>2 DEF IsBare, Claims

\* What is released cites only what its pass retrieved, and what nobody has read has a
\* clause under each claim of a policy answer, after any number of repairs over any
\* routes (validation.py, output_guard.py).
THEOREM ReleasedAreCited == Spec => []ReleasedClaimsAreCited
<1>1. Vetted => ReleasedClaimsAreCited
  <2> SUFFICES ASSUME Vetted, node = "released"
               PROVE  /\ Marks(answer) \subseteq Citable(chunks)
                      /\ ~reviewed /\ route = "rag" /\ ~rows =>
                             \A i \in Claims(answer) : answer[i].marks # {}
                      /\ ~reviewed /\ chunks # {} =>
                             Marks(answer) # {} \/ Substantive(answer) = {}
    BY DEF ReleasedClaimsAreCited
  <2>1. ~Refused
    BY DEF Vetted
  <2>2. Marks(answer) \subseteq Citable(chunks)
    BY <2>1 DEF Refused, Allowed
  <2>3. ASSUME ~reviewed, route = "rag", ~rows
        PROVE  \A i \in Claims(answer) : answer[i].marks # {}
    BY <2>3, PassedClaimsAreCited DEF Vetted
  <2>4. ASSUME ~reviewed, chunks # {}
        PROVE  Marks(answer) # {} \/ Substantive(answer) = {}
    BY <2>1, <2>4 DEF Refused
  <2>5. QED
    BY <2>2, <2>3, <2>4
<1>2. QED
  BY <1>1, VettedHolds, PTL

\* The guardrail never refuses for its citations what the validator passed: the two
\* read the same clauses out of the same extracts (citations.py, citable_clauses).
THEOREM ValidatedPass == Spec => []ValidatedClaimsPassTheGuard
<1>1. Vetted => ValidatedClaimsPassTheGuard
  <2> SUFFICES ASSUME Vetted, node = "output_guardrail", ~reviewed, route = "rag", ~rows,
                      Claims(answer) # {}
               PROVE  ~Refused
    BY DEF ValidatedClaimsPassTheGuard
  <2>1. Passed /\ ~human
    BY DEF Vetted
  <2>2. Marks(answer) \subseteq Allowed(chunks)
    BY <2>1 DEF Passed, Defective, Allowed
  <2>3. Marks(answer) # {}
    <3>1. PICK i \in Claims(answer) : answer[i].marks # {}
      BY <2>1, PassedClaimsAreCited
    <3>2. i \in DOMAIN answer
      BY DEF Claims
    <3>3. QED
      BY <3>1, <3>2 DEF Marks
  <2>4. QED
    BY <2>2, <2>3 DEF Refused
<1>2. QED
  BY <1>1, VettedHolds, PTL
=============================================================================
