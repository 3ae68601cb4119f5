--------------------------- MODULE MCCitedAnswer ---------------------------
(* An extract with a list in it, its sibling of two sentences, a document that was *)
(* indexed whole with two headings inside, and an extract without a number.        *)
EXTENDS CitedAnswer

MCExtracts == {"ab31", "ab32", "whole", "untitled"}
MCClauses == MCExtracts \cup {"listed", "h41", "h52"}

MCHome == [ab31 |-> "ab31", listed |-> "ab31", ab32 |-> "ab32", untitled |-> "untitled",
           whole |-> "whole", h41 |-> "whole", h52 |-> "whole"]
MCDocument == [ab31 |-> "ab", listed |-> "ab", ab32 |-> "ab", untitled |-> "notes",
               whole |-> "privacy", h41 |-> "privacy", h52 |-> "privacy"]
MCNumber == [ab31 |-> <<3, 1>>, listed |-> <<7>>, ab32 |-> <<3, 2>>, untitled |-> <<>>,
             whole |-> <<1>>, h41 |-> <<4, 1>>, h52 |-> <<5, 2>>]
MCContained == [c \in MCClauses |-> {c}]

\* What a sentence may say: what 3.1 says and the opposite of it, what 3.1 and 4.1 say
\* alike, what 4.1 and 5.2 do, and something none of them says.
MCStatements == {"rule", "opposite", "torn", "both", "other"}
MCWidth == [s \in MCStatements |-> 5]

Words(n, clauses) == [c \in MCClauses |-> IF c \in clauses THEN n ELSE 0]
MCShared == [rule |-> Words(3, {"ab31"}), opposite |-> Words(3, {"ab31"}),
             torn |-> Words(2, {"ab31", "h41", "whole"}),
             both |-> Words(2, {"h41", "h52", "whole", "untitled"}),
             other |-> Words(1, MCClauses)]
MCConsistent == [s \in MCStatements |->
                    IF s = "opposite" THEN MCClauses \ {"ab31"} ELSE MCClauses]

Sentence(kind, says, marks) == [kind |-> kind, says |-> says, marks |-> marks]
MCBody == [e \in MCExtracts |->
              IF e = "ab32" THEN <<Sentence("claim", "other", {}), Sentence("claim", "other", {})>>
              ELSE <<Sentence("claim", "rule", {})>>]

Written ==
    {Sentence("claim", s, {}) : s \in MCStatements}
        \cup {Sentence("claim", "rule", {c}) : c \in {"ab31", "listed", "h41"}}
        \cup {Sentence(k, "other", {}) : k \in {"record", "gap", "closing", "courtesy"}}
Answers == {<<>>} \cup {<<s>> : s \in Written} \cup {<<s, t>> : s, t \in Written}
MCDrafts == [answer : Answers, cited : {{}, {"ab31"}, {"whole", "untitled"}}, found : BOOLEAN]

\* A sentence of the reviewer's own, and one with a clause nobody retrieved.
MCEdits == {<<Sentence("claim", "other", {})>>, <<Sentence("claim", "rule", {"listed"})>>}
=============================================================================
