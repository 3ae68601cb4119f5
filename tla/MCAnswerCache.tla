--------------------------- MODULE MCAnswerCache ---------------------------
(* Calls that share a user, grants, a body or a header, or nearly do.       *)
EXTENDS AnswerCache, TLC
CONSTANTS a1, a2, a3

Body(question, use_cache) ==
    [question |-> question, documents |-> "all", thread |-> "t", use_cache |-> use_cache]
Call(user, grants, body, history, header) ==
    [user |-> user, grants |-> grants, header |-> header, history |-> history, body |-> body]

\* "q1" and "q2" are near each other.
MCSimilar == [q1 |-> {"q2"}, q2 |-> {"q1"}]

\* One question, asked again and again by one user.
OneCall == {Call("u", "g", Body("q1", TRUE), FALSE, NoHeader)}

\* Two users of one role; the same user with the same body once the role has changed,
\* and once the conversation has gone on; a question near the first; and a call under
\* a key that opts out of the response cache.
ManyCalls == OneCall \cup
    {Call("v", "g", Body("q1", TRUE), FALSE, NoHeader),
     Call("u", "h", Body("q1", TRUE), FALSE, NoHeader),
     Call("u", "g", Body("q1", TRUE), TRUE, NoHeader),
     Call("u", "g", Body("q2", TRUE), FALSE, NoHeader),
     Call("u", "g", Body("q1", FALSE), FALSE, "k")}

\* Either all calls ask one question, of a corpus that changes and ages; or calls that
\* must be told apart meet over a corpus and a clock that stand still (bound).
OneQuestion == \A a \in Asks : call[a] \in OneCall
StandsStill == corpus = 0 /\ \A a \in Asks : age[a] = 0
MCSpec == Init /\ [][Next /\ (OneQuestion \/ StandsStill)']_vars

AskSymmetry == Permutations(Asks)
=============================================================================
