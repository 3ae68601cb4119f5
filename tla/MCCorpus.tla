------------------------------ MODULE MCCorpus ------------------------------
(* Two versions of one policy and a second policy, one version of each in the *)
(* directory; two administrators.                                             *)
EXTENDS Corpus
MCFiles == {"privacy-1", "privacy-2", "gdpr-1"}
MCTypeOf == [f \in MCFiles |-> IF f = "gdpr-1" THEN "gdpr" ELSE "privacy"]
MCVersionOf == [f \in MCFiles |-> IF f = "privacy-2" THEN 2 ELSE 1]
=============================================================================
