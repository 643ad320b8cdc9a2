------------------------------- MODULE MCTopics -------------------------------
(* Instances of Topics for TLC. *)
EXTENDS Topics, TLC

\* Requests, topics and documents are only compared with one another.
TopicsSymmetry == Permutations(Request) \cup Permutations(Topic) \cup Permutations(DocId)
=============================================================================
