------------------------- MODULE MCDomainReplacement -------------------------
(***************************************************************************)
(* The two replacements, for TLC.  One is about Mongo and the other about  *)
(* PostgreSQL, so it is enough to run each beside the other's initial      *)
(* state.                                                                  *)
(***************************************************************************)
EXTENDS DomainReplacement, SqlReplacement, TLC

ReplaceInit == Init /\ SqlInit
ReplaceNext ==
    \/ SqlInit /\ Next /\ UNCHANGED sqlVars
    \/ Init /\ SqlNext /\ UNCHANGED vars
ReplaceSpec == ReplaceInit /\ [][ReplaceNext]_<<vars, sqlVars>>

\* Documents and edits are only compared with one another; collections are CHOSEN from.
DomainReplacementSymmetry == Permutations(Run) \cup Permutations(Doc) \cup Permutations(Edit)
=============================================================================
