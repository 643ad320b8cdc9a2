--------------------------- MODULE MCSurveyAnswers ---------------------------
(* Instances of SurveyAnswers for TLC. *)
EXTENDS SurveyAnswers, TLC

\* Everything here is only compared with its like.
SurveySymmetry ==
    Permutations(Submission) \cup Permutations(AnswerId) \cup Permutations(SheetId)
        \cup Permutations(Role)
=============================================================================
