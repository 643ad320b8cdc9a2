----------------------------- MODULE MCImportRows -----------------------------
(***************************************************************************)
(* What is handed over in bulk, for TLC: rows to import and links of users *)
(* to partitions.  Their collections differ, so it is enough to run each   *)
(* beside an initial state of the other.  Both use the same model values,  *)
(* which keeps the symmetry small.                                         *)
(***************************************************************************)
EXTENDS ImportRows, PartitionUsers, TLC

CONSTANTS k1, k2

Row(k, c) == [key |-> k, code |-> c]
\* The same key twice, the first time with a partition to move to or not, and a row
\* without a key.
MCSheets ==
    {<<Row(None, c)>> : c \in Partition \cup {None}} \cup
    {<<Row(k1, c), Row(k1, None)>> : c \in Partition \cup {None}}
MCKey == {k1, k2}
\* GLOBAL admits what no header does, and ROOT_PATH what SUBTREE does.
MCScopes == {"NODE", "SUBTREE"}

\* The choices that make a difference: without a header the scope makes none, and what
\* writes nothing needs neither a header nor a partition in its rows.
ChoicesOfInterest ==
    \A i \in Import :
        /\ imp[i].header = None => imp[i].scope = "NODE"
        /\ imp[i].dry \/ imp[i].hooked =>
              /\ imp[i].header = None
              /\ \A n \in DOMAIN imp[i].sheet : imp[i].sheet[n].code = None

Unused == docs = {} /\ \A i \in Import : At(i, "idle")

BulkInit == Init /\ LinkInit
BulkNext ==
    \/ LinkInit /\ Next /\ ChoicesOfInterest' /\ UNCHANGED linkVars
    \/ Unused /\ LinkNext /\ UNCHANGED vars
BulkSpec == BulkInit /\ [][BulkNext]_<<vars, linkVars>>

\* Requests, partitions and documents are only compared with one another.
ImportSymmetry == Permutations(Import) \cup Permutations(Partition) \cup Permutations(DocId)
=============================================================================
