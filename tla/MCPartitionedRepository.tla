----------------------- MODULE MCPartitionedRepository -----------------------
(* Instances of PartitionedRepository for TLC. *)
EXTENDS PartitionedRepository, TLC

\* No code, no _id and no request is distinguished.
RepositorySymmetry ==
    Permutations(Code) \cup Permutations(DocId) \cup Permutations(RecordId)
        \cup Permutations(Request)

\* How a request that is over was answered matters to no later step.
Unanswered(f, none) == [q \in Request |-> IF Waiting(q) THEN none ELSE f[q]]
RepositoryView ==
    <<treeVars, walkVars, scope, records, request, creator,
      Unanswered(found, {}), Unanswered(status, "pending")>>

\* The overlaps of this instance: while one request walks or holds the codes of its
\* walk the tree changes, and between its walk and its operation (or between two items)
\* another request creates, moves or deletes a record, without a header, which does to
\* the records whatever one with a header could do; during the walk the records are not
\* looked at.  Every tree and every collection is an initial state, so no change is
\* needed before the walk.
HoldsWalk(q) == ~ Waiting(q) /\ pc[q] # "idle"
HoldsCodes(q) == ~ Waiting(q) /\ pc[q] = "done"
Alone(q) == \A p \in Request \ {q} : Waiting(p)
OverlapsOfInterest ==
    /\ edits' # edits => \E q \in Request : HoldsWalk(q)
    /\ \A p \in Request : (Waiting(p) /\ request'[p] # request[p] /\ ~ Alone(p)) =>
          /\ request'[p].header = NoCode
          /\ request'[p].op \in {"create", "updateById", "deleteById"}
          /\ \E q \in Request \ {p} : HoldsCodes(q)

InstanceSpec == RepoInit /\ [][RepoNext /\ OverlapsOfInterest]_allVars
=============================================================================
