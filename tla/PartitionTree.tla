---------------------------- MODULE PartitionTree ----------------------------
(***************************************************************************)
(* The tree of data partitions and the two walks over it:                  *)
(* DataPartitionService.get_subtree and get_root_path.                     *)
(*                                                                         *)
(* The tree is the MongoDB collection data_partitions: documents that name *)
(* a code (`ma`) and the code of their parent (`parentCode`).  Nothing     *)
(* makes the codes unique, requires a parent to exist or forbids a cycle,  *)
(* so the collection may be any multigraph.  A walk awaits one query per   *)
(* level (or per ancestor), and between two queries other requests may     *)
(* insert, change or remove any document.                                  *)
(*                                                                         *)
(* Every document has a code: one without `ma` makes get_subtree raise a   *)
(* KeyError when it turns up as a child, and the request ends without any  *)
(* operation.  A cursor over the children of a level is taken as one step. *)
(*                                                                         *)
(* The history variables everEdge and steadyEdge record, for each walk,    *)
(* the edges that existed at some time during the walk and those that      *)
(* existed all along.  They take no part in any guard.                     *)
(***************************************************************************)
EXTENDS Naturals

CONSTANTS
    Code,       \* partition codes: the values of `ma`
    DocId,      \* the values of `_id` in data_partitions
    Walker,     \* requests that walk the tree
    NoParent,   \* a parentCode that is null or empty
    NoDoc,      \* no document has this _id
    MaxEdits    \* bound: how many times the tree changes

Partition == [ma : Code, parentCode : Code \cup {NoParent}]

ASSUME NoParentAssumption == NoParent \notin Code
ASSUME NoDocAssumption == NoDoc \notin Partition
ASSUME MaxEditsAssumption == MaxEdits \in Nat

VARIABLES
    partitions, \* data_partitions: the document of each _id
    pc,         \* where each walk stands
    kind,       \* which of the two functions each walk runs
    root,       \* the code each walk was called with
    seen,       \* codes of the items collected so far
    frontier,   \* codes the next query asks about
    everEdge,   \* history: edges that existed at some time during the walk
    steadyEdge, \* history: edges that existed at every time of the walk
    edits       \* counts the changes of the tree, for MaxEdits

treeVars == <<partitions, edits>>
walkVars == <<pc, kind, root, seen, frontier, everEdge, steadyEdge>>
vars == <<treeVars, walkVars>>

-----------------------------------------------------------------------------
(***************************************************************************)
(* The collection.                                                         *)
(***************************************************************************)
Docs(tree) == {tree[d] : d \in {e \in DocId : tree[e] # NoDoc}}

\* The (code, parent code) pairs of the collection; the parent may be NoParent.
EdgesOf(tree) == {<<p.ma, p.parentCode>> : p \in Docs(tree)}

\* A mutated form: the query lost its condition on `ma`.
WithAnyCode(code) == Docs(partitions)
\* get_by_code: find_one returns any of the documents with that code.
WithCode(code) == {p \in Docs(partitions) : p.ma = code}

\* list_all({"parentCode": {"$in": codes}}), as the codes it returns.
ChildrenOf(codes) == {p.ma : p \in {q \in Docs(partitions) : q.parentCode \in codes}}

-----------------------------------------------------------------------------
Walking(w) == pc[w] \in {"expand", "climb"}

\* A walk begins: its history starts with the edges of this moment.
Begin(w, k, code) ==
    /\ pc[w] \in {"idle", "done"}
    /\ kind' = [kind EXCEPT ![w] = k]
    /\ root' = [root EXCEPT ![w] = code]
    /\ everEdge' = [everEdge EXCEPT ![w] = EdgesOf(partitions)]
    /\ steadyEdge' = [steadyEdge EXCEPT ![w] = EdgesOf(partitions)]
    /\ UNCHANGED treeVars

(***************************************************************************)
(* get_subtree.  The first query finds the root; without it the result is  *)
(* empty.  Every further query asks for the children of a whole level and  *)
(* keeps those whose code is not in the result yet.                        *)
(***************************************************************************)
StartSubtree(w, code) ==
    /\ Begin(w, "SUBTREE", code)
    /\ IF WithCode(code) = {}
         THEN /\ pc' = [pc EXCEPT ![w] = "done"]
              /\ seen' = [seen EXCEPT ![w] = {}]
              /\ frontier' = [frontier EXCEPT ![w] = {}]
         ELSE /\ pc' = [pc EXCEPT ![w] = "expand"]
              /\ seen' = [seen EXCEPT ![w] = {code}]
              /\ frontier' = [frontier EXCEPT ![w] = {code}]

\* A mutated form: the codes already visited are not filtered out.
NewChildrenRevisiting(w) == ChildrenOf(frontier[w])
\* A mutated form: only the direct children of the root are fetched.
NewChildrenDirect(w) ==
    IF frontier[w] = {root[w]} THEN ChildrenOf(frontier[w]) \ seen[w] ELSE {}
\* A mutated form: the query takes every partition that has a parent.
NewChildrenOfAll(w) == ChildrenOf(Code) \ seen[w]
NewChildren(w) == ChildrenOf(frontier[w]) \ seen[w]

ExpandLevel(w) ==
    /\ pc[w] = "expand"
    /\ LET children == NewChildren(w)
       IN  /\ seen' = [seen EXCEPT ![w] = @ \cup children]
           /\ frontier' = [frontier EXCEPT ![w] = children]
           /\ pc' = [pc EXCEPT ![w] = IF children = {} THEN "done" ELSE "expand"]
    /\ UNCHANGED <<treeVars, kind, root, everEdge, steadyEdge>>

(***************************************************************************)
(* get_root_path.  Each query fetches one document and the walk goes on    *)
(* with its parent, until there is none or its code was visited before.    *)
(***************************************************************************)
ParentToFetch(p) == {p.parentCode} \ {NoParent}

\* The document p joins the path; a truthy parentCode is looked up next.
ClimbTo(w, p, path) ==
    /\ seen' = [seen EXCEPT ![w] = path \cup {p.ma}]
    /\ frontier' = [frontier EXCEPT ![w] = ParentToFetch(p)]
    /\ pc' = [pc EXCEPT ![w] = IF p.parentCode = NoParent THEN "done" ELSE "climb"]

StartRootPath(w, code) ==
    /\ Begin(w, "ROOT_PATH", code)
    /\ \/ /\ WithCode(code) = {}
          /\ pc' = [pc EXCEPT ![w] = "done"]
          /\ seen' = [seen EXCEPT ![w] = {}]
          /\ frontier' = [frontier EXCEPT ![w] = {}]
       \/ \E p \in WithCode(code) : ClimbTo(w, p, {})

\* A mutated form: the walk stops at the parent of its root.
ReachedAgainAtParent(w, code) == code # root[w]
ReachedAgain(w, code) == code \in seen[w]

ClimbParent(w) ==
    /\ pc[w] = "climb"
    /\ \E code \in frontier[w] :
         \/ /\ WithCode(code) = {} \/ ReachedAgain(w, code)
            /\ pc' = [pc EXCEPT ![w] = "done"]
            /\ frontier' = [frontier EXCEPT ![w] = {}]
            /\ UNCHANGED seen
         \/ /\ ~ ReachedAgain(w, code)
            /\ \E p \in WithCode(code) : ClimbTo(w, p, seen[w])
    /\ UNCHANGED <<treeVars, kind, root, everEdge, steadyEdge>>

-----------------------------------------------------------------------------
(***************************************************************************)
(* Changes of the tree by other requests.  Each is one write of one        *)
(* document; the bulk routes make several of them, between which other     *)
(* requests may run.                                                       *)
(***************************************************************************)
\* The collection becomes tree, and every walk under way lives to see it.
Edit(tree) ==
    /\ edits < MaxEdits
    /\ edits' = edits + 1
    /\ partitions' = tree
    /\ everEdge' = [w \in Walker |->
                      IF Walking(w) THEN everEdge[w] \cup EdgesOf(tree) ELSE everEdge[w]]
    /\ steadyEdge' = [w \in Walker |->
                      IF Walking(w) THEN steadyEdge[w] \cap EdgesOf(tree) ELSE steadyEdge[w]]
    /\ UNCHANGED <<pc, kind, root, seen, frontier>>

\* create_partition and the generic create and import: no check of any kind.
CreatePartition(d, ma, parent) ==
    /\ partitions[d] = NoDoc
    /\ Edit([partitions EXCEPT ![d] = [ma |-> ma, parentCode |-> parent]])

\* update_by_id through the generic router: $set of any field.
UpdatePartition(d, ma, parent) ==
    /\ partitions[d] # NoDoc
    /\ Edit([partitions EXCEPT ![d] = [ma |-> ma, parentCode |-> parent]])

\* delete_by_id through the generic router: the children stay.
DeletePartition(d) ==
    /\ partitions[d] # NoDoc
    /\ Edit([partitions EXCEPT ![d] = NoDoc])

-----------------------------------------------------------------------------
Init ==
    /\ partitions \in [DocId -> Partition \cup {NoDoc}]
    /\ pc = [w \in Walker |-> "idle"]
    /\ kind = [w \in Walker |-> "SUBTREE"]
    /\ root = [w \in Walker |-> NoParent]
    /\ seen = [w \in Walker |-> {}]
    /\ frontier = [w \in Walker |-> {}]
    /\ everEdge = [w \in Walker |-> {}]
    /\ steadyEdge = [w \in Walker |-> {}]
    /\ edits = 0

WalkStep(w) == ExpandLevel(w) \/ ClimbParent(w)

Next ==
    \/ \E w \in Walker, code \in Code : StartSubtree(w, code) \/ StartRootPath(w, code)
    \/ \E w \in Walker : ExpandLevel(w) \/ ClimbParent(w)
    \/ \E d \in DocId, ma \in Code, parent \in Code \cup {NoParent} :
         CreatePartition(d, ma, parent) \/ UpdatePartition(d, ma, parent)
    \/ \E d \in DocId : DeletePartition(d)

Spec == Init /\ [][Next]_vars

\* A request that was accepted runs on: its coroutine is resumed when the
\* database answers.  Nothing else is assumed to happen.
Fairness == \A w \in Walker : WF_vars(WalkStep(w))

FairSpec == Spec /\ Fairness

-----------------------------------------------------------------------------
(***************************************************************************)
(* What a walk promises.                                                   *)
(***************************************************************************)
Edge == Code \X (Code \cup {NoParent})

TypeOK ==
    /\ partitions \in [DocId -> Partition \cup {NoDoc}]
    /\ pc \in [Walker -> {"idle", "expand", "climb", "done"}]
    /\ kind \in [Walker -> {"SUBTREE", "ROOT_PATH"}]
    /\ root \in [Walker -> Code \cup {NoParent}]
    /\ seen \in [Walker -> SUBSET Code]
    /\ frontier \in [Walker -> SUBSET Code]
    /\ everEdge \in [Walker -> SUBSET Edge]
    /\ steadyEdge \in [Walker -> SUBSET Edge]
    /\ edits \in 0..MaxEdits

\* code and everything below it, over a set of (code, parent code) edges: the
\* least set that holds code and the children of its members.
ClosedDown(edges, S) == \A e \in edges : e[2] \in S => e[1] \in S
Below(edges, code) ==
    {c \in Code : \A S \in SUBSET Code : (code \in S /\ ClosedDown(edges, S)) => c \in S}

\* code and everything above it.
ClosedUp(edges, S) == \A e \in edges : (e[1] \in S /\ e[2] \in Code) => e[2] \in S
Above(edges, code) ==
    {c \in Code : \A S \in SUBSET Code : (code \in S /\ ClosedUp(edges, S)) => c \in S}

\* Whatever other requests do to the tree meanwhile, get_subtree returns no
\* partition that a chain of edges seen during the walk does not join to the
\* root: a tree that never had such a chain is not mixed up into one.
SubtreeSound ==
    \A w \in Walker : kind[w] = "SUBTREE" => seen[w] \subseteq Below(everEdge[w], root[w])

\* A finished get_subtree that found its root misses no partition whose chain
\* of edges stood during the whole walk.
SubtreeComplete ==
    \A w \in Walker :
        (kind[w] = "SUBTREE" /\ pc[w] = "done" /\ seen[w] # {})
            => Below(steadyEdge[w], root[w]) \subseteq seen[w]

\* get_root_path returns ancestors only, by edges seen during the walk.
RootPathSound ==
    \A w \in Walker : kind[w] = "ROOT_PATH" => seen[w] \subseteq Above(everEdge[w], root[w])

\* During the walk c had exactly one parent, p, the whole time, and p existed.
OnlyParent(w, c, p) ==
    /\ \A e \in everEdge[w] : e[1] = c => e[2] = p
    /\ <<c, p>> \in steadyEdge[w]
    /\ \E q \in Code \cup {NoParent} : <<p, q>> \in steadyEdge[w]

\* A finished get_root_path holds, with every partition whose place in the tree
\* stood still and was unambiguous during the walk, that partition's parent: it
\* stops only at the top, at a cycle, or where the tree was being changed.
RootPathComplete ==
    \A w \in Walker : (kind[w] = "ROOT_PATH" /\ pc[w] = "done") =>
        \A c \in seen[w], p \in Code : OnlyParent(w, c, p) => p \in seen[w]

\* Every walk ends, also on a tree with cycles and while the tree changes: the
\* visited set is what stops it.
WalkTerminates == \A w \in Walker : Walking(w) ~> pc[w] = "done"
=============================================================================
