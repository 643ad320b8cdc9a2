-------------------------- MODULE PartitionTreeProofs --------------------------
(***************************************************************************)
(* Theorems about PartitionTree, for every set of codes, documents and     *)
(* requests and every number of edits: the type invariant, and that both   *)
(* walks return what they promise while the tree changes under them.  The  *)
(* second part is about PartitionedRepository, for every collection and    *)
(* every overlap of requests: what a request finds and touches lies        *)
(* between what its walk must and what it may have reached, and every walk *)
(* ends after finitely many queries.  The third part is the refinement:    *)
(* PartitionedRepository implements the atomic operations of ScopedStore.  *)
(***************************************************************************)
EXTENDS PartitionedRepository, FiniteSetTheorems, TLAPS

-----------------------------------------------------------------------------
(***************************************************************************)
(* The collection and its edges.                                           *)
(***************************************************************************)
Tree == [DocId -> Partition \cup {NoDoc}]

\* The documents of a collection are partitions.
LEMMA DocsArePartitions ==
    ASSUME NEW tree \in Tree, NEW p \in Docs(tree)
    PROVE  p \in Partition
BY DEF Tree, Docs

\* Every edge of a collection joins a code to a code or to no parent.
LEMMA EdgesTyped ==
    ASSUME NEW tree \in Tree
    PROVE  EdgesOf(tree) \subseteq Edge
<1>1. ASSUME NEW p \in Docs(tree) PROVE <<p.ma, p.parentCode>> \in Edge
  BY <1>1, DocsArePartitions DEF Partition, Edge
<1> QED
  BY <1>1 DEF EdgesOf

\* A document is an edge of its collection.
LEMMA DocIsEdge ==
    ASSUME NEW tree, NEW p \in Docs(tree)
    PROVE  <<p.ma, p.parentCode>> \in EdgesOf(tree)
BY DEF EdgesOf

\* A code the children query returns comes from an edge to one of the codes asked.
LEMMA ChildHasEdge ==
    ASSUME NEW codes, NEW c \in ChildrenOf(codes)
    PROVE  \E b \in codes : <<c, b>> \in EdgesOf(partitions)
BY DEF ChildrenOf, EdgesOf

\* The children query returns the lower end of every edge to one of the codes asked.
LEMMA EdgeHasChild ==
    ASSUME NEW codes, NEW e \in EdgesOf(partitions), e[2] \in codes
    PROVE  e[1] \in ChildrenOf(codes)
<1>1. PICK p \in Docs(partitions) : e = <<p.ma, p.parentCode>>
  BY DEF EdgesOf
<1> QED
  BY <1>1 DEF ChildrenOf

-----------------------------------------------------------------------------
(***************************************************************************)
(* Below and Above: least sets closed under the edges.                     *)
(***************************************************************************)
\* A code is below itself.
LEMMA BelowRoot ==
    ASSUME NEW edges, NEW code \in Code
    PROVE  code \in Below(edges, code)
BY DEF Below

\* What hangs on a code below the root is below the root.
LEMMA BelowStep ==
    ASSUME NEW edges, NEW code, NEW c \in Code, NEW b \in Below(edges, code),
           <<c, b>> \in edges
    PROVE  c \in Below(edges, code)
<1>1. ASSUME NEW S \in SUBSET Code, code \in S, ClosedDown(edges, S)
      PROVE  c \in S
  <2>1. b \in S
    BY <1>1 DEF Below
  <2> QED
    BY <1>1, <2>1 DEF ClosedDown
<1> QED
  BY <1>1 DEF Below

\* More edges put more codes below the root.
LEMMA BelowMonotone ==
    ASSUME NEW E, NEW F, E \subseteq F, NEW code
    PROVE  Below(E, code) \subseteq Below(F, code)
BY DEF Below, ClosedDown

\* A set of codes that holds the root and is closed holds everything below it.
LEMMA BelowLeast ==
    ASSUME NEW edges, NEW code, NEW S \in SUBSET Code, code \in S, ClosedDown(edges, S)
    PROVE  Below(edges, code) \subseteq S
BY DEF Below

\* A code is above itself.
LEMMA AboveRoot ==
    ASSUME NEW edges, NEW code \in Code
    PROVE  code \in Above(edges, code)
BY DEF Above

\* The parent of a code above the root is above the root.
LEMMA AboveStep ==
    ASSUME NEW edges, NEW code, NEW c \in Above(edges, code), NEW p \in Code,
           <<c, p>> \in edges
    PROVE  p \in Above(edges, code)
<1>1. ASSUME NEW S \in SUBSET Code, code \in S, ClosedUp(edges, S)
      PROVE  p \in S
  <2>1. c \in S
    BY <1>1 DEF Above
  <2> QED
    BY <1>1, <2>1 DEF ClosedUp
<1> QED
  BY <1>1 DEF Above

\* A set of codes that holds the root and is closed upwards holds everything above it.
LEMMA AboveLeast ==
    ASSUME NEW edges, NEW code, NEW S \in SUBSET Code, code \in S, ClosedUp(edges, S)
    PROVE  Above(edges, code) \subseteq S
BY DEF Above

\* More edges put more codes above the root.
LEMMA AboveMonotone ==
    ASSUME NEW E, NEW F, E \subseteq F, NEW code
    PROVE  Above(E, code) \subseteq Above(F, code)
BY DEF Above, ClosedUp

-----------------------------------------------------------------------------
(***************************************************************************)
(* The type invariant.                                                     *)
(***************************************************************************)
\* The children query returns codes.
LEMMA ChildrenAreCodes ==
    ASSUME partitions \in Tree, NEW codes
    PROVE  ChildrenOf(codes) \subseteq Code
BY DocsArePartitions DEF ChildrenOf, Partition

\* A walk that begins is typed in what Begin sets.
LEMMA BeginTyped ==
    ASSUME TypeOK, NEW w \in Walker, NEW code \in Code,
           NEW k \in {"SUBTREE", "ROOT_PATH"}, Begin(w, k, code)
    PROVE  /\ kind' \in [Walker -> {"SUBTREE", "ROOT_PATH"}]
           /\ root' \in [Walker -> Code \cup {NoParent}]
           /\ everEdge' \in [Walker -> SUBSET Edge]
           /\ steadyEdge' \in [Walker -> SUBSET Edge]
           /\ partitions' \in Tree
           /\ edits' \in 0..MaxEdits
<1>1. EdgesOf(partitions) \subseteq Edge
  BY EdgesTyped DEF TypeOK, Tree
<1> QED
  BY <1>1 DEF Begin, TypeOK, treeVars, Tree

\* A walk that adds a document to its path is typed in what ClimbTo sets.
LEMMA ClimbTyped ==
    ASSUME TypeOK, NEW w \in Walker, NEW p \in Docs(partitions),
           NEW path \in SUBSET Code, ClimbTo(w, p, path)
    PROVE  /\ pc' \in [Walker -> {"idle", "expand", "climb", "done"}]
           /\ seen' \in [Walker -> SUBSET Code]
           /\ frontier' \in [Walker -> SUBSET Code]
<1>1. p \in Partition
  BY DocsArePartitions DEF TypeOK, Tree
<1>2. p.ma \in Code /\ ParentToFetch(p) \in SUBSET Code
  BY <1>1 DEF Partition, ParentToFetch
<1> QED
  BY <1>2 DEF ClimbTo, TypeOK

\* Every change of the tree keeps the types.
LEMMA EditTyped ==
    ASSUME TypeOK, NEW tree \in Tree, Edit(tree)
    PROVE  TypeOK'
<1>1. EdgesOf(tree) \subseteq Edge
  BY EdgesTyped
<1>2. everEdge' \in [Walker -> SUBSET Edge]
  BY <1>1 DEF Edit, TypeOK
<1>3. steadyEdge' \in [Walker -> SUBSET Edge]
  BY <1>1 DEF Edit, TypeOK
<1>4. edits' \in 0..MaxEdits
  BY MaxEditsAssumption DEF Edit, TypeOK
<1> QED
  BY <1>2, <1>3, <1>4 DEF Edit, TypeOK, Tree

\* The initial states are typed.
LEMMA InitTyped == Init => TypeOK
BY MaxEditsAssumption DEF Init, TypeOK

\* Every step keeps the types.
LEMMA NextTyped == TypeOK /\ [Next]_vars => TypeOK'
<1> SUFFICES ASSUME TypeOK, [Next]_vars PROVE TypeOK'
  OBVIOUS
<1>1. ASSUME NEW w \in Walker, NEW code \in Code, StartSubtree(w, code) PROVE TypeOK'
  <2>1. Begin(w, "SUBTREE", code)
    BY <1>1 DEF StartSubtree
  <2>2. /\ pc' \in [Walker -> {"idle", "expand", "climb", "done"}]
        /\ seen' \in [Walker -> SUBSET Code]
        /\ frontier' \in [Walker -> SUBSET Code]
    BY <1>1 DEF StartSubtree, TypeOK
  <2> QED
    BY <2>1, <2>2, BeginTyped DEF TypeOK, Tree
<1>2. ASSUME NEW w \in Walker, NEW code \in Code, StartRootPath(w, code) PROVE TypeOK'
  <2>1. Begin(w, "ROOT_PATH", code)
    BY <1>2 DEF StartRootPath
  <2>2. /\ pc' \in [Walker -> {"idle", "expand", "climb", "done"}]
        /\ seen' \in [Walker -> SUBSET Code]
        /\ frontier' \in [Walker -> SUBSET Code]
    <3>1. CASE \E p \in WithCode(code) : ClimbTo(w, p, {})
      BY <3>1, ClimbTyped DEF WithCode
    <3>2. CASE ~ \E p \in WithCode(code) : ClimbTo(w, p, {})
      BY <1>2, <3>2 DEF StartRootPath, TypeOK
    <3> QED
      BY <3>1, <3>2
  <2> QED
    BY <2>1, <2>2, BeginTyped DEF TypeOK, Tree
<1>3. ASSUME NEW w \in Walker, ExpandLevel(w) PROVE TypeOK'
  <2>1. NewChildren(w) \in SUBSET Code
    BY ChildrenAreCodes DEF NewChildren, TypeOK, Tree
  <2> QED
    BY <1>3, <2>1 DEF ExpandLevel, TypeOK, treeVars
<1>4. ASSUME NEW w \in Walker, ClimbParent(w) PROVE TypeOK'
  <2>1. PICK code \in frontier[w] :
          \/ /\ pc' = [pc EXCEPT ![w] = "done"]
             /\ frontier' = [frontier EXCEPT ![w] = {}]
             /\ UNCHANGED seen
          \/ \E p \in WithCode(code) : ClimbTo(w, p, seen[w])
    BY <1>4 DEF ClimbParent
  <2>2. /\ pc' \in [Walker -> {"idle", "expand", "climb", "done"}]
        /\ seen' \in [Walker -> SUBSET Code]
        /\ frontier' \in [Walker -> SUBSET Code]
    <3>1. CASE \E p \in WithCode(code) : ClimbTo(w, p, seen[w])
      <4>1. seen[w] \in SUBSET Code
        BY DEF TypeOK
      <4> QED
        BY <3>1, <4>1, ClimbTyped DEF WithCode
    <3>2. CASE ~ \E p \in WithCode(code) : ClimbTo(w, p, seen[w])
      BY <2>1, <3>2 DEF TypeOK
    <3> QED
      BY <3>1, <3>2
  <2> QED
    BY <1>4, <2>2 DEF ClimbParent, TypeOK, treeVars
<1>5. ASSUME NEW d \in DocId, NEW ma \in Code, NEW parent \in Code \cup {NoParent},
             CreatePartition(d, ma, parent) \/ UpdatePartition(d, ma, parent)
      PROVE  TypeOK'
  <2>1. [partitions EXCEPT ![d] = [ma |-> ma, parentCode |-> parent]] \in Tree
    BY DEF TypeOK, Tree, Partition
  <2> QED
    BY <1>5, <2>1, EditTyped DEF CreatePartition, UpdatePartition
<1>6. ASSUME NEW d \in DocId, DeletePartition(d) PROVE TypeOK'
  <2>1. [partitions EXCEPT ![d] = NoDoc] \in Tree
    BY DEF TypeOK, Tree
  <2> QED
    BY <1>6, <2>1, EditTyped DEF DeletePartition
<1>7. CASE UNCHANGED vars
  BY <1>7 DEF TypeOK, vars, treeVars, walkVars
<1> QED
  BY <1>1, <1>2, <1>3, <1>4, <1>5, <1>6, <1>7 DEF Next

\* Every variable keeps its type: the tree holds partitions only, a walk collects
\* codes only and never asks for a null parent.
THEOREM TypeCorrect == Spec => []TypeOK
<1> QED
  BY InitTyped, NextTyped, PTL DEF Spec

-----------------------------------------------------------------------------
(***************************************************************************)
(* The inductive invariant of a walk.  SubtreeSound and its like speak of  *)
(* what a walk has collected; they are kept only because of what is true   *)
(* of the frontier, of the history and of the codes expanded so far.       *)
(***************************************************************************)
\* The history of a walk under way brackets the collection of this moment.
HistoryInv(w) ==
    Walking(w) => /\ steadyEdge[w] \subseteq EdgesOf(partitions)
                  /\ EdgesOf(partitions) \subseteq everEdge[w]

\* Each loop belongs to its function, and only a walk under way has a frontier.
StageInv(w) ==
    /\ pc[w] = "expand" => kind[w] = "SUBTREE"
    /\ pc[w] = "climb" => kind[w] = "ROOT_PATH"
    /\ ~ Walking(w) => frontier[w] = {}

\* All that a subtree walk collected but its frontier has been expanded.
SubtreeInv(w) ==
    kind[w] = "SUBTREE" =>
        /\ frontier[w] \subseteq seen[w]
        /\ seen[w] \subseteq Below(everEdge[w], root[w])
        /\ seen[w] # {} => root[w] \in seen[w]
        /\ \A e \in steadyEdge[w] : e[2] \in seen[w] \ frontier[w] => e[1] \in seen[w]

\* A path lacks no steady parent but the one it asks for next.
RootPathInv(w) ==
    kind[w] = "ROOT_PATH" =>
        /\ seen[w] \subseteq Above(everEdge[w], root[w])
        /\ frontier[w] \subseteq Above(everEdge[w], root[w])
        /\ \A c, d \in frontier[w] : c = d
        /\ \A c \in seen[w], p \in Code : OnlyParent(w, c, p) => p \in seen[w] \cup frontier[w]

WalkInv(w) == HistoryInv(w) /\ StageInv(w) /\ SubtreeInv(w) /\ RootPathInv(w)

IInv == TypeOK /\ \A w \in Walker : WalkInv(w)

\* A step that leaves a walk and the tree alone keeps its invariant.
LEMMA WalkUndisturbed ==
    ASSUME NEW w \in Walker, WalkInv(w), partitions' = partitions,
           pc'[w] = pc[w], kind'[w] = kind[w], root'[w] = root[w], seen'[w] = seen[w],
           frontier'[w] = frontier[w], everEdge'[w] = everEdge[w],
           steadyEdge'[w] = steadyEdge[w]
    PROVE  WalkInv(w)'
<1>1. EdgesOf(partitions)' = EdgesOf(partitions)
  BY DEF EdgesOf, Docs
<1>2. HistoryInv(w)'
  BY <1>1 DEF WalkInv, HistoryInv, Walking
<1>3. StageInv(w)'
  BY DEF WalkInv, StageInv, Walking
<1>4. SubtreeInv(w)'
  BY DEF WalkInv, SubtreeInv
<1>5. RootPathInv(w)'
  <2>1. \A c, p : OnlyParent(w, c, p)' => OnlyParent(w, c, p)
    BY DEF OnlyParent
  <2> QED
    BY <2>1 DEF WalkInv, RootPathInv
<1> QED
  BY <1>2, <1>3, <1>4, <1>5 DEF WalkInv

\* A change of the tree keeps the invariant of every walk: what a walk under way
\* relies on only grows (everEdge) or shrinks (steadyEdge) with it.
LEMMA EditKeepsWalk ==
    ASSUME TypeOK, NEW tree \in Tree, Edit(tree), NEW w \in Walker, WalkInv(w)
    PROVE  WalkInv(w)'
<1>1. /\ partitions' = tree
      /\ pc'[w] = pc[w] /\ kind'[w] = kind[w] /\ root'[w] = root[w]
      /\ seen'[w] = seen[w] /\ frontier'[w] = frontier[w]
  BY DEF Edit
<1>2. everEdge'[w] = IF Walking(w) THEN everEdge[w] \cup EdgesOf(tree) ELSE everEdge[w]
  BY DEF Edit
<1>3. steadyEdge'[w] = IF Walking(w) THEN steadyEdge[w] \cap EdgesOf(tree) ELSE steadyEdge[w]
  BY DEF Edit
<1>4. everEdge[w] \subseteq everEdge'[w] /\ steadyEdge'[w] \subseteq steadyEdge[w]
  BY <1>2, <1>3
<1>5. EdgesOf(partitions)' = EdgesOf(tree)
  BY <1>1 DEF EdgesOf, Docs
<1>6. HistoryInv(w)'
  BY <1>1, <1>2, <1>3, <1>5 DEF HistoryInv, Walking
<1>7. StageInv(w)'
  BY <1>1 DEF WalkInv, StageInv, Walking
<1>8. SubtreeInv(w)'
  <2>1. Below(everEdge[w], root[w]) \subseteq Below(everEdge'[w], root[w])
    BY <1>4, BelowMonotone
  <2>2. Below(everEdge[w], root[w])' = Below(everEdge'[w], root'[w])
    BY DEF Below, ClosedDown
  <2> QED
    BY <1>1, <1>4, <2>1, <2>2 DEF WalkInv, SubtreeInv
<1>9. RootPathInv(w)'
  <2>1. Above(everEdge[w], root[w]) \subseteq Above(everEdge'[w], root[w])
    BY <1>4, AboveMonotone
  <2>2. Above(everEdge[w], root[w])' = Above(everEdge'[w], root'[w])
    BY DEF Above, ClosedUp
  <2>3. \A c, p : OnlyParent(w, c, p)' => OnlyParent(w, c, p)
    BY <1>4 DEF OnlyParent
  <2> QED
    BY <1>1, <2>1, <2>2, <2>3 DEF WalkInv, RootPathInv
<1> QED
  BY <1>6, <1>7, <1>8, <1>9 DEF WalkInv

-----------------------------------------------------------------------------
(***************************************************************************)
(* Each step of a walk keeps the walk's invariant.                         *)
(***************************************************************************)
\* get_subtree begins with its root as the whole frontier, or with nothing.
LEMMA StartSubtreeKeepsWalk ==
    ASSUME TypeOK, NEW w \in Walker, NEW code \in Code, StartSubtree(w, code)
    PROVE  WalkInv(w)'
<1>1. /\ kind'[w] = "SUBTREE" /\ root'[w] = code
      /\ everEdge'[w] = EdgesOf(partitions) /\ steadyEdge'[w] = EdgesOf(partitions)
      /\ partitions' = partitions
  BY DEF StartSubtree, Begin, TypeOK, treeVars
<1>2. \/ pc'[w] = "done" /\ seen'[w] = {} /\ frontier'[w] = {}
      \/ pc'[w] = "expand" /\ seen'[w] = {code} /\ frontier'[w] = {code}
  BY DEF StartSubtree, TypeOK
<1>3. EdgesOf(partitions)' = EdgesOf(partitions)
  BY <1>1 DEF EdgesOf, Docs
<1>4. SubtreeInv(w)'
  <2>1. code \in Below(everEdge'[w], code)
    BY BelowRoot
  <2> QED
    BY <1>1, <1>2, <2>1 DEF SubtreeInv
<1> QED
  BY <1>1, <1>2, <1>3, <1>4 DEF WalkInv, HistoryInv, StageInv, RootPathInv, Walking

\* A level adds the children of the frontier: they are below the root, and what was
\* the frontier is now expanded.
LEMMA ExpandKeepsWalk ==
    ASSUME TypeOK, NEW w \in Walker, WalkInv(w), ExpandLevel(w)
    PROVE  WalkInv(w)'
<1> DEFINE children == NewChildren(w)
<1>1. /\ pc[w] = "expand" /\ kind[w] = "SUBTREE" /\ Walking(w)
      /\ kind'[w] = "SUBTREE" /\ root'[w] = root[w]
      /\ everEdge'[w] = everEdge[w] /\ steadyEdge'[w] = steadyEdge[w]
      /\ partitions' = partitions
  BY DEF ExpandLevel, WalkInv, StageInv, Walking, treeVars
<1>2. /\ seen'[w] = seen[w] \cup children /\ frontier'[w] = children
      /\ pc'[w] = IF children = {} THEN "done" ELSE "expand"
  BY DEF ExpandLevel, TypeOK
<1>3. EdgesOf(partitions)' = EdgesOf(partitions)
  BY <1>1 DEF EdgesOf, Docs
<1>4. /\ steadyEdge[w] \subseteq EdgesOf(partitions) /\ EdgesOf(partitions) \subseteq everEdge[w]
  BY <1>1 DEF WalkInv, HistoryInv
<1>5. /\ frontier[w] \subseteq seen[w] /\ seen[w] \subseteq Below(everEdge[w], root[w])
      /\ seen[w] # {} => root[w] \in seen[w]
      /\ \A e \in steadyEdge[w] : e[2] \in seen[w] \ frontier[w] => e[1] \in seen[w]
  BY <1>1 DEF WalkInv, SubtreeInv
<1>6. children \subseteq Below(everEdge[w], root[w])
  <2> SUFFICES ASSUME NEW c \in children PROVE c \in Below(everEdge[w], root[w])
    OBVIOUS
  <2>1. c \in ChildrenOf(frontier[w])
    BY DEF NewChildren
  <2>2. PICK b \in frontier[w] : <<c, b>> \in EdgesOf(partitions)
    BY <2>1, ChildHasEdge
  <2>3. c \in Code
    BY <2>1, ChildrenAreCodes DEF TypeOK, Tree
  <2>4. b \in Below(everEdge[w], root[w]) /\ <<c, b>> \in everEdge[w]
    BY <1>4, <1>5, <2>2
  <2> QED
    BY <2>3, <2>4, BelowStep
<1>7. \A e \in steadyEdge[w] : e[2] \in seen'[w] \ frontier'[w] => e[1] \in seen'[w]
  <2> SUFFICES ASSUME NEW e \in steadyEdge[w], e[2] \in seen'[w] \ frontier'[w]
               PROVE  e[1] \in seen'[w]
    OBVIOUS
  <2>1. e[2] \in seen[w] /\ e \in EdgesOf(partitions)
    BY <1>2, <1>4
  <2>2. CASE e[2] \in frontier[w]
    <3>1. e[1] \in ChildrenOf(frontier[w])
      BY <2>1, <2>2, EdgeHasChild
    <3> QED
      BY <1>2, <3>1 DEF NewChildren
  <2>3. CASE e[2] \notin frontier[w]
    BY <1>2, <1>5, <2>1, <2>3
  <2> QED
    BY <2>2, <2>3
<1>8. SubtreeInv(w)'
  <2>1. seen'[w] # {} => root[w] \in seen'[w]
    <3>1. CASE seen[w] = {}
      <4>1. ChildrenOf(frontier[w]) = {}
        BY <1>5, <3>1 DEF ChildrenOf
      <4> QED
        BY <1>2, <3>1, <4>1 DEF NewChildren
    <3>2. CASE seen[w] # {}
      BY <1>2, <1>5, <3>2
    <3> QED
      BY <3>1, <3>2
  <2> QED
    BY <1>1, <1>2, <1>5, <1>6, <1>7, <2>1 DEF SubtreeInv
<1>9. HistoryInv(w)' /\ StageInv(w)' /\ RootPathInv(w)'
  BY <1>1, <1>2, <1>3, <1>4 DEF HistoryInv, StageInv, RootPathInv, Walking
<1> QED
  BY <1>8, <1>9 DEF WalkInv

\* What a path looks like when the document p has joined it and the walk asks for
\* its parent: the one fact both the first and every later step of get_root_path need.
LEMMA ClimbKeepsPath ==
    ASSUME TypeOK, NEW w \in Walker, NEW p \in Docs(partitions), NEW path \in SUBSET Code,
           ClimbTo(w, p, path),
           path \subseteq Above(everEdge'[w], root'[w]), p.ma \in Above(everEdge'[w], root'[w]),
           EdgesOf(partitions) \subseteq everEdge'[w],
           \A c \in path, q \in Code : OnlyParent(w, c, q)' => q \in path \cup {p.ma}
    PROVE  /\ seen'[w] \subseteq Above(everEdge'[w], root'[w])
           /\ frontier'[w] \subseteq Above(everEdge'[w], root'[w])
           /\ \A c, d \in frontier'[w] : c = d
           /\ \A c \in seen'[w], q \in Code :
                 OnlyParent(w, c, q)' => q \in seen'[w] \cup frontier'[w]
           /\ pc'[w] \in {"done", "climb"}
           /\ pc'[w] = "done" => frontier'[w] = {}
<1>1. seen'[w] = path \cup {p.ma} /\ frontier'[w] = {p.parentCode} \ {NoParent}
  BY DEF ClimbTo, TypeOK, ParentToFetch
<1>2. pc'[w] = IF p.parentCode = NoParent THEN "done" ELSE "climb"
  BY DEF ClimbTo, TypeOK
<1>3. p.ma \in Code /\ p.parentCode \in Code \cup {NoParent}
  BY DocsArePartitions DEF TypeOK, Tree, Partition
<1>4. <<p.ma, p.parentCode>> \in everEdge'[w]
  BY DocIsEdge
<1>5. frontier'[w] \subseteq Above(everEdge'[w], root'[w])
  BY <1>1, <1>3, <1>4, AboveStep
<1>6. ASSUME NEW c \in seen'[w], NEW q \in Code, OnlyParent(w, c, q)'
      PROVE  q \in seen'[w] \cup frontier'[w]
  <2>1. CASE c = p.ma
    <3>1. p.parentCode = q
      BY <1>4, <1>6, <2>1 DEF OnlyParent
    <3> QED
      BY <1>1, <3>1, NoParentAssumption
  <2>2. CASE c \in path
    BY <1>1, <1>6, <2>2
  <2> QED
    BY <1>1, <2>1, <2>2
<1> QED
  BY <1>1, <1>2, <1>5, <1>6

\* get_root_path begins with a document of its root, or with nothing.
LEMMA StartRootPathKeepsWalk ==
    ASSUME TypeOK, NEW w \in Walker, NEW code \in Code, StartRootPath(w, code)
    PROVE  WalkInv(w)'
<1>1. /\ kind'[w] = "ROOT_PATH" /\ root'[w] = code
      /\ everEdge'[w] = EdgesOf(partitions) /\ steadyEdge'[w] = EdgesOf(partitions)
      /\ partitions' = partitions
  BY DEF StartRootPath, Begin, TypeOK, treeVars
<1>2. EdgesOf(partitions)' = EdgesOf(partitions)
  BY <1>1 DEF EdgesOf, Docs
<1>3. CASE \E p \in WithCode(code) : ClimbTo(w, p, {})
  <2>1. PICK p \in Docs(partitions) : p.ma = code /\ ClimbTo(w, p, {})
    BY <1>3 DEF WithCode
  <2>2. p.ma \in Above(everEdge'[w], root'[w])
    BY <1>1, <2>1, AboveRoot
  <2>3. /\ RootPathInv(w)'
        /\ pc'[w] \in {"done", "climb"} /\ (pc'[w] = "done" => frontier'[w] = {})
    BY <1>1, <2>1, <2>2, ClimbKeepsPath DEF RootPathInv
  <2> QED
    BY <1>1, <1>2, <2>3 DEF WalkInv, HistoryInv, StageInv, SubtreeInv, Walking
<1>4. CASE ~ \E p \in WithCode(code) : ClimbTo(w, p, {})
  <2>1. pc'[w] = "done" /\ seen'[w] = {} /\ frontier'[w] = {}
    BY <1>4 DEF StartRootPath, TypeOK
  <2> QED
    BY <1>1, <1>2, <2>1 DEF WalkInv, HistoryInv, StageInv, SubtreeInv, RootPathInv, Walking
<1> QED
  BY <1>3, <1>4

\* A step up adds the code asked for, or ends the walk where that code is gone or
\* was visited before; a steady parent is never gone.
LEMMA ClimbKeepsWalk ==
    ASSUME TypeOK, NEW w \in Walker, WalkInv(w), ClimbParent(w)
    PROVE  WalkInv(w)'
<1>1. /\ pc[w] = "climb" /\ kind[w] = "ROOT_PATH" /\ Walking(w)
      /\ kind'[w] = "ROOT_PATH" /\ root'[w] = root[w]
      /\ everEdge'[w] = everEdge[w] /\ steadyEdge'[w] = steadyEdge[w]
      /\ partitions' = partitions
  BY DEF ClimbParent, WalkInv, StageInv, Walking, treeVars
<1>2. EdgesOf(partitions)' = EdgesOf(partitions)
  BY <1>1 DEF EdgesOf, Docs
<1>3. steadyEdge[w] \subseteq EdgesOf(partitions) /\ EdgesOf(partitions) \subseteq everEdge[w]
  BY <1>1 DEF WalkInv, HistoryInv
<1>4. /\ seen[w] \subseteq Above(everEdge[w], root[w])
      /\ frontier[w] \subseteq Above(everEdge[w], root[w])
      /\ \A c, d \in frontier[w] : c = d
      /\ \A c \in seen[w], p \in Code : OnlyParent(w, c, p) => p \in seen[w] \cup frontier[w]
  BY <1>1 DEF WalkInv, RootPathInv
<1>5. \A c, p : OnlyParent(w, c, p)' => OnlyParent(w, c, p)
  BY <1>1 DEF OnlyParent
<1>6. HistoryInv(w)' /\ SubtreeInv(w)'
  BY <1>1, <1>2, <1>3 DEF HistoryInv, SubtreeInv
<1>7. PICK code \in frontier[w] :
        \/ /\ WithCode(code) = {} \/ ReachedAgain(w, code)
           /\ pc' = [pc EXCEPT ![w] = "done"]
           /\ frontier' = [frontier EXCEPT ![w] = {}]
           /\ UNCHANGED seen
        \/ \E p \in WithCode(code) : ClimbTo(w, p, seen[w])
  BY DEF ClimbParent
<1>8. CASE \E p \in WithCode(code) : ClimbTo(w, p, seen[w])
  <2>1. PICK p \in Docs(partitions) : p.ma = code /\ ClimbTo(w, p, seen[w])
    BY <1>8 DEF WithCode
  <2>2. \A c \in seen[w], q \in Code : OnlyParent(w, c, q)' => q \in seen[w] \cup {p.ma}
    BY <1>4, <1>5, <2>1
  <2>3. /\ seen[w] \in SUBSET Code
        /\ seen[w] \subseteq Above(everEdge'[w], root'[w])
        /\ p.ma \in Above(everEdge'[w], root'[w])
    BY <1>1, <1>4, <2>1 DEF TypeOK
  <2>4. /\ RootPathInv(w)'
        /\ pc'[w] \in {"done", "climb"} /\ (pc'[w] = "done" => frontier'[w] = {})
    BY <1>1, <1>3, <2>1, <2>2, <2>3, ClimbKeepsPath DEF RootPathInv
  <2> QED
    BY <1>1, <1>6, <2>4 DEF WalkInv, StageInv, Walking
<1>9. CASE ~ \E p \in WithCode(code) : ClimbTo(w, p, seen[w])
  <2>1. /\ pc'[w] = "done" /\ frontier'[w] = {} /\ seen'[w] = seen[w]
        /\ WithCode(code) = {} \/ code \in seen[w]
    BY <1>7, <1>9 DEF ReachedAgain, TypeOK
  <2>2. ASSUME NEW c \in seen[w], NEW p \in Code, OnlyParent(w, c, p), p \notin seen[w]
        PROVE  FALSE
    <3>1. p = code
      BY <1>4, <2>2
    <3>2. PICK q \in Code \cup {NoParent} : <<p, q>> \in EdgesOf(partitions)
      BY <1>3, <2>2 DEF OnlyParent
    <3>3. PICK d \in Docs(partitions) : <<p, q>> = <<d.ma, d.parentCode>>
      BY <3>2 DEF EdgesOf
    <3>4. d \in WithCode(code)
      BY <3>1, <3>3 DEF WithCode
    <3> QED
      BY <2>1, <2>2, <3>1, <3>4
  <2>3. RootPathInv(w)'
    BY <1>1, <1>4, <1>5, <2>1, <2>2 DEF RootPathInv
  <2> QED
    BY <1>1, <1>6, <2>1, <2>3 DEF WalkInv, StageInv, Walking
<1> QED
  BY <1>8, <1>9

-----------------------------------------------------------------------------
(***************************************************************************)
(* The invariant of the whole module, and what follows from it.            *)
(***************************************************************************)
\* No walk has begun in an initial state.
LEMMA InitIInv == Init => IInv
<1> SUFFICES ASSUME Init PROVE IInv
  OBVIOUS
<1>1. ASSUME NEW w \in Walker PROVE WalkInv(w)
  <2>1. /\ pc[w] = "idle" /\ kind[w] = "SUBTREE" /\ seen[w] = {}
        /\ frontier[w] = {} /\ steadyEdge[w] = {}
    BY DEF Init
  <2> QED
    BY <2>1 DEF WalkInv, HistoryInv, StageInv, SubtreeInv, RootPathInv, Walking
<1> QED
  BY <1>1, InitTyped DEF IInv

\* A step of the walk w keeps the invariant of every other walk v.
LEMMA OtherWalksUndisturbed ==
    ASSUME TypeOK, NEW w \in Walker, NEW v \in Walker \ {w}, WalkInv(v),
           \/ ExpandLevel(w)
           \/ ClimbParent(w)
           \/ \E code \in Code : StartSubtree(w, code) \/ StartRootPath(w, code)
    PROVE  WalkInv(v)'
<1>1. /\ partitions' = partitions
      /\ kind'[v] = kind[v] /\ root'[v] = root[v]
      /\ everEdge'[v] = everEdge[v] /\ steadyEdge'[v] = steadyEdge[v]
  BY DEF TypeOK, ExpandLevel, ClimbParent, StartSubtree, StartRootPath, Begin, treeVars
<1>2. pc'[v] = pc[v] /\ seen'[v] = seen[v] /\ frontier'[v] = frontier[v]
  BY DEF TypeOK, ExpandLevel, ClimbParent, StartSubtree, StartRootPath, ClimbTo
<1> QED
  BY <1>1, <1>2, WalkUndisturbed

\* Every step keeps the invariant.
LEMMA NextIInv == IInv /\ [Next]_vars => IInv'
<1> SUFFICES ASSUME IInv, [Next]_vars, NEW v \in Walker PROVE WalkInv(v)'
  BY NextTyped DEF IInv
<1>1. TypeOK /\ WalkInv(v)
  BY DEF IInv
<1>2. ASSUME NEW w \in Walker, NEW code \in Code,
             StartSubtree(w, code) \/ StartRootPath(w, code)
      PROVE  WalkInv(v)'
  <2>1. CASE w = v
    BY <1>1, <1>2, <2>1, StartSubtreeKeepsWalk, StartRootPathKeepsWalk
  <2>2. CASE w # v
    BY <1>1, <1>2, <2>2, OtherWalksUndisturbed
  <2> QED
    BY <2>1, <2>2
<1>3. ASSUME NEW w \in Walker, ExpandLevel(w) \/ ClimbParent(w)
      PROVE  WalkInv(v)'
  <2>1. CASE w = v
    BY <1>1, <1>3, <2>1, ExpandKeepsWalk, ClimbKeepsWalk
  <2>2. CASE w # v
    BY <1>1, <1>3, <2>2, OtherWalksUndisturbed
  <2> QED
    BY <2>1, <2>2
<1>4. ASSUME NEW d \in DocId, NEW ma \in Code, NEW parent \in Code \cup {NoParent},
             CreatePartition(d, ma, parent) \/ UpdatePartition(d, ma, parent)
      PROVE  WalkInv(v)'
  <2>1. [partitions EXCEPT ![d] = [ma |-> ma, parentCode |-> parent]] \in Tree
    BY <1>1 DEF TypeOK, Tree, Partition
  <2> QED
    BY <1>1, <1>4, <2>1, EditKeepsWalk DEF CreatePartition, UpdatePartition
<1>5. ASSUME NEW d \in DocId, DeletePartition(d)
      PROVE  WalkInv(v)'
  <2>1. [partitions EXCEPT ![d] = NoDoc] \in Tree
    BY <1>1 DEF TypeOK, Tree
  <2> QED
    BY <1>1, <1>5, <2>1, EditKeepsWalk DEF DeletePartition
<1>6. CASE UNCHANGED vars
  BY <1>1, <1>6, WalkUndisturbed DEF vars, treeVars, walkVars
<1> QED
  BY <1>2, <1>3, <1>4, <1>5, <1>6 DEF Next

\* The invariant holds in every reachable state.
LEMMA IInvHolds == Spec => []IInv
<1> QED
  BY InitIInv, NextIInv, PTL DEF Spec

\* get_subtree never returns a partition that no chain of edges seen during the walk
\* joins to its root, whatever the other requests do to the tree.
THEOREM SubtreeIsSound == Spec => []SubtreeSound
<1>1. IInv => SubtreeSound
  BY DEF IInv, WalkInv, SubtreeInv, SubtreeSound
<1> QED
  BY <1>1, IInvHolds, PTL

\* A finished get_subtree that found its root misses no partition whose chain of edges
\* stood during the whole walk: the codes it expanded are closed under those edges.
THEOREM SubtreeIsComplete == Spec => []SubtreeComplete
<1>1. IInv => SubtreeComplete
  <2> SUFFICES ASSUME IInv, NEW w \in Walker, kind[w] = "SUBTREE", pc[w] = "done",
                      seen[w] # {}
               PROVE  Below(steadyEdge[w], root[w]) \subseteq seen[w]
    BY DEF SubtreeComplete
  <2>1. frontier[w] = {}
    BY DEF IInv, WalkInv, StageInv, Walking
  <2>2. root[w] \in seen[w] /\ ClosedDown(steadyEdge[w], seen[w])
    BY <2>1 DEF IInv, WalkInv, SubtreeInv, ClosedDown
  <2>3. seen[w] \in SUBSET Code
    BY DEF IInv, TypeOK
  <2> QED
    BY <2>2, <2>3, BelowLeast
<1> QED
  BY <1>1, IInvHolds, PTL

\* get_root_path returns ancestors only, by edges seen during the walk.
THEOREM RootPathIsSound == Spec => []RootPathSound
<1>1. IInv => RootPathSound
  BY DEF IInv, WalkInv, RootPathInv, RootPathSound
<1> QED
  BY <1>1, IInvHolds, PTL

\* A finished get_root_path holds, with every partition whose only parent stood still
\* during the walk, that parent: it stops early only where the tree was changed.
THEOREM RootPathIsComplete == Spec => []RootPathComplete
<1>1. IInv => RootPathComplete
  <2> SUFFICES ASSUME IInv, NEW w \in Walker, kind[w] = "ROOT_PATH", pc[w] = "done",
                      NEW c \in seen[w], NEW p \in Code, OnlyParent(w, c, p)
               PROVE  p \in seen[w]
    BY DEF RootPathComplete
  <2>1. frontier[w] = {}
    BY DEF IInv, WalkInv, StageInv, Walking
  <2> QED
    BY <2>1 DEF IInv, WalkInv, RootPathInv
<1> QED
  BY <1>1, IInvHolds, PTL

\* How many codes a walk may still collect.
WalkRank(w) == Cardinality(Code \ seen[w])

LEMMA RankFalls ==
    ASSUME IsFiniteSet(Code), TypeOK, TypeOK', NEW w \in Walker, NEW c \in seen'[w] \ seen[w], seen[w] \subseteq seen'[w]
    PROVE  WalkRank(w) \in Nat /\ WalkRank(w)' \in Nat /\ WalkRank(w)' < WalkRank(w)
<1> DEFINE before == Code \ seen[w]
           after == Code \ seen'[w]
<1>1. after \in SUBSET before /\ c \in before /\ c \notin after
  BY DEF TypeOK
<1>2. IsFiniteSet(before) /\ IsFiniteSet(after)
  BY FS_Subset
<1>3. Cardinality(before) \in Nat /\ Cardinality(after) \in Nat
  BY <1>2, FS_CardinalityType
<1>4. Cardinality(after) <= Cardinality(before) /\ Cardinality(after) # Cardinality(before)
  BY <1>1, <1>2, FS_Subset
<1> QED BY <1>3, <1>4 DEF WalkRank

\* A walk over finitely many codes makes boundedly many queries, also where the tree has
\* cycles and while it changes: every query ends the walk or leaves fewer codes to
\* collect, and nothing else touches what it has collected.
THEOREM WalksAreBounded ==
    ASSUME IsFiniteSet(Code)
    PROVE  Spec => [][\A w \in Walker : Walking(w) =>
                        /\ WalkRank(w) \in Nat /\ kind'[w] = kind[w] /\ root'[w] = root[w]
                        /\ WalkStep(w) /\ pc'[w] # "done" => WalkRank(w)' < WalkRank(w)
                        /\ ~ WalkStep(w) => pc'[w] = pc[w] /\ seen'[w] = seen[w]]_vars
<1>1. TypeOK /\ TypeOK' /\ [Next]_vars =>
        [\A w \in Walker : Walking(w) =>
            /\ WalkRank(w) \in Nat /\ kind'[w] = kind[w] /\ root'[w] = root[w]
            /\ WalkStep(w) /\ pc'[w] # "done" => WalkRank(w)' < WalkRank(w)
            /\ ~ WalkStep(w) => pc'[w] = pc[w] /\ seen'[w] = seen[w]]_vars
  <2> SUFFICES ASSUME TypeOK, TypeOK', Next, NEW w \in Walker, Walking(w)
               PROVE  /\ WalkRank(w) \in Nat /\ kind'[w] = kind[w] /\ root'[w] = root[w]
                      /\ WalkStep(w) /\ pc'[w] # "done" => WalkRank(w)' < WalkRank(w)
                      /\ ~ WalkStep(w) => pc'[w] = pc[w] /\ seen'[w] = seen[w]
    OBVIOUS
  <2>1. WalkRank(w) \in Nat
    <3>1. IsFiniteSet(Code \ seen[w])
      BY FS_Subset
    <3> QED BY <3>1, FS_CardinalityType DEF WalkRank
  <2>2. ASSUME NEW v \in Walker, NEW code \in Code, StartSubtree(v, code) \/ StartRootPath(v, code)
        PROVE  kind'[w] = kind[w] /\ root'[w] = root[w] /\ pc'[w] = pc[w] /\ seen'[w] = seen[w]
    <3>1. v # w /\ kind'[w] = kind[w] /\ root'[w] = root[w]
      BY <2>2 DEF StartSubtree, StartRootPath, Begin, Walking, TypeOK
    <3>2. pc'[w] = pc[w] /\ seen'[w] = seen[w]
      BY <2>2, <3>1 DEF StartSubtree, StartRootPath, ClimbTo, TypeOK
    <3> QED BY <3>1, <3>2
  <2>3. ASSUME NEW v \in Walker, WalkStep(v)
        PROVE  kind' = kind /\ root' = root /\ (v # w => pc'[w] = pc[w] /\ seen'[w] = seen[w])
    BY <2>3 DEF WalkStep, ExpandLevel, ClimbParent, ClimbTo, TypeOK
  <2>4. ASSUME NEW tree, Edit(tree) PROVE UNCHANGED <<kind, root, pc, seen>>
    BY <2>4 DEF Edit
  <2>5. ASSUME WalkStep(w), pc'[w] # "done" PROVE WalkRank(w)' < WalkRank(w)
    <3>1. CASE ExpandLevel(w)
      <4>1. seen'[w] = seen[w] \cup NewChildren(w) /\ NewChildren(w) # {}
        BY <2>5, <3>1 DEF ExpandLevel, TypeOK
      <4>2. PICK c : c \in NewChildren(w)
        BY <4>1
      <4>3. c \in seen'[w] \ seen[w] /\ seen[w] \subseteq seen'[w]
        BY <4>1, <4>2 DEF NewChildren
      <4> QED BY <4>3, RankFalls
    <3>2. CASE ClimbParent(w)
      <4>1. PICK code \in frontier[w] : ~ ReachedAgain(w, code) /\ \E p \in WithCode(code) : ClimbTo(w, p, seen[w])
        BY <2>5, <3>2 DEF ClimbParent, TypeOK
      <4>2. PICK p \in WithCode(code) : ClimbTo(w, p, seen[w])
        BY <4>1
      <4>3. seen'[w] = seen[w] \cup {code} /\ code \notin seen[w]
        BY <4>1, <4>2 DEF ClimbTo, WithCode, ReachedAgain, TypeOK
      <4> QED BY <4>3, RankFalls
    <3> QED BY <2>5, <3>1, <3>2 DEF WalkStep
  <2>6. CASE \E v \in Walker : WalkStep(v)
    BY <2>1, <2>3, <2>5, <2>6
  <2>7. CASE \A v \in Walker : ~ WalkStep(v)
    BY <2>1, <2>2, <2>4, <2>7 DEF Next, WalkStep, CreatePartition, UpdatePartition, DeletePartition
  <2> QED BY <2>6, <2>7
<1> QED BY <1>1, TypeCorrect, PTL DEF Spec

-----------------------------------------------------------------------------
(***************************************************************************)
(* PartitionedRepository: the walks of its requests keep IInv, and a       *)
(* request whose condition needs a walk has made it for its own header.    *)
(***************************************************************************)
USE DEF Request

Outcomes == {"pending", "ok", "notFound", "conflict"}

\* A request whose condition needs a walk walks or has walked, from its header.
RequestInv(q) ==
    (~ Waiting(q) /\ NeedsWalk(request[q].op, Header(q)))
        => pc[q] # "idle" /\ kind[q] = scope /\ root[q] = Header(q)

\* A path that goes on has found its root, and a root that stood all along was found.
PathInv(q) ==
    /\ pc[q] = "climb" => seen[q] # {}
    /\ kind[q] = "ROOT_PATH" /\ seen[q] # {} => root[q] \in seen[q]
    /\ kind[q] = "ROOT_PATH" => \A e \in steadyEdge[q] : e[1] = root[q] => root[q] \in seen[q]

\* Until it is moved, a record is where its creator's header put it.
CreatorInv == \A r \in RecordId : creator[r] # NoCode => records[r] = creator[r]

RepoInv ==
    /\ IInv /\ RepoTypeOK /\ CreatorInv
    /\ \A q \in Request : RequestInv(q) /\ PathInv(q)

-----------------------------------------------------------------------------
(***************************************************************************)
(* The walks.                                                              *)
(***************************************************************************)
\* A path begins with its root and only grows.
LEMMA PathKept ==
    ASSUME IInv, NEW q \in Walker, PathInv(q), [Next]_vars
    PROVE  PathInv(q)'
<1>1. TypeOK /\ StageInv(q)
  BY DEF IInv, WalkInv
<1>2. ASSUME NEW w \in Walker, NEW code \in Code, StartSubtree(w, code) \/ StartRootPath(w, code)
      PROVE  PathInv(q)'
  <2>1. CASE w # q
    <3>1. kind'[q] = kind[q] /\ root'[q] = root[q] /\ steadyEdge'[q] = steadyEdge[q]
      BY <1>1, <1>2, <2>1 DEF TypeOK, StartSubtree, StartRootPath, Begin
    <3>2. pc'[q] = pc[q] /\ seen'[q] = seen[q]
      BY <1>1, <1>2, <2>1 DEF TypeOK, StartSubtree, StartRootPath, ClimbTo
    <3> QED BY <3>1, <3>2 DEF PathInv
  <2>2. CASE w = q /\ StartSubtree(w, code)
    BY <1>1, <2>2 DEF PathInv, TypeOK, StartSubtree, Begin
  <2>3. CASE w = q /\ StartRootPath(w, code)
    <3>1. root'[q] = code /\ steadyEdge'[q] = EdgesOf(partitions)
      BY <1>1, <2>3 DEF TypeOK, StartRootPath, Begin
    <3>2. (seen'[q] = {} /\ pc'[q] = "done" /\ WithCode(code) = {}) \/ code \in seen'[q]
      BY <1>1, <2>3 DEF TypeOK, StartRootPath, ClimbTo, WithCode
    <3>3. \A e \in EdgesOf(partitions) : e[1] = code => WithCode(code) # {}
      BY DEF EdgesOf, WithCode
    <3> QED BY <3>1, <3>2, <3>3 DEF PathInv
  <2> QED BY <1>2, <2>1, <2>2, <2>3
<1>3. ASSUME NEW w \in Walker, ExpandLevel(w) PROVE PathInv(q)'
  <2>1. /\ kind' = kind /\ root' = root /\ steadyEdge' = steadyEdge /\ kind[w] = "SUBTREE"
        /\ (q # w => seen'[q] = seen[q] /\ pc'[q] = pc[q])
        /\ pc'[w] \in {"done", "expand"}
    BY <1>3 DEF IInv, WalkInv, StageInv, TypeOK, ExpandLevel
  <2> QED BY <2>1 DEF PathInv
<1>4. ASSUME NEW w \in Walker, ClimbParent(w) PROVE PathInv(q)'
  <2>1. kind' = kind /\ root' = root /\ steadyEdge' = steadyEdge /\ pc[w] = "climb"
    BY <1>4 DEF ClimbParent
  <2>2. CASE w # q
    <3>1. pc'[q] = pc[q] /\ seen'[q] = seen[q]
      BY <1>1, <1>4, <2>2 DEF TypeOK, ClimbParent, ClimbTo
    <3> QED BY <2>1, <3>1 DEF PathInv
  <2>3. CASE w = q
    <3>1. seen[q] \subseteq seen'[q]
      BY <1>1, <1>4, <2>3 DEF TypeOK, ClimbParent, ClimbTo
    <3> QED BY <2>1, <2>3, <3>1 DEF PathInv
  <2> QED BY <2>2, <2>3
<1>5. ASSUME NEW tree, Edit(tree) PROVE PathInv(q)'
  <2>1. UNCHANGED <<pc, kind, root, seen>> /\ steadyEdge'[q] \subseteq steadyEdge[q]
    BY <1>5 DEF Edit
  <2> QED BY <2>1 DEF PathInv
<1>6. CASE UNCHANGED vars
  BY <1>6 DEF PathInv, vars, treeVars, walkVars
<1> QED
  BY <1>2, <1>3, <1>4, <1>5, <1>6 DEF Next, CreatePartition, UpdatePartition, DeletePartition

\* A request that is over forgets its walk; the others keep theirs.
LEMMA AnswerKeepsWalks ==
    ASSUME RepoInv, NEW q \in Request, NEW outcome \in Outcomes, NEW ids \in SUBSET RecordId, Answer(q, outcome, ids)
    PROVE  /\ IInv'
           /\ \A p \in Request : RequestInv(p)' /\ PathInv(p)'
           /\ scope' = scope /\ request' \in [Request -> Asking]
           /\ found' \in [Request -> SUBSET RecordId] /\ status' \in [Request -> Outcomes]
<1>1. /\ TypeOK /\ RepoTypeOK /\ partitions' = partitions /\ edits' = edits
      /\ \A w \in Walker : WalkInv(w) /\ RequestInv(w) /\ PathInv(w)
  BY DEF RepoInv, IInv, Answer, treeVars
<1>2. /\ pc'[q] = "idle" /\ kind'[q] = "SUBTREE" /\ root'[q] = NoParent /\ seen'[q] = {}
      /\ frontier'[q] = {} /\ everEdge'[q] = {} /\ steadyEdge'[q] = {} /\ request'[q] = Idle
  BY <1>1 DEF Answer, TypeOK, RepoTypeOK
<1>3. \A p \in Walker \ {q} :
        /\ pc'[p] = pc[p] /\ kind'[p] = kind[p] /\ root'[p] = root[p] /\ seen'[p] = seen[p]
        /\ frontier'[p] = frontier[p] /\ everEdge'[p] = everEdge[p] /\ steadyEdge'[p] = steadyEdge[p]
        /\ request'[p] = request[p]
  BY <1>1 DEF Answer, TypeOK, RepoTypeOK
<1>4. TypeOK'
  BY <1>1 DEF Answer, TypeOK
<1>5. ASSUME NEW p \in Walker PROVE WalkInv(p)' /\ RequestInv(p)' /\ PathInv(p)'
  <2>1. CASE p = q
    <3>1. WalkInv(q)'
      BY <1>2 DEF WalkInv, HistoryInv, StageInv, SubtreeInv, RootPathInv, Walking
    <3>2. RequestInv(q)' /\ PathInv(q)'
      BY <1>2 DEF RequestInv, PathInv, Waiting, Idle
    <3> QED BY <2>1, <3>1, <3>2
  <2>2. CASE p # q
    <3>1. WalkInv(p)'
      BY <1>1, <1>3, <2>2, WalkUndisturbed
    <3>2. RequestInv(p)' /\ PathInv(p)'
      BY <1>1, <1>3, <2>2 DEF RequestInv, PathInv, Waiting, Header, NeedsWalk, Answer
    <3> QED BY <3>1, <3>2
  <2> QED BY <2>1, <2>2
<1>6. Idle \in Asking
  BY DEF Idle, Stored, Asking
<1>7. /\ scope' = scope /\ request' \in [Request -> Asking]
      /\ found' \in [Request -> SUBSET RecordId] /\ status' \in [Request -> Outcomes]
  BY <1>1, <1>6 DEF Answer, RepoTypeOK, Outcomes
<1> QED BY <1>4, <1>5, <1>7 DEF IInv

\* So does a step that only changes the records.
LEMMA AnswerStep ==
    ASSUME RepoInv, NEW q \in Request, NEW outcome \in Outcomes, NEW ids \in SUBSET RecordId, Answer(q, outcome, ids),
           records' \in [RecordId -> Stored \cup {NoRecord}], creator' \in [RecordId -> Stored], CreatorInv'
    PROVE  RepoInv'
<1>1. /\ IInv'
      /\ \A p \in Request : RequestInv(p)' /\ PathInv(p)'
      /\ scope' = scope /\ request' \in [Request -> Asking]
      /\ found' \in [Request -> SUBSET RecordId] /\ status' \in [Request -> Outcomes]
  BY AnswerKeepsWalks
<1>2. RepoTypeOK'
  BY <1>1 DEF RepoTypeOK, RepoInv, IInv, Outcomes
<1> QED BY <1>1, <1>2 DEF RepoInv

-----------------------------------------------------------------------------
(***************************************************************************)
(* What the writes do to the records.                                      *)
(***************************************************************************)
RecordTypes == records \in [RecordId -> Stored \cup {NoRecord}] /\ creator \in [RecordId -> Stored] /\ CreatorInv

LEMMA RecordsKept == ASSUME RecordTypes, UNCHANGED <<records, creator>> PROVE RecordTypes'
  BY DEF RecordTypes, CreatorInv

LEMMA SetOnKept ==
    ASSUME RecordTypes, NEW ids \in SUBSET RecordId, NEW given \in Stored, SetOn(ids, given)
    PROVE  RecordTypes'
<1>1. NoCode \in Stored
  BY DEF Stored
<1>2. records' \in [RecordId -> Stored \cup {NoRecord}] /\ creator' \in [RecordId -> Stored]
  BY <1>1 DEF RecordTypes, SetOn
<1>3. ASSUME NEW r \in RecordId, creator'[r] # NoCode PROVE records'[r] = creator'[r]
  BY <1>3 DEF RecordTypes, CreatorInv, SetOn
<1> QED BY <1>2, <1>3 DEF RecordTypes, CreatorInv

LEMMA RemoveKept ==
    ASSUME RecordTypes, NEW ids \in SUBSET RecordId, Remove(ids)
    PROVE  RecordTypes'
<1>1. NoCode \in Stored
  BY DEF Stored
<1>2. records' \in [RecordId -> Stored \cup {NoRecord}] /\ creator' \in [RecordId -> Stored]
  BY <1>1 DEF RecordTypes, Remove
<1>3. ASSUME NEW r \in RecordId, creator'[r] # NoCode PROVE records'[r] = creator'[r]
  BY <1>3 DEF RecordTypes, CreatorInv, Remove
<1> QED BY <1>2, <1>3 DEF RecordTypes, CreatorInv

LEMMA InsertKept ==
    ASSUME RecordTypes, NEW r \in RecordId, NEW code \in Stored, NEW by \in {NoCode, code}, Insert(r, code, by)
    PROVE  RecordTypes'
<1>1. NoCode \in Stored
  BY DEF Stored
<1>2. records' \in [RecordId -> Stored \cup {NoRecord}] /\ creator' \in [RecordId -> Stored]
  BY <1>1 DEF RecordTypes, Insert
<1>3. ASSUME NEW s \in RecordId, creator'[s] # NoCode PROVE records'[s] = creator'[s]
  BY <1>3 DEF RecordTypes, CreatorInv, Insert
<1> QED BY <1>2, <1>3 DEF RecordTypes, CreatorInv

-----------------------------------------------------------------------------
(***************************************************************************)
(* Every step keeps the invariant.                                         *)
(***************************************************************************)
LEMMA RequestTyped ==
    ASSUME RepoInv, NEW q \in Request
    PROVE  /\ request[q].op \in Op \cup {"none"} /\ Header(q) \in Stored /\ request[q].ids \in SUBSET RecordId
           /\ found[q] \in SUBSET RecordId /\ ScopeCodes(q) \subseteq Stored
           /\ \A ids \in SUBSET RecordId : Matching(q, ids) \in SUBSET RecordId
<1>1. /\ request[q].op \in Op \cup {"none"} /\ Header(q) \in Stored /\ request[q].ids \in SUBSET RecordId
      /\ found[q] \in SUBSET RecordId /\ seen[q] \subseteq Code
  BY DEF RepoInv, RepoTypeOK, Asking, TypeOK, Header
<1>2. ScopeCodes(q) \subseteq Stored
  BY <1>1 DEF ScopeCodes, Stored
<1>3. \A ids \in SUBSET RecordId : Matching(q, ids) \in SUBSET RecordId
  BY DEF Matching
<1> QED BY <1>1, <1>2, <1>3

LEMMA RecordsTyped == ASSUME RepoInv PROVE RecordTypes
  BY DEF RepoInv, RepoTypeOK, RecordTypes

\* An answer with records that are kept as they should be.
LEMMA AnswerKept ==
    ASSUME RepoInv, NEW q \in Request, NEW outcome \in Outcomes, NEW ids \in SUBSET RecordId, Answer(q, outcome, ids),
           RecordTypes'
    PROVE  RepoInv'
BY AnswerStep DEF RecordTypes

\* A step of a request that is not over: it asks for fewer ids and has found more.
Proceeds(q) ==
    /\ \E ids, more \in SUBSET RecordId :
         /\ ids \subseteq request[q].ids /\ (request[q].ids # {} => ids # {})
         /\ request' = [request EXCEPT ![q].ids = ids]
         /\ found' = [found EXCEPT ![q] = @ \cup more]
    /\ UNCHANGED <<status, scope, treeVars, walkVars>>

LEMMA ProceedsKept ==
    ASSUME RepoInv, NEW q \in Request, Proceeds(q), RecordTypes'
    PROVE  RepoInv'
<1>1. PICK ids, more \in SUBSET RecordId :
        request' = [request EXCEPT ![q].ids = ids] /\ found' = [found EXCEPT ![q] = @ \cup more]
  BY DEF Proceeds
<1>2. UNCHANGED <<status, scope, treeVars, walkVars>>
  BY DEF Proceeds
<1>3. IInv'
  BY <1>2, NextIInv DEF RepoInv, vars
<1>4. \A p \in Request : request'[p].op = request[p].op /\ request'[p].header = request[p].header
  BY <1>1 DEF RepoInv, RepoTypeOK, Asking
<1>5. request' \in [Request -> Asking] /\ found' \in [Request -> SUBSET RecordId]
  BY <1>1 DEF RepoInv, RepoTypeOK, Asking
<1>6. RepoTypeOK'
  BY <1>2, <1>3, <1>5 DEF RepoInv, RepoTypeOK, IInv, RecordTypes
<1>7. \A p \in Request : RequestInv(p)' /\ PathInv(p)'
  BY <1>2, <1>4 DEF RepoInv, RequestInv, PathInv, Waiting, Header, NeedsWalk, walkVars
<1> QED BY <1>3, <1>6, <1>7 DEF RepoInv, RecordTypes

\* An item is the last one and answers, or the request proceeds.
LEMMA ItemIsStep ==
    ASSUME RepoInv, NEW q \in Request, NEW r \in request[q].ids, NEW ids \in SUBSET RecordId, ItemDone(q, r, ids)
    PROVE  (request[q].ids = {r} /\ Answer(q, "ok", found[q] \cup ids)) \/ Proceeds(q)
<1>1. request[q].ids \in SUBSET RecordId
  BY DEF RepoInv, RepoTypeOK, Asking
<1>2. CASE request[q].ids # {r}
  <2>1. request[q].ids \ {r} # {} /\ request[q].ids \ {r} \in SUBSET RecordId
    BY <1>1, <1>2
  <2>2. request' = [request EXCEPT ![q].ids = request[q].ids \ {r}]
    BY <1>2 DEF ItemDone
  <2>3. found' = [found EXCEPT ![q] = @ \cup ids] /\ UNCHANGED <<status, scope, treeVars, walkVars>>
    BY <1>2 DEF ItemDone
  <2> QED BY <2>1, <2>2, <2>3 DEF Proceeds
<1> QED BY <1>2 DEF ItemDone

\* So an item that leaves the records as they should be keeps the invariant.
LEMMA ItemKept ==
    ASSUME RepoInv, NEW q \in Request, NEW r \in request[q].ids, NEW ids \in SUBSET RecordId, ItemDone(q, r, ids),
           RecordTypes'
    PROVE  RepoInv'
<1>1. found[q] \cup ids \in SUBSET RecordId /\ "ok" \in Outcomes
  BY RequestTyped DEF Outcomes
<1> QED BY <1>1, ItemIsStep, ProceedsKept, AnswerKept

\* A list that has one more record proceeds.
LEMMA FetchIsStep ==
    ASSUME RepoInv, NEW q \in Request, NEW r \in Matching(q, RecordId), found' = [found EXCEPT ![q] = @ \cup {r}],
           UNCHANGED <<scope, request, status, treeVars, walkVars>>
    PROVE  Proceeds(q)
<1>1. request[q].ids \in SUBSET RecordId /\ {r} \in SUBSET RecordId
  BY RequestTyped
<1>2. request' = [request EXCEPT ![q].ids = request[q].ids]
  BY DEF RepoInv, RepoTypeOK, Asking
<1> QED BY <1>1, <1>2 DEF Proceeds

LEMMA ReadStep == ASSUME RepoInv, NEW q \in Request, Read(q) PROVE RepoInv'
<1>1. UNCHANGED <<records, creator>> /\ RecordTypes'
  BY RecordsTyped, RecordsKept DEF Read, GetById, GetOne, GetMany
<1>2. /\ Matching(q, request[q].ids) \in SUBSET RecordId /\ Matching(q, RecordId) \in SUBSET RecordId
      /\ {"ok", "notFound"} \subseteq Outcomes /\ found[q] \in SUBSET RecordId
  BY RequestTyped DEF Outcomes
<1>3. (\E outcome \in Outcomes, ids \in SUBSET RecordId : Answer(q, outcome, ids)) \/ Proceeds(q)
  <2>1. CASE GetById(q)
    <3>1. Answer(q, "ok", Matching(q, request[q].ids)) \/ Answer(q, "notFound", Matching(q, request[q].ids))
      BY <2>1 DEF GetById
    <3> QED BY <1>2, <3>1
  <2>2. CASE GetOne(q)
    <3>1. Answer(q, "ok", {}) \/ \E r \in Matching(q, RecordId) : Answer(q, "ok", {r})
      BY <2>2 DEF GetOne
    <3> QED BY <1>2, <3>1
  <2>3. CASE GetMany(q)
    <3>1. CASE Answer(q, "ok", found[q])
      BY <1>2, <3>1
    <3>2. CASE ~ Answer(q, "ok", found[q])
      <4>1. PICK r \in Matching(q, RecordId) : found' = [found EXCEPT ![q] = @ \cup {r}]
        BY <2>3, <3>2 DEF GetMany
      <4>2. UNCHANGED <<scope, request, status, treeVars, walkVars>>
        BY <2>3, <3>2 DEF GetMany
      <4> QED BY <4>1, <4>2, FetchIsStep
    <3> QED BY <3>1, <3>2
  <2> QED BY <2>1, <2>2, <2>3 DEF Read
<1> QED BY <1>1, <1>3, AnswerKept, ProceedsKept

\* create and import_insert put a record where their header says, if it says anything.
LEMMA CreatedIsStored ==
    ASSUME RepoInv, NEW q \in Request, NEW given \in Stored
    PROVE  CreatedCode(q, given) \in Stored /\ Header(q) \in {NoCode, CreatedCode(q, given)}
BY RequestTyped DEF CreatedCode

LEMMA CreateStep == ASSUME RepoInv, NEW q \in Request, Create(q) PROVE RepoInv'
<1>1. PICK r \in request[q].ids, given \in Stored :
        \/ Answer(q, "conflict", {}) /\ UNCHANGED <<records, creator>>
        \/ Insert(r, CreatedCode(q, given), Header(q)) /\ Answer(q, "ok", {r})
  BY DEF Create
<1>2. r \in RecordId /\ {"ok", "conflict"} \subseteq Outcomes
  BY RequestTyped DEF Outcomes
<1>3. RecordTypes'
  BY <1>1, <1>2, RecordsTyped, RecordsKept, InsertKept, CreatedIsStored
<1> QED BY <1>1, <1>2, <1>3, AnswerKept

LEMMA ImportItemStep == ASSUME RepoInv, NEW q \in Request, ImportItem(q) PROVE RepoInv'
<1>1. PICK r \in request[q].ids, given \in Stored :
        \/ Answer(q, "conflict", found[q]) /\ UNCHANGED <<records, creator>>
        \/ Insert(r, CreatedCode(q, given), Header(q)) /\ ItemDone(q, r, {r})
  BY DEF ImportItem
<1>2. /\ r \in RecordId /\ found[q] \in SUBSET RecordId /\ {r} \in SUBSET RecordId
      /\ "conflict" \in Outcomes
  BY RequestTyped DEF Outcomes
<1>3. RecordTypes'
  BY <1>1, <1>2, RecordsTyped, RecordsKept, InsertKept, CreatedIsStored
<1>4. CASE Answer(q, "conflict", found[q])
  BY <1>2, <1>3, <1>4, AnswerKept
<1>5. CASE ItemDone(q, r, {r})
  BY <1>2, <1>3, <1>5, ItemKept
<1> QED BY <1>1, <1>4, <1>5

\* An insert by upsert stores a code of the condition, of the payload, or none.
LEMMA UpsertedIsStored ==
    ASSUME RepoInv, NEW q \in Request, NEW given \in Stored
    PROVE  UpsertCodes(q, given) \subseteq Stored
<1>1. Header(q) \in Stored /\ ScopeCodes(q) \subseteq Stored /\ NoCode \in Stored
  BY RequestTyped DEF Stored
<1> QED BY <1>1 DEF UpsertCodes

LEMMA UpsertStep == ASSUME RepoInv, NEW q \in Request, Upsert(q) PROVE RepoInv'
<1> DEFINE ids == IF request[q].ids = {} THEN RecordId ELSE request[q].ids
           hit == Matching(q, ids)
<1>1. ids \in SUBSET RecordId /\ hit \in SUBSET RecordId /\ {"ok", "conflict"} \subseteq Outcomes /\ NoCode \in Stored
  BY RequestTyped DEF Outcomes, Stored
<1>2. PICK given \in Stored :
        \/ \E r \in hit : SetOn({r}, given) /\ Answer(q, "ok", {r})
        \/ \E r \in ids, code \in UpsertCodes(q, given) : Insert(r, code, NoCode) /\ Answer(q, "ok", {r})
        \/ Answer(q, "conflict", {}) /\ UNCHANGED <<records, creator>>
  BY DEF Upsert
<1> HIDE DEF ids, hit
<1>3. ASSUME NEW r \in hit, SetOn({r}, given), Answer(q, "ok", {r}) PROVE RepoInv'
  <2>1. {r} \in SUBSET RecordId
    BY <1>1
  <2> QED BY <1>1, <1>3, <2>1, RecordsTyped, SetOnKept, AnswerKept
<1>4. ASSUME NEW r \in ids, NEW code \in UpsertCodes(q, given), Insert(r, code, NoCode), Answer(q, "ok", {r})
      PROVE  RepoInv'
  <2>1. r \in RecordId /\ {r} \in SUBSET RecordId /\ code \in Stored
    BY <1>1, UpsertedIsStored
  <2> QED BY <1>1, <1>4, <2>1, RecordsTyped, InsertKept, AnswerKept
<1>5. CASE Answer(q, "conflict", {}) /\ UNCHANGED <<records, creator>>
  BY <1>1, <1>5, RecordsTyped, RecordsKept, AnswerKept
<1> QED BY <1>2, <1>3, <1>4, <1>5

LEMMA ByIdStep ==
    ASSUME RepoInv, NEW q \in Request, UpdateById(q) \/ DeleteById(q)
    PROVE  RepoInv'
<1> DEFINE hit == Matching(q, request[q].ids)
<1>1. hit \in SUBSET RecordId /\ {"ok", "notFound"} \subseteq Outcomes
  BY RequestTyped DEF Outcomes
<1>2. PICK outcome \in Outcomes : Answer(q, outcome, hit)
  <2>1. Answer(q, "ok", hit) \/ Answer(q, "notFound", hit)
    BY DEF UpdateById, DeleteById
  <2> QED BY <1>1, <2>1
<1>3. (\E given \in Stored : SetOn(hit, given)) \/ Remove(hit)
  BY DEF UpdateById, DeleteById
<1> HIDE DEF hit
<1>4. RecordTypes'
  BY <1>1, <1>3, RecordsTyped, SetOnKept, RemoveKept
<1> QED BY <1>1, <1>2, <1>4, AnswerKept

LEMMA ByIdsStep ==
    ASSUME RepoInv, NEW q \in Request, UpdateByIds(q) \/ DeleteByIds(q)
    PROVE  RepoInv'
<1>1. PICK r \in request[q].ids :
        /\ SetOn(Matching(q, {r}), request[q].given) \/ Remove(Matching(q, {r}))
        /\ ItemDone(q, r, Matching(q, {r}))
  BY DEF UpdateByIds, DeleteByIds
<1>2. {r} \in SUBSET RecordId /\ request[q].given \in Stored
  BY RequestTyped DEF RepoInv, RepoTypeOK, Asking
<1>3. Matching(q, {r}) \in SUBSET RecordId
  BY <1>2, RequestTyped
<1>4. RecordTypes'
  BY <1>1, <1>2, <1>3, RecordsTyped, SetOnKept, RemoveKept
<1> QED BY <1>1, <1>3, <1>4, ItemKept

\* A request for nothing changes nothing but its answer.
LEMMA NoItemsStep == ASSUME RepoInv, NEW q \in Request, NoItems(q) PROVE RepoInv'
<1>1. UNCHANGED <<scope, records, request, creator, treeVars, walkVars>>
  BY DEF NoItems
<1>2. IInv' /\ \A p \in Request : PathInv(p)'
  BY <1>1, NextIInv, PathKept DEF RepoInv, vars
<1>3. found' \in [Request -> SUBSET RecordId] /\ status' \in [Request -> Outcomes]
  BY DEF NoItems, RepoInv, RepoTypeOK, Outcomes
<1>4. RepoTypeOK' /\ CreatorInv'
  BY <1>1, <1>2, <1>3 DEF RepoInv, RepoTypeOK, IInv, CreatorInv, Outcomes
<1>5. \A p \in Request : RequestInv(p)'
  BY <1>1 DEF RepoInv, RequestInv, Waiting, Header, NeedsWalk, walkVars
<1> QED BY <1>2, <1>4, <1>5 DEF RepoInv

LEMMA WriteStep == ASSUME RepoInv, NEW q \in Request, Write(q) PROVE RepoInv'
  BY CreateStep, ImportItemStep, UpsertStep, ByIdStep, ByIdsStep DEF Write

\* A step of the tree's own: the requests stand where they stood.
LEMMA TreeStep ==
    ASSUME RepoInv, Next, UNCHANGED repoVars,
           \A q \in Request : ~ Waiting(q) /\ NeedsWalk(request[q].op, Header(q)) =>
                                pc'[q] # "idle" /\ kind'[q] = kind[q] /\ root'[q] = root[q]
    PROVE  RepoInv'
<1>1. IInv' /\ \A q \in Request : PathInv(q)'
  BY NextIInv, PathKept DEF RepoInv
<1>2. RepoTypeOK' /\ CreatorInv'
  BY <1>1 DEF RepoInv, RepoTypeOK, IInv, CreatorInv, repoVars
<1>3. \A q \in Request : RequestInv(q)'
  BY DEF RepoInv, RequestInv, repoVars, Waiting, Header, NeedsWalk
<1> QED BY <1>1, <1>2, <1>3 DEF RepoInv

LEMMA WalkOnStep == ASSUME RepoInv, NEW q \in Request, WalkOn(q) PROVE RepoInv'
<1>1. Next /\ UNCHANGED repoVars
  BY DEF WalkOn, Next
<1>2. TypeOK /\ \A p \in Request : RequestInv(p)
  BY DEF RepoInv, IInv
<1>3. kind' = kind /\ root' = root /\ pc'[q] # "idle" /\ \A p \in Walker \ {q} : pc'[p] = pc[p]
  BY <1>2 DEF WalkOn, ExpandLevel, ClimbParent, ClimbTo, TypeOK
<1>4. \A p \in Request : ~ Waiting(p) /\ NeedsWalk(request[p].op, Header(p)) =>
                                pc'[p] # "idle" /\ kind'[p] = kind[p] /\ root'[p] = root[p]
  BY <1>2, <1>3 DEF RequestInv
<1> QED BY <1>1, <1>4, TreeStep

LEMMA EditTreeStep == ASSUME RepoInv, EditTree PROVE RepoInv'
<1>1. Next /\ UNCHANGED repoVars
  BY DEF EditTree, Next
<1>2. UNCHANGED <<pc, kind, root>>
  BY DEF EditTree, CreatePartition, UpdatePartition, DeletePartition, Edit
<1>3. \A q \in Request : ~ Waiting(q) /\ NeedsWalk(request[q].op, Header(q)) =>
                                pc'[q] # "idle" /\ kind'[q] = kind[q] /\ root'[q] = root[q]
  BY <1>2 DEF RepoInv, RequestInv
<1> QED BY <1>1, <1>3, TreeStep

\* A request arrives and starts the walk its condition needs, from its header.
LEMMA ArriveStep == ASSUME RepoInv, NEW q \in Request, Arrive(q) PROVE RepoInv'
<1>0. PICK op \in Op, header \in Stored :
        \E ids \in IdsOf(op), given \in GivenOf(op) : Issue(q, op, header, ids, given)
  BY DEF Arrive
<1>1. PICK ids \in IdsOf(op), given \in GivenOf(op) : Issue(q, op, header, ids, given)
  BY <1>0
<1>2. ids \in SUBSET RecordId /\ given \in Stored
  BY <1>1 DEF IdsOf, GivenOf, Op, ReadOps, OneIdOps, ManyIdsOps, InsertOps, ItemOps, Stored
<1>3. /\ Waiting(q) /\ TypeOK /\ RepoTypeOK /\ UNCHANGED <<scope, records, creator>>
      /\ request' = [request EXCEPT ![q] = [op |-> op, header |-> header, ids |-> ids, given |-> given]]
      /\ found' = [found EXCEPT ![q] = {}] /\ status' = [status EXCEPT ![q] = "pending"]
  BY <1>1 DEF Issue, RepoInv, IInv
<1>4. CASE NeedsWalk(op, header)
  <2>1. header \in Code /\ scope \in {"SUBTREE", "ROOT_PATH"}
    BY <1>4 DEF NeedsWalk, Stored
  <2>2. (scope = "SUBTREE" /\ StartSubtree(q, header)) \/ (scope = "ROOT_PATH" /\ StartRootPath(q, header))
    BY <1>1, <1>4, <2>1 DEF Issue
  <2>3. Next
    BY <2>1, <2>2 DEF Next
  <2>4. kind'[q] = scope /\ root'[q] = header /\ \A p \in Walker \ {q} : kind'[p] = kind[p] /\ root'[p] = root[p]
    BY <1>3, <2>2 DEF StartSubtree, StartRootPath, Begin, TypeOK
  <2>5. pc'[q] # "idle" /\ \A p \in Walker \ {q} : pc'[p] = pc[p]
    BY <1>3, <2>2 DEF StartSubtree, StartRootPath, ClimbTo, TypeOK
  <2> QED
    <3>1. IInv' /\ \A p \in Request : PathInv(p)'
      BY <2>3, NextIInv, PathKept DEF RepoInv
    <3>2. RepoTypeOK' /\ CreatorInv'
      BY <1>2, <1>3, <3>1 DEF RepoInv, RepoTypeOK, Asking, IInv, CreatorInv
    <3>3. ASSUME NEW p \in Request PROVE RequestInv(p)'
      <4>1. CASE p = q
        BY <1>3, <2>4, <2>5, <4>1 DEF RequestInv, Header, RepoTypeOK
      <4>2. CASE p # q
        <5>1. request'[p] = request[p]
          BY <1>3, <4>2 DEF RepoTypeOK
        <5> QED BY <1>3, <2>4, <2>5, <4>2, <5>1 DEF RepoInv, RequestInv, Waiting, Header, NeedsWalk
      <4> QED BY <4>1, <4>2
    <3> QED BY <3>1, <3>2, <3>3 DEF RepoInv
<1>5. CASE ~ NeedsWalk(op, header)
  <2>1. UNCHANGED <<treeVars, walkVars>>
    BY <1>1, <1>5 DEF Issue
  <2>2. IInv' /\ \A p \in Request : PathInv(p)'
    BY <2>1, NextIInv, PathKept DEF RepoInv, vars
  <2>3. RepoTypeOK' /\ CreatorInv'
    BY <1>2, <1>3, <2>2 DEF RepoInv, RepoTypeOK, Asking, IInv, CreatorInv
  <2>4. ASSUME NEW p \in Request PROVE RequestInv(p)'
    <3>1. CASE p = q
      <4>1. request'[q].op = op /\ request'[q].header = header
        BY <1>3 DEF RepoTypeOK
      <4> QED BY <1>3, <1>5, <3>1, <4>1 DEF RequestInv, Header, NeedsWalk
    <3>2. CASE p # q
      <4>1. request'[p] = request[p]
        BY <1>3, <3>2 DEF RepoTypeOK
      <4> QED BY <1>3, <2>1, <4>1 DEF RepoInv, RequestInv, Waiting, Header, NeedsWalk, walkVars
    <3> QED BY <3>1, <3>2
  <2> QED BY <2>2, <2>3, <2>4 DEF RepoInv
<1> QED BY <1>4, <1>5

LEMMA RepoInitial == RepoInit => RepoInv
<1> SUFFICES ASSUME RepoInit PROVE RepoInv
  OBVIOUS
<1>1. IInv
  BY InitIInv DEF RepoInit
<1>2. NoCode \in Stored /\ Idle \in Asking
  BY DEF Stored, Idle, Asking
<1>3. RepoTypeOK /\ CreatorInv
  BY <1>1, <1>2 DEF RepoInit, RepoTypeOK, IInv, CreatorInv
<1>4. \A q \in Request : RequestInv(q) /\ PathInv(q)
  BY DEF RepoInit, Init, RequestInv, PathInv, Waiting, Idle
<1> QED BY <1>1, <1>3, <1>4 DEF RepoInv

LEMMA RepoStep == RepoInv /\ [RepoNext]_allVars => RepoInv'
<1> SUFFICES ASSUME RepoInv, [RepoNext]_allVars PROVE RepoInv'
  OBVIOUS
<1>1. CASE RepoNext
  BY <1>1, ArriveStep, NoItemsStep, WalkOnStep, ReadStep, WriteStep, EditTreeStep DEF RepoNext
<1>2. CASE UNCHANGED allVars
  <2>1. UNCHANGED vars /\ UNCHANGED repoVars
    BY <1>2 DEF allVars, vars
  <2>2. IInv' /\ \A q \in Request : PathInv(q)'
    BY <2>1, NextIInv, PathKept DEF RepoInv
  <2>3. RepoTypeOK' /\ CreatorInv' /\ \A q \in Request : RequestInv(q)'
    BY <2>1, <2>2 DEF RepoInv, RepoTypeOK, IInv, CreatorInv, RequestInv, Waiting, Header, NeedsWalk, repoVars, vars, walkVars
  <2> QED BY <2>2, <2>3 DEF RepoInv
<1> QED BY <1>1, <1>2

\* Records and requests have their types; a walk collects codes.
THEOREM RepoTypeCorrect == RepoSpec => []RepoTypeOK
<1>1. RepoInv => RepoTypeOK
  BY DEF RepoInv
<1> QED BY <1>1, RepoInitial, RepoStep, PTL DEF RepoSpec

-----------------------------------------------------------------------------
(***************************************************************************)
(* What the condition of a request admits, between MustReach and MayReach. *)
(***************************************************************************)
\* The codes of a finished walk are between what stood all along and what was ever seen.
LEMMA CodesBetween ==
    ASSUME RepoInv, NEW q \in Request, ~ Waiting(q), Ready(q), NeedsWalk(request[q].op, Header(q))
    PROVE  /\ scope = "SUBTREE" => /\ ScopeCodes(q) \subseteq Below(everEdge[q], Header(q))
                                   /\ seen[q] # {} => Below(steadyEdge[q], Header(q)) \subseteq ScopeCodes(q)
           /\ scope = "ROOT_PATH" => /\ ScopeCodes(q) \subseteq Above(everEdge[q], Header(q))
                                     /\ Above(SteadyParents(q), Header(q)) \subseteq ScopeCodes(q)
           /\ Header(q) \in ScopeCodes(q)
<1>1. /\ TypeOK /\ WalkInv(q) /\ PathInv(q)
      /\ pc[q] = "done" /\ kind[q] = scope /\ root[q] = Header(q)
  BY DEF RepoInv, IInv, RequestInv, Ready
<1>2. Header(q) \in Code /\ scope \in {"SUBTREE", "ROOT_PATH"} /\ frontier[q] = {}
  BY <1>1, RequestTyped DEF NeedsWalk, Stored, WalkInv, StageInv, Walking
<1>3. CASE seen[q] = {}
  <2>1. ScopeCodes(q) = {Header(q)}
    BY <1>3 DEF ScopeCodes
  <2>2. ASSUME scope = "ROOT_PATH" PROVE Above(SteadyParents(q), Header(q)) \subseteq {Header(q)}
    <3>1. \A e \in SteadyParents(q) : e[1] # Header(q)
      BY <1>1, <1>3, <2>2 DEF PathInv, SteadyParents
    <3>2. ClosedUp(SteadyParents(q), {Header(q)})
      BY <3>1 DEF ClosedUp
    <3>3. {Header(q)} \in SUBSET Code
      BY <1>2
    <3> QED BY <3>2, <3>3, AboveLeast
  <2> QED BY <1>2, <1>3, <2>1, <2>2, BelowRoot, AboveRoot
<1>4. CASE seen[q] # {}
  <2>1. ScopeCodes(q) = seen[q] /\ seen[q] \in SUBSET Code
    BY <1>1, <1>4 DEF ScopeCodes, TypeOK
  <2>2. CASE scope = "SUBTREE"
    <3>1. /\ seen[q] \subseteq Below(everEdge[q], Header(q)) /\ Header(q) \in seen[q]
          /\ ClosedDown(steadyEdge[q], seen[q])
      BY <1>1, <1>2, <1>4, <2>2 DEF WalkInv, SubtreeInv, ClosedDown
    <3>2. Below(steadyEdge[q], Header(q)) \subseteq seen[q]
      BY <2>1, <3>1, BelowLeast
    <3> QED BY <2>1, <2>2, <3>1, <3>2
  <2>3. CASE scope = "ROOT_PATH"
    <3>1. seen[q] \subseteq Above(everEdge[q], Header(q)) /\ Header(q) \in seen[q]
      BY <1>1, <1>4, <2>3 DEF WalkInv, RootPathInv, PathInv
    <3>2. \A c \in seen[q], p \in Code : OnlyParent(q, c, p) => p \in seen[q]
      BY <1>1, <1>2, <2>3 DEF WalkInv, RootPathInv
    <3>3. ClosedUp(SteadyParents(q), seen[q])
      BY <3>2 DEF ClosedUp, SteadyParents
    <3>4. Above(SteadyParents(q), Header(q)) \subseteq seen[q]
      BY <2>1, <3>1, <3>3, AboveLeast
    <3> QED BY <2>1, <2>3, <3>1, <3>4
  <2> QED BY <1>2, <2>2, <2>3
<1> QED BY <1>3, <1>4

\* A condition is one of no filter, the header's code, or the codes of a walk.
LEMMA Conditions ==
    ASSUME RepoInv, NEW q \in Request, request[q].op \notin InsertOps, ~ Unfiltered(q), scope # "NODE"
    PROVE  NeedsWalk(request[q].op, Header(q)) /\ scope \in {"SUBTREE", "ROOT_PATH"}
BY DEF RepoInv, RepoTypeOK, Unfiltered, NeedsWalk

LEMMA AdmitsWithinReach ==
    ASSUME RepoInv, NEW q \in Request, ~ Waiting(q), Ready(q), request[q].op \notin InsertOps,
           NEW code \in Stored, Admits(q, code)
    PROVE  code \in MayReach(q)
<1>1. CASE Unfiltered(q)
  BY <1>1 DEF MayReach
<1>2. CASE ~ Unfiltered(q) /\ scope = "NODE"
  BY <1>2 DEF MayReach, Admits
<1>3. CASE ~ Unfiltered(q) /\ scope # "NODE"
  <2>1. NeedsWalk(request[q].op, Header(q)) /\ scope \in {"SUBTREE", "ROOT_PATH"} /\ code \in ScopeCodes(q)
    BY <1>3, Conditions DEF Admits
  <2> QED BY <1>3, <2>1, CodesBetween DEF MayReach
<1> QED BY <1>1, <1>2, <1>3

LEMMA MustReachAdmitted ==
    ASSUME RepoInv, NEW q \in Request, ~ Waiting(q), Ready(q), request[q].op \notin InsertOps,
           NEW code \in Stored, code \in MustReach(q) \/ (code = Header(q) /\ Header(q) # NoCode)
    PROVE  Admits(q, code)
<1>1. CASE Unfiltered(q)
  BY <1>1 DEF Admits
<1>2. CASE ~ Unfiltered(q) /\ scope = "NODE"
  BY <1>2 DEF MustReach, Admits
<1>3. CASE ~ Unfiltered(q) /\ scope # "NODE"
  <2>1. NeedsWalk(request[q].op, Header(q)) /\ scope \in {"SUBTREE", "ROOT_PATH"}
    BY <1>3, Conditions
  <2>2. code \in ScopeCodes(q)
    BY <1>3, <2>1, CodesBetween DEF MustReach
  <2> QED BY <1>3, <2>2 DEF Admits
<1> QED BY <1>1, <1>2, <1>3

-----------------------------------------------------------------------------
(***************************************************************************)
(* What an operation touches.                                              *)
(***************************************************************************)
\* Only its own operation changes what a request that is under way asks for.
LEMMA OwnStep ==
    ASSUME RepoInv, NEW q \in Request, Acts(q), RepoNext
    PROVE  (Read(q) \/ Write(q)) /\ Ready(q)
<1>1. ~ Waiting(q) /\ (request'[q] # request[q] \/ found'[q] # found[q]) /\ RepoTypeOK
  BY DEF Acts, RepoInv
<1>2. ASSUME NEW p \in Request, Arrive(p) \/ NoItems(p) PROVE FALSE
  BY <1>1, <1>2 DEF Arrive, Issue, NoItems, Waiting, RepoTypeOK
<1>3. ASSUME NEW p \in Request, Read(p) \/ Write(p) PROVE p = q
  <2>1. /\ request' = request \/ \E new : request' = [request EXCEPT ![p] = new]
        /\ \E new : found' = [found EXCEPT ![p] = new]
    BY <1>3 DEF Read, Write, GetById, GetOne, GetMany, Create, ImportItem, Upsert, UpdateById, UpdateByIds,
                DeleteById, DeleteByIds, Answer, ItemDone
  <2> QED BY <1>1, <2>1 DEF RepoTypeOK
<1>4. ~ UNCHANGED repoVars
  BY <1>1 DEF repoVars
<1>5. Read(q) \/ Write(q)
  BY <1>2, <1>3, <1>4 DEF RepoNext, WalkOn, EditTree
<1> QED BY <1>5 DEF Read, Write, GetById, GetOne, GetMany, Create, ImportItem, Upsert, UpdateById, UpdateByIds,
                DeleteById, DeleteByIds, Runs

\* What an operation that creates nothing touches was admitted by its condition.
LEMMA TouchedAdmitted ==
    ASSUME RepoInv, NEW q \in Request, Read(q) \/ Write(q), request[q].op \notin InsertOps, NEW r \in Touched(q)
    PROVE  Admits(q, records[r])
<1>1. r \in RecordId /\ Exists(r) /\ (r \in found'[q] \ found[q] \/ records'[r] # records[r]) /\ RepoTypeOK
  BY DEF Touched, RepoInv
<1>2. /\ \A outcome, ids : Answer(q, outcome, ids) => found'[q] = ids
      /\ \A s, ids : ItemDone(q, s, ids) => found'[q] = found[q] \cup ids
  BY <1>1 DEF Answer, ItemDone, RepoTypeOK
<1>3. \A ids, given : SetOn(ids, given) /\ records'[r] # records[r] => r \in ids
  BY <1>1 DEF SetOn
<1>4. \A ids : Remove(ids) /\ records'[r] # records[r] => r \in ids
  BY <1>1 DEF Remove
<1>5. \A s, code, by : Insert(s, code, by) /\ records'[r] # records[r] => r = s
  BY <1>1 DEF Insert, RepoTypeOK
<1> SUFFICES \E ids : r \in Matching(q, ids)
  BY DEF Matching
<1>6. CASE Read(q)
  <2>1. CASE GetMany(q)
    <3>1. found'[q] = found[q] \/ \E s \in Matching(q, RecordId) : found'[q] = found[q] \cup {s}
      BY <1>1, <1>2, <2>1 DEF GetMany, RepoTypeOK
    <3>2. records' = records
      BY <2>1 DEF GetMany
    <3> QED BY <1>1, <3>1, <3>2
  <2>2. CASE GetById(q) \/ GetOne(q)
    BY <1>1, <1>2, <2>2 DEF GetById, GetOne
  <2> QED BY <1>6, <2>1, <2>2 DEF Read
<1>7. CASE UpdateById(q) \/ DeleteById(q)
  BY <1>1, <1>2, <1>3, <1>4, <1>7 DEF UpdateById, DeleteById
<1>8. CASE UpdateByIds(q) \/ DeleteByIds(q)
  <2>1. PICK s \in request[q].ids :
          /\ SetOn(Matching(q, {s}), request[q].given) \/ Remove(Matching(q, {s}))
          /\ ItemDone(q, s, Matching(q, {s}))
    BY <1>8 DEF UpdateByIds, DeleteByIds
  <2> QED BY <1>1, <1>2, <1>3, <1>4, <2>1
<1>9. CASE Upsert(q)
  <2> DEFINE ids == IF request[q].ids = {} THEN RecordId ELSE request[q].ids
  <2>1. PICK given \in Stored :
          \/ \E s \in Matching(q, ids) : SetOn({s}, given) /\ Answer(q, "ok", {s})
          \/ \E s \in {t \in ids : ~ Exists(t)}, code \in UpsertCodes(q, given) :
                Insert(s, code, NoCode) /\ Answer(q, "ok", {s})
          \/ Answer(q, "conflict", {}) /\ UNCHANGED <<records, creator>>
    BY <1>9 DEF Upsert
  <2> HIDE DEF ids
  <2>2. CASE \E s \in Matching(q, ids) : SetOn({s}, given) /\ Answer(q, "ok", {s})
    <3>1. PICK s \in Matching(q, ids) : SetOn({s}, given) /\ Answer(q, "ok", {s})
      BY <2>2
    <3>2. r = s
      BY <1>1, <1>2, <1>3, <3>1
    <3> QED BY <3>1, <3>2
  <2>3. CASE \E s \in {t \in ids : ~ Exists(t)}, code \in UpsertCodes(q, given) :
                Insert(s, code, NoCode) /\ Answer(q, "ok", {s})
    <3>1. PICK s \in {t \in ids : ~ Exists(t)}, code \in UpsertCodes(q, given) :
                Insert(s, code, NoCode) /\ Answer(q, "ok", {s})
      BY <2>3
    <3>2. r = s
      BY <1>1, <1>2, <1>5, <3>1
    <3> QED BY <1>1, <3>1, <3>2
  <2>4. CASE Answer(q, "conflict", {}) /\ UNCHANGED <<records, creator>>
    BY <1>1, <1>2, <2>4
  <2> QED BY <2>1, <2>2, <2>3, <2>4
<1>10. ~ Create(q) /\ ~ ImportItem(q)
  BY DEF Create, ImportItem, Runs, InsertOps
<1> QED BY <1>6, <1>7, <1>8, <1>9, <1>10 DEF Write

\* An operation by id finds all it was asked for that its condition admits.
LEMMA AdmittedFound ==
    ASSUME RepoInv, NEW q \in Request, Read(q) \/ Write(q), request[q].op \in OneIdOps \cup ManyIdsOps,
           NEW r \in Handled(q), Exists(r), Admits(q, records[r])
    PROVE  r \in found'[q]
<1>1. /\ \A outcome, ids : Answer(q, outcome, ids) => found'[q] = ids
      /\ \A s, ids : ItemDone(q, s, ids) =>
           found'[q] = found[q] \cup ids /\ (request[q].ids = {s} \/ request'[q].ids = request[q].ids \ {s})
  BY DEF Answer, ItemDone, RepoInv, RepoTypeOK, Asking
<1>2. r \in request[q].ids /\ r \notin request'[q].ids
  BY DEF Handled
<1>3. GetById(q) \/ UpdateById(q) \/ UpdateByIds(q) \/ DeleteById(q) \/ DeleteByIds(q)
  BY DEF Read, Write, GetOne, GetMany, Create, ImportItem, Upsert, Runs, OneIdOps, ManyIdsOps
<1>4. CASE GetById(q) \/ UpdateById(q) \/ DeleteById(q)
  <2>1. found'[q] = Matching(q, request[q].ids)
    BY <1>1, <1>4 DEF GetById, UpdateById, DeleteById
  <2> QED BY <1>2, <2>1 DEF Matching
<1>5. CASE UpdateByIds(q) \/ DeleteByIds(q)
  <2>1. PICK s \in request[q].ids : ItemDone(q, s, Matching(q, {s}))
    BY <1>5 DEF UpdateByIds, DeleteByIds
  <2>2. r = s
    BY <1>1, <1>2, <2>1
  <2>3. r \in Matching(q, {s})
    BY <2>2 DEF Matching
  <2> QED BY <1>1, <2>1, <2>3
<1> QED BY <1>3, <1>4, <1>5

\* For every tree, every collection and every overlap of requests: no operation touches a
\* record outside the partitions that its header reached at some time of its walk.
THEOREM ScopeIsSound == RepoSpec => ScopeSound
<1>1. RepoInv /\ [RepoNext]_allVars =>
        [\A q \in Request : Acts(q) /\ request[q].op \notin InsertOps =>
            \A r \in Touched(q) : records[r] \in MayReach(q)]_allVars
  <2> SUFFICES ASSUME RepoInv, RepoNext, NEW q \in Request, Acts(q), request[q].op \notin InsertOps, NEW r \in Touched(q)
               PROVE  records[r] \in MayReach(q)
    OBVIOUS
  <2>1. (Read(q) \/ Write(q)) /\ Ready(q) /\ ~ Waiting(q)
    BY OwnStep DEF Acts
  <2>2. Admits(q, records[r])
    BY <2>1, TouchedAdmitted
  <2>3. records[r] \in Stored
    BY DEF Touched, Exists, RepoInv, RepoTypeOK
  <2> QED BY <2>1, <2>2, <2>3, AdmitsWithinReach
<1> QED BY <1>1, RepoInitial, RepoStep, PTL DEF RepoSpec, ScopeSound

\* An operation by id misses no record whose partition its header reached all along, under
\* SUBTREE by a chain of edges, under ROOT_PATH by a chain of parents that were each the only
\* one, while tree and records changed as they liked.
THEOREM ScopeIsComplete == RepoSpec => ScopeComplete
<1>1. RepoInv /\ [RepoNext]_allVars =>
        [\A q \in Request : Acts(q) /\ request[q].op \in OneIdOps \cup ManyIdsOps =>
            \A r \in Handled(q) : (Exists(r) /\ records[r] \in MustReach(q)) => r \in found'[q]]_allVars
  <2> SUFFICES ASSUME RepoInv, RepoNext, NEW q \in Request, Acts(q), request[q].op \in OneIdOps \cup ManyIdsOps,
                      NEW r \in Handled(q), Exists(r), records[r] \in MustReach(q)
               PROVE  r \in found'[q]
    OBVIOUS
  <2>1. (Read(q) \/ Write(q)) /\ Ready(q) /\ ~ Waiting(q)
    BY OwnStep DEF Acts
  <2>2. records[r] \in Stored /\ request[q].op \notin InsertOps
    BY RequestTyped DEF Handled, Exists, RepoInv, RepoTypeOK, OneIdOps, ManyIdsOps, InsertOps, Stored
  <2> QED BY <2>1, <2>2, MustReachAdmitted, AdmittedFound
<1> QED BY <1>1, RepoInitial, RepoStep, PTL DEF RepoSpec, ScopeComplete

\* Who created a record finds it by id through every scope until it is moved or removed.
THEOREM CreatorAlwaysReaches == RepoSpec => CreatorReaches
<1>1. RepoInv /\ [RepoNext]_allVars =>
        [\A q \in Request :
            (Acts(q) /\ request[q].op \in OneIdOps \cup ManyIdsOps /\ Header(q) # NoCode) =>
               \A r \in Handled(q) : (Exists(r) /\ creator[r] = Header(q)) => r \in found'[q]]_allVars
  <2> SUFFICES ASSUME RepoInv, RepoNext, NEW q \in Request, Acts(q), request[q].op \in OneIdOps \cup ManyIdsOps,
                      Header(q) # NoCode, NEW r \in Handled(q), Exists(r), creator[r] = Header(q)
               PROVE  r \in found'[q]
    OBVIOUS
  <2>1. (Read(q) \/ Write(q)) /\ Ready(q) /\ ~ Waiting(q)
    BY OwnStep DEF Acts
  <2>2. records[r] = Header(q) /\ records[r] \in Stored /\ request[q].op \notin InsertOps
    BY RequestTyped DEF Handled, Exists, RepoInv, RepoTypeOK, CreatorInv, OneIdOps, ManyIdsOps, InsertOps
  <2> QED BY <2>1, <2>2, MustReachAdmitted, AdmittedFound
<1> QED BY <1>1, RepoInitial, RepoStep, PTL DEF RepoSpec, CreatorReaches
-----------------------------------------------------------------------------
(***************************************************************************)
(* The repository implements ScopedStore.                                  *)
(***************************************************************************)
\* A route passes on ids exactly with an operation by id or an insert, a create one.
AskedInv(q) ==
    /\ request[q].op \in {"getOne", "getMany"} => request[q].ids = {}
    /\ request[q].op \in OneIdOps \cup ManyIdsOps \cup InsertOps => request[q].ids # {}
    /\ request[q].op = "create" => found[q] = {} /\ \A r, s \in request[q].ids : r = s

\* A walk under way has found its root; what stood all along was seen.
HeldInv(q) ==
    /\ Walking(q) => seen[q] # {}
    /\ steadyEdge[q] \subseteq everEdge[q]

StoreInv == RepoInv /\ \A q \in Request : AskedInv(q) /\ HeldInv(q)

\* No step of the tree's module disturbs HeldInv.
LEMMA HeldKept ==
    ASSUME IInv, NEW q \in Walker, HeldInv(q), [Next]_vars
    PROVE  HeldInv(q)'
<1>1. TypeOK /\ StageInv(q)
  BY DEF IInv, WalkInv
<1>2. ASSUME NEW w \in Walker, NEW code \in Code, StartSubtree(w, code) \/ StartRootPath(w, code)
      PROVE  HeldInv(q)'
  <2>1. CASE w # q
    <3>1. everEdge'[q] = everEdge[q] /\ steadyEdge'[q] = steadyEdge[q]
      BY <1>1, <1>2, <2>1 DEF TypeOK, StartSubtree, StartRootPath, Begin
    <3>2. pc'[q] = pc[q] /\ seen'[q] = seen[q]
      BY <1>1, <1>2, <2>1 DEF TypeOK, StartSubtree, StartRootPath, ClimbTo
    <3> QED BY <3>1, <3>2 DEF HeldInv, Walking
  <2>2. CASE w = q
    <3>1. everEdge'[q] = steadyEdge'[q]
      BY <1>1, <1>2, <2>2 DEF TypeOK, StartSubtree, StartRootPath, Begin
    <3>2. StartSubtree(q, code) => pc'[q] = "done" \/ code \in seen'[q]
      BY <1>1 DEF TypeOK, StartSubtree
    <3>3. StartRootPath(q, code) => pc'[q] = "done" \/ \E p : p.ma \in seen'[q]
      BY <1>1 DEF TypeOK, StartRootPath, ClimbTo
    <3> QED BY <1>2, <2>2, <3>1, <3>2, <3>3 DEF HeldInv, Walking
  <2> QED BY <2>1, <2>2
<1>3. ASSUME NEW w \in Walker, ExpandLevel(w) \/ ClimbParent(w) PROVE HeldInv(q)'
  <2>1. everEdge' = everEdge /\ steadyEdge' = steadyEdge /\ Walking(w)
    BY <1>3 DEF ExpandLevel, ClimbParent, Walking
  <2>2. CASE w # q
    <3>1. pc'[q] = pc[q] /\ seen'[q] = seen[q]
      BY <1>1, <1>3, <2>2 DEF TypeOK, ExpandLevel, ClimbParent, ClimbTo
    <3> QED BY <2>1, <3>1 DEF HeldInv, Walking
  <2>3. CASE w = q
    <3>1. seen[q] \subseteq seen'[q]
      BY <1>1, <1>3, <2>3 DEF TypeOK, ExpandLevel, ClimbParent, ClimbTo
    <3> QED BY <2>1, <2>3, <3>1 DEF HeldInv
  <2> QED BY <2>2, <2>3
<1>4. ASSUME NEW tree, Edit(tree) PROVE HeldInv(q)'
  <2>1. /\ everEdge'[q] = IF Walking(q) THEN everEdge[q] \cup EdgesOf(tree) ELSE everEdge[q]
        /\ steadyEdge'[q] = IF Walking(q) THEN steadyEdge[q] \cap EdgesOf(tree) ELSE steadyEdge[q]
        /\ UNCHANGED <<pc, seen>>
    BY <1>4 DEF Edit
  <2> QED BY <2>1 DEF HeldInv, Walking
<1>5. CASE UNCHANGED vars
  BY <1>5 DEF HeldInv, Walking, vars, treeVars, walkVars
<1> QED
  BY <1>2, <1>3, <1>4, <1>5 DEF Next, CreatePartition, UpdatePartition, DeletePartition

\* A read or a write answers its request, or the request proceeds, which a create never does.
LEMMA Answered ==
    ASSUME RepoInv, NEW q \in Request, Read(q) \/ Write(q)
    PROVE  \/ \E outcome, ids : Answer(q, outcome, ids)
           \/ Proceeds(q) /\ request[q].op # "create"
<1>1. CASE GetMany(q)
  <2>1. Answer(q, "ok", found[q]) \/ Proceeds(q)
    BY <1>1, FetchIsStep DEF GetMany
  <2> QED BY <1>1, <2>1 DEF GetMany, Runs
<1>2. CASE UpdateByIds(q) \/ DeleteByIds(q) \/ ImportItem(q)
  <2>1. CASE UpdateByIds(q) \/ DeleteByIds(q)
    <3>1. PICK r \in request[q].ids : ItemDone(q, r, Matching(q, {r}))
      BY <2>1 DEF UpdateByIds, DeleteByIds
    <3>2. Matching(q, {r}) \in SUBSET RecordId
      BY RequestTyped DEF Matching
    <3> QED BY <2>1, <3>1, <3>2, ItemIsStep DEF UpdateByIds, DeleteByIds, Runs, ManyIdsOps
  <2>2. CASE ImportItem(q)
    <3>1. Answer(q, "conflict", found[q]) \/ \E r \in request[q].ids : ItemDone(q, r, {r})
      BY <2>2 DEF ImportItem
    <3>2. \A r \in request[q].ids : {r} \in SUBSET RecordId
      BY RequestTyped
    <3> QED BY <2>2, <3>1, <3>2, ItemIsStep DEF ImportItem, Runs
  <2> QED BY <1>2, <2>1, <2>2
<1>3. CASE ~ (GetMany(q) \/ UpdateByIds(q) \/ DeleteByIds(q) \/ ImportItem(q))
  BY <1>3 DEF Read, Write, GetById, GetOne, Create, Upsert, UpdateById, DeleteById
<1> QED BY <1>1, <1>2, <1>3

\* The steps that leave the walks to the module of the tree.
LEMMA TreeSteps ==
    ASSUME NEW q \in Request, Arrive(q) \/ NoItems(q) \/ WalkOn(q) \/ Proceeds(q) \/ EditTree
    PROVE  [Next]_vars
<1>1. CASE Arrive(q)
  <2>1. PICK op \in Op, header \in Stored :
        \E ids \in IdsOf(op), given \in GivenOf(op) : Issue(q, op, header, ids, given)
    BY <1>1 DEF Arrive
  <2>2. PICK ids \in IdsOf(op), given \in GivenOf(op) : Issue(q, op, header, ids, given)
    BY <2>1
  <2>3. NeedsWalk(op, header) => header \in Code
    BY DEF NeedsWalk, Stored
  <2> QED BY <2>2, <2>3 DEF Issue, Next, vars
<1>2. CASE WalkOn(q)
  BY <1>2 DEF WalkOn, Next
<1>3. CASE Proceeds(q) \/ NoItems(q)
  BY <1>3 DEF Proceeds, NoItems, vars
<1>4. CASE EditTree
  BY <1>4 DEF EditTree, Next
<1> QED BY <1>1, <1>2, <1>3, <1>4

\* What request p asks for and what it holds stays when another one takes a step.
SameFor(p) ==
    /\ request'[p] = request[p] /\ found'[p] = found[p]
    /\ pc'[p] = pc[p] /\ seen'[p] = seen[p]
    /\ everEdge'[p] = everEdge[p] /\ steadyEdge'[p] = steadyEdge[p]

LEMMA OthersSame ==
    ASSUME RepoInv, NEW q \in Request, NEW p \in Request \ {q},
           (\E outcome, ids : Answer(q, outcome, ids)) \/ Arrive(q) \/ NoItems(q) \/ Proceeds(q)
    PROVE  SameFor(p)
<1>1. TypeOK /\ RepoTypeOK
  BY DEF RepoInv, IInv
<1>2. ASSUME NEW outcome, NEW ids, Answer(q, outcome, ids) PROVE SameFor(p)
  BY <1>1, <1>2 DEF Answer, SameFor, TypeOK, RepoTypeOK
<1>3. CASE Proceeds(q) \/ NoItems(q)
  BY <1>1, <1>3 DEF Proceeds, NoItems, SameFor, RepoTypeOK, walkVars
<1>4. ASSUME NEW op, NEW header, NEW ids, NEW given, Issue(q, op, header, ids, given) PROVE SameFor(p)
  <2>1. request'[p] = request[p] /\ found'[p] = found[p]
    BY <1>1, <1>4 DEF Issue, RepoTypeOK
  <2>2. \/ UNCHANGED walkVars
        \/ StartSubtree(q, header) \/ StartRootPath(q, header)
    BY <1>4 DEF Issue
  <2>3. everEdge'[p] = everEdge[p] /\ steadyEdge'[p] = steadyEdge[p]
    BY <1>1, <2>2 DEF StartSubtree, StartRootPath, Begin, TypeOK, walkVars
  <2>4. pc'[p] = pc[p] /\ seen'[p] = seen[p]
    BY <1>1, <2>2 DEF StartSubtree, StartRootPath, ClimbTo, TypeOK, walkVars
  <2> QED BY <2>1, <2>3, <2>4 DEF SameFor
<1> QED BY <1>2, <1>3, <1>4 DEF Arrive

\* What a request that arrives asks for.
LEMMA ArrivedAsks == ASSUME RepoInv, NEW q \in Request, Arrive(q) PROVE AskedInv(q)'
<1>1. PICK op \in Op, header \in Stored :
        \E ids \in IdsOf(op), given \in GivenOf(op) : Issue(q, op, header, ids, given)
  BY DEF Arrive
<1>2. PICK ids \in IdsOf(op), given \in GivenOf(op) : Issue(q, op, header, ids, given)
  BY <1>1
<1>3. request'[q] = [op |-> op, header |-> header, ids |-> ids, given |-> given] /\ found'[q] = {}
  BY <1>2 DEF Issue, RepoInv, RepoTypeOK
<1>4. /\ op \in {"getOne", "getMany"} => ids \in {{}}
      /\ op \in OneIdOps \cup {"create"} => ids \in {{r} : r \in RecordId}
      /\ op \in ManyIdsOps \cup {"importInsert"} => ids \in (SUBSET RecordId) \ {{}}
  BY DEF IdsOf, OneIdOps, ManyIdsOps, ItemOps
<1>5. op = "create" => \A r, s \in ids : r = s
  BY <1>4
<1>6. op \in OneIdOps \cup ManyIdsOps \cup InsertOps => ids # {}
  <2>1. op \in OneIdOps \cup {"create"} => \E r : ids = {r}
    BY <1>4
  <2>2. op \in ManyIdsOps \cup {"importInsert"} => ids # {}
    BY <1>4
  <2> QED BY <2>1, <2>2 DEF InsertOps
<1> QED BY <1>3, <1>4, <1>5, <1>6 DEF AskedInv

LEMMA StoreInitial == RepoInit => StoreInv
<1> SUFFICES ASSUME RepoInit PROVE StoreInv
  OBVIOUS
<1>1. \A q \in Request : request[q].op = "none" /\ pc[q] = "idle" /\ steadyEdge[q] = {}
  BY DEF RepoInit, Init, Idle
<1> QED BY <1>1, RepoInitial DEF StoreInv, AskedInv, HeldInv, Walking, OneIdOps, ManyIdsOps, InsertOps

LEMMA StoreStep == StoreInv /\ [RepoNext]_allVars => StoreInv'
<1> SUFFICES ASSUME StoreInv, [RepoNext]_allVars PROVE StoreInv'
  OBVIOUS
<1>1. RepoInv /\ RepoInv' /\ IInv /\ RepoTypeOK /\ TypeOK
  BY RepoStep DEF StoreInv, RepoInv, IInv
<1>2. ASSUME NEW q \in Request, NEW p \in Request \ {q}, SameFor(p) PROVE AskedInv(p)' /\ HeldInv(p)'
  BY <1>2 DEF StoreInv, SameFor, AskedInv, HeldInv, Walking
<1>3. ASSUME NEW q \in Request, Arrive(q) PROVE StoreInv'
  <2>1. HeldInv(q)'
    BY <1>1, <1>3, TreeSteps, HeldKept DEF StoreInv
  <2> QED BY <1>1, <1>2, <1>3, <2>1, ArrivedAsks, OthersSame DEF StoreInv
<1>4. ASSUME NEW q \in Request, NEW outcome, NEW ids, Answer(q, outcome, ids) PROVE StoreInv'
  <2>1. request'[q].op = "none" /\ pc'[q] = "idle" /\ steadyEdge'[q] = {}
    BY <1>1, <1>4 DEF Answer, Idle, TypeOK, RepoTypeOK
  <2>2. AskedInv(q)' /\ HeldInv(q)'
    BY <2>1 DEF AskedInv, HeldInv, Walking, OneIdOps, ManyIdsOps, InsertOps
  <2> QED BY <1>1, <1>2, <1>4, <2>2, OthersSame DEF StoreInv
<1>5. ASSUME NEW q \in Request, request[q].op # "create", Proceeds(q) PROVE StoreInv'
  <2>1. HeldInv(q)'
    BY <1>1, <1>5, TreeSteps, HeldKept DEF StoreInv
  <2>2. PICK ids \in SUBSET RecordId : /\ ids \subseteq request[q].ids /\ (request[q].ids # {} => ids # {})
                                      /\ request' = [request EXCEPT ![q].ids = ids]
    BY <1>5 DEF Proceeds
  <2>3. request'[q].op = request[q].op /\ request'[q].ids = ids
    BY <1>1, <2>2 DEF RepoTypeOK, Asking
  <2>4. AskedInv(q)'
    BY <1>5, <2>2, <2>3 DEF StoreInv, AskedInv
  <2> QED BY <1>1, <1>2, <1>5, <2>1, <2>4, OthersSame DEF StoreInv
<1>6. ASSUME NEW q \in Request, NoItems(q) PROVE StoreInv'
  <2>1. HeldInv(q)'
    BY <1>1, <1>6, TreeSteps, HeldKept DEF StoreInv
  <2>2. request' = request /\ request[q].op = "none"
    BY <1>6 DEF NoItems, Waiting
  <2>3. AskedInv(q)'
    BY <2>2 DEF StoreInv, AskedInv, OneIdOps, ManyIdsOps, InsertOps
  <2> QED BY <1>1, <1>2, <1>6, <2>1, <2>3, OthersSame DEF StoreInv
<1>7. CASE (\E q \in Request : WalkOn(q)) \/ EditTree \/ UNCHANGED allVars
  <2>1. UNCHANGED <<request, found>> /\ [Next]_vars
    BY <1>7 DEF WalkOn, EditTree, allVars, repoVars, Next, vars
  <2> QED BY <1>1, <2>1, HeldKept DEF StoreInv, AskedInv
<1>8. ASSUME NEW q \in Request, Read(q) \/ Write(q) PROVE StoreInv'
  BY <1>1, <1>4, <1>5, <1>8, Answered
<1> QED BY <1>3, <1>7, <1>6, <1>8 DEF RepoNext

\* What a request may and must reach: at least its header's partition.
ReachInv ==
    \A q \in Request : /\ Store!Bounded(Header(q), MustReach(q), MayReach(q))
                      /\ MayReach(q) \in SUBSET Stored /\ MustReach(q) \in SUBSET Stored

LEMMA ReachBounded == StoreInv => ReachInv
<1> SUFFICES ASSUME StoreInv, NEW q \in Request
             PROVE  /\ Store!Bounded(Header(q), MustReach(q), MayReach(q))
                    /\ MayReach(q) \in SUBSET Stored /\ MustReach(q) \in SUBSET Stored
  BY DEF ReachInv
<1>1. /\ Header(q) \in Stored /\ scope \in {"NODE", "SUBTREE", "ROOT_PATH", "GLOBAL"}
      /\ steadyEdge[q] \subseteq everEdge[q]
  BY RequestTyped DEF StoreInv, RepoInv, RepoTypeOK, HeldInv
<1>2. CASE Unfiltered(q)
  BY <1>1, <1>2 DEF MayReach, MustReach, Store!Bounded, Store!Stored, Stored, Unfiltered
<1>3. CASE ~ Unfiltered(q)
  <2>1. Header(q) \in Code /\ Header(q) # NoCode /\ scope # "GLOBAL"
    BY <1>1, <1>3 DEF Unfiltered, Stored
  <2>2. MayReach(q) \subseteq Stored /\ MustReach(q) \subseteq MayReach(q) /\ Header(q) \in MustReach(q)
    <3>1. CASE scope = "NODE"
      BY <1>3, <2>1, <3>1 DEF MayReach, MustReach, Stored
    <3>2. CASE scope = "SUBTREE"
      <4>1. /\ Header(q) \in Below(everEdge[q], Header(q)) /\ Header(q) \in Below(steadyEdge[q], Header(q))
            /\ Below(steadyEdge[q], Header(q)) \subseteq Below(everEdge[q], Header(q))
        BY <1>1, <2>1, BelowRoot, BelowMonotone
      <4>2. Below(everEdge[q], Header(q)) \subseteq Stored
        BY DEF Below, Stored
      <4> QED BY <1>3, <3>2, <4>1, <4>2 DEF MayReach, MustReach
    <3>3. CASE scope = "ROOT_PATH"
      <4>1. /\ Header(q) \in Above(everEdge[q], Header(q)) /\ Header(q) \in Above(SteadyParents(q), Header(q))
            /\ Above(SteadyParents(q), Header(q)) \subseteq Above(everEdge[q], Header(q))
        <5>1. SteadyParents(q) \subseteq everEdge[q]
          BY <1>1 DEF SteadyParents
        <5> QED BY <2>1, <5>1, AboveRoot, AboveMonotone
      <4>2. Above(everEdge[q], Header(q)) \subseteq Stored
        BY DEF Above, Stored
      <4> QED BY <1>3, <3>3, <4>1, <4>2 DEF MayReach, MustReach
    <3> QED BY <1>1, <2>1, <3>1, <3>2, <3>3
  <2>3. scope = "NODE" => MayReach(q) = {Header(q)}
    BY <1>3 DEF MayReach
  <2> QED BY <2>1, <2>2, <2>3 DEF Store!Bounded
<1> QED BY <1>2, <1>3

\* The reach of a request hangs on its header and on what its walk has seen.
LEMMA ReachKept ==
    ASSUME NEW p \in Request, scope' = scope, request'[p].header = request[p].header,
           everEdge'[p] = everEdge[p], steadyEdge'[p] = steadyEdge[p], seen'[p] = {} <=> seen[p] = {}
    PROVE  MayReach(p)' = MayReach(p) /\ MustReach(p)' = MustReach(p)
<1>1. SteadyParents(p)' = SteadyParents(p)
  BY DEF SteadyParents, OnlyParent
<1>2. /\ Above(SteadyParents(p), Header(p))' = Above(SteadyParents(p), Header(p))
      /\ Below(steadyEdge[p], Header(p))' = Below(steadyEdge[p], Header(p))
      /\ Below(everEdge[p], Header(p))' = Below(everEdge[p], Header(p))
      /\ Above(everEdge[p], Header(p))' = Above(everEdge[p], Header(p))
  BY <1>1 DEF Above, Below, ClosedUp, ClosedDown, Header
<1>3. Unfiltered(p)' = Unfiltered(p) /\ Header(p)' = Header(p)
  BY DEF Unfiltered, Header
<1> QED BY <1>2, <1>3 DEF MayReach, MustReach

\* The bounds of request q are new, those of the others stay.
LEMMA ResetStep ==
    ASSUME StoreInv, StoreInv', NEW q \in Request, scope' = scope, \A p \in Request \ {q} : SameFor(p)
    PROVE  Store!Reset(q, request'[q].header)
<1> DEFINE mayMap == [p \in Request |-> MayReach(p)]
           mustMap == [p \in Request |-> MustReach(p)]
<1>0. ReachInv'
  BY ReachBounded, PTL
<1>1. \A p \in Request : /\ Store!Bounded(Header(p), MustReach(p), MayReach(p))'
                         /\ MayReach(p)' \in SUBSET Stored /\ MustReach(p)' \in SUBSET Stored
  BY <1>0 DEF ReachInv
<1>2. \A p \in Request \ {q} : MayReach(p)' = MayReach(p) /\ MustReach(p)' = MustReach(p)
  BY ReachKept DEF SameFor
<1>3. Store!Bounded(request'[q].header, MustReach(q)', MayReach(q)')
  BY <1>1 DEF Store!Bounded, Header
<1>4. Store!Bounds
  BY <1>1 DEF Store!Bounds, Store!Stored, Stored
<1> QED BY <1>2, <1>3, <1>4 DEF Store!Reset

\* An answer is the end of the request in the store.
LEMMA EndStep ==
    ASSUME StoreInv, StoreInv', NEW q \in Request, NEW outcome, NEW ids, Answer(q, outcome, ids)
    PROVE  Store!End(q) /\ Store!Return(q, outcome, ids)
<1>1. /\ request' = [request EXCEPT ![q] = Store!None]
      /\ found' = [found EXCEPT ![q] = ids] /\ status' = [status EXCEPT ![q] = outcome]
      /\ scope' = scope
  BY DEF Answer, Idle, Store!None
<1>2. request'[q].header = NoCode
  BY <1>1 DEF StoreInv, RepoInv, RepoTypeOK, Store!None
<1>3. \A p \in Request \ {q} : SameFor(p)
  BY OthersSame DEF StoreInv
<1>4. Store!Reset(q, NoCode)
  BY <1>1, <1>2, <1>3, ResetStep
<1> QED BY <1>1, <1>4 DEF Store!End, Store!Return

\* The codes that the condition of a request admits are its reach.
Admitted(q) == {c \in Stored : Admits(q, c)}

LEMMA AdmittedReached ==
    ASSUME StoreInv, NEW q \in Request, ~ Waiting(q), Ready(q), request[q].op \notin InsertOps
    PROVE  /\ Admitted(q) \in Store!Reaches(q)
           /\ \A ids \in SUBSET RecordId : Matching(q, ids) = {r \in ids : records[r] \in Admitted(q)}
<1>1. RepoInv /\ MayReach(q) \in SUBSET Stored /\ MustReach(q) \in SUBSET Stored
  BY ReachBounded DEF StoreInv, ReachInv
<1>2. Admitted(q) \subseteq MayReach(q)
  BY <1>1, AdmitsWithinReach DEF Admitted
<1>3. MustReach(q) \subseteq Admitted(q)
  BY <1>1, MustReachAdmitted DEF Admitted
<1>4. Admitted(q) \in Store!Reaches(q)
  BY <1>2, <1>3 DEF Store!Reaches
<1>5. \A r \in RecordId : Exists(r) <=> records[r] \in Stored
  BY <1>1, NoRecordAssumption DEF RepoInv, RepoTypeOK, Exists, Stored
<1>6. \A ids \in SUBSET RecordId : Matching(q, ids) = {r \in ids : records[r] \in Admitted(q)}
  BY <1>5 DEF Matching, Admitted
<1> QED BY <1>4, <1>6

\* Only an operation that is under way and ready runs.
LEMMA RunsReady ==
    ASSUME NEW q \in Request, NEW op \in Op, Runs(q, op)
    PROVE  ~ Waiting(q) /\ Ready(q) /\ request[q].op = op
BY DEF Runs, Waiting, Op, ReadOps, OneIdOps, ManyIdsOps, InsertOps

\* An operation that takes its pick of what it hits, and answers so, operates.
LEMMA OperateBy ==
    ASSUME StoreInv, StoreInv', NEW q \in Request,
           NEW op \in {"getById", "getOne", "updateById", "deleteById", "upsert"}, Runs(q, op),
           NEW ids \in Store!Picks(op, Store!Hits(q, Admitted(q))),
           records' \in Store!Effects(op, ids, Stored),
           Answer(q, IF ids = {} /\ op # "getOne" THEN "notFound" ELSE "ok", ids)
    PROVE  Store!Operate(q)
<1>1. request[q].op = op /\ Admitted(q) \in Store!Reaches(q)
  <2>1. op \in Op \ InsertOps
    BY DEF Op, ReadOps, OneIdOps, ManyIdsOps, InsertOps
  <2> QED BY <2>1, RunsReady, AdmittedReached
<1> DEFINE outcome == IF ids = {} /\ op # "getOne" THEN "notFound" ELSE "ok"
<1>2. Store!End(q) /\ Store!Return(q, outcome, ids)
  BY EndStep
<1>3. Stored = Store!Stored
  BY DEF Stored, Store!Stored
<1> QED BY <1>1, <1>2, <1>3 DEF Store!Operate

\* An item of a request and its end, or the items that are left, as the store has it.
LEMMA ItemBy ==
    ASSUME StoreInv, StoreInv', NEW q \in Request, NEW r \in request[q].ids, NEW ids \in SUBSET RecordId, ItemDone(q, r, ids)
    PROVE  Store!Item(q, r, ids)
<1>1. CASE request[q].ids = {r}
  <2>1. Answer(q, "ok", found[q] \cup ids)
    BY <1>1 DEF ItemDone
  <2>2. Store!End(q) /\ Store!Return(q, "ok", found[q] \cup ids)
    BY <2>1, EndStep
  <2> QED BY <1>1, <2>2 DEF Store!Item
<1>2. CASE request[q].ids # {r}
  <2>1. /\ request' = [request EXCEPT ![q].ids = @ \ {r}] /\ found' = [found EXCEPT ![q] = @ \cup ids]
        /\ UNCHANGED <<status, scope, treeVars, walkVars>>
    BY <1>2 DEF ItemDone
  <2>2. \A p \in Request : request'[p].header = request[p].header
    BY <2>1 DEF StoreInv, RepoInv, RepoTypeOK, Asking
  <2>3. \A p \in Request : MayReach(p)' = MayReach(p) /\ MustReach(p)' = MustReach(p)
    BY <2>1, <2>2, ReachKept DEF walkVars
  <2>4. /\ [p \in Request |-> MayReach(p)]' = [p \in Request |-> MayReach(p)]
        /\ [p \in Request |-> MustReach(p)]' = [p \in Request |-> MustReach(p)]
    BY <2>3
  <2> QED BY <1>2, <2>1, <2>4 DEF Store!Item
<1> QED BY <1>1, <1>2

\* What a request by id hits, and what one without ids hits.
LEMMA HitsMatch ==
    ASSUME StoreInv, NEW q \in Request, NEW op \in Op \ InsertOps, Runs(q, op)
    PROVE  /\ request[q].ids # {} => Store!Hits(q, Admitted(q)) = Matching(q, request[q].ids)
           /\ request[q].ids = {} => Store!Hits(q, Admitted(q)) = Matching(q, RecordId)
           /\ op \in OneIdOps \cup ManyIdsOps => request[q].ids # {}
           /\ op \in {"getOne", "getMany"} => request[q].ids = {}
<1>1. request[q].op = op /\ request[q].ids \in SUBSET RecordId
  BY RunsReady, RequestTyped DEF StoreInv
<1>2. \A ids \in SUBSET RecordId : Matching(q, ids) = {r \in ids : records[r] \in Admitted(q)}
  BY <1>1, RunsReady, AdmittedReached
<1>3. /\ op \in OneIdOps \cup ManyIdsOps => request[q].ids # {}
      /\ op \in {"getOne", "getMany"} => request[q].ids = {}
  BY <1>1 DEF StoreInv, AskedInv
<1> QED BY <1>1, <1>2, <1>3 DEF Store!Hits, Store!Asked

LEMMA ReadImplements ==
    ASSUME StoreInv, StoreInv', NEW q \in Request, Read(q)
    PROVE  Store!Operate(q) \/ Store!List(q)
<1> DEFINE hits == Store!Hits(q, Admitted(q))
<1>1. {"getById", "getOne", "getMany"} \subseteq Op \ InsertOps /\ "getById" \in OneIdOps
  BY DEF Op, ReadOps, InsertOps, OneIdOps
<1>2. \A ids : \A op \in {"getById", "getOne"} : records' = records => records' \in Store!Effects(op, ids, Stored)
  BY DEF Store!Effects
<1>3. CASE GetById(q)
  <2>1. Runs(q, "getById") /\ hits = Matching(q, request[q].ids) /\ records' = records
    BY <1>1, <1>3, HitsMatch DEF GetById
  <2>2. Answer(q, IF hits = {} THEN "notFound" ELSE "ok", hits)
    BY <1>3, <2>1 DEF GetById
  <2>3. hits \in Store!Picks("getById", hits)
    BY DEF Store!Picks
  <2> QED BY <1>1, <1>2, <2>1, <2>2, <2>3, OperateBy
<1>4. CASE GetOne(q)
  <2>1. Runs(q, "getOne") /\ hits = Matching(q, RecordId) /\ records' = records
    BY <1>1, <1>4, HitsMatch DEF GetOne
  <2>2. PICK ids : Answer(q, "ok", ids) /\ (ids = {} \/ \E r \in hits : ids = {r})
    BY <1>4, <2>1 DEF GetOne
  <2>3. ids \in Store!Picks("getOne", hits)
    BY <2>2 DEF Store!Picks
  <2> QED BY <1>1, <1>2, <2>1, <2>2, <2>3, OperateBy
<1>5. CASE GetMany(q)
  <2>1. Runs(q, "getMany") /\ request[q].op = "getMany" /\ hits = Matching(q, RecordId) /\ records' = records
    BY <1>1, <1>5, HitsMatch DEF GetMany, Runs
  <2>2. Admitted(q) \in Store!Reaches(q)
    BY <1>1, <2>1, RunsReady, AdmittedReached
  <2>3. CASE Answer(q, "ok", found[q])
    BY <2>1, <2>3, EndStep DEF Store!List
  <2>4. CASE ~ Answer(q, "ok", found[q])
    <3>1. PICK r \in hits : found' = [found EXCEPT ![q] = @ \cup {r}]
      BY <1>5, <2>1, <2>4 DEF GetMany
    <3>2. UNCHANGED <<scope, request, status, treeVars, walkVars>>
      BY <1>5, <2>4 DEF GetMany
    <3>3. \A p \in Request : MayReach(p)' = MayReach(p) /\ MustReach(p)' = MustReach(p)
      BY <3>2, ReachKept DEF walkVars
    <3>4. /\ [p \in Request |-> MayReach(p)]' = [p \in Request |-> MayReach(p)]
          /\ [p \in Request |-> MustReach(p)]' = [p \in Request |-> MustReach(p)]
      BY <3>3
    <3> QED BY <2>1, <2>2, <3>1, <3>2, <3>4 DEF Store!List
  <2> QED BY <2>3, <2>4
<1> QED BY <1>3, <1>4, <1>5 DEF Read

\* A $set and a removal have the effects the store allows.
LEMMA SetOnEffect ==
    ASSUME RecordTypes, NEW ids, NEW given \in Stored, SetOn(ids, given), NEW op \in {"updateById", "updateByIds", "upsert"},
           NEW codes, given \in codes
    PROVE  records' \in Store!Effects(op, ids, codes)
<1>1. records' = Store!SetTo(ids, given)
  BY DEF SetOn, RecordTypes, Store!SetTo
<1> QED BY <1>1 DEF Store!Effects

LEMMA RemoveEffect ==
    ASSUME NEW ids, Remove(ids), NEW op \in {"deleteById", "deleteByIds"}, NEW codes
    PROVE  records' \in Store!Effects(op, ids, codes)
BY DEF Remove, Store!Effects

LEMMA ByIdImplements ==
    ASSUME StoreInv, StoreInv', NEW q \in Request, UpdateById(q) \/ DeleteById(q)
    PROVE  Store!Operate(q)
<1> DEFINE hits == Store!Hits(q, Admitted(q))
<1>1. {"updateById", "deleteById"} \subseteq OneIdOps /\ {"updateById", "deleteById"} \subseteq Op \ InsertOps
  BY DEF Op, OneIdOps, InsertOps
<1>2. PICK op \in {"updateById", "deleteById"} :
        \/ op = "updateById" /\ UpdateById(q)
        \/ op = "deleteById" /\ DeleteById(q)
  OBVIOUS
<1>3. Runs(q, op)
  BY <1>2 DEF UpdateById, DeleteById
<1>4. hits = Matching(q, request[q].ids)
  BY <1>1, <1>3, HitsMatch
<1>5. Answer(q, IF hits = {} /\ op # "getOne" THEN "notFound" ELSE "ok", hits)
  BY <1>2, <1>4 DEF UpdateById, DeleteById
<1>6. \/ op = "updateById" /\ \E given \in Stored : SetOn(hits, given)
      \/ op = "deleteById" /\ Remove(hits)
  BY <1>2, <1>4 DEF UpdateById, DeleteById
<1> HIDE DEF hits
<1>7. records' \in Store!Effects(op, hits, Stored)
  BY <1>6, SetOnEffect, RemoveEffect, RecordsTyped DEF StoreInv
<1>8. hits \in Store!Picks(op, hits)
  BY <1>2 DEF Store!Picks
<1> QED BY <1>1, <1>3, <1>5, <1>7, <1>8, OperateBy DEF hits

LEMMA ByIdsImplements ==
    ASSUME StoreInv, StoreInv', NEW q \in Request, UpdateByIds(q) \/ DeleteByIds(q)
    PROVE  Store!OperateItem(q)
<1>1. PICK op \in {"updateByIds", "deleteByIds"} :
        \/ op = "updateByIds" /\ UpdateByIds(q)
        \/ op = "deleteByIds" /\ DeleteByIds(q)
  OBVIOUS
<1>2. Runs(q, op) /\ request[q].op = op /\ op \in Op \ InsertOps
  BY <1>1 DEF UpdateByIds, DeleteByIds, Runs, Op, ManyIdsOps, InsertOps
<1>3. PICK r \in request[q].ids :
        /\ \/ op = "updateByIds" /\ SetOn(Matching(q, {r}), request[q].given)
           \/ op = "deleteByIds" /\ Remove(Matching(q, {r}))
        /\ ItemDone(q, r, Matching(q, {r}))
  BY <1>1 DEF UpdateByIds, DeleteByIds
<1> DEFINE hit == Store!Hits(q, Admitted(q)) \cap {r}
<1>4. /\ Admitted(q) \in Store!Reaches(q) /\ r \in RecordId /\ {r} \in SUBSET RecordId
      /\ request[q].ids # {} /\ request[q].given \in Stored
  BY <1>2, RunsReady, AdmittedReached, RequestTyped DEF StoreInv, RepoInv, RepoTypeOK, Asking
<1>5. hit = Matching(q, {r})
  BY <1>2, <1>4, HitsMatch DEF Matching
<1>6. hit \in SUBSET RecordId
  BY <1>4
<1> HIDE DEF hit
<1>7. records' \in Store!Effects(op, hit, {request[q].given})
  BY <1>3, <1>4, <1>5, SetOnEffect, RemoveEffect, RecordsTyped DEF StoreInv
<1>8. Store!Item(q, r, hit)
  BY <1>3, <1>5, <1>6, ItemBy
<1> QED BY <1>2, <1>4, <1>7, <1>8 DEF Store!OperateItem, hit

\* What an inserting upsert stores is what the store lets it create.
LEMMA UpsertCreates ==
    ASSUME StoreInv, NEW q \in Request, Runs(q, "upsert"), NEW given \in Stored, NEW code \in UpsertCodes(q, given)
    PROVE  code \in Code \cup Store!Created(Admitted(q))
<1>1. /\ RepoInv /\ request[q].op = "upsert" /\ "upsert" \notin InsertOps /\ NoCode \in Stored
      /\ Header(q) \in Stored /\ ScopeCodes(q) \subseteq Stored
  BY RequestTyped DEF StoreInv, Runs, InsertOps, Stored
<1>2. CASE given # NoCode
  BY <1>2 DEF UpsertCodes, Stored
<1>3. CASE given = NoCode /\ Unfiltered(q)
  <2>1. code = NoCode /\ Admitted(q) = Stored
    BY <1>3 DEF UpsertCodes, Admitted, Admits
  <2> QED BY <1>1, <2>1 DEF Store!Created
<1>4. CASE given = NoCode /\ ~ Unfiltered(q) /\ scope = "NODE"
  <2>1. code = Header(q) /\ Admitted(q) = {Header(q)}
    BY <1>1, <1>4 DEF UpsertCodes, Admitted, Admits
  <2> QED BY <2>1 DEF Store!Created
<1>5. CASE given = NoCode /\ ~ Unfiltered(q) /\ scope # "NODE"
  <2>1. Admitted(q) = ScopeCodes(q)
    BY <1>1, <1>5 DEF Admitted, Admits
  <2>2. code = NoCode \/ (Cardinality(ScopeCodes(q)) = 1 /\ code \in ScopeCodes(q))
    BY <1>5 DEF UpsertCodes
  <2>3. CASE code = NoCode
    BY <1>5, <2>3 DEF Store!Created
  <2>4. CASE Cardinality(ScopeCodes(q)) = 1 /\ code \in ScopeCodes(q)
    <3>1. code \in Code
      BY <1>1, <1>5, <2>4 DEF ScopeCodes, Unfiltered, Stored, StoreInv, RepoInv, IInv, TypeOK
    <3> QED BY <3>1
  <2> QED BY <2>2, <2>3, <2>4
<1> QED BY <1>2, <1>3, <1>4, <1>5

LEMMA UpsertImplements ==
    ASSUME StoreInv, StoreInv', NEW q \in Request, Upsert(q)
    PROVE  Store!Operate(q) \/ Store!UpsertNew(q)
<1> DEFINE ids == IF request[q].ids = {} THEN RecordId ELSE request[q].ids
           hits == Store!Hits(q, Admitted(q))
<1>1. /\ Runs(q, "upsert") /\ request[q].op = "upsert" /\ "upsert" \in Op \ InsertOps /\ RecordTypes
      /\ Admitted(q) \in Store!Reaches(q) /\ ids = Store!Asked(q) /\ ids \in SUBSET RecordId
  <2>1. Runs(q, "upsert") /\ "upsert" \in Op \ InsertOps
    BY DEF Upsert, Op, InsertOps
  <2>2. Admitted(q) \in Store!Reaches(q) /\ request[q].op = "upsert"
    BY <2>1, RunsReady, AdmittedReached
  <2> QED BY <2>1, <2>2, RecordsTyped, RequestTyped DEF StoreInv, Store!Asked
<1>2. hits = Matching(q, ids)
  BY <1>1, HitsMatch
<1>3. PICK given \in Stored :
        \/ \E r \in hits : SetOn({r}, given) /\ Answer(q, "ok", {r})
        \/ /\ hits = {}
           /\ \E r \in {t \in ids : ~ Exists(t)}, code \in UpsertCodes(q, given) :
                 Insert(r, code, NoCode) /\ Answer(q, "ok", {r})
        \/ /\ hits = {} /\ {t \in ids : ~ Exists(t)} = {} /\ request[q].ids # {}
           /\ Answer(q, "conflict", {}) /\ UNCHANGED records
  BY <1>2 DEF Upsert
<1> HIDE DEF ids, hits
<1>4. ASSUME NEW r \in hits, SetOn({r}, given), Answer(q, "ok", {r}) PROVE Store!Operate(q)
  <2>1. {r} \in Store!Picks("upsert", hits) /\ {r} # {}
    BY <1>4 DEF Store!Picks
  <2>2. records' \in Store!Effects("upsert", {r}, Stored)
    BY <1>1, <1>4, SetOnEffect
  <2> QED BY <1>1, <1>4, <2>1, <2>2, OperateBy DEF hits
<1>5. ASSUME hits = {}, NEW r \in ids, ~ Exists(r), NEW code \in UpsertCodes(q, given),
             Insert(r, code, NoCode), Answer(q, "ok", {r})
      PROVE  Store!UpsertNew(q)
  <2>1. records[r] = NoRecord /\ records' = [records EXCEPT ![r] = code]
    BY <1>5 DEF Exists, Insert
  <2>2. code \in Code \cup Store!Created(Admitted(q)) /\ Store!End(q) /\ Store!Return(q, "ok", {r})
    BY <1>1, <1>5, UpsertCreates, EndStep
  <2> QED BY <1>1, <1>5, <2>1, <2>2 DEF hits, Store!UpsertNew
<1>6. ASSUME hits = {}, {t \in ids : ~ Exists(t)} = {}, request[q].ids # {}, Answer(q, "conflict", {}), UNCHANGED records
      PROVE  Store!UpsertNew(q)
  <2>1. \A r \in Store!Asked(q) : records[r] # NoRecord
    BY <1>1, <1>6 DEF Exists
  <2>2. Store!End(q) /\ Store!Return(q, "conflict", {})
    BY <1>6, EndStep
  <2> QED BY <1>1, <1>6, <2>1, <2>2 DEF hits, Store!UpsertNew
<1> QED BY <1>3, <1>4, <1>5, <1>6

\* A create and an item of an import.
LEMMA InsertImplements ==
    ASSUME StoreInv, StoreInv', NEW q \in Request, Create(q) \/ ImportItem(q)
    PROVE  Store!InsertItem(q)
<1>1. /\ request[q].op \in {"create", "importInsert"} /\ request[q].op \in Store!InsertOps
      /\ Create(q) => request[q].op = "create"
  BY DEF Create, ImportItem, Runs, Store!InsertOps
<1>2. Create(q) => found[q] = {} /\ \A r, s \in request[q].ids : r = s
  BY <1>1 DEF StoreInv, AskedInv
<1>3. PICK r \in request[q].ids, given \in Stored :
        \/ Exists(r) /\ Answer(q, "conflict", found[q]) /\ UNCHANGED records
        \/ ~ Exists(r) /\ Insert(r, CreatedCode(q, given), Header(q)) /\ ItemDone(q, r, {r})
  <2>1. CASE Create(q)
    <3>1. PICK r \in request[q].ids, given \in Stored :
            \/ Exists(r) /\ Answer(q, "conflict", {}) /\ UNCHANGED records
            \/ ~ Exists(r) /\ Insert(r, CreatedCode(q, given), Header(q)) /\ Answer(q, "ok", {r})
      BY <2>1 DEF Create
    <3>2. found[q] = {} /\ request[q].ids = {r} /\ found[q] \cup {r} = {r}
      BY <1>2, <2>1
    <3> QED BY <3>1, <3>2 DEF ItemDone
  <2>2. CASE ImportItem(q)
    BY <2>2 DEF ImportItem
  <2> QED BY <2>1, <2>2
<1>4. CASE Exists(r) /\ Answer(q, "conflict", found[q]) /\ UNCHANGED records
  <2>1. Store!End(q) /\ Store!Return(q, "conflict", found[q]) /\ records[r] # NoRecord
    BY <1>4, EndStep DEF Exists
  <2> QED BY <1>1, <1>4, <2>1 DEF Store!InsertItem
<1>5. CASE ~ Exists(r) /\ Insert(r, CreatedCode(q, given), Header(q)) /\ ItemDone(q, r, {r})
  <2>1. records[r] = NoRecord /\ given \in Store!Stored /\ {r} \in SUBSET RecordId
    BY <1>5, RequestTyped DEF Exists, Stored, Store!Stored, StoreInv
  <2>2. records' = [records EXCEPT ![r] = IF request[q].header = NoCode THEN given ELSE request[q].header]
    BY <1>5 DEF Insert, CreatedCode, Header
  <2>3. Store!Item(q, r, {r})
    BY <1>5, <2>1, ItemBy
  <2> QED BY <1>1, <2>1, <2>2, <2>3 DEF Store!InsertItem
<1> QED BY <1>3, <1>4, <1>5

LEMMA ArriveImplements == ASSUME StoreInv, StoreInv', NEW q \in Request, Arrive(q) PROVE Store!Issue(q)
<1>1. PICK op \in Op, header \in Stored :
        \E ids \in IdsOf(op), given \in GivenOf(op) : Issue(q, op, header, ids, given)
  BY DEF Arrive
<1>2. PICK ids \in IdsOf(op), given \in GivenOf(op) : Issue(q, op, header, ids, given)
  BY <1>1
<1>3. /\ request[q].op = "none" /\ UNCHANGED <<scope, records>>
      /\ request' = [request EXCEPT ![q] = [op |-> op, header |-> header, ids |-> ids, given |-> given]]
      /\ found' = [found EXCEPT ![q] = {}] /\ status' = [status EXCEPT ![q] = "pending"]
  BY <1>2 DEF Issue, Waiting
<1>4. request'[q] = [op |-> op, header |-> header, ids |-> ids, given |-> given]
  BY <1>3 DEF StoreInv, RepoInv, RepoTypeOK
<1>5. ids \in SUBSET RecordId /\ given \in Store!Stored
  BY <1>4 DEF StoreInv, RepoInv, RepoTypeOK, Asking, Stored, Store!Stored
<1>6. request'[q] \in [op : Store!Op, header : Store!Stored, ids : SUBSET RecordId, given : Store!Stored]
  <2>1. op \in Store!Op /\ header \in Store!Stored
    BY DEF Op, ReadOps, OneIdOps, ManyIdsOps, InsertOps, Store!Op, Store!InsertOps, Stored, Store!Stored
  <2> QED BY <1>4, <1>5, <2>1
<1>7. Store!Reset(q, request'[q].header)
  BY <1>3, OthersSame, ResetStep DEF StoreInv
<1> QED BY <1>3, <1>4, <1>6, <1>7 DEF Store!Issue

LEMMA NoItemsImplements == ASSUME StoreInv, StoreInv', NEW q \in Request, NoItems(q) PROVE Store!Nothing(q)
<1>1. /\ request[q].op = "none" /\ UNCHANGED <<scope, records, request, creator, treeVars, walkVars>>
      /\ found' = [found EXCEPT ![q] = {}] /\ status' = [status EXCEPT ![q] = "ok"]
  BY DEF NoItems, Waiting
<1>2. \A p \in Request : MayReach(p)' = MayReach(p) /\ MustReach(p)' = MustReach(p)
  BY <1>1, ReachKept DEF walkVars
<1>3. /\ [p \in Request |-> MayReach(p)]' = [p \in Request |-> MayReach(p)]
      /\ [p \in Request |-> MustReach(p)]' = [p \in Request |-> MustReach(p)]
  BY <1>2
<1> QED BY <1>1, <1>3 DEF Store!Nothing

\* The steps that the store sees only as a change of what a request reaches, or not at all.
LEMMA WalkOnImplements ==
    ASSUME StoreInv, StoreInv', NEW q \in Request, WalkOn(q)
    PROVE  UNCHANGED Store!storeVars
<1>1. UNCHANGED <<scope, records, request, found, status, everEdge, steadyEdge>>
  BY DEF WalkOn, repoVars, ExpandLevel, ClimbParent
<1>2. TypeOK /\ seen[q] # {}
  BY DEF StoreInv, RepoInv, IInv, HeldInv, WalkOn, ExpandLevel, ClimbParent, Walking
<1>3. seen[q] \subseteq seen'[q] /\ \A p \in Request \ {q} : seen'[p] = seen[p]
  BY <1>2 DEF WalkOn, ExpandLevel, ClimbParent, ClimbTo, TypeOK
<1>4. \A p \in Request : MayReach(p)' = MayReach(p) /\ MustReach(p)' = MustReach(p)
  BY <1>1, <1>2, <1>3, ReachKept
<1> QED BY <1>1, <1>4 DEF Store!storeVars

LEMMA EditTreeImplements == ASSUME StoreInv, StoreInv', EditTree PROVE Store!Drift
<1>1. PICK tree : Edit(tree)
  BY DEF EditTree, CreatePartition, UpdatePartition, DeletePartition
<1>2. UNCHANGED <<scope, records, request, found, status>> /\ UNCHANGED seen
  BY <1>1 DEF EditTree, repoVars, Edit
<1>3. \A p \in Request : everEdge[p] \subseteq everEdge'[p] /\ steadyEdge'[p] \subseteq steadyEdge[p]
  BY <1>1 DEF Edit
<1>4. ReachInv'
  BY ReachBounded, PTL
<1>5. ASSUME NEW p \in Request PROVE MayReach(p) \subseteq MayReach(p)' /\ MustReach(p)' \subseteq MustReach(p)
  <2>1. /\ Below(everEdge[p], Header(p)) \subseteq Below(everEdge'[p], Header(p))
        /\ Above(everEdge[p], Header(p)) \subseteq Above(everEdge'[p], Header(p))
        /\ Below(steadyEdge'[p], Header(p)) \subseteq Below(steadyEdge[p], Header(p))
    BY <1>3, BelowMonotone, AboveMonotone
  <2>2. \A c, b : OnlyParent(p, c, b)' => OnlyParent(p, c, b)
    BY <1>3 DEF OnlyParent
  <2>3. SteadyParents(p)' \subseteq SteadyParents(p)
    BY <1>3, <2>2 DEF SteadyParents
  <2>4. Above(SteadyParents(p)', Header(p)) \subseteq Above(SteadyParents(p), Header(p))
    BY <2>3, AboveMonotone
  <2>5. Above(SteadyParents(p), Header(p))' = Above(SteadyParents(p)', Header(p))
    BY <1>2 DEF Above, ClosedUp, Header
  <2> QED BY <1>2, <2>1, <2>4, <2>5 DEF MayReach, MustReach, Unfiltered, Header
<1>6. \A p \in Request : /\ Store!Bounded(request[p].header, MustReach(p)', MayReach(p)')
                         /\ MayReach(p)' \in SUBSET Stored /\ MustReach(p)' \in SUBSET Stored
  BY <1>2, <1>4 DEF ReachInv, Store!Bounded, Header
<1>7. Store!Bounds
  BY <1>6 DEF Store!Bounds, Store!Stored, Stored
<1> QED BY <1>2, <1>5, <1>6, <1>7 DEF Store!Drift

\* The generic repository keeps the promise of ScopedStore: an operation on one record takes
\* effect at once, on exactly what it asks for in one set of partitions within its reach, and
\* an operation on several does so for each of them.
THEOREM RepositoryImplementsStore == RepoSpec => ImplementsStore
<1>1. RepoInit => Store!Init
  BY DEF RepoInit, Init, Idle, Stored, MayReach, MustReach, Unfiltered, Header, Store!Init, Store!None, Store!Stored
<1>2. StoreInv /\ StoreInv' /\ [RepoNext]_allVars => [Store!Next]_Store!storeVars
  <2> SUFFICES ASSUME StoreInv, StoreInv', [RepoNext]_allVars PROVE [Store!Next]_Store!storeVars
    OBVIOUS
  <2>1. ASSUME NEW q \in Request, Arrive(q) \/ NoItems(q) \/ WalkOn(q) \/ Read(q) \/ Write(q) PROVE [Store!Next]_Store!storeVars
    BY <2>1, ArriveImplements, NoItemsImplements, WalkOnImplements, ReadImplements, ByIdImplements, ByIdsImplements,
       UpsertImplements, InsertImplements
       DEF Write, Store!Next
  <2>2. CASE EditTree
    BY <2>2, EditTreeImplements DEF Store!Next
  <2>3. CASE UNCHANGED allVars
    <3>1. UNCHANGED <<scope, records, request, found, status, everEdge, steadyEdge, seen>>
      BY <2>3 DEF allVars, repoVars, walkVars
    <3>2. \A p \in Request : MayReach(p)' = MayReach(p) /\ MustReach(p)' = MustReach(p)
      BY <3>1, ReachKept
    <3> QED BY <3>1, <3>2 DEF Store!storeVars
  <2> QED BY <2>1, <2>2, <2>3 DEF RepoNext
<1> QED BY <1>1, <1>2, StoreInitial, StoreStep, PTL DEF RepoSpec, ImplementsStore, Store!Spec
=============================================================================
