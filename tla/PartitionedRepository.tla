------------------------ MODULE PartitionedRepository ------------------------
(***************************************************************************)
(* BaseMongoRepository and BaseService behind the generic router, over one *)
(* collection, composed with the tree of partitions of PartitionTree.      *)
(*                                                                         *)
(* Every request carries the partition code of its x-data-partition-code   *)
(* header, or none.  get_data_partition_condition turns it into a filter;  *)
(* for the scopes SUBTREE and ROOT_PATH that means a walk over the tree,   *)
(* one awaited query at a time, and the operation itself runs afterwards,  *)
(* on the codes the walk collected, while the tree and the records may     *)
(* have changed.                                                           *)
(***************************************************************************)
EXTENDS PartitionTree, FiniteSets

CONSTANTS
    RecordId,   \* the values of `_id` in the collection
    NoCode,     \* no header, or a record without dataPartitionCode
    NoRecord    \* no record has this _id

ASSUME NoCodeAssumption == NoCode \notin Code
ASSUME NoRecordAssumption == NoRecord \notin Code \cup {NoCode}

\* Every request may have to walk the tree, and each may be issued again.
Request == Walker

VARIABLES
    scope,      \* the DPQueryScope the router of the collection was made with
    records,    \* the collection: the dataPartitionCode of each record
    request,    \* what each request asks for
    found,      \* the ids a request returned or changed
    status,     \* how a request was answered
    creator     \* history: the header that created a record, until it is moved

repoVars == <<scope, records, request, found, status, creator>>
allVars == <<treeVars, walkVars, repoVars>>

Stored == Code \cup {NoCode}
ReadOps == {"getById", "getOne", "getMany"}
OneIdOps == {"getById", "updateById", "deleteById"}
ManyIdsOps == {"updateByIds", "deleteByIds"}
InsertOps == {"create", "importInsert"}
ItemOps == ManyIdsOps \cup {"importInsert"}
Op == ReadOps \cup OneIdOps \cup ManyIdsOps \cup InsertOps \cup {"upsert"}

Idle == [op |-> "none", header |-> NoCode, ids |-> {}, given |-> NoCode]

Exists(r) == records[r] # NoRecord
Header(q) == request[q].header

-----------------------------------------------------------------------------
(***************************************************************************)
(* get_data_partition_condition.                                           *)
(***************************************************************************)
Unfiltered(q) == scope = "GLOBAL" \/ Header(q) = NoCode

\* create asks for the NODE condition whatever the scope of the router.
NeedsWalk(op, header) ==
    /\ scope \in {"SUBTREE", "ROOT_PATH"}
    /\ header # NoCode
    /\ op \notin InsertOps

\* A mutated form: an empty walk gives no condition.
ScopeCodesOpen(q) == IF seen[q] = {} THEN Stored ELSE seen[q]
\* The $in list: the codes of the walk, or the header alone when it is empty.
ScopeCodes(q) == IF seen[q] = {} THEN {Header(q)} ELSE seen[q]

Admits(q, code) ==
    CASE Unfiltered(q) -> TRUE
      [] ~ Unfiltered(q) /\ scope = "NODE" -> code = Header(q)
      [] OTHER -> code \in ScopeCodes(q)

\* The records a query with this condition and these ids matches.
Matching(q, ids) == {r \in ids : Exists(r) /\ Admits(q, records[r])}

-----------------------------------------------------------------------------
(***************************************************************************)
(* A request arrives, and its condition is computed.                       *)
(***************************************************************************)
Waiting(q) == request[q].op = "none"
Ready(q) == pc[q] \in {"idle", "done"}

Issue(q, op, header, ids, given) ==
    /\ Waiting(q)
    /\ request' = [request EXCEPT ![q] = [op |-> op, header |-> header, ids |-> ids, given |-> given]]
    /\ found' = [found EXCEPT ![q] = {}]
    /\ status' = [status EXCEPT ![q] = "pending"]
    /\ UNCHANGED <<scope, records, creator>>
    /\ IF NeedsWalk(op, header)
         THEN IF scope = "SUBTREE" THEN StartSubtree(q, header)
                                   ELSE StartRootPath(q, header)
         ELSE UNCHANGED <<treeVars, walkVars>>

\* An empty list of ids or of items is answered at once, whatever the header.
NoItems(q) ==
    /\ Waiting(q)
    /\ found' = [found EXCEPT ![q] = {}]
    /\ status' = [status EXCEPT ![q] = "ok"]
    /\ UNCHANGED <<scope, records, request, creator, treeVars, walkVars>>

WalkOn(q) ==
    /\ ~ Waiting(q)
    /\ ExpandLevel(q) \/ ClimbParent(q)
    /\ UNCHANGED repoVars

\* The request is answered with this outcome and these ids; what its walk collected
\* goes with it.
Answer(q, outcome, ids) ==
    /\ request' = [request EXCEPT ![q] = Idle]
    /\ found' = [found EXCEPT ![q] = ids]
    /\ status' = [status EXCEPT ![q] = outcome]
    /\ pc' = [pc EXCEPT ![q] = "idle"]
    /\ kind' = [kind EXCEPT ![q] = "SUBTREE"]
    /\ root' = [root EXCEPT ![q] = NoParent]
    /\ seen' = [seen EXCEPT ![q] = {}]
    /\ frontier' = [frontier EXCEPT ![q] = {}]
    /\ everEdge' = [everEdge EXCEPT ![q] = {}]
    /\ steadyEdge' = [steadyEdge EXCEPT ![q] = {}]
    /\ UNCHANGED <<scope, treeVars>>

\* Item r of request q is done and brought ids; the last one answers the request.
ItemDone(q, r, ids) ==
    IF request[q].ids = {r}
      THEN Answer(q, "ok", found[q] \cup ids)
      ELSE /\ request' = [request EXCEPT ![q].ids = @ \ {r}]
           /\ found' = [found EXCEPT ![q] = @ \cup ids]
           /\ UNCHANGED <<status, scope, treeVars, walkVars>>

\* The operation of request q may run now.
Runs(q, op) == request[q].op = op /\ Ready(q)

-----------------------------------------------------------------------------
(***************************************************************************)
(* Reads.  get_one has a filter of its own, so that any record in scope or *)
(* none may be the answer.  A list is read from a cursor, one record after *)
(* the other, and a limit may cut it short; the count that get_page asks   *)
(* for first is left out.                                                  *)
(***************************************************************************)
GetById(q) ==
    /\ Runs(q, "getById")
    /\ LET hit == Matching(q, request[q].ids)
       IN  Answer(q, IF hit = {} THEN "notFound" ELSE "ok", hit)
    /\ UNCHANGED <<records, creator>>

GetOne(q) ==
    /\ Runs(q, "getOne")
    /\ Answer(q, "ok", {}) \/ \E r \in Matching(q, RecordId) : Answer(q, "ok", {r})
    /\ UNCHANGED <<records, creator>>

GetMany(q) ==
    /\ Runs(q, "getMany")
    /\ \/ /\ \E r \in Matching(q, RecordId) \ found[q] : found' = [found EXCEPT ![q] = @ \cup {r}]
          /\ UNCHANGED <<scope, request, status, treeVars, walkVars>>
       \/ Answer(q, "ok", found[q])
    /\ UNCHANGED <<records, creator>>

-----------------------------------------------------------------------------
(***************************************************************************)
(* Writes.  `given` is the dataPartitionCode of the payload, NoCode when   *)
(* the payload has none.  update_many and delete_many, like import_insert, *)
(* write one document after the other, and others may write in between.    *)
(***************************************************************************)
\* $set of a payload on the records ids: it may move them to another partition.
SetOn(ids, given) ==
    /\ records' = [r \in RecordId |->
                     IF r \in ids /\ given # NoCode THEN given ELSE records[r]]
    /\ creator' = [r \in RecordId |->
                     IF r \in ids /\ given \notin {NoCode, records[r]} THEN NoCode ELSE creator[r]]

Remove(ids) ==
    /\ records' = [r \in RecordId |-> IF r \in ids THEN NoRecord ELSE records[r]]
    /\ creator' = [r \in RecordId |-> IF r \in ids THEN NoCode ELSE creator[r]]

Insert(r, code, by) ==
    /\ records' = [records EXCEPT ![r] = code]
    /\ creator' = [creator EXCEPT ![r] = by]

\* A mutated form: the payload wins over the condition.
CreatedCodePayloadFirst(q, given) == IF given # NoCode THEN given ELSE Header(q)
\* document.update(partition_filter): the header's code replaces the payload's,
\* also under a GLOBAL router, whose scope create does not look at.
CreatedCode(q, given) == IF Header(q) = NoCode THEN given ELSE Header(q)

\* create: an `_id` in the payload may be taken already.
Create(q) ==
    /\ Runs(q, "create")
    /\ \E r \in request[q].ids, given \in Stored :
         \/ /\ Exists(r)
            /\ Answer(q, "conflict", {})
            /\ UNCHANGED <<records, creator>>
         \/ /\ ~ Exists(r)
            /\ Insert(r, CreatedCode(q, given), Header(q))
            /\ Answer(q, "ok", {r})

\* import_insert creates one item after the other; the first that fails ends
\* the request and the items before it stay.
ImportItem(q) ==
    /\ Runs(q, "importInsert")
    /\ \E r \in request[q].ids, given \in Stored :
         \/ /\ Exists(r)
            /\ Answer(q, "conflict", found[q])
            /\ UNCHANGED <<records, creator>>
         \/ /\ ~ Exists(r)
            /\ Insert(r, CreatedCode(q, given), Header(q))
            /\ ItemDone(q, r, {r})

UpdateById(q) ==
    /\ Runs(q, "updateById")
    /\ LET hit == Matching(q, request[q].ids)
       IN  /\ \E given \in Stored : SetOn(hit, given)
           /\ Answer(q, IF hit = {} THEN "notFound" ELSE "ok", hit)

DeleteById(q) ==
    /\ Runs(q, "deleteById")
    /\ LET hit == Matching(q, request[q].ids)
       IN  /\ Remove(hit)
           /\ Answer(q, IF hit = {} THEN "notFound" ELSE "ok", hit)

\* One payload for all of them.
UpdateByIds(q) ==
    /\ Runs(q, "updateByIds")
    /\ \E r \in request[q].ids :
         /\ SetOn(Matching(q, {r}), request[q].given)
         /\ ItemDone(q, r, Matching(q, {r}))

DeleteByIds(q) ==
    /\ Runs(q, "deleteByIds")
    /\ \E r \in request[q].ids :
         /\ Remove(Matching(q, {r}))
         /\ ItemDone(q, r, Matching(q, {r}))

\* A mutated form: the $in list itself ends up in the document.
UpsertCodesWithList(q, given) ==
    IF given # NoCode THEN {given} ELSE {ScopeCodes(q)}
\* What an inserting upsert stores as dataPartitionCode: the payload's, else the
\* one an equality condition names.  MongoDB takes nothing from an $in list, and
\* whether a list of one counts as an equality is left open.
UpsertCodes(q, given) ==
    CASE given # NoCode -> {given}
      [] given = NoCode /\ Unfiltered(q) -> {NoCode}
      [] given = NoCode /\ ~ Unfiltered(q) /\ scope = "NODE" -> {Header(q)}
      [] OTHER -> {NoCode} \cup (IF Cardinality(ScopeCodes(q)) = 1 THEN ScopeCodes(q) ELSE {})

\* upsert: one document that matches is overwritten, any of them when the payload
\* names no id (ids = {}); else a document is inserted, which fails when the id
\* exists outside the condition.
Upsert(q) ==
    /\ Runs(q, "upsert")
    /\ LET ids == IF request[q].ids = {} THEN RecordId ELSE request[q].ids
           hit == Matching(q, ids)
           free == {r \in ids : ~ Exists(r)}
       IN \E given \in Stored :
            \/ \E r \in hit : SetOn({r}, given) /\ Answer(q, "ok", {r})
            \/ /\ hit = {}
               /\ \E r \in free, code \in UpsertCodes(q, given) : Insert(r, code, NoCode) /\ Answer(q, "ok", {r})
            \/ /\ hit = {} /\ free = {} /\ request[q].ids # {}
               /\ Answer(q, "conflict", {})
               /\ UNCHANGED <<records, creator>>

-----------------------------------------------------------------------------
RepoInit ==
    /\ Init
    /\ scope \in {"NODE", "SUBTREE", "ROOT_PATH", "GLOBAL"}
    /\ records \in [RecordId -> Stored \cup {NoRecord}]
    /\ request = [q \in Request |-> Idle]
    /\ found = [q \in Request |-> {}]
    /\ status = [q \in Request |-> "pending"]
    /\ creator = [r \in RecordId |-> NoCode]

\* The ids a route passes on: none, one, or a list.
IdsOf(op) ==
    CASE op \in {"getOne", "getMany"} -> {{}}
      [] op \in OneIdOps \cup {"create"} -> {{r} : r \in RecordId}
      [] op = "upsert" -> {{}} \cup {{r} : r \in RecordId}
      [] op \in ItemOps -> (SUBSET RecordId) \ {{}}

\* The code of a payload that serves for several records; any other is chosen when
\* it is written.
GivenOf(op) == IF op = "updateByIds" THEN Stored ELSE {NoCode}

Arrive(q) ==
    \E op \in Op, header \in Stored :
        \E ids \in IdsOf(op), given \in GivenOf(op) : Issue(q, op, header, ids, given)

Read(q) == GetById(q) \/ GetOne(q) \/ GetMany(q)
Write(q) ==
    \/ Create(q) \/ ImportItem(q) \/ Upsert(q)
    \/ UpdateById(q) \/ UpdateByIds(q)
    \/ DeleteById(q) \/ DeleteByIds(q)

\* The tree is edited by its own routes meanwhile.
EditTree ==
    /\ \E d \in DocId, ma \in Code, parent \in Code \cup {NoParent} :
         \/ CreatePartition(d, ma, parent)
         \/ UpdatePartition(d, ma, parent)
         \/ DeletePartition(d)
    /\ UNCHANGED repoVars

RepoNext ==
    \/ \E q \in Request : Arrive(q) \/ NoItems(q) \/ WalkOn(q) \/ Read(q) \/ Write(q)
    \/ EditTree

RepoSpec == RepoInit /\ [][RepoNext]_allVars

-----------------------------------------------------------------------------
Asking == [op : Op \cup {"none"}, header : Stored, ids : SUBSET RecordId, given : Stored]

RepoTypeOK ==
    /\ TypeOK
    /\ scope \in {"NODE", "SUBTREE", "ROOT_PATH", "GLOBAL"}
    /\ records \in [RecordId -> Stored \cup {NoRecord}]
    /\ request \in [Request -> Asking]
    /\ found \in [Request -> SUBSET RecordId]
    /\ status \in [Request -> {"pending", "ok", "notFound", "conflict"}]
    /\ creator \in [RecordId -> Stored]

\* The codes a request may at most reach, and those it must reach.  For the walks
\* they are bounds by the history of the tree during the walk.
MayReach(q) ==
    CASE Unfiltered(q) -> Stored
      [] ~ Unfiltered(q) /\ scope = "NODE" -> {Header(q)}
      [] ~ Unfiltered(q) /\ scope = "SUBTREE" -> Below(everEdge[q], Header(q))
      [] OTHER -> Above(everEdge[q], Header(q))
\* The steps up whose lower end had no other parent all along.
SteadyParents(q) == {e \in steadyEdge[q] : OnlyParent(q, e[1], e[2])}
MustReach(q) ==
    CASE Unfiltered(q) -> Stored
      [] ~ Unfiltered(q) /\ scope = "SUBTREE" /\ seen[q] # {} ->
            Below(steadyEdge[q], Header(q))
      [] ~ Unfiltered(q) /\ scope = "ROOT_PATH" -> Above(SteadyParents(q), Header(q))
      [] OTHER -> {Header(q)}

\* The repository keeps the promise of ScopedStore: whatever happens to the tree and
\* the records between the queries of a walk and the operation, the operation on one
\* record takes effect at once, on exactly what it asks for in one set of partitions
\* that holds the header's and lies between MustReach and MayReach, and an operation
\* on several records does so for each of them; nothing else changes, 404 means that
\* no record it asks for was in that set, and a list of codes never ends up in a record.
Store == INSTANCE ScopedStore WITH
    may <- [q \in Request |-> MayReach(q)], must <- [q \in Request |-> MustReach(q)]
ImplementsStore == Store!Spec

\* This step is the operation of request q, or of one of its items.
Acts(q) == ~ Waiting(q) /\ <<request'[q], found'[q]>> # <<request[q], found[q]>>

\* What this step asks for by id: the id of the request, or one of several.
Handled(q) == request[q].ids \ request'[q].ids

\* What request q returned or changed in this step, as it was before.
Touched(q) ==
    {r \in RecordId : Exists(r) /\ (r \in found'[q] \ found[q] \/ records'[r] # records[r])}

\* No operation returns, changes or removes a record outside the partitions its
\* header reaches; with a walk, those a chain of edges joined to the header's
\* partition at some time during the walk, however the tree and the records
\* changed between the walk's queries and the operation.
ScopeSound ==
    [][\A q \in Request : Acts(q) /\ request[q].op \notin InsertOps =>
         \A r \in Touched(q) : records[r] \in MayReach(q)]_allVars

\* An operation by id misses no record of a partition that its header reached all
\* along: under SUBTREE by any chain of edges that stood during the walk, under
\* ROOT_PATH by a chain of parents that were each the only one, and always the
\* header's own partition, even when it is not in the tree (the fallback to the
\* header's code): 404 means out of reach.
ScopeComplete ==
    [][\A q \in Request : Acts(q) /\ request[q].op \in OneIdOps \cup ManyIdsOps =>
         \A r \in Handled(q) :
            (Exists(r) /\ records[r] \in MustReach(q)) => r \in found'[q]]_allVars

\* A record created or imported under a header stays within reach of every by-id
\* request with that header, through every scope and whatever happens to the
\* tree, until an update or an upsert moves it or a delete removes it.  (A record
\* that an upsert inserted has no creator here: it may be out of everyone's reach.)
CreatorReaches ==
    [][\A q \in Request :
         (Acts(q) /\ request[q].op \in OneIdOps \cup ManyIdsOps /\ Header(q) # NoCode) =>
           \A r \in Handled(q) :
              (Exists(r) /\ creator[r] = Header(q)) => r \in found'[q]]_allVars
=============================================================================
