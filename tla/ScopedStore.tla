----------------------------- MODULE ScopedStore -----------------------------
(***************************************************************************)
(* What the generic router promises about a collection, without the        *)
(* conditions, the walks and the tree that bring it about: an operation    *)
(* takes effect in one step, on those records it asks for that lie in one  *)
(* set of partitions, its reach.  The reach holds the partition of the     *)
(* header and is the same for every record; it is exact for the scopes     *)
(* NODE and GLOBAL and for a request without a header, and for the scopes  *)
(* of the tree anything between two bounds, which drift apart while a      *)
(* request is under way.  A list is read and several records are written   *)
(* item by item, each of them so.                                          *)
(***************************************************************************)
CONSTANTS
    Request,
    RecordId,
    Code,       \* partition codes
    NoCode,     \* no header, or a record without a partition
    NoRecord

VARIABLES
    scope,      \* the scope of the collection
    records,    \* the partition of each record
    request,    \* what each request asks for: operation, header, ids and one payload's code
    found,      \* the ids a request returned or changed
    status,     \* how a request was answered
    may, must   \* the partitions a request may at most, and must at least reach

storeVars == <<scope, records, request, found, status, may, must>>

Stored == Code \cup {NoCode}
InsertOps == {"create", "importInsert"}
Op == InsertOps \cup
      {"getById", "getOne", "getMany", "updateById", "updateByIds", "deleteById", "deleteByIds", "upsert"}

None == [op |-> "none", header |-> NoCode, ids |-> {}, given |-> NoCode]

Init ==
    /\ scope \in {"NODE", "SUBTREE", "ROOT_PATH", "GLOBAL"}
    /\ records \in [RecordId -> Stored \cup {NoRecord}]
    /\ request = [q \in Request |-> None]
    /\ found = [q \in Request |-> {}]
    /\ status = [q \in Request |-> "pending"]
    /\ may = [q \in Request |-> Stored]
    /\ must = [q \in Request |-> Stored]

-----------------------------------------------------------------------------
\* The bounds that a request with this header can have.
Bounded(header, lower, upper) ==
    /\ header \in lower /\ lower \subseteq upper
    /\ scope = "GLOBAL" \/ header = NoCode => lower = Stored
    /\ scope = "NODE" /\ header # NoCode => upper = {header}

Bounds == may' \in [Request -> SUBSET Stored] /\ must' \in [Request -> SUBSET Stored]

\* Request q gets bounds for this header; those of the others stay.
Reset(q, header) ==
    /\ Bounds
    /\ Bounded(header, must'[q], may'[q])
    /\ \A p \in Request \ {q} : may'[p] = may[p] /\ must'[p] = must[p]

Issue(q) ==
    /\ request[q].op = "none"
    /\ request'[q] \in [op : Op, header : Stored, ids : SUBSET RecordId, given : Stored]
    /\ request' = [request EXCEPT ![q] = request'[q]]
    /\ found' = [found EXCEPT ![q] = {}]
    /\ status' = [status EXCEPT ![q] = "pending"]
    /\ UNCHANGED <<scope, records>>
    /\ Reset(q, request'[q].header)

\* A request for no items is answered at once.
Nothing(q) ==
    /\ request[q].op = "none"
    /\ found' = [found EXCEPT ![q] = {}]
    /\ status' = [status EXCEPT ![q] = "ok"]
    /\ UNCHANGED <<scope, records, request, may, must>>

\* The tree is changed: what a request under way reaches is known less well.
Drift ==
    /\ UNCHANGED <<scope, records, request, found, status>>
    /\ Bounds
    /\ \A q \in Request :
         /\ Bounded(request[q].header, must'[q], may'[q])
         /\ may[q] \subseteq may'[q] /\ must'[q] \subseteq must[q]

\* The request is over, with this outcome and these ids.
End(q) ==
    /\ request' = [request EXCEPT ![q] = None]
    /\ Reset(q, NoCode)
    /\ UNCHANGED scope
Return(q, outcome, ids) ==
    /\ found' = [found EXCEPT ![q] = ids]
    /\ status' = [status EXCEPT ![q] = outcome]

-----------------------------------------------------------------------------
Reaches(q) == {S \in SUBSET may[q] : must[q] \subseteq S}
Asked(q) == IF request[q].ids = {} THEN RecordId ELSE request[q].ids
Hits(q, S) == {r \in Asked(q) : records[r] \in S}

\* Item r of request q is over and brought ids; with the last one the request is.
Item(q, r, ids) ==
    \/ request[q].ids = {r} /\ End(q) /\ Return(q, "ok", found[q] \cup ids)
    \/ /\ request[q].ids # {r}
       /\ request' = [request EXCEPT ![q].ids = @ \ {r}]
       /\ found' = [found EXCEPT ![q] = @ \cup ids]
       /\ UNCHANGED <<scope, status, may, must>>

\* Which of the records it hits an operation takes: get_one filters them once more.
Picks(op, hits) ==
    CASE op = "getOne" -> {{}} \cup {{r} : r \in hits}
      [] op = "upsert" -> {{r} : r \in hits}
      [] OTHER -> {hits}

\* What it makes of them, with these codes to choose from.
SetTo(ids, code) == IF code = NoCode THEN records ELSE [r \in RecordId |-> IF r \in ids THEN code ELSE records[r]]
Effects(op, ids, codes) ==
    CASE op \in {"deleteById", "deleteByIds"} ->
            {[r \in RecordId |-> IF r \in ids THEN NoRecord ELSE records[r]]}
      [] op \in {"updateById", "updateByIds", "upsert"} -> {SetTo(ids, code) : code \in codes}
      [] OTHER -> {records}

Operate(q) ==
    /\ request[q].op \in {"getById", "getOne", "updateById", "deleteById", "upsert"}
    /\ End(q)
    /\ \E S \in Reaches(q) : \E ids \in Picks(request[q].op, Hits(q, S)) :
         /\ records' \in Effects(request[q].op, ids, Stored)
         /\ Return(q, IF ids = {} /\ request[q].op # "getOne" THEN "notFound" ELSE "ok", ids)

\* One of the records a bulk update or a bulk delete asks for.
OperateItem(q) ==
    /\ request[q].op \in {"updateByIds", "deleteByIds"}
    /\ \E S \in Reaches(q), r \in request[q].ids :
         /\ records' \in Effects(request[q].op, Hits(q, S) \cap {r}, {request[q].given})
         /\ Item(q, r, Hits(q, S) \cap {r})

\* One more record of a list, or its end: it may be cut short.
List(q) ==
    /\ request[q].op = "getMany"
    /\ UNCHANGED records
    /\ \/ /\ \E S \in Reaches(q) : \E r \in Hits(q, S) : found' = [found EXCEPT ![q] = @ \cup {r}]
          /\ UNCHANGED <<scope, request, status, may, must>>
       \/ End(q) /\ Return(q, "ok", found[q])

\* An upsert that hits nothing creates a record, also where its sender does not reach
\* it: wherever its payload says and, in the scopes of the tree, in no partition at all.
Created(S) == {c \in S \cup {NoCode} : (c # NoCode => S = {c}) /\ (scope = "NODE" => c \in S)}
UpsertNew(q) ==
    /\ request[q].op = "upsert"
    /\ End(q)
    /\ \E S \in Reaches(q) :
         /\ Hits(q, S) = {}
         /\ \/ \E r \in Asked(q), code \in Code \cup Created(S) :
                 /\ records[r] = NoRecord
                 /\ records' = [records EXCEPT ![r] = code]
                 /\ Return(q, "ok", {r})
            \/ /\ \A r \in Asked(q) : records[r] # NoRecord
               /\ request[q].ids # {}
               /\ Return(q, "conflict", {})
               /\ UNCHANGED records

\* A create, or the next item of an import; the first id that is taken ends it.
InsertItem(q) ==
    /\ request[q].op \in InsertOps
    /\ \E r \in request[q].ids :
         \/ records[r] # NoRecord /\ End(q) /\ Return(q, "conflict", found[q]) /\ UNCHANGED records
         \/ /\ records[r] = NoRecord
            /\ \E given \in Stored :
                 records' = [records EXCEPT ![r] = IF request[q].header = NoCode THEN given ELSE request[q].header]
            /\ Item(q, r, {r})

Next ==
    \/ \E q \in Request :
         \/ Issue(q) \/ Nothing(q)
         \/ Operate(q) \/ OperateItem(q) \/ List(q) \/ UpsertNew(q) \/ InsertItem(q)
    \/ Drift

Spec == Init /\ [][Next]_storeVars
=============================================================================
