------------------------------ MODULE ImportRows ------------------------------
(***************************************************************************)
(* BaseImportService.insert_import over one collection, with the hooks of  *)
(* its subclasses, for several imports at once.  A row is checked, and     *)
(* unless the import is a dry run it is created, or looked up by its key   *)
(* column and then updated or created: one or two awaited calls.           *)
(*                                                                         *)
(* The lookup asks the collection itself, the update asks through the      *)
(* repository, which adds the condition of its scope, and sets every       *)
(* column of the row, its dataPartitionCode too.  A service may be given   *)
(* a repository of any scope.  What the walk of a scope over the tree of   *)
(* partitions brings is PartitionedRepository's matter: here it is any set *)
(* of partitions with that of the header.                                  *)
(***************************************************************************)
EXTENDS Naturals, Sequences

CONSTANTS
    Import,         \* imports, each of which runs once
    Sheets,         \* the lists of rows that may be imported
    Scopes,         \* the scopes of the repositories of the collection
    Key,            \* values of the key column
    Partition,
    None,           \* no such column in a row, no header, no document found, no import
    DocId

ASSUME NoneAssumption == None \notin Key \cup Partition \cup DocId \cup Import
\* A row has a key column or not, and a dataPartitionCode or not.
RowData == [key : Key \cup {None}, code : Partition \cup {None}]
ASSUME SheetsAssumption == \A s \in Sheets : s \in Seq(RowData) /\ s # << >>
ASSUME ScopesAssumption == Scopes \subseteq {"NODE", "SUBTREE", "ROOT_PATH", "GLOBAL"}

VARIABLES
    docs,           \* the documents of the collection
    imp,            \* each import: its arguments, the row it is at, what its lookup found
    errors,         \* the rows of each import that have errors
    stored,         \* history: the rows that were written
    crossed         \* history: keys created by CREATE, or by lookups that overlapped

vars == <<docs, imp, errors, stored, crossed>>

Mode == {"CREATE", "UPDATE", "UPSERT"}
\* `by` stands for the other columns: the import that wrote them last.
Doc == [id : DocId, key : Key \cup {None}, code : Partition \cup {None}, by : Import \cup {None}]
At(i, label) == imp[i].pc = label
RowKey(i) == imp[i].sheet[imp[i].row].key
RowCode(i) == imp[i].sheet[imp[i].row].code

-----------------------------------------------------------------------------
Start(i) ==
    /\ At(i, "idle")
    /\ \E m \in Mode, d, h \in BOOLEAN, p \in Partition \cup {None}, c \in Scopes, s \in Sheets :
        imp' = [imp EXCEPT ![i] = [pc |-> "check", mode |-> m, dry |-> d, hooked |-> h, header |-> p,
                                   scope |-> c, sheet |-> s, row |-> 1, found |-> None]]
    /\ UNCHANGED <<docs, errors, stored, crossed>>

LastRow(i) == imp[i].row = Len(imp[i].sheet)

\* The next row, or the report.
AfterRow(i) ==
    IF LastRow(i) THEN [imp EXCEPT ![i].pc = "done", ![i].found = None]
                  ELSE [imp EXCEPT ![i].pc = "check", ![i].found = None, ![i].row = @ + 1]

\* The services of users and settings are hooked: their preprocess_import wraps every
\* row, and insert_import wraps it again, so that their check opens the inner wrapper,
\* which has no such column. The base service accepts every row.
Column(i) == IF imp[i].hooked THEN None ELSE RowKey(i)
Valid(i) == imp[i].hooked => Column(i) # None

Inserts(i) == ~ imp[i].dry

Check(i) ==
    /\ At(i, "check")
    /\ IF ~ Valid(i)
         THEN imp' = AfterRow(i) /\ errors' = [errors EXCEPT ![i] = @ \cup {imp[i].row}]
         ELSE /\ UNCHANGED errors
              /\ imp' = IF ~ Inserts(i) THEN AfterRow(i)
                        ELSE [imp EXCEPT ![i].pc = IF imp[i].mode = "CREATE" THEN "create" ELSE "find"]
    /\ UNCHANGED <<docs, stored, crossed>>

\* A mutated form: the filter names a column no document has.
MatchesByChance(d, k) == k = None
\* The filter of a row without the key column is empty, and anything matches it.
Matches(d, k) == k = None \/ d.key = k
\* Imports that did not find k and are about to create it.
Late(k) == {i \in Import : At(i, "create") /\ imp[i].mode = "UPSERT" /\ RowKey(i) = k}

Find(i) ==
    LET matching == {d \in docs : Matches(d, RowKey(i))}
    IN /\ At(i, "find")
       /\ \/ \E d \in matching :
                imp' = [imp EXCEPT ![i].pc = "update", ![i].found = d.id]
          \/ /\ matching = {}
             /\ imp' = IF imp[i].mode = "UPSERT" THEN [imp EXCEPT ![i].pc = "create"]
                                                 ELSE AfterRow(i)
       /\ crossed' = IF Late(RowKey(i)) = {} THEN crossed ELSE crossed \cup {RowKey(i)}
       /\ UNCHANGED <<docs, errors, stored>>

Stored == Partition \cup {None}
\* A mutated form: the update asks the collection itself, as the lookup does.
ConditionsNone(i) == {Stored}
\* get_data_partition_condition: the codes that the update of a row may be admitted to.
Conditions(i) ==
    CASE imp[i].header = None \/ imp[i].scope = "GLOBAL" -> {Stored}
      [] imp[i].header # None /\ imp[i].scope = "NODE" -> {{imp[i].header}}
      [] OTHER -> {S \in SUBSET Partition : imp[i].header \in S}

\* A row without a column leaves what the document has.
Written(column, old) == IF column = None THEN old ELSE column

\* update_by_id sets the columns of the row; when nothing matches it returns None,
\* which is no error.
Update(i) ==
    /\ At(i, "update")
    /\ \E S \in Conditions(i) :
         LET hit == {d \in docs : d.id = imp[i].found /\ d.code \in S}
             Set(d) == [d EXCEPT !.key = Written(RowKey(i), @), !.code = Written(RowCode(i), @), !.by = i]
         IN /\ docs' = (docs \ hit) \cup {Set(d) : d \in hit}
            /\ stored' = IF hit = {} THEN stored ELSE stored \cup {<<i, imp[i].row>>}
    /\ imp' = AfterRow(i)
    /\ UNCHANGED <<errors, crossed>>

\* create asks for the NODE condition whatever the scope: the header's code replaces
\* the row's.
CreatedCode(i) == IF imp[i].header = None THEN RowCode(i) ELSE imp[i].header

\* An _id is not given out again: none that a lookup found is taken.
Create(i) ==
    /\ At(i, "create")
    /\ \E n \in DocId :
        /\ \A d \in docs : d.id # n
        /\ \A j \in Import : imp[j].found # n
        /\ docs' = docs \cup {[id |-> n, key |-> RowKey(i), code |-> CreatedCode(i), by |-> i]}
    /\ stored' = stored \cup {<<i, imp[i].row>>}
    /\ crossed' = IF imp[i].mode = "CREATE" THEN crossed \cup {RowKey(i)} ELSE crossed
    /\ imp' = AfterRow(i)
    /\ UNCHANGED errors

\* A mutated form: the exception is swallowed.
ErrorsAfterFailureNone(i) == errors
ErrorsAfterFailure(i) == [errors EXCEPT ![i] = @ \cup {imp[i].row}]

\* The call raises; the rows that follow are still imported.
Fail(i) ==
    /\ imp[i].pc \in {"find", "update", "create"}
    /\ errors' = ErrorsAfterFailure(i)
    /\ imp' = AfterRow(i)
    /\ UNCHANGED <<docs, stored, crossed>>

\* delete_item, one of the generic routes of the collection.
Delete(d) ==
    /\ docs' = docs \ {d}
    /\ UNCHANGED <<imp, errors, stored, crossed>>

Init ==
    /\ \E n \in DocId, k \in Key, p \in Partition \cup {None} :
        docs \in {{}, {[id |-> n, key |-> k, code |-> p, by |-> None]}}
    /\ imp = [i \in Import |-> [pc |-> "idle", mode |-> "CREATE", dry |-> FALSE, hooked |-> FALSE, header |-> None,
                                scope |-> "NODE", sheet |-> << >>, row |-> 1, found |-> None]]
    /\ errors = [i \in Import |-> {}]
    /\ stored = {}
    /\ crossed = {}

Insert(i) == Find(i) \/ Update(i) \/ Create(i) \/ Fail(i)

Next ==
    \/ \E i \in Import : Start(i) \/ Check(i) \/ Insert(i)
    \/ \E d \in docs : Delete(d)

Spec == Init /\ [][Next]_vars

-----------------------------------------------------------------------------
\* The errors an import reports are of rows it has been through.
TypeOK ==
    /\ docs \in SUBSET Doc
    /\ \A i \in Import : /\ imp[i].pc \in {"idle", "check", "find", "update", "create", "done"}
                         /\ imp[i].mode \in Mode
                         /\ At(i, "idle") \/ imp[i].row \in 1..Len(imp[i].sheet)
                         /\ imp[i].found \in DocId <=> At(i, "update")
                         /\ errors[i] \subseteq 1..Len(imp[i].sheet)
    /\ crossed \subseteq Key \cup {None}

\* A key is held twice only when CREATE was asked for, or when two imports both looked
\* for it before either had created it.
UpsertKeepsKeysUnique ==
    \A d, e \in docs : d.key = e.key /\ d.key \notin crossed => d = e

\* What an import with a header does to the partitions: it creates documents in that of
\* its header only, whatever its rows say; it moves a document only to the partition its
\* row names; and through a repository of the scope NODE it changes only documents that
\* are in that of its header when it writes, also when its lookup found another or what
\* it found was moved since.
MovesAsTold ==
    [][\A i \in Import : (Update(i) \/ Create(i)) /\ imp[i].header # None =>
        /\ \A d \in docs \ docs' : imp[i].scope = "NODE" => d.code = imp[i].header
        /\ \A d \in docs' \ docs :
              \/ \E e \in docs : e.id = d.id /\ d.code = Written(RowCode(i), e.code)
              \/ d.code = imp[i].header /\ \A e \in docs : e.id # d.id]_vars

Accepted(i, n) == At(i, "done") /\ ~ imp[i].dry /\ n \notin errors[i]

\* A row CREATE reported without error was stored, whatever became of the others.
CreatedIsStored ==
    \A i \in Import : imp[i].mode = "CREATE" =>
        \A n \in 1..Len(imp[i].sheet) : Accepted(i, n) => <<i, n>> \in stored
=============================================================================
