---------------------------- MODULE SqlReplacement ----------------------------
(***************************************************************************)
(* POST /data-process/replace-domain/sql: page after page of a table is    *)
(* selected by LIMIT and OFFSET, in the order of the primary key, and      *)
(* every row with the old domain is updated, in one transaction that ends  *)
(* with the request.                                                       *)
(*                                                                         *)
(* The transaction is read committed: each page shows what others have     *)
(* committed by then.  The rows it has updated are locked until it ends.   *)
(* This is one table, with a primary key named `_id` and not among         *)
(* skip_tables: the code leaves all other tables alone.                    *)
(***************************************************************************)
EXTENDS Naturals, FiniteSets

CONSTANTS
    Pk,             \* values of the primary key
    PageSize        \* 50000

ASSUME PkAssumption == Pk \subseteq Nat
ASSUME PageSizeAssumption == PageSize \in Nat \ {0}

VARIABLES
    rows,           \* committed: no row, one with the old domain, or one without
    mine,           \* the rows the transaction has updated
    sqlPc,          \* where the request stands
    offset,
    page,           \* the rows of the page that are not done, as they were selected
    hasMore,
    untouched,      \* history: rows there at the start that nobody else wrote since
    shrunk          \* history: a row was deleted since the start

txVars == <<mine, sqlPc, offset, page, hasMore>>
sqlVars == <<rows, txVars, untouched, shrunk>>

State == {"none", "old", "clean"}
Present == {k \in Pk : rows[k] # "none"}
Replacing == sqlPc \in {"select", "update"}

\* What the transaction sees of a row.
Seen(k) == IF k \in mine THEN "clean" ELSE rows[k]

Rank(k) == Cardinality({j \in Present : j <= k})
\* ORDER BY the primary key LIMIT PageSize OFFSET offset.
Selected == {k \in Present : Rank(k) > offset /\ Rank(k) <= offset + PageSize}

-----------------------------------------------------------------------------
ReplaceInTable ==
    /\ ~ Replacing
    /\ sqlPc' = "select"
    /\ mine' = {}
    /\ offset' = 0
    /\ page' = {}
    /\ hasMore' = TRUE
    /\ untouched' = Present
    /\ shrunk' = FALSE
    /\ UNCHANGED rows

\* A mutated form: a page is full when it has more rows than asked for.
FullNever(selected) == Cardinality(selected) > PageSize
Full(selected) == Cardinality(selected) = PageSize

SelectPage ==
    /\ sqlPc = "select"
    /\ page' = {[key |-> k, old |-> Seen(k) = "old"] : k \in Selected}
    /\ hasMore' = Full(Selected)
    /\ sqlPc' = "update"
    /\ UNCHANGED <<rows, mine, offset, untouched, shrunk>>

\* An update by primary key: the row may have gone.
DoRow ==
    /\ sqlPc = "update"
    /\ \E r \in page :
        /\ page' = page \ {r}
        /\ mine' = IF r.old /\ r.key \in Present THEN mine \cup {r.key} ELSE mine
    /\ UNCHANGED <<rows, sqlPc, offset, hasMore, untouched, shrunk>>

NextPage ==
    /\ sqlPc = "update"
    /\ page = {}
    /\ hasMore
    /\ sqlPc' = "select"
    /\ offset' = offset + PageSize
    /\ UNCHANGED <<rows, mine, page, hasMore, untouched, shrunk>>

\* get_db_session commits after the answer is made.
CommitTable ==
    /\ sqlPc = "update"
    /\ page = {}
    /\ ~ hasMore
    /\ rows' = [k \in Pk |-> Seen(k)]
    /\ mine' = {}
    /\ sqlPc' = "done"
    /\ UNCHANGED <<offset, page, hasMore, untouched, shrunk>>

\* A statement raises, or the worker dies: everything is rolled back.
RollbackTable ==
    /\ Replacing
    /\ mine' = {}
    /\ page' = {}
    /\ sqlPc' = "idle"
    /\ UNCHANGED <<rows, offset, hasMore, untouched, shrunk>>

\* Another transaction inserts, updates or deletes a row and commits.
OthersWrite ==
    /\ \E k \in Pk \ mine, row \in State :
        /\ row # rows[k]
        /\ rows' = [rows EXCEPT ![k] = row]
        /\ untouched' = untouched \ {k}
        /\ shrunk' = (shrunk \/ row = "none")
    /\ UNCHANGED txVars

SqlInit ==
    /\ rows = [k \in Pk |-> "none"]
    /\ mine = {}
    /\ sqlPc = "idle"
    /\ offset = 0
    /\ page = {}
    /\ hasMore = FALSE
    /\ untouched = {}
    /\ shrunk = FALSE

SqlNext == ReplaceInTable \/ SelectPage \/ DoRow \/ NextPage \/ CommitTable \/ RollbackTable \/ OthersWrite

SqlSpec == SqlInit /\ [][SqlNext]_sqlVars

-----------------------------------------------------------------------------
\* The transaction only has rows that are there.
SqlTypeOK ==
    /\ rows \in [Pk -> State]
    /\ mine \in SUBSET {k \in Pk : rows[k] # "none"}
    /\ sqlPc \in {"idle", "select", "update", "done"}
    /\ offset \in Nat
    /\ page \in SUBSET [key : Pk, old : BOOLEAN]
    /\ Cardinality(page) <= PageSize
    /\ hasMore \in BOOLEAN
    /\ untouched \in SUBSET Present
    /\ shrunk \in BOOLEAN

\* _process_sql_table: once the request is answered no row that was there from the start
\* and left alone has the old domain, whatever others insert and update between the
\* pages, unless a deletion moved the rows behind it.
NoRowSkipped == sqlPc = "done" /\ ~ shrunk => \A k \in untouched : rows[k] # "old"
=============================================================================
