------------------------------- MODULE Accounts -------------------------------
(***************************************************************************)
(* The rows of the SQL table users: create_user, update_user and           *)
(* delete_user of the user router, and SsoService.init_user, which finds   *)
(* or makes the row of a person who comes with a Keycloak token, for       *)
(* sso_login and for get_current_user.                                     *)
(*                                                                         *)
(* A request has one transaction (get_db_session), read committed: it      *)
(* selects, flushes one statement, and is committed when its handler is    *)
(* done.  The answer leaves before the commit or after it, depending on    *)
(* the version of FastAPI.  A flush that meets an uncommitted change of    *)
(* its row, or of a row with one of its keys, waits for that transaction.  *)
(***************************************************************************)
EXTENDS Integers, FiniteSets

CONSTANTS
    MaxAccounts,    \* bound: the last value of `id` the sequence gives out
    AccountRequest,
    Name, Email,
    Person,         \* Keycloak's users, by their `sub`
    NameOf, EmailOf, \* each person's first user name and e-mail address in Keycloak
    Admin,          \* whom the answers of the user router are about
    NoKey,          \* a unique column that is null
    NoRow,
    MaxRenamings    \* bound: changes of a person's user name in Keycloak

ASSUME NameOfAssumption ==
    /\ NameOf \in [Person -> Name]
    /\ \A p, q \in Person : p # q => NameOf[p] # NameOf[q]
ASSUME EmailOfAssumption == EmailOf \in [Person -> Email \cup {NoKey}]
ASSUME AdminAssumption == Admin \notin Person
ASSUME NoKeyAssumption == NoKey \notin Email \cup Person
ASSUME AccountBounds == MaxAccounts \in Nat /\ MaxRenamings \in Nat

AccountId == 1..MaxAccounts
NoId == 0
Row == [name : Name, email : Email \cup {NoKey}, sso : Person \cup {NoKey}]

ASSUME NoRowAssumption == NoRow \notin Row

VARIABLES
    rows,           \* the committed row of each id
    claimed,        \* Keycloak: the preferred_username of each person
    renamings,      \* counts the changes of it, for MaxRenamings
    tx,             \* each request: where it stands, its statement, its row
    lastId,         \* the last id the sequence gave out
    answered,       \* history: the answers that name a user
    gone            \* history: ids that were deleted, or answered and never committed

accVars == <<rows, claimed, renamings, tx, lastId, answered, gone>>

Out == [pc |-> "out"]
\* `as` is the user name the person was looked up by.
Tx == [pc : {"flush", "flushed", "sent", "stored"}, does : {"insert", "update", "delete", "none"},
       id : AccountId \cup {NoId}, row : Row, for : Person \cup {Admin}, as : Name]
Named == [id : AccountId, name : Name, for : Person \cup {Admin}, as : Name]

Stands(r, label) == tx[r].pc = label
Leave(r) == tx' = [tx EXCEPT ![r] = Out]
Exists(i) == rows[i] # NoRow

\* A mutated form: the columns are indexed and not unique.
ClashNever(a, b) == FALSE
\* Two rows that cannot both be in the table.
Clash(a, b) ==
    \/ a.name = b.name
    \/ a.email = b.email /\ a.email # NoKey
    \/ a.sso = b.sso /\ a.sso # NoKey

\* The request q has flushed one of these statements and is not committed.
Open(q, does) == tx[q].pc \in {"flushed", "sent"} /\ tx[q].does \in does

Waits(r) ==
    \E q \in AccountRequest \ {r} :
        \/ Open(q, {"insert", "update"}) /\ Clash(tx[r].row, tx[q].row)
        \/ Open(q, {"update", "delete"}) /\ Clash(tx[r].row, rows[tx[q].id])

Locked(r) == \E q \in AccountRequest \ {r} : Open(q, {"update", "delete"}) /\ tx[q].id = tx[r].id

Taken(r) == \E i \in AccountId \ {tx[r].id} : Exists(i) /\ Clash(tx[r].row, rows[i])

-----------------------------------------------------------------------------
Select(r, does, i, row, for, as) ==
    /\ Stands(r, "out")
    /\ tx' = [tx EXCEPT ![r] = [pc |-> IF does = "none" THEN "flushed" ELSE "flush",
                                does |-> does, id |-> i, row |-> row, for |-> for, as |-> as]]
    /\ UNCHANGED <<rows, claimed, renamings, lastId, answered, gone>>

\* A name that is found is answered 400.
CreateUser(r, n, e) ==
    /\ \A i \in AccountId : Exists(i) => rows[i].name # n
    /\ Select(r, "insert", NoId, [name |-> n, email |-> e, sso |-> NoKey], Admin, n)

\* A mutated form: the row is looked up by e-mail address.
MatchesEmail(p) == {i \in AccountId : Exists(i) /\ (rows[i].sso = p \/ rows[i].email = EmailOf[p])}
Matches(p) == {i \in AccountId : Exists(i) /\ (rows[i].sso = p \/ rows[i].name = claimed[p])}

\* scalar_one_or_none raises for two rows: that is answered 500 or 401.
InitUser(r, p) ==
    LET new == [name |-> claimed[p], email |-> EmailOf[p], sso |-> p]
    IN \/ Matches(p) = {} /\ Select(r, "insert", NoId, new, p, claimed[p])
       \/ Cardinality(Matches(p)) = 1
          /\ \E i \in Matches(p) : Select(r, "none", i, rows[i], p, claimed[p])

\* Of the unique columns only the e-mail address can be set; setting what is there
\* already makes no statement.
UpdateUser(r, i, e) ==
    /\ Exists(i)
    /\ rows[i].email # e
    /\ Select(r, "update", i, [rows[i] EXCEPT !.email = e], Admin, rows[i].name)

DeleteUserRow(r, i) ==
    /\ Exists(i)
    /\ Select(r, "delete", i, rows[i], Admin, rows[i].name)

-----------------------------------------------------------------------------
\* The statement is carried out, or raises: a key is taken, or the row to update is gone.
FlushInsert(r) ==
    /\ Stands(r, "flush") /\ tx[r].does = "insert"
    /\ ~ Waits(r)
    /\ IF Taken(r) THEN Leave(r) /\ UNCHANGED lastId
       ELSE /\ lastId < MaxAccounts
            /\ lastId' = lastId + 1
            /\ tx' = [tx EXCEPT ![r].pc = "flushed", ![r].id = lastId']
    /\ UNCHANGED <<rows, claimed, renamings, answered, gone>>

FlushUpdate(r) ==
    /\ Stands(r, "flush") /\ tx[r].does = "update"
    /\ ~ Locked(r) /\ ~ Waits(r)
    /\ IF Taken(r) \/ ~ Exists(tx[r].id) THEN Leave(r)
       ELSE tx' = [tx EXCEPT ![r].pc = "flushed"]
    /\ UNCHANGED <<rows, claimed, renamings, lastId, answered, gone>>

\* A row that somebody else deleted first is only a warning.
FlushDelete(r) ==
    /\ Stands(r, "flush") /\ tx[r].does = "delete"
    /\ ~ Locked(r)
    /\ tx' = [tx EXCEPT ![r].pc = "flushed", ![r].does = IF Exists(tx[r].id) THEN @ ELSE "none"]
    /\ UNCHANGED <<rows, claimed, renamings, lastId, answered, gone>>

\* What the commit of r makes of the table.
AfterCommit(r) ==
    CASE tx[r].does = "insert" -> [rows EXCEPT ![tx[r].id] = tx[r].row]
      [] tx[r].does = "update" -> [rows EXCEPT ![tx[r].id].email = tx[r].row.email]
      [] tx[r].does = "delete" -> [rows EXCEPT ![tx[r].id] = NoRow]
      [] OTHER -> rows

Commit(r) ==
    /\ tx[r].pc \in {"flushed", "sent"}
    /\ rows' = AfterCommit(r)
    /\ gone' = IF tx[r].does = "delete" THEN gone \cup {tx[r].id} ELSE gone
    /\ IF Stands(r, "sent") THEN Leave(r) ELSE tx' = [tx EXCEPT ![r].pc = "stored"]
    /\ UNCHANGED <<claimed, renamings, lastId, answered>>

\* The answer of create_user and of a login tells whose row it is; the others need not
\* be remembered.
Names(r) == tx[r].does = "insert" \/ tx[r].for # Admin

SendAnswer(r) ==
    LET a == [id |-> tx[r].id, name |-> tx[r].row.name, for |-> tx[r].for, as |-> tx[r].as]
    IN /\ tx[r].pc \in {"flushed", "stored"}
       /\ answered' = IF Names(r) THEN answered \cup {a} ELSE answered
       /\ IF Stands(r, "stored") THEN Leave(r) ELSE tx' = [tx EXCEPT ![r].pc = "sent"]
       /\ UNCHANGED <<rows, claimed, renamings, lastId, gone>>

\* The handler raises (a person without the role is answered 403), a call fails or the
\* worker dies: the transaction is rolled back, the row of a first login with it.
Rollback(r) ==
    /\ ~ Stands(r, "out")
    /\ gone' = IF Stands(r, "sent") /\ tx[r].does = "insert" THEN gone \cup {tx[r].id} ELSE gone
    /\ Leave(r)
    /\ UNCHANGED <<rows, claimed, renamings, lastId, answered>>

\* Keycloak: user names are unique there too.
RenamePerson(p, n) ==
    /\ renamings < MaxRenamings
    /\ \A q \in Person : claimed[q] # n
    /\ renamings' = renamings + 1
    /\ claimed' = [claimed EXCEPT ![p] = n]
    /\ UNCHANGED <<rows, tx, lastId, answered, gone>>

-----------------------------------------------------------------------------
AccInit ==
    /\ rows = [i \in AccountId |-> NoRow]
    /\ claimed = NameOf
    /\ renamings = 0
    /\ tx = [r \in AccountRequest |-> Out]
    /\ lastId = 0
    /\ answered = {}
    /\ gone = {}

AccNext ==
    \/ \E r \in AccountRequest :
        \/ \E n \in Name, e \in Email \cup {NoKey} : CreateUser(r, n, e)
        \/ \E p \in Person : InitUser(r, p)
        \/ \E i \in AccountId, e \in Email \cup {NoKey} : UpdateUser(r, i, e)
        \/ \E i \in AccountId : DeleteUserRow(r, i)
        \/ FlushInsert(r) \/ FlushUpdate(r) \/ FlushDelete(r)
        \/ Commit(r) \/ SendAnswer(r) \/ Rollback(r)
    \/ \E p \in Person, n \in Name : RenamePerson(p, n)

AccSpec == AccInit /\ [][AccNext]_accVars

-----------------------------------------------------------------------------
\* The rows of the table differ in their unique columns.
AccTypeOK ==
    /\ rows \in [AccountId -> Row \cup {NoRow}]
    /\ \A i, j \in AccountId : i # j /\ Exists(i) /\ Exists(j) => ~ Clash(rows[i], rows[j])
    /\ claimed \in [Person -> Name]
    /\ renamings \in 0..MaxRenamings
    /\ tx \in [AccountRequest -> {Out} \cup Tx]
    /\ lastId \in 0..MaxAccounts
    /\ answered \subseteq Named
    /\ gone \subseteq 1..lastId

\* create_user and first logins: two answers that name users of one user name name the
\* same user, unless one of the two was deleted or its commit failed after the answer,
\* however many requests found the name free at first.
OneUserPerName ==
    \A a, b \in answered : a.name = b.name /\ a.id # b.id => {a.id, b.id} \cap gone # {}

\* init_user: a person who is not renamed between two logins is the same user in both,
\* whatever becomes of e-mail addresses and of other rows, unless that user is gone.
OneUserPerPerson ==
    \A a, b \in answered :
        a.for \in Person /\ a.for = b.for /\ a.as = b.as /\ a.id # b.id => {a.id, b.id} \cap gone # {}

\* What clients see of the table is what UserTable promises: a transaction that looks,
\* waits and writes in separate steps takes effect as a whole when it is committed, on the
\* table as it is then, and a user named in an answer before the commit is held free for
\* it; nobody else ever gets a column, or the id, of that user.
Answering == {r \in AccountRequest : Stands(r, "sent") /\ tx[r].does = "insert"}
Promised == {[id |-> tx[r].id, row |-> tx[r].row] : r \in Answering}

Users == INSTANCE UserTable WITH Id <- AccountId, promised <- Promised
ImplementsUserTable == Users!Spec
=============================================================================
