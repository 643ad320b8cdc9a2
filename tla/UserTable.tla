------------------------------ MODULE UserTable ------------------------------
(***************************************************************************)
(* What the table of users promises to those who are told of its rows,     *)
(* without transactions, locks and look-ups: each change takes effect in   *)
(* one step, on the table as it then is, and no two users ever share a     *)
(* unique column.  Where the answer leaves before the commit, a user is    *)
(* promised first: the promise holds its columns as a row does, until it   *)
(* is kept or broken.  An id belongs to one user for good.                 *)
(***************************************************************************)
CONSTANTS
    Id,
    Name, Email, Person,
    Admin,      \* whom an answer of the user router is about
    NoKey,      \* a unique column that is null
    NoRow

VARIABLES
    rows,       \* the row of each id
    promised,   \* the users a client was told of that are not in the table yet
    answered,   \* the answers that name a user
    gone        \* users that were removed, and promises that were broken

userVars == <<rows, promised, answered, gone>>

Row == [name : Name, email : Email \cup {NoKey}, sso : Person \cup {NoKey}]
Named == [id : Id, name : Name, for : Person \cup {Admin}, as : Name]

Init ==
    /\ rows = [i \in Id |-> NoRow]
    /\ promised = {}
    /\ answered = {}
    /\ gone = {}

-----------------------------------------------------------------------------
Shared(key, other) == key = other /\ key # NoKey
Clash(a, b) == Shared(a.name, b.name) \/ Shared(a.email, b.email) \/ Shared(a.sso, b.sso)

\* No other user has, or was promised, a unique column of this row.
Unique(i, row) ==
    /\ \A j \in Id \ {i} : rows[j] # NoRow => ~ Clash(row, rows[j])
    /\ \A p \in promised : p.id # i => ~ Clash(row, p.row)

Unused(i) == rows[i] = NoRow /\ i \notin gone /\ \A p \in promised : p.id # i

\* An answer for a person names the person's own row, or the one of that user name.
About(a, row) == a.name = row.name /\ (a.for \in Person => row.sso = a.for \/ row.name = a.as)

Add(i, row) ==
    /\ rows' = [rows EXCEPT ![i] = row]
    /\ Unique(i, row)
    /\ UNCHANGED <<promised, answered, gone>>

\* The first answer about a user, given before the user is in the table.
Promise(i, row) ==
    /\ promised' = promised \cup {[id |-> i, row |-> row]}
    /\ Unique(i, row)
    /\ \E a \in Named : a.id = i /\ About(a, row) /\ answered' = answered \cup {a}
    /\ UNCHANGED <<rows, gone>>

NewUser(i) == Unused(i) /\ \E row \in Row : Add(i, row) \/ Promise(i, row)

Keep(p) ==
    /\ p \in promised
    /\ rows' = [rows EXCEPT ![p.id] = p.row]
    /\ promised' = promised \ {p}
    /\ UNCHANGED <<answered, gone>>

Break(p) ==
    /\ p \in promised
    /\ promised' = promised \ {p}
    /\ gone' = gone \cup {p.id}
    /\ UNCHANGED <<rows, answered>>

SetEmail(i, e) ==
    /\ rows[i] # NoRow
    /\ Unique(i, [rows[i] EXCEPT !.email = e])
    /\ rows' = [rows EXCEPT ![i].email = e]
    /\ UNCHANGED <<promised, answered, gone>>

RemoveUser(i) ==
    /\ rows[i] # NoRow
    /\ rows' = [rows EXCEPT ![i] = NoRow]
    /\ gone' = gone \cup {i}
    /\ UNCHANGED <<promised, answered>>

\* An answer after the commit; the user may have been removed since.
Tell(a) ==
    /\ answered' = answered \cup {a}
    /\ a.id \in gone \/ (rows[a.id] # NoRow /\ About(a, rows[a.id]))
    /\ UNCHANGED <<rows, promised, gone>>

Next ==
    \/ \E i \in Id :
        \/ NewUser(i) \/ RemoveUser(i)
        \/ \E e \in Email \cup {NoKey} : SetEmail(i, e)
    \/ \E p \in promised : Keep(p) \/ Break(p)
    \/ \E a \in Named : Tell(a)

Spec == Init /\ [][Next]_userVars
=============================================================================
