----------------------------- MODULE CodeNumbers -----------------------------
(***************************************************************************)
(* The codes of QuyTacMaService.  A number comes from INCR on a Redis key; *)
(* the request that got 1 gives the key its time to live with a second     *)
(* call.  A code of generate_code with a date has that date in its key as  *)
(* well; without a date, and in the sequences of a configured rule, the    *)
(* key outlives the day and ends in the middle of a series.                *)
(*                                                                         *)
(* The key has the partition and the entity in it, its owner here, and the *)
(* code has not.  The routes of IncrementService take any name: they may   *)
(* count the key of a code further, or set it, which takes its end away.   *)
(***************************************************************************)
EXTENDS Integers

CONSTANTS
    Request,
    Owner,          \* who codes are made for: a partition and an entity
    Prefix,         \* the prefixes of codes, or the functions of a rule
    Kind,           \* the kinds of code that are asked for
    Value,          \* the values a key is set to
    DayLength,      \* the clock's steps in a day
    DatedLife,      \* the time to live of generate_code's keys
    SequenceLife,   \* the time to live of _get_next_sequence's keys
    MaxAge,         \* no request takes longer
    Horizon,        \* bound: the clock stops here
    MaxNumber,      \* bound: no key counts further
    MaxSettings     \* bound: no key is set more often

ASSUME KindAssumption == Kind \subseteq {"dated", "undated", "sequence"}
ASSUME ValueAssumption == Value \subseteq Int
ASSUME LengthAssumption == DayLength \in Nat \ {0} /\ Horizon \in Nat
ASSUME LifeAssumption == DatedLife \in Nat \ {0} /\ SequenceLife \in Nat \ {0}
\* The code sets two days; a request is over within the second one.
ASSUME AgeAssumption == MaxAge \in Nat /\ DayLength + MaxAge <= DatedLife
ASSUME CodeBounds == MaxNumber \in Nat /\ MaxSettings \in Nat

VARIABLES
    now,
    present,        \* the keys that are there
    count,          \* the value of each key, 0 when it is not there
    expires,        \* when each key ends
    req,            \* each request: where it stands, its key, its number, when it came
    settings,       \* history: how often each key was set
    issued,         \* history: the codes that were returned, to whom, and how often
                    \* their key had been set when they got their number
    repeated        \* history: those of them that were returned again

vars == <<now, present, count, expires, req, settings, issued, repeated>>

NoDate == -1
Never == -1
Date == 0..(Horizon \div DayLength)
Key == {k \in [kind : Kind, owner : Owner, prefix : Prefix, date : Date \cup {NoDate}] :
          k.kind = "dated" <=> k.date # NoDate}
Working == [pc : {"incr", "expire"}, key : Key, number : Int, setting : Nat, since : 0..Horizon]
Idle == [pc |-> "idle"]
\* The parts of a code, from which its text is put together.
Code == [kind : Kind, prefix : Prefix, date : Date \cup {NoDate}, number : Int]
Issue == [code : Code, owner : Owner, setting : Nat]

Today == now \div DayLength
At(r, label) == req[r].pc = label
Finish(r) == req' = [req EXCEPT ![r] = Idle]

-----------------------------------------------------------------------------
\* generate_code with and without include_date; get_ma comes here too, for a source
\* without a rule or with a rule that gave no part.
KeyOf(kind, owner, prefix) ==
    [kind |-> kind, owner |-> owner, prefix |-> prefix, date |-> IF kind = "dated" THEN Today ELSE NoDate]

GetMa(r) ==
    /\ At(r, "idle")
    /\ \E kind \in Kind, owner \in Owner, prefix \in Prefix :
        req' = [req EXCEPT ![r] = [pc |-> "incr", key |-> KeyOf(kind, owner, prefix),
                                   number |-> 0, setting |-> 0, since |-> now]]
    /\ UNCHANGED <<now, present, count, expires, settings, issued, repeated>>

CodeOf(k, n) == [kind |-> k.kind, prefix |-> k.prefix, date |-> k.date, number |-> n]

\* Request r is answered with number n, which it got when its key had been set e times.
Return(r, n, e) ==
    LET issue == [code |-> CodeOf(req[r].key, n), owner |-> req[r].key.owner, setting |-> e]
    IN /\ Finish(r)
       /\ issued' = issued \cup {issue}
       /\ repeated' = IF issue \in issued THEN repeated \cup {issue} ELSE repeated

\* INCR makes a key that is not there.
Count(k) ==
    /\ count[k] < MaxNumber
    /\ count' = [count EXCEPT ![k] = @ + 1]
    /\ present' = present \cup {k}
    /\ UNCHANGED <<now, expires, settings>>

\* A mutated form: the time to live is set again with every number.
IsFirstAlways(n) == TRUE
IsFirst(n) == n = 1

Incr(r) ==
    LET k == req[r].key
        n == count[k] + 1
    IN /\ At(r, "incr")
       /\ Count(k)
       /\ IF IsFirst(n)
            THEN /\ req' = [req EXCEPT ![r].pc = "expire", ![r].number = n, ![r].setting = settings[k]]
                 /\ UNCHANGED <<issued, repeated>>
            ELSE Return(r, n, settings[k])

\* A mutated form: a key lives for one day.
LifeOfADay(k) == DayLength
LifeOf(k) == IF k.kind = "sequence" THEN SequenceLife ELSE DatedLife

\* EXPIRE on a key that is not there does nothing.
Expire(r) ==
    LET k == req[r].key
    IN /\ At(r, "expire")
       /\ expires' = IF k \in present THEN [expires EXCEPT ![k] = now + LifeOf(k)] ELSE expires
       /\ Return(r, req[r].number, req[r].setting)
       /\ UNCHANGED <<now, present, count, settings>>

\* get_next_increment under the name of this key: nobody gives it an end.
TakenByIncrement(k) == Count(k) /\ UNCHANGED <<req, issued, repeated>>

\* reset_increment under the name of this key: SET, which leaves no end.
SetByIncrement(k, v) ==
    /\ settings[k] < MaxSettings
    /\ settings' = [settings EXCEPT ![k] = @ + 1]
    /\ present' = present \cup {k}
    /\ count' = [count EXCEPT ![k] = v]
    /\ expires' = [expires EXCEPT ![k] = Never]
    /\ UNCHANGED <<now, req, issued, repeated>>

\* A call raises or the worker dies; between the two calls the key stays for good.
Abort(r) ==
    /\ ~ At(r, "idle")
    /\ Finish(r)
    /\ UNCHANGED <<now, present, count, expires, settings, issued, repeated>>

\* Time passes, and Redis drops the keys whose time has come.
Tick ==
    /\ now < Horizon
    /\ \A r \in Request : ~ At(r, "idle") => now < req[r].since + MaxAge
    /\ now' = now + 1
    /\ present' = {k \in present : expires[k] # now + 1}
    /\ count' = [k \in Key |-> IF expires[k] = now + 1 THEN 0 ELSE count[k]]
    /\ expires' = [k \in Key |-> IF expires[k] = now + 1 THEN Never ELSE expires[k]]
    /\ UNCHANGED <<req, settings, issued, repeated>>

Init ==
    /\ now = 0
    /\ present = {}
    /\ count = [k \in Key |-> 0]
    /\ expires = [k \in Key |-> Never]
    /\ req = [r \in Request |-> Idle]
    /\ settings = [k \in Key |-> 0]
    /\ issued = {}
    /\ repeated = {}

Next ==
    \/ \E r \in Request : GetMa(r) \/ Incr(r) \/ Expire(r) \/ Abort(r)
    \/ \E k \in Key : TakenByIncrement(k) \/ \E v \in Value : SetByIncrement(k, v)
    \/ Tick

Spec == Init /\ [][Next]_vars

-----------------------------------------------------------------------------
\* A key that ends is there, and ends later than now.
TypeOK ==
    /\ now \in 0..Horizon
    /\ present \subseteq Key
    /\ count \in [Key -> Int]
    /\ expires \in [Key -> Nat \cup {Never}]
    /\ req \in [Request -> {Idle} \cup Working]
    /\ settings \in [Key -> Nat]
    /\ \A k \in Key : expires[k] # Never => k \in present /\ now < expires[k]
    /\ \A k \in Key : k \notin present => count[k] = 0
    /\ issued \subseteq Issue
    /\ repeated \subseteq issued

\* generate_code returns one dated code twice only to different partitions or entities,
\* whose numbers are counted apart, or when its key was set between the two INCRs: also
\* a request that is still on its way when its day has ended finds the key of that day
\* still there.
DatedCodesDistinct == \A c \in repeated : c.code.kind # "dated"

\* A key that was never set keeps the end it has: numbers do not prolong the series they
\* belong to, and no other request gives it another end.
EndIsFixed ==
    [][\A k \in Key : settings[k] = 0 /\ expires[k] # Never => expires'[k] \in {expires[k], Never}]_vars
=============================================================================
