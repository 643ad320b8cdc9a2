------------------------------ MODULE Increments ------------------------------
(***************************************************************************)
(* IncrementService: the next number of a key is an INCR in Redis; when    *)
(* that call raises, it is an $inc on a document of the Mongo collection   *)
(* counters.  A reset writes both stores, one after the other, and goes on *)
(* when the first of them raises.  Reading a counter changes nothing.      *)
(*                                                                         *)
(* A call that raises may have been carried out: the answer was lost.      *)
(* The names here are those that no code is numbered by; what the same     *)
(* calls do to the key of a code is in CodeNumbers.  Nothing gives a key   *)
(* of such a name an end.                                                  *)
(***************************************************************************)
EXTENDS Integers

CONSTANTS
    Counter,        \* the key names
    Caller,         \* requests
    Base,           \* the values a counter is reset to
    Nowhere,        \* no value
    MaxSeq,         \* bound: no counter goes further
    MaxFailures     \* bound: calls that raise

ASSUME BaseAssumption == Base \subseteq Int /\ Nowhere \notin Int
ASSUME IncrementBounds == MaxSeq \in Nat /\ MaxFailures \in Nat

VARIABLES
    seq,            \* the number each store holds for each key; no entry counts as 0
    call,           \* where each request stands, its key and its value
    failures,       \* counts the calls that raised, for MaxFailures
    given,          \* history: the numbers each store gave since it was last set
    again,          \* history: the numbers a store gave once more since it was last set
    alone,          \* history: the resets that no request on their key overlaps and
                    \* that did not fail, so far
    anew            \* history: what such a reset set both stores to, until the next
                    \* failure or reset of the key

incVars == <<seq, call, failures, given, again, alone, anew>>

Store == {"redis", "mongo"}
Quiet == [pc |-> "quiet"]
Calling == [pc : {"incr", "inc", "set", "update"}, key : Counter, value : Int]

Asks(r, label) == call[r].pc = label
Done(r) == call' = [call EXCEPT ![r] = Quiet]
On(k) == {r \in Caller : call[r] # Quiet /\ call[r].key = k}

\* The request r begins on k; a reset of k that is under way is not alone any more.
Begin(r, label, k, v) ==
    /\ Asks(r, "quiet")
    /\ call' = [call EXCEPT ![r] = [pc |-> label, key |-> k, value |-> v]]
    /\ alone' = (alone \ On(k)) \cup (IF label = "set" /\ On(k) = {} THEN {r} ELSE {})
    /\ UNCHANGED <<seq, failures, given, again>>

\* A call on k raises.
Raises(k) ==
    /\ failures < MaxFailures
    /\ failures' = failures + 1
    /\ alone' = alone \ On(k)
    /\ anew' = [anew EXCEPT ![k] = Nowhere]

-----------------------------------------------------------------------------
GetNextIncrement(r, k) == Begin(r, "incr", k, 0) /\ UNCHANGED anew

\* A mutated form: the number is read and one is added to it, and not stored.
CountedReading(s, k) == IF s = "mongo" THEN seq ELSE [seq EXCEPT ![s][k] = @ + 1]
Counted(s, k) == [seq EXCEPT ![s][k] = @ + 1]

\* The store s counts one further, and the request is answered with that.
Give(s, r) ==
    LET k == call[r].key
        n == seq[s][k] + 1
    IN /\ n <= MaxSeq
       /\ seq' = Counted(s, k)
       /\ given' = [given EXCEPT ![s][k] = @ \cup {n}]
       /\ again' = IF n \in given[s][k] THEN again \cup {<<s, k, n>>} ELSE again
       /\ Done(r)
       /\ UNCHANGED <<failures, alone, anew>>

IncrRedis(r) == Asks(r, "incr") /\ Give("redis", r)
IncMongo(r) == Asks(r, "inc") /\ Give("mongo", r)

\* The store s counts one further, and nobody is told.
LoseCount(s, k) ==
    /\ seq[s][k] < MaxSeq
    /\ seq' = Counted(s, k)
    /\ UNCHANGED <<given, again>>

\* INCR raises, before or after it was counted.
IncrRaises(r) ==
    LET k == call[r].key
    IN /\ Asks(r, "incr")
       /\ Raises(k)
       /\ UNCHANGED <<seq, given, again>> \/ LoseCount("redis", k)
       /\ call' = [call EXCEPT ![r].pc = "inc"]

-----------------------------------------------------------------------------
ResetIncrement(r, k, v) ==
    /\ Begin(r, "set", k, v)
    /\ anew' = [anew EXCEPT ![k] = Nowhere]

\* The store s holds v for k, and what it gave before is of an earlier series.
Set(s, k, v) ==
    /\ seq' = [seq EXCEPT ![s][k] = v]
    /\ given' = [given EXCEPT ![s][k] = {}]
    /\ again' = {a \in again : a[1] # s \/ a[2] # k}

SetRedis(r) ==
    /\ Asks(r, "set")
    /\ Set("redis", call[r].key, call[r].value)
    /\ call' = [call EXCEPT ![r].pc = "update"]
    /\ UNCHANGED <<failures, alone, anew>>

\* SET raises, before or after it was carried out, and the reset goes on.
SetRaises(r) ==
    LET k == call[r].key
    IN /\ Asks(r, "set")
       /\ Raises(k)
       /\ \/ UNCHANGED <<seq, given, again>>
          \/ Set("redis", k, call[r].value)
       /\ call' = [call EXCEPT ![r].pc = "update"]

\* A mutated form: the document is only made when it is missing.
UpdateOnInsert(r) == IF seq["mongo"][call[r].key] = 0 THEN call[r].value ELSE seq["mongo"][call[r].key]
Updated(r) == call[r].value

UpdateMongo(r) ==
    LET k == call[r].key
    IN /\ Asks(r, "update")
       /\ Set("mongo", k, Updated(r))
       /\ Done(r)
       /\ alone' = alone \ {r}
       /\ anew' = [anew EXCEPT ![k] = IF r \in alone THEN call[r].value ELSE @]
       /\ UNCHANGED failures

\* The Mongo call raises, or the worker dies, before or after the call was carried out:
\* the request is answered 500 or not at all.
CallEnds(r) ==
    LET k == call[r].key
    IN /\ ~ Asks(r, "quiet")
       /\ Raises(k)
       /\ \/ UNCHANGED <<seq, given, again>>
          \/ Asks(r, "incr") /\ LoseCount("redis", k)
          \/ Asks(r, "inc") /\ LoseCount("mongo", k)
          \/ Asks(r, "set") /\ Set("redis", k, call[r].value)
          \/ Asks(r, "update") /\ Set("mongo", k, call[r].value)
       /\ Done(r)

-----------------------------------------------------------------------------
IncInit ==
    /\ seq = [s \in Store |-> [k \in Counter |-> 0]]
    /\ call = [r \in Caller |-> Quiet]
    /\ failures = 0
    /\ given = [s \in Store |-> [k \in Counter |-> {}]]
    /\ again = {}
    /\ alone = {}
    /\ anew = [k \in Counter |-> Nowhere]

IncNext ==
    \E r \in Caller :
        \/ \E k \in Counter : GetNextIncrement(r, k)
        \/ \E k \in Counter, v \in Base : ResetIncrement(r, k, v)
        \/ IncrRedis(r) \/ IncrRaises(r) \/ IncMongo(r)
        \/ SetRedis(r) \/ SetRaises(r) \/ UpdateMongo(r)
        \/ CallEnds(r)

IncSpec == IncInit /\ [][IncNext]_incVars

-----------------------------------------------------------------------------
\* A number that was given is one the store has counted.
IncTypeOK ==
    /\ seq \in [Store -> [Counter -> Int]]
    /\ call \in [Caller -> {Quiet} \cup Calling]
    /\ failures \in 0..MaxFailures
    /\ given \in [Store -> [Counter -> SUBSET Int]]
    /\ again \subseteq Store \X Counter \X Int
    /\ alone \subseteq Caller
    /\ anew \in [Counter -> Int \cup {Nowhere}]

\* get_next_increment: between two settings of a store that store gives no number
\* twice, whoever asks, whatever fails and wherever other resets stand.  (Redis and
\* Mongo may give the same number, once each.)
StoreNeverRepeats == again = {}

\* reset_increment: after a reset that nothing on its key overlapped and that failed
\* nowhere, Redis gives the numbers after the value one by one, none left out, and
\* Mongo holds the value, until a call on the key fails or the next reset begins.
ResetStartsAnew ==
    \A k \in Counter : anew[k] # Nowhere =>
        /\ given["redis"][k] = (anew[k] + 1)..seq["redis"][k]
        /\ seq["mongo"][k] = anew[k]
=============================================================================
