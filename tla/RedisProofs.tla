------------------------------ MODULE RedisProofs ------------------------------
(***************************************************************************)
(* Theorems about the three services that only need Redis to be atomic     *)
(* call by call: the codes of CodeNumbers, for any number of requests,     *)
(* owners and prefixes and any calls of the increments on their keys; the  *)
(* counters of Increments, for any number of requests, keys, failures and  *)
(* values to reset to; and the leader's key of CronLeader, for any number  *)
(* of servers and any lease.                                               *)
(*                                                                         *)
(* A code request holds the key of the day it came on and is over before   *)
(* that key can end (ReqInv, LifeInv); so as long as somebody may still    *)
(* take a number from a dated key, the key counts what it has given out    *)
(* since it was last set (IssuedInv), and the first number has one taker   *)
(* (PendingInv).  A key that was never set stays without an end until      *)
(* that one taker gives it one (PresentInv, FirstInv).                     *)
(***************************************************************************)
EXTENDS CodeNumbers, Increments, CronLeader, TLAPS

DateStart(k) == k.date * DayLength
\* The key of a day ends then, or later.
EarliestEnd(k) == DateStart(k) + DatedLife
Open(k) == now < EarliestEnd(k)
\* The key that counted an issue.
KeyFor(c) == [kind |-> c.code.kind, owner |-> c.owner, prefix |-> c.code.prefix, date |-> c.code.date]

ReqInv == \A r \in Request : req[r] \in Working /\ req[r].key.kind = "dated" =>
    /\ req[r].since <= now /\ now <= req[r].since + MaxAge
    /\ DateStart(req[r].key) <= req[r].since
    /\ req[r].since < DateStart(req[r].key) + DayLength

LifeInv == \A k \in Key : k.kind = "dated" /\ expires[k] # Never => EarliestEnd(k) <= expires[k]

\* The issue c is counted by its key.
Counts(c) ==
    LET k == KeyFor(c)
    IN c.setting <= settings[k] /\ (Open(k) /\ c.setting = settings[k] => c.code.number <= count[k])

IssuedInv == \A c \in issued : KeyFor(c) \in Key /\ (c.code.kind = "dated" => Counts(c))

\* Nobody else has, or gets, the first number that r will return.
Alone(r) ==
    /\ \A c \in issued : KeyFor(c) = req[r].key /\ c.setting = req[r].setting => c.code.number # 1
    /\ \A q \in Request :
         At(q, "expire") /\ req[q].key = req[r].key /\ req[q].setting = req[r].setting => q = r
    /\ req[r].setting = settings[req[r].key] => 1 <= count[req[r].key]

PendingInv == \A r \in Request : At(r, "expire") =>
    /\ req[r].number = 1 /\ req[r].setting <= settings[req[r].key]
    /\ req[r].key.kind = "dated" => Alone(r)

PresentInv == \A k \in Key : settings[k] = 0 /\ k \in present => 1 <= count[k]

FirstInv == \A r \in Request : At(r, "expire") /\ settings[req[r].key] = 0 =>
    /\ req[r].key \in present /\ expires[req[r].key] = Never
    /\ \A q \in Request : At(q, "expire") /\ req[q].key = req[r].key => q = r

IInv ==
    /\ TypeOK /\ ReqInv /\ LifeInv /\ PresentInv
    /\ IssuedInv /\ PendingInv /\ FirstInv /\ DatedCodesDistinct

\* Days are numbered in order and a moment lies within its day.
LEMMA DayOfMoment ==
    ASSUME NEW n \in Nat, NEW m \in Nat, n <= m, NEW d \in Nat \ {0}
    PROVE  /\ n \div d \in Nat /\ n \div d <= m \div d
           /\ (n \div d) * d <= n /\ n < (n \div d) * d + d
<1>1. n \div d \in Nat /\ n \div d <= m \div d
  BY SMT
<1>2. (n \div d) * d <= n /\ n < (n \div d) * d + d
  BY SMT
<1> QED BY <1>1, <1>2

\* The first bound and start of a key are integers.
LEMMA EndIsInt == ASSUME NEW k \in Key PROVE DateStart(k) \in Int /\ EarliestEnd(k) \in Int
<1>1. k.date \in Int
  <2>1. Horizon \div DayLength \in Int
    BY LengthAssumption, DayOfMoment
  <2> QED BY <2>1 DEF Key, Date, NoDate
<1> QED BY <1>1, LengthAssumption, LifeAssumption DEF DateStart, EarliestEnd

\* While a request holds a dated key, that key cannot have ended.
LEMMA HeldIsOpen ==
    ASSUME TypeOK, ReqInv, NEW r \in Request, req[r] \in Working, req[r].key.kind = "dated"
    PROVE  Open(req[r].key)
<1>1. req[r].key \in Key /\ req[r].since \in Int /\ now \in Int
  BY DEF TypeOK, Working
<1>2. DateStart(req[r].key) \in Int
  BY <1>1, EndIsInt
<1> QED BY <1>1, <1>2, LengthAssumption, AgeAssumption, LifeAssumption DEF ReqInv, Open, EarliestEnd

\* The key of an issue is the one its code was made for.
LEMMA KeyForIssue ==
    ASSUME NEW k \in Key, NEW n, NEW e
    PROVE  KeyFor([code |-> CodeOf(k, n), owner |-> k.owner, setting |-> e]) = k
BY DEF KeyFor, CodeOf, Key
-----------------------------------------------------------------------------
\* The key a request is given is one of the keys, with the date of today.
LEMMA KeyOfIsKey ==
    ASSUME TypeOK, NEW kind \in Kind, NEW owner \in Owner, NEW prefix \in Prefix
    PROVE  KeyOf(kind, owner, prefix) \in Key
<1>1. now \in Nat /\ Horizon \in Nat /\ now <= Horizon
  BY LengthAssumption DEF TypeOK
<1>2. Today \in Date /\ Today # NoDate
  BY <1>1, DayOfMoment, LengthAssumption DEF Today, Date, NoDate
<1> QED BY <1>2 DEF KeyOf, Key

\* Returning the number of a request adds an issue.
LEMMA ReturnType ==
    ASSUME TypeOK, NEW r \in Request, req[r] \in Working, NEW n \in Int, NEW e \in Nat, Return(r, n, e)
    PROVE  /\ issued' \subseteq Issue /\ repeated' \subseteq issued'
           /\ req' \in [Request -> {Idle} \cup Working]
<1> DEFINE issue == [code |-> CodeOf(req[r].key, n), owner |-> req[r].key.owner, setting |-> e]
<1>1. issue \in Issue
  BY DEF Working, Key, CodeOf, Code, Issue
<1>2. /\ issued' = issued \cup {issue}
      /\ repeated' = (IF issue \in issued THEN repeated \cup {issue} ELSE repeated)
      /\ req' = [req EXCEPT ![r] = Idle]
  BY DEF Return, Finish
<1> QED BY <1>1, <1>2 DEF TypeOK

\* A request that is under way is a Working record.
LEMMA BusyIsWorking ==
    ASSUME TypeOK, NEW r \in Request, ~ At(r, "idle")
    PROVE  req[r] \in Working
BY DEF TypeOK, At, Idle

\* Counting a key.
LEMMA CountType ==
    ASSUME TypeOK, NEW k \in Key, Count(k)
    PROVE  /\ count' = [count EXCEPT ![k] = count[k] + 1] /\ present' = present \cup {k}
           /\ UNCHANGED <<now, expires, settings>> /\ count[k] \in Int
           /\ present' \subseteq Key /\ count' \in [Key -> Int]
           /\ \A l \in Key : expires'[l] # Never => l \in present' /\ now' < expires'[l]
           /\ \A l \in Key : l \notin present' => count'[l] = 0
<1>1. /\ count' = [count EXCEPT ![k] = count[k] + 1] /\ present' = present \cup {k}
      /\ UNCHANGED <<now, expires, settings>> /\ count[k] \in Int
  BY DEF Count, TypeOK
<1> QED BY <1>1 DEF TypeOK

\* The types hold at first.
LEMMA TypeInit == Init => TypeOK
BY LengthAssumption DEF Init, TypeOK

\* Every step keeps the types.
LEMMA TypeStep == TypeOK /\ [Next]_vars => TypeOK'
<1> SUFFICES ASSUME TypeOK, [Next]_vars PROVE TypeOK'
  OBVIOUS
<1>1. ASSUME NEW r \in Request, GetMa(r) PROVE TypeOK'
  <2>1. PICK kind \in Kind, owner \in Owner, prefix \in Prefix :
          req' = [req EXCEPT ![r] = [pc |-> "incr", key |-> KeyOf(kind, owner, prefix),
                                     number |-> 0, setting |-> 0, since |-> now]]
    BY <1>1 DEF GetMa
  <2>2. [pc |-> "incr", key |-> KeyOf(kind, owner, prefix), number |-> 0, setting |-> 0, since |-> now]
            \in Working
    BY KeyOfIsKey DEF Working, TypeOK
  <2>3. req' \in [Request -> {Idle} \cup Working]
    BY <2>1, <2>2 DEF TypeOK
  <2> QED BY <1>1, <2>3 DEF GetMa, TypeOK
<1>2. ASSUME NEW r \in Request, Incr(r) PROVE TypeOK'
  <2> DEFINE k == req[r].key
             n == count[k] + 1
  <2>1. req[r] \in Working /\ k \in Key /\ Count(k)
    BY <1>2, BusyIsWorking DEF Incr, At, Working
  <2>2. n \in Int /\ settings[k] \in Nat
    BY <2>1 DEF TypeOK
  <2>3. req' \in [Request -> {Idle} \cup Working] /\ issued' \subseteq Issue /\ repeated' \subseteq issued'
    <3>1. CASE IsFirst(n)
      <4>1. /\ req' = [req EXCEPT ![r].pc = "expire", ![r].number = n, ![r].setting = settings[k]]
            /\ UNCHANGED <<issued, repeated>>
        BY <1>2, <3>1 DEF Incr
      <4>2. [req[r] EXCEPT !.pc = "expire", !.number = n, !.setting = settings[k]] \in Working
        BY <2>1, <2>2 DEF Working
      <4> QED BY <4>1, <4>2 DEF TypeOK
    <3>2. CASE ~ IsFirst(n)
      <4>1. Return(r, n, settings[k])
        BY <1>2, <3>2 DEF Incr
      <4> QED BY <4>1, <2>1, <2>2, ReturnType
    <3> QED BY <3>1, <3>2
  <2>4. UNCHANGED <<now, expires, settings>>
    BY <2>1, CountType
  <2> QED BY <2>1, <2>3, <2>4, CountType DEF TypeOK
<1>3. ASSUME NEW r \in Request, Expire(r) PROVE TypeOK'
  <2> DEFINE k == req[r].key
  <2>1. req[r] \in Working
    BY <1>3, BusyIsWorking DEF Expire, At
  <2>2. k \in Key /\ req[r].number \in Int /\ req[r].setting \in Nat /\ LifeOf(k) \in Nat \ {0} /\ now \in Nat
    BY <2>1, LifeAssumption DEF Working, LifeOf, TypeOK
  <2>3. /\ expires' = (IF k \in present THEN [expires EXCEPT ![k] = now + LifeOf(k)] ELSE expires)
        /\ Return(r, req[r].number, req[r].setting)
        /\ UNCHANGED <<now, present, count, settings>>
    BY <1>3 DEF Expire
  <2>4. expires' \in [Key -> Nat \cup {Never}]
    BY <2>2, <2>3 DEF TypeOK
  <2>5. \A l \in Key : expires'[l] # Never => l \in present' /\ now' < expires'[l]
    <3>1. now < now + LifeOf(k)
      BY <2>2
    <3> HIDE DEF k
    <3> QED BY <3>1, <2>2, <2>3 DEF TypeOK
  <2> QED BY <2>1, <2>2, <2>3, <2>4, <2>5, ReturnType DEF TypeOK
<1>4. ASSUME NEW r \in Request, Abort(r) PROVE TypeOK'
  BY <1>4 DEF Abort, Finish, TypeOK
<1>5. ASSUME NEW k \in Key, TakenByIncrement(k) PROVE TypeOK'
  <2>1. Count(k) /\ UNCHANGED <<req, issued, repeated>>
    BY <1>5 DEF TakenByIncrement
  <2>2. UNCHANGED <<now, expires, settings>>
    BY <2>1, CountType
  <2> QED BY <2>1, <2>2, CountType DEF TypeOK
<1>6. ASSUME NEW k \in Key, NEW v \in Value, SetByIncrement(k, v) PROVE TypeOK'
  <2>1. /\ settings' = [settings EXCEPT ![k] = settings[k] + 1] /\ present' = present \cup {k}
        /\ count' = [count EXCEPT ![k] = v] /\ expires' = [expires EXCEPT ![k] = Never]
        /\ UNCHANGED <<now, req, issued, repeated>>
    BY <1>6 DEF SetByIncrement
  <2>2. v \in Int /\ settings[k] \in Nat
    BY ValueAssumption DEF TypeOK
  <2>3. /\ settings' \in [Key -> Nat] /\ present' \subseteq Key
        /\ count' \in [Key -> Int] /\ expires' \in [Key -> Nat \cup {Never}]
    BY <2>1, <2>2 DEF TypeOK
  <2>4. /\ \A l \in Key : expires'[l] # Never => l \in present' /\ now' < expires'[l]
        /\ \A l \in Key : l \notin present' => count'[l] = 0
    BY <2>1 DEF TypeOK
  <2> QED BY <2>1, <2>3, <2>4 DEF TypeOK
<1>7. CASE Tick
  <2>1. now' = now + 1 /\ now' \in 0..Horizon /\ now \in Nat
    BY <1>7, LengthAssumption DEF Tick, TypeOK
  <2>2. count' \in [Key -> Int] /\ expires' \in [Key -> Nat \cup {Never}] /\ present' \subseteq Key
    BY <1>7 DEF Tick, TypeOK
  <2>3. ASSUME NEW l \in Key, expires'[l] # Never PROVE l \in present' /\ now' < expires'[l]
    <3>1. expires[l] # now + 1 /\ expires'[l] = expires[l] /\ (l \in present => l \in present')
      BY <1>7, <2>3 DEF Tick
    <3> QED BY <3>1, <2>1, <2>3 DEF TypeOK, Never
  <2>4. ASSUME NEW l \in Key, l \notin present' PROVE count'[l] = 0
    <3>1. l \notin present \/ expires[l] = now + 1
      BY <1>7, <2>4 DEF Tick
    <3> QED BY <3>1, <1>7 DEF Tick, TypeOK
  <2> QED BY <1>7, <2>1, <2>2, <2>3, <2>4 DEF Tick, TypeOK
<1>8. CASE UNCHANGED vars
  BY <1>8 DEF vars, TypeOK
<1> QED BY <1>1, <1>2, <1>3, <1>4, <1>5, <1>6, <1>7, <1>8 DEF Next

\* Every key, request and code has its type, a key that ends is there and ends later
\* than now, and a key that is not there has no value.
THEOREM TypeCorrect == Spec => []TypeOK
BY TypeInit, TypeStep, PTL DEF Spec

-----------------------------------------------------------------------------
\* A request arrives with the key of the day it came on.
LEMMA GetMaStep ==
    ASSUME IInv, NEW r \in Request, GetMa(r)
    PROVE  IInv'
<1>1. PICK kind \in Kind, owner \in Owner, prefix \in Prefix :
        req' = [req EXCEPT ![r] = [pc |-> "incr", key |-> KeyOf(kind, owner, prefix),
                                   number |-> 0, setting |-> 0, since |-> now]]
  BY DEF GetMa
<1>2. UNCHANGED <<now, present, count, expires, settings, issued, repeated>> /\ TypeOK /\ TypeOK'
  BY TypeStep DEF GetMa, IInv, Next
<1>3. now \in Nat /\ Today * DayLength <= now /\ now < Today * DayLength + DayLength
  BY <1>2, DayOfMoment, LengthAssumption DEF Today, TypeOK
<1>4. ReqInv'
  <2> SUFFICES ASSUME NEW q \in Request, req'[q] \in Working', req'[q].key.kind = "dated"
               PROVE  /\ req'[q].since <= now' /\ now' <= req'[q].since + MaxAge
                      /\ DateStart(req'[q].key) <= req'[q].since
                      /\ req'[q].since < DateStart(req'[q].key) + DayLength
    BY DEF ReqInv, DateStart
  <2>1. CASE q = r
    <3>1. req'[q].since = now /\ req'[q].key = KeyOf(kind, owner, prefix)
      BY <2>1, <1>1, <1>2 DEF TypeOK
    <3>2. req'[q].key.date = Today
      BY <3>1 DEF KeyOf
    <3> QED BY <3>1, <3>2, <1>2, <1>3, AgeAssumption DEF DateStart
  <2>2. CASE q # r
    BY <2>2, <1>1, <1>2 DEF IInv, ReqInv, TypeOK, Working, Key
  <2> QED BY <2>1, <2>2
<1>5. \A q \in Request : At(q, "expire")' => q # r /\ req'[q] = req[q] /\ At(q, "expire")
  BY <1>1, <1>2 DEF At, TypeOK
<1>6. PendingInv' /\ FirstInv'
  BY <1>5, <1>2 DEF IInv, PendingInv, FirstInv, Alone, At, KeyFor
<1>7. LifeInv' /\ PresentInv' /\ IssuedInv' /\ DatedCodesDistinct'
  BY <1>2 DEF IInv, LifeInv, PresentInv, IssuedInv, Counts, DatedCodesDistinct, KeyFor, Open,
              EarliestEnd, DateStart
<1> QED BY <1>2, <1>4, <1>6, <1>7 DEF IInv

\* A request that is done or dies, and one that is not touched, leave what is said of the
\* requests in place.
LEMMA ReqInvStays ==
    ASSUME IInv, now' = now, req' = req \/ \E r \in Request : Finish(r)
    PROVE  ReqInv'
<1> SUFFICES ASSUME NEW q \in Request, req'[q] \in Working', req'[q].key.kind = "dated"
             PROVE  req'[q] = req[q]
  BY DEF IInv, ReqInv, DateStart, TypeOK, Working, Key
<1> QED BY DEF IInv, Finish, TypeOK, Idle, Working

\* The requests that stand at EXPIRE when one of them, or another, is done.
LEMMA StillPending ==
    ASSUME TypeOK, NEW r \in Request, Finish(r), NEW q \in Request, At(q, "expire")'
    PROVE  q # r /\ At(q, "expire") /\ req'[q] = req[q] /\ req[q] \in Working
BY BusyIsWorking DEF Finish, At, Idle, TypeOK

\* A key that counts further has still counted what it has given out.
LEMMA CountKeeps ==
    ASSUME IInv, NEW k \in Key, Count(k)
    PROVE  /\ LifeInv' /\ PresentInv'
           /\ \A c \in issued : KeyFor(c) \in Key /\ (c.code.kind = "dated" => Counts(c)')
           /\ \A l \in Key : count[l] \in Int /\ count'[l] \in Int /\ count[l] <= count'[l]
<1>1. /\ TypeOK /\ UNCHANGED <<now, expires, settings>> /\ count[k] \in Int
      /\ count' = [count EXCEPT ![k] = count[k] + 1] /\ present' = present \cup {k}
  BY CountType DEF IInv
<1>2. \A l \in Key : count[l] \in Int /\ count'[l] \in Int /\ count[l] <= count'[l]
  BY <1>1 DEF TypeOK
<1>3. LifeInv'
  BY <1>1 DEF IInv, LifeInv, EarliestEnd, DateStart
<1>4. PresentInv'
  BY <1>1, <1>2 DEF IInv, PresentInv, TypeOK
<1>5. ASSUME NEW c \in issued
      PROVE  KeyFor(c) \in Key /\ (c.code.kind = "dated" => Counts(c)')
  <2>1. KeyFor(c) \in Key /\ (c.code.kind = "dated" => Counts(c)) /\ KeyFor(c)' = KeyFor(c)
    BY DEF IInv, IssuedInv, KeyFor
  <2>2. c.code.number \in Int
    BY <1>1 DEF TypeOK, Issue, Code
  <2>3. Open(KeyFor(c))' => Open(KeyFor(c))
    BY <1>1, <2>1 DEF Open, EarliestEnd, DateStart
  <2>4. c.code.kind = "dated" => Counts(c)'
    <3> DEFINE K == KeyFor(c)
    <3>1. K' = K /\ K \in Key /\ settings' = settings /\ count[K] \in Int /\ count'[K] \in Int /\ count[K] <= count'[K]
      BY <1>1, <1>2, <2>1
    <3>2. SUFFICES ASSUME c.code.kind = "dated" PROVE Counts(c)'
      OBVIOUS
    <3>3. c.setting <= settings[K] /\ (Open(K) /\ c.setting = settings[K] => c.code.number <= count[K])
      BY <2>1, <3>2 DEF Counts
    <3>4. c.setting <= settings'[K] /\ (Open(K)' /\ c.setting = settings'[K] => c.code.number <= count'[K])
      BY <2>2, <2>3, <3>1, <3>3
    <3> QED BY <3>1, <3>4 DEF Counts, KeyFor, Open, EarliestEnd, DateStart
  <2> QED BY <2>1, <2>4
<1> QED BY <1>2, <1>3, <1>4, <1>5

\* A key counts further: the requests that stand at EXPIRE and stay there keep what is
\* said of them, when what is issued meanwhile is not a first number.
LEMMA CountKeepsPending ==
    ASSUME IInv, NEW k \in Key, Count(k), NEW q \in Request, At(q, "expire"), req'[q] = req[q],
           \A c \in issued' : c \in issued \/ c.code.number # 1,
           \A p \in Request : At(p, "expire")' /\ req'[p].key = req[q].key
                /\ (req'[p].setting = req[q].setting \/ settings[req[q].key] = 0) =>
                        At(p, "expire") /\ req'[p] = req[p]
    PROVE  /\ req'[q].number = 1 /\ req'[q].setting <= settings'[req'[q].key]
           /\ req'[q].key.kind = "dated" => Alone(q)'
           /\ settings'[req'[q].key] = 0 =>
                /\ req'[q].key \in present' /\ expires'[req'[q].key] = Never
                /\ \A p \in Request : At(p, "expire")' /\ req'[p].key = req'[q].key => p = q
<1> DEFINE l == req[q].key
<1>1. /\ TypeOK /\ UNCHANGED <<now, expires, settings>> /\ present' = present \cup {k}
      /\ req[q] \in Working /\ l \in Key /\ count[l] \in Int /\ count'[l] \in Int /\ count[l] <= count'[l]
  <2>1. req[q] \in Working
    BY BusyIsWorking DEF IInv, At
  <2>2. l \in Key
    BY <2>1 DEF Working
  <2> QED BY <2>1, <2>2, CountType, CountKeeps DEF IInv
<1>2. /\ req[q].number = 1 /\ req[q].setting <= settings[l]
      /\ l.kind = "dated" => Alone(q)
      /\ settings[l] = 0 => /\ l \in present /\ expires[l] = Never
                            /\ \A p \in Request : At(p, "expire") /\ req[p].key = l => p = q
  BY DEF IInv, PendingInv, FirstInv
<1>3. ASSUME l.kind = "dated" PROVE Alone(q)'
  <2>1. Alone(q)
    BY <1>2, <1>3
  <2>2. \A c \in issued' : KeyFor(c) = l /\ c.setting = req[q].setting => c.code.number # 1
    BY <2>1 DEF Alone
  <2>3. \A p \in Request : At(p, "expire")' /\ req'[p].key = l /\ req'[p].setting = req[q].setting => p = q
    BY <2>1 DEF Alone
  <2>4. req[q].setting = settings[l] => 1 <= count'[l]
    BY <2>1, <1>1 DEF Alone
  <2> QED BY <2>2, <2>3, <2>4, <1>1 DEF Alone, KeyFor, At
<1>4. ASSUME settings[l] = 0
      PROVE  \A p \in Request : At(p, "expire")' /\ req'[p].key = l => p = q
  BY <1>2, <1>4
<1> QED BY <1>1, <1>2, <1>3, <1>4

\* A number is taken.
LEMMA IncrStep ==
    ASSUME IInv, NEW r \in Request, Incr(r)
    PROVE  IInv'
<1> DEFINE k == req[r].key
           n == count[k] + 1
           e == settings[k]
<1>1. TypeOK /\ ReqInv /\ req[r] \in Working /\ k \in Key /\ Count(k) /\ At(r, "incr")
  BY BusyIsWorking DEF IInv, Incr, At, Working
<1>2. /\ UNCHANGED <<now, expires, settings>> /\ count[k] \in Int /\ n \in Int /\ e \in Nat
      /\ count' = [count EXCEPT ![k] = n] /\ count'[k] = n /\ present' = present \cup {k}
      /\ now' = now
  BY <1>1, CountType DEF TypeOK
<1>3. TypeOK'
  BY <1>1, TypeStep DEF Next
<1>4. LifeInv' /\ PresentInv'
  BY <1>1, CountKeeps
<1>5. CASE n = 1
  <2>1. /\ req' = [req EXCEPT ![r].pc = "expire", ![r].number = n, ![r].setting = e]
        /\ UNCHANGED <<issued, repeated>>
    BY <1>5 DEF Incr, IsFirst
  <2>2. /\ req'[r].key = k /\ req'[r].since = req[r].since /\ req'[r].number = 1 /\ req'[r].setting = e
        /\ \A q \in Request : q # r => req'[q] = req[q]
    BY <2>1, <1>1, <1>5 DEF TypeOK, Working
  <2>3. ReqInv'
    <3> SUFFICES ASSUME NEW q \in Request, req'[q] \in Working', req'[q].key.kind = "dated"
                 PROVE  /\ req[q] \in Working /\ req[q].key = req'[q].key
                        /\ req[q].since = req'[q].since
      BY <1>1, <1>2 DEF ReqInv, DateStart
    <3>1. CASE q = r
      BY <3>1, <2>2, <1>1
    <3>2. CASE q # r
      BY <3>2, <2>2 DEF Working, Key
    <3> QED BY <3>1, <3>2
  <2>4. IssuedInv' /\ DatedCodesDistinct'
    <3>1. \A c \in issued' : KeyFor(c) \in Key /\ (c.code.kind = "dated" => Counts(c)')
      BY <2>1, <1>1, CountKeeps
    <3> QED BY <3>1, <2>1 DEF IInv, IssuedInv, DatedCodesDistinct, KeyFor
  <2>5. count[k] = 0
    BY <1>5, <1>2
  <2>6. ASSUME e = 0 PROVE k \notin present /\ expires[k] = Never
    BY <2>5, <2>6, <1>1 DEF IInv, PresentInv, TypeOK
  <2>7. ASSUME NEW q \in Request, q # r, At(q, "expire")', req'[q].key = k, k.kind = "dated" \/ e = 0
        PROVE  e # 0 /\ req'[q].setting # e
    <3>1. At(q, "expire") /\ req[q].key = k /\ req'[q].setting = req[q].setting
      BY <2>2, <2>7 DEF At
    <3>2. e # 0
      BY <3>1, <2>6 DEF IInv, FirstInv
    <3>3. k.kind = "dated" /\ Alone(q)
      BY <3>1, <3>2, <2>7 DEF IInv, PendingInv
    <3> QED BY <3>1, <3>2, <3>3, <2>5 DEF Alone
  <2>8. ASSUME k.kind = "dated" PROVE \A c \in issued : KeyFor(c) = k /\ c.setting = e => c.code.number # 1
    <3>1. Open(k)
      BY <1>1, <2>8, HeldIsOpen
    <3> SUFFICES ASSUME NEW c \in issued, KeyFor(c) = k, c.setting = e PROVE c.code.number # 1
      OBVIOUS
    <3>2. c.code.kind = "dated"
      BY <2>8 DEF KeyFor
    <3>3. Counts(c)
      BY <3>2 DEF IInv, IssuedInv
    <3>4. c.code.number <= 0
      BY <3>1, <3>3, <2>5 DEF Counts
    <3> QED BY <3>4
  <2>9. PendingInv' /\ FirstInv'
    <3> SUFFICES ASSUME NEW q \in Request, At(q, "expire")'
        PROVE /\ req'[q].number = 1 /\ req'[q].setting <= settings'[req'[q].key]
              /\ req'[q].key.kind = "dated" => Alone(q)'
              /\ settings'[req'[q].key] = 0 =>
                   /\ req'[q].key \in present' /\ expires'[req'[q].key] = Never
                   /\ \A p \in Request : At(p, "expire")' /\ req'[p].key = req'[q].key => p = q
      BY DEF PendingInv, FirstInv, At
    <3>1. CASE q = r
      <4>1. req'[q].number = 1 /\ req'[q].setting = e /\ e <= settings'[k] /\ req'[q].key = k
        BY <3>1, <2>2, <1>2
      <4>2. ASSUME k.kind = "dated" PROVE Alone(q)'
        <5>1. \A c \in issued' : KeyFor(c) = k /\ c.setting = e => c.code.number # 1
          BY <4>2, <2>8, <2>1
        <5>2. \A p \in Request : At(p, "expire")' /\ req'[p].key = k /\ req'[p].setting = e => p = q
          BY <4>2, <2>7, <3>1
        <5>3. 1 <= count'[k]
          BY <1>2, <1>5
        <5> QED BY <5>1, <5>2, <5>3, <4>1 DEF Alone, KeyFor, At
      <4>3. ASSUME e = 0
            PROVE  /\ k \in present' /\ expires'[k] = Never
                   /\ \A p \in Request : At(p, "expire")' /\ req'[p].key = k => p = q
        BY <4>3, <2>6, <2>7, <3>1, <1>2
      <4> QED BY <4>1, <4>2, <4>3, <1>2
    <3>2. CASE q # r
      <4>1. At(q, "expire") /\ req'[q] = req[q]
        BY <3>2, <2>2 DEF At
      <4>2. \A p \in Request : p # r /\ At(p, "expire")' => At(p, "expire") /\ req'[p] = req[p]
        BY <2>2 DEF At
      <4>3. ASSUME At(r, "expire")', req'[r].key = req[q].key,
                   req'[r].setting = req[q].setting \/ settings[req[q].key] = 0,
                   req[q].key.kind = "dated" \/ settings[req[q].key] = 0
            PROVE  FALSE
        BY <4>1, <4>3, <2>2, <2>7, <3>2 DEF At
      <4>4. /\ req'[q].number = 1 /\ req'[q].setting <= settings'[req'[q].key]
            /\ settings'[req'[q].key] = 0 => req'[q].key \in present' /\ expires'[req'[q].key] = Never
        BY <4>1, <1>2 DEF IInv, PendingInv, FirstInv
      <4>5. ASSUME req[q].key.kind = "dated" PROVE Alone(q)'
        <5> HIDE DEF k, n, e
        <5>1. Alone(q) /\ req[q].key \in Key
          BY <4>1, <4>5, <1>1, BusyIsWorking DEF IInv, PendingInv, At, Working
        <5>2. \A p \in Request : At(p, "expire")' /\ req'[p].key = req[q].key /\ req'[p].setting = req[q].setting => p = q
          BY <4>2, <4>3, <4>5, <5>1 DEF Alone
        <5>3. req[q].setting = settings[req[q].key] => 1 <= count'[req[q].key]
          BY <5>1, <1>1, CountKeeps DEF Alone
        <5> QED BY <5>1, <5>2, <5>3, <4>1, <1>2, <2>1 DEF Alone, KeyFor, At
      <4>6. ASSUME settings[req[q].key] = 0
            PROVE  \A p \in Request : At(p, "expire")' /\ req'[p].key = req[q].key => p = q
        BY <4>1, <4>2, <4>3, <4>6 DEF IInv, FirstInv
      <4> QED BY <4>1, <4>4, <4>5, <4>6, <1>2
    <3> QED BY <3>1, <3>2
  <2> QED BY <1>3, <1>4, <2>3, <2>4, <2>9 DEF IInv
<1>6. CASE n # 1
  <2> DEFINE new == [code |-> CodeOf(k, n), owner |-> k.owner, setting |-> e]
  <2>1. /\ Finish(r) /\ issued' = issued \cup {new}
        /\ repeated' = (IF new \in issued THEN repeated \cup {new} ELSE repeated)
    BY <1>6 DEF Incr, IsFirst, Return
  <2>2. ReqInv'
    BY <2>1, <1>2, ReqInvStays
  <2>3. KeyFor(new) = k /\ new.code.number = n /\ new.setting = e /\ new.code.kind = k.kind
    BY <1>1, KeyForIssue DEF CodeOf
  <2>4. IssuedInv'
    <3>1. \A c \in issued : KeyFor(c) \in Key /\ (c.code.kind = "dated" => Counts(c)')
      BY <1>1, CountKeeps
    <3>2. ASSUME NEW c, c = new PROVE KeyFor(c) \in Key /\ Counts(c)'
      <4>1. KeyFor(c) = k /\ KeyFor(c)' = KeyFor(c) /\ c.code.number = n /\ c.setting = e
        BY <3>2, <2>3 DEF KeyFor
      <4> HIDE DEF new
      <4> QED BY <4>1, <1>1, <1>2 DEF Counts
    <3>3. \A c \in issued' : KeyFor(c) \in Key /\ (c.code.kind = "dated" => Counts(c)')
      <4> HIDE DEF new
      <4> QED BY <3>1, <3>2, <2>1
    <3> QED BY <3>3 DEF IssuedInv, KeyFor
  <2>5. DatedCodesDistinct'
    <3>1. ASSUME k.kind = "dated", new \in issued PROVE FALSE
      <4>1. Counts(new) /\ Open(k)
        BY <3>1, <2>3, <1>1, HeldIsOpen DEF IInv, IssuedInv
      <4>2. n <= count[k]
        BY <4>1, <2>3 DEF Counts
      <4> QED BY <4>2, <1>2
    <3> QED BY <3>1, <2>1, <2>3 DEF IInv, DatedCodesDistinct
  <2>6. ASSUME NEW q \in Request, At(q, "expire")'
        PROVE /\ req'[q].number = 1 /\ req'[q].setting <= settings'[req'[q].key]
              /\ req'[q].key.kind = "dated" => Alone(q)'
              /\ settings'[req'[q].key] = 0 =>
                   /\ req'[q].key \in present' /\ expires'[req'[q].key] = Never
                   /\ \A p \in Request : At(p, "expire")' /\ req'[p].key = req'[q].key => p = q
    <3>1. At(q, "expire") /\ req'[q] = req[q]
      BY <2>1, <2>6, <1>1, StillPending
    <3>2. \A c \in issued' : c \in issued \/ c.code.number # 1
      BY <2>1, <2>3, <1>6
    <3>3. \A p \in Request : At(p, "expire")' => At(p, "expire") /\ req'[p] = req[p]
      BY <2>1, <1>1, StillPending
    <3> HIDE DEF k, n, e, new
    <3> QED BY <3>1, <3>2, <3>3, <1>1, CountKeepsPending
  <2>7. PendingInv' /\ FirstInv'
    BY <2>6 DEF PendingInv, FirstInv, At
  <2> QED BY <1>3, <1>4, <2>2, <2>4, <2>5, <2>7 DEF IInv
<1> QED BY <1>5, <1>6

\* The increments take a number of the key.
LEMMA TakenStep ==
    ASSUME IInv, NEW k \in Key, TakenByIncrement(k)
    PROVE  IInv'
<1>1. Count(k) /\ UNCHANGED <<req, issued, repeated>> /\ TypeOK
  BY DEF TakenByIncrement, IInv
<1>2. TypeOK' /\ now' = now
  BY <1>1, TypeStep, CountType DEF Next
<1>3. ReqInv'
  BY <1>1, <1>2, ReqInvStays
<1>4. LifeInv' /\ PresentInv'
  BY <1>1, CountKeeps
<1>5. IssuedInv' /\ DatedCodesDistinct'
  <2>1. \A c \in issued' : KeyFor(c) \in Key /\ (c.code.kind = "dated" => Counts(c)')
    BY <1>1, CountKeeps
  <2> QED BY <2>1, <1>1 DEF IInv, IssuedInv, DatedCodesDistinct, KeyFor
<1>6. ASSUME NEW q \in Request, At(q, "expire")'
      PROVE /\ req'[q].number = 1 /\ req'[q].setting <= settings'[req'[q].key]
            /\ req'[q].key.kind = "dated" => Alone(q)'
            /\ settings'[req'[q].key] = 0 =>
                 /\ req'[q].key \in present' /\ expires'[req'[q].key] = Never
                 /\ \A p \in Request : At(p, "expire")' /\ req'[p].key = req'[q].key => p = q
  <2>1. At(q, "expire") /\ req'[q] = req[q] /\ \A p \in Request : At(p, "expire")' => At(p, "expire") /\ req'[p] = req[p]
    BY <1>1, <1>6 DEF At
  <2> QED BY <2>1, <1>1, CountKeepsPending
<1>7. PendingInv' /\ FirstInv'
  BY <1>6 DEF PendingInv, FirstInv, At
<1> QED BY <1>2, <1>3, <1>4, <1>5, <1>7 DEF IInv

\* The increments set the key: what it gave out before is of an earlier setting.
LEMMA SetStep ==
    ASSUME IInv, NEW k \in Key, NEW v \in Value, SetByIncrement(k, v)
    PROVE  IInv'
<1>1. /\ TypeOK /\ settings' = [settings EXCEPT ![k] = settings[k] + 1] /\ present' = present \cup {k}
      /\ count' = [count EXCEPT ![k] = v] /\ expires' = [expires EXCEPT ![k] = Never]
      /\ UNCHANGED <<now, req, issued, repeated>> /\ settings[k] \in Nat
  BY DEF SetByIncrement, IInv, TypeOK
<1>2. /\ settings'[k] = settings[k] + 1 /\ settings'[k] # 0 /\ expires'[k] = Never
      /\ \A l \in Key : l # k => /\ settings'[l] = settings[l] /\ count'[l] = count[l]
                                 /\ expires'[l] = expires[l] /\ (l \in present' <=> l \in present)
  BY <1>1 DEF TypeOK
<1>3. TypeOK' /\ now' = now
  BY <1>1, TypeStep DEF Next
<1>4. ReqInv'
  BY <1>1, ReqInvStays
<1>5. LifeInv' /\ PresentInv'
  <2>1. \A l \in Key : l.kind = "dated" /\ expires'[l] # Never => EarliestEnd(l) <= expires'[l]
    BY <1>2 DEF IInv, LifeInv
  <2>2. \A l \in Key : settings'[l] = 0 /\ l \in present' => 1 <= count'[l]
    BY <1>2 DEF IInv, PresentInv
  <2> QED BY <2>1, <2>2 DEF LifeInv, PresentInv, EarliestEnd, DateStart
<1>6. IssuedInv' /\ DatedCodesDistinct'
  <2>1. ASSUME NEW c \in issued PROVE KeyFor(c) \in Key /\ (c.code.kind = "dated" => Counts(c)')
    <3>1. KeyFor(c) \in Key /\ (c.code.kind = "dated" => Counts(c)) /\ c.setting \in Nat
      BY <1>1 DEF IInv, IssuedInv, TypeOK, Issue
    <3>2. CASE KeyFor(c) = k
      BY <3>1, <3>2, <1>1, <1>2 DEF Counts, KeyFor
    <3>3. CASE KeyFor(c) # k
      BY <3>1, <3>3, <1>1, <1>2 DEF Counts, KeyFor, Open, EarliestEnd, DateStart
    <3> QED BY <3>1, <3>2, <3>3
  <2> QED BY <2>1, <1>1 DEF IInv, IssuedInv, DatedCodesDistinct, KeyFor
<1>7. ASSUME NEW q \in Request, At(q, "expire")
      PROVE  /\ req[q].number = 1 /\ req[q].setting <= settings'[req[q].key]
             /\ req[q].key.kind = "dated" => Alone(q)'
             /\ settings'[req[q].key] = 0 =>
                  /\ req[q].key \in present' /\ expires'[req[q].key] = Never
                  /\ \A p \in Request : At(p, "expire") /\ req[p].key = req[q].key => p = q
  <2>1. req[q].key \in Key /\ req[q].setting \in Nat
    BY <1>1, <1>7, BusyIsWorking DEF At, Working
  <2>2. /\ req[q].number = 1 /\ req[q].setting <= settings[req[q].key]
        /\ req[q].key.kind = "dated" => Alone(q)
    BY <1>7 DEF IInv, PendingInv
  <2>3. req[q].key = k => req[q].setting < settings'[k]
    BY <2>1, <2>2, <1>1, <1>2
  <2>4. req[q].key.kind = "dated" => Alone(q)'
    <3>1. SUFFICES ASSUME Alone(q) PROVE Alone(q)'
      BY <2>2
    <3>2. req[q].setting = settings'[req[q].key] => 1 <= count'[req[q].key]
      BY <3>1, <2>1, <2>3, <1>1, <1>2 DEF Alone
    <3> QED BY <3>1, <3>2, <1>1 DEF Alone, KeyFor, At
  <2>5. settings'[req[q].key] = 0 =>
                  /\ req[q].key \in present' /\ expires'[req[q].key] = Never
                  /\ \A p \in Request : At(p, "expire") /\ req[p].key = req[q].key => p = q
    BY <1>2, <1>7, <2>1 DEF IInv, FirstInv
  <2>6. req[q].setting <= settings'[req[q].key]
    BY <2>1, <2>2, <2>3, <1>1, <1>2
  <2> QED BY <2>2, <2>4, <2>5, <2>6
<1>8. PendingInv' /\ FirstInv'
  BY <1>1, <1>7 DEF PendingInv, FirstInv, At
<1> QED BY <1>3, <1>4, <1>5, <1>6, <1>8 DEF IInv

\* The first taker of a number gives the key its end.
LEMMA ExpireStep ==
    ASSUME IInv, NEW r \in Request, Expire(r)
    PROVE  IInv' /\ req[r].key \in Key /\ (settings[req[r].key] = 0 => expires[req[r].key] = Never)
<1> DEFINE k == req[r].key
           e == req[r].setting
           new == [code |-> CodeOf(k, 1), owner |-> k.owner, setting |-> e]
<1>1. TypeOK /\ ReqInv /\ At(r, "expire") /\ req[r] \in Working /\ k \in Key /\ e \in Nat /\ now \in Nat
  BY BusyIsWorking DEF IInv, Expire, At, Working, TypeOK
<1>2. /\ req[r].number = 1 /\ e <= settings[k] /\ (k.kind = "dated" => Alone(r))
      /\ settings[k] = 0 => expires[k] = Never
      /\ settings[k] = 0 => \A q \in Request : At(q, "expire") /\ req[q].key = k => q = r
  BY <1>1 DEF IInv, PendingInv, FirstInv
<1>3. /\ Finish(r) /\ UNCHANGED <<now, present, count, settings>> /\ now' = now
      /\ expires' = (IF k \in present THEN [expires EXCEPT ![k] = now + LifeOf(k)] ELSE expires)
      /\ issued' = issued \cup {new}
      /\ repeated' = (IF new \in issued THEN repeated \cup {new} ELSE repeated)
  BY <1>2 DEF Expire, Return
<1>4. ReqInv'
  BY <1>3, ReqInvStays
<1>5. LifeInv' /\ PresentInv'
  <2>1. k.kind = "dated" => EarliestEnd(k) <= now + LifeOf(k)
    <3> SUFFICES ASSUME k.kind = "dated" PROVE EarliestEnd(k) <= now + LifeOf(k)
      OBVIOUS
    <3>1. DateStart(k) <= now /\ LifeOf(k) = DatedLife
      <4>1. DateStart(k) <= req[r].since /\ req[r].since <= now /\ req[r].since \in Nat
        BY <1>1, LengthAssumption DEF ReqInv, Working
      <4> QED BY <4>1, <1>1, EndIsInt DEF LifeOf
    <3> QED BY <3>1, <1>1, EndIsInt, LifeAssumption DEF EarliestEnd
  <2>2. \A l \in Key : expires'[l] = expires[l] \/ (l = k /\ expires'[l] = now + LifeOf(k))
    BY <1>3, <1>1 DEF TypeOK
  <2>3. \A l \in Key : l.kind = "dated" /\ expires'[l] # Never => EarliestEnd(l) <= expires'[l]
    BY <2>1, <2>2 DEF IInv, LifeInv
  <2> QED BY <2>3, <1>3 DEF IInv, LifeInv, PresentInv, EarliestEnd, DateStart
<1>6. KeyFor(new) = k /\ new.code.number = 1 /\ new.setting = e /\ new.code.kind = k.kind
  BY <1>1, KeyForIssue DEF CodeOf
<1>7. IssuedInv'
  <2>1. k.kind = "dated" => Counts(new)
    BY <1>2, <1>6 DEF Counts, Alone
  <2>2. \A c \in issued' : KeyFor(c) \in Key /\ (c.code.kind = "dated" => Counts(c))
    BY <2>1, <1>1, <1>3, <1>6 DEF IInv, IssuedInv
  <2> QED BY <2>2, <1>3 DEF IssuedInv, Counts, KeyFor, Open, EarliestEnd, DateStart
<1>8. DatedCodesDistinct'
  <2>1. k.kind = "dated" => new \notin issued
    BY <1>2, <1>6 DEF Alone
  <2> QED BY <2>1, <1>3, <1>6 DEF IInv, DatedCodesDistinct
<1>9. ASSUME NEW q \in Request, At(q, "expire")'
      PROVE /\ req'[q].number = 1 /\ req'[q].setting <= settings'[req'[q].key]
            /\ req'[q].key.kind = "dated" => Alone(q)'
            /\ settings'[req'[q].key] = 0 =>
                 /\ req'[q].key \in present' /\ expires'[req'[q].key] = Never
                 /\ \A p \in Request : At(p, "expire")' /\ req'[p].key = req'[q].key => p = q
  <2>1. q # r /\ At(q, "expire") /\ req'[q] = req[q]
    BY <1>1, <1>3, <1>9, StillPending
  <2>2. \A p \in Request : At(p, "expire")' => p # r /\ At(p, "expire") /\ req'[p] = req[p]
    BY <1>1, <1>3, StillPending
  <2>3. ASSUME req[q].key.kind = "dated" PROVE Alone(q)'
    <3>1. Alone(q) /\ req[q].setting = req[q].setting
      BY <2>1, <2>3 DEF IInv, PendingInv
    <3>2. ~ (k = req[q].key /\ e = req[q].setting)
      BY <3>1, <2>1, <1>1 DEF Alone
    <3>3. \A c \in issued' : KeyFor(c) = req[q].key /\ c.setting = req[q].setting => c.code.number # 1
      BY <3>1, <3>2, <1>3, <1>6 DEF Alone
    <3>4. \A p \in Request : At(p, "expire")' /\ req'[p].key = req[q].key /\ req'[p].setting = req[q].setting => p = q
      BY <3>1, <2>2 DEF Alone
    <3>5. req[q].setting = settings[req[q].key] => 1 <= count[req[q].key]
      BY <3>1 DEF Alone
    <3> QED BY <3>3, <3>4, <3>5, <2>1, <1>3 DEF Alone, KeyFor, At
  <2>4. ASSUME settings[req[q].key] = 0
        PROVE  /\ req[q].key \in present /\ expires'[req[q].key] = Never
               /\ \A p \in Request : At(p, "expire")' /\ req'[p].key = req[q].key => p = q
    <3>1. /\ req[q].key \in present /\ expires[req[q].key] = Never
          /\ \A p \in Request : At(p, "expire") /\ req[p].key = req[q].key => p = q
      BY <2>1, <2>4 DEF IInv, FirstInv
    <3>2. req[q].key # k
      BY <3>1, <2>1, <1>1
    <3>3. expires'[req[q].key] = expires[req[q].key]
      BY <3>2, <1>3
    <3> QED BY <3>1, <3>3, <2>2
  <2>5. req[q].number = 1 /\ req[q].setting <= settings[req[q].key]
    BY <2>1 DEF IInv, PendingInv
  <2> QED BY <2>1, <2>3, <2>4, <2>5, <1>3
<1>10. PendingInv' /\ FirstInv'
  BY <1>9 DEF PendingInv, FirstInv, At
<1>11. TypeOK'
  BY <1>1, TypeStep DEF Next
<1> QED BY <1>1, <1>2, <1>4, <1>5, <1>7, <1>8, <1>10, <1>11 DEF IInv

\* Time passes: no key a request holds is dropped.
LEMMA TickStep ==
    ASSUME IInv, Tick
    PROVE  IInv'
<1>1. /\ TypeOK /\ ReqInv /\ LifeInv /\ IssuedInv /\ PendingInv /\ TypeOK'
      /\ now' = now + 1 /\ now \in Nat /\ UNCHANGED <<req, settings, issued, repeated>>
      /\ present' = {k \in present : expires[k] # now + 1}
  BY LengthAssumption, TypeStep DEF IInv, TypeOK, Tick, Next
<1>2. \A l \in Key : IF expires[l] = now + 1 THEN count'[l] = 0 /\ expires'[l] = Never
                                              ELSE count'[l] = count[l] /\ expires'[l] = expires[l]
  BY DEF Tick
<1>3. ReqInv'
  <2> SUFFICES ASSUME NEW q \in Request, req[q] \in Working, req[q].key.kind = "dated"
               PROVE  /\ req[q].since <= now + 1 /\ now + 1 <= req[q].since + MaxAge
                      /\ DateStart(req[q].key) <= req[q].since
                      /\ req[q].since < DateStart(req[q].key) + DayLength
    BY <1>1 DEF ReqInv, DateStart, Working, Key, Date
  <2>1. req[q].since \in Nat /\ ~ At(q, "idle")
    BY LengthAssumption DEF Working, At
  <2>2. now < req[q].since + MaxAge
    BY <2>1 DEF Tick
  <2> QED BY <2>1, <2>2, <1>1, AgeAssumption DEF ReqInv
<1>4. LifeInv' /\ PresentInv'
  <2>1. \A l \in Key : l.kind = "dated" /\ expires'[l] # Never => EarliestEnd(l) <= expires'[l]
    BY <1>1, <1>2 DEF LifeInv
  <2>2. \A l \in Key : settings[l] = 0 /\ l \in present' => 1 <= count'[l]
    BY <1>1, <1>2 DEF IInv, PresentInv
  <2> QED BY <2>1, <2>2, <1>1 DEF LifeInv, PresentInv, EarliestEnd, DateStart
\* A dated key that is open after the tick has not ended with it.
<1>5. ASSUME NEW l \in Key, l.kind = "dated", now + 1 < EarliestEnd(l)
      PROVE  Open(l) /\ count'[l] = count[l]
  <2>1. EarliestEnd(l) \in Int
    BY EndIsInt
  <2>2. expires[l] # now + 1
    BY <2>1, <1>1, <1>5 DEF LifeInv, Never
  <2> QED BY <2>1, <2>2, <1>1, <1>2, <1>5 DEF Open
<1>6. IssuedInv'
  <2>1. ASSUME NEW c \in issued, c.code.kind = "dated"
        PROVE  Counts(c)'
    <3> DEFINE l == KeyFor(c)
    <3>1. l \in Key /\ l.kind = "dated" /\ Counts(c) /\ l' = l
      BY <2>1, <1>1 DEF IssuedInv, KeyFor
    <3>2. ASSUME now + 1 < EarliestEnd(l), c.setting = settings[l] PROVE c.code.number <= count'[l]
      <4>1. Open(l) /\ count'[l] = count[l]
        BY <3>1, <3>2, <1>5
      <4> QED BY <4>1, <3>1, <3>2 DEF Counts
    <3>3. Open(l)' => now + 1 < EarliestEnd(l)
      BY <3>1, <1>1 DEF Open, EarliestEnd, DateStart
    <3>4. c.setting <= settings[l]
      BY <3>1 DEF Counts
    <3> QED BY <3>1, <3>2, <3>3, <3>4, <1>1 DEF Counts
  <2> QED BY <2>1, <1>1 DEF IssuedInv, KeyFor
<1>7. ASSUME NEW q \in Request, At(q, "expire")
      PROVE  /\ req[q].key.kind = "dated" => Alone(q)'
             /\ settings[req[q].key] = 0 => req[q].key \in present' /\ expires'[req[q].key] = Never
  <2>1. req[q] \in Working /\ req[q].key \in Key
    BY <1>1, <1>7, BusyIsWorking DEF At, Working
  <2>2. ASSUME req[q].key.kind = "dated" PROVE Alone(q)'
    <3>1. Alone(q)
      BY <1>1, <1>7, <2>2 DEF PendingInv
    <3>2. Open(req[q].key)'
      <4>1. req'[q] \in Working' /\ req'[q].key.kind = "dated"
        BY <2>1, <2>2, <1>1 DEF Working, Key, Date
      <4>2. now + 1 < EarliestEnd(req[q].key)
        <5>1. req[q].since \in Int /\ DateStart(req[q].key) \in Int
          BY <2>1, EndIsInt DEF Working
        <5>2. now + 1 <= req[q].since + MaxAge /\ req[q].since < DateStart(req[q].key) + DayLength
          BY <4>1, <1>1, <1>3 DEF ReqInv, DateStart
        <5> QED BY <5>1, <5>2, <1>1, LengthAssumption, AgeAssumption, LifeAssumption DEF EarliestEnd
      <4> QED BY <4>2, <1>1 DEF Open, EarliestEnd, DateStart
    <3>3. count'[req[q].key] = count[req[q].key]
      BY <3>2, <2>1, <2>2, <1>1, <1>5 DEF Open, EarliestEnd, DateStart
    <3> QED BY <3>1, <3>3, <1>1 DEF Alone, KeyFor, At
  <2>3. ASSUME settings[req[q].key] = 0
        PROVE  req[q].key \in present' /\ expires'[req[q].key] = Never
    <3>1. req[q].key \in present /\ expires[req[q].key] = Never
      BY <1>7, <2>3 DEF IInv, FirstInv
    <3> QED BY <3>1, <2>1, <1>1, <1>2 DEF Never
  <2> QED BY <2>2, <2>3
<1>8. PendingInv'
  BY <1>1, <1>7 DEF PendingInv, At
<1>9. FirstInv'
  BY <1>1, <1>7 DEF IInv, FirstInv, At
<1>10. DatedCodesDistinct'
  BY <1>1 DEF IInv, DatedCodesDistinct
<1> QED BY <1>1, <1>3, <1>4, <1>6, <1>8, <1>9, <1>10 DEF IInv

\* A request dies; a first number that was taken is never returned.
LEMMA AbortStep ==
    ASSUME IInv, NEW r \in Request, Abort(r)
    PROVE  IInv'
<1>1. /\ Finish(r) /\ UNCHANGED <<now, present, count, expires, settings, issued, repeated>>
      /\ now' = now /\ TypeOK /\ TypeOK'
  BY TypeStep DEF Abort, IInv, Next
<1>2. ReqInv'
  BY <1>1, ReqInvStays
<1>3. LifeInv' /\ PresentInv' /\ IssuedInv' /\ DatedCodesDistinct'
  BY <1>1 DEF IInv, LifeInv, PresentInv, IssuedInv, Counts, DatedCodesDistinct, KeyFor, Open,
              EarliestEnd, DateStart
<1>4. \A q \in Request : At(q, "expire")' => At(q, "expire") /\ req'[q] = req[q]
  BY <1>1, StillPending
<1>5. PendingInv' /\ FirstInv'
  BY <1>1, <1>4 DEF IInv, PendingInv, FirstInv, Alone, At, KeyFor
<1> QED BY <1>1, <1>2, <1>3, <1>5 DEF IInv

\* The invariant holds at first and every step keeps it.
LEMMA Invariance == Spec => []IInv
<1>1. Init => IInv
  <2> SUFFICES ASSUME Init PROVE IInv
    OBVIOUS
  <2>1. TypeOK /\ issued = {} /\ repeated = {} /\ present = {}
    BY TypeInit DEF Init
  <2>2. \A r \in Request : req[r] = Idle /\ req[r] \notin Working /\ ~ At(r, "expire")
    BY DEF Init, Idle, Working, At
  <2>3. LifeInv /\ PresentInv
    BY <2>1 DEF Init, LifeInv, PresentInv
  <2> QED BY <2>1, <2>2, <2>3 DEF IInv, ReqInv, IssuedInv, PendingInv, FirstInv, DatedCodesDistinct
<1>2. IInv /\ [Next]_vars => IInv'
  <2> SUFFICES ASSUME IInv, [Next]_vars PROVE IInv'
    OBVIOUS
  <2>1. CASE Next
    BY <2>1, GetMaStep, IncrStep, ExpireStep, AbortStep, TakenStep, SetStep, TickStep DEF Next
  <2>2. CASE UNCHANGED vars
    <3>1. UNCHANGED <<now, present, count, expires, req, settings, issued, repeated>>
      BY <2>2 DEF vars
    <3>2. TypeOK' /\ ReqInv' /\ LifeInv' /\ PresentInv' /\ DatedCodesDistinct'
      BY <3>1 DEF IInv, TypeOK, ReqInv, LifeInv, PresentInv, DatedCodesDistinct, EarliestEnd, DateStart,
                  Working, Key, Date
    <3>3. IssuedInv' /\ PendingInv' /\ FirstInv'
      BY <3>1 DEF IInv, IssuedInv, Counts, PendingInv, FirstInv, Alone, KeyFor, Open, EarliestEnd, DateStart, At
    <3> QED BY <3>2, <3>3 DEF IInv
  <2> QED BY <2>1, <2>2
<1> QED BY <1>1, <1>2, PTL DEF Spec

\* However long requests wait for Redis within AgeAssumption, wherever they die, however
\* many there are and whatever the increments do to their keys: a dated code is returned
\* twice only to two owners, or from two settings of its key.
THEOREM DatedCodesCorrect == Spec => []DatedCodesDistinct
<1>1. IInv => DatedCodesDistinct
  BY DEF IInv
<1> QED BY <1>1, Invariance, PTL

\* EXPIRE is sent only by the request that got 1 from a key without an end: the end of a
\* key that was never set is never moved.
THEOREM EndCorrect == Spec => EndIsFixed
<1> DEFINE Fixed == \A k \in Key : settings[k] = 0 /\ expires[k] # Never => expires'[k] \in {expires[k], Never}
<1>1. IInv /\ [Next]_vars => [Fixed]_vars
  <2> SUFFICES ASSUME IInv, Next PROVE Fixed
    BY DEF vars
  <2>0. TypeOK
    BY DEF IInv
  <2>1. ASSUME NEW r \in Request, GetMa(r) \/ Incr(r) \/ Abort(r) PROVE Fixed
    <3>1. expires' = expires
      BY <2>1 DEF GetMa, Incr, Abort, Count
    <3> QED BY <3>1
  <2>2. ASSUME NEW r \in Request, Expire(r) PROVE Fixed
    <3>1. settings[req[r].key] = 0 => expires[req[r].key] = Never
      BY <2>2, ExpireStep
    <3>2. expires' = expires \/ expires' = [expires EXCEPT ![req[r].key] = now + LifeOf(req[r].key)]
      BY <2>2 DEF Expire
    <3> QED BY <3>1, <3>2, <2>0 DEF TypeOK
  <2>3. ASSUME NEW k \in Key, TakenByIncrement(k) PROVE Fixed
    BY <2>3 DEF TakenByIncrement, Count
  <2>4. ASSUME NEW k \in Key, NEW v \in Value, SetByIncrement(k, v) PROVE Fixed
    BY <2>4, <2>0 DEF SetByIncrement, TypeOK
  <2>5. CASE Tick
    BY <2>5 DEF Tick
  <2> QED BY <2>1, <2>2, <2>3, <2>4, <2>5 DEF Next
<1> QED BY <1>1, Invariance, PTL DEF Spec, EndIsFixed
-----------------------------------------------------------------------------
\* What a request that is under way looks like.
LEMMA Asking ==
    ASSUME IncTypeOK, NEW r \in Caller, ~ Asks(r, "quiet")
    PROVE  call[r] \in Calling /\ call[r].key \in Counter /\ call[r].value \in Int
  BY DEF IncTypeOK, Asks, Calling, Quiet

LEMMA BeginTypes ==
    ASSUME IncTypeOK, NEW r \in Caller, NEW k \in Counter, NEW v \in Int,
           NEW label \in {"incr", "set"}, Begin(r, label, k, v), anew' \in [Counter -> Int \cup {Nowhere}]
    PROVE  IncTypeOK'
<1>1. [pc |-> label, key |-> k, value |-> v] \in Calling
  BY DEF Calling
<1>2. call' \in [Caller -> {Quiet} \cup Calling]
  BY <1>1 DEF IncTypeOK, Begin
<1>3. alone' \subseteq Caller
  BY DEF IncTypeOK, Begin
<1> QED
  BY <1>2, <1>3 DEF IncTypeOK, Begin

LEMMA CountedTypes ==
    ASSUME IncTypeOK, NEW s \in Store, NEW k \in Counter
    PROVE  Counted(s, k) \in [Store -> [Counter -> Int]]
<1>1. [seq[s] EXCEPT ![k] = @ + 1] \in [Counter -> Int]
  BY DEF IncTypeOK
<1> QED
  BY <1>1 DEF IncTypeOK, Counted

LEMMA GiveTypes ==
    ASSUME IncTypeOK, NEW s \in Store, NEW r \in Caller, ~ Asks(r, "quiet"), Give(s, r)
    PROVE  IncTypeOK'
<1> DEFINE k == call[r].key
           n == seq[s][k] + 1
<1>1. k \in Counter /\ n \in Int
  BY Asking DEF IncTypeOK
<1>2. seq' \in [Store -> [Counter -> Int]]
  BY <1>1, CountedTypes DEF Give
<1>3. given' \in [Store -> [Counter -> SUBSET Int]]
  <2>1. [given[s] EXCEPT ![k] = @ \cup {n}] \in [Counter -> SUBSET Int]
    BY <1>1 DEF IncTypeOK
  <2> QED
    BY <2>1, <1>1 DEF IncTypeOK, Give
<1>4. again' \subseteq Store \X Counter \X Int
  <2>1. <<s, k, n>> \in Store \X Counter \X Int
    BY <1>1
  <2> QED
    BY <2>1 DEF IncTypeOK, Give
<1>5. call' \in [Caller -> {Quiet} \cup Calling]
  BY DEF IncTypeOK, Give, Done
<1> QED
  BY <1>2, <1>3, <1>4, <1>5 DEF IncTypeOK, Give

LEMMA SetTypes ==
    ASSUME IncTypeOK, NEW s \in Store, NEW k \in Counter, NEW v \in Int, Set(s, k, v)
    PROVE  /\ seq' \in [Store -> [Counter -> Int]]
           /\ given' \in [Store -> [Counter -> SUBSET Int]]
           /\ again' \subseteq Store \X Counter \X Int
<1>1. [seq[s] EXCEPT ![k] = v] \in [Counter -> Int]
  BY DEF IncTypeOK
<1>2. [given[s] EXCEPT ![k] = {}] \in [Counter -> SUBSET Int]
  BY DEF IncTypeOK
<1> QED
  BY <1>1, <1>2 DEF IncTypeOK, Set

LEMMA RaisesTypes ==
    ASSUME IncTypeOK, NEW k \in Counter, Raises(k)
    PROVE  /\ failures' \in 0..MaxFailures
           /\ alone' \subseteq Caller
           /\ anew' \in [Counter -> Int \cup {Nowhere}]
  BY IncrementBounds DEF IncTypeOK, Raises

LEMMA MoveTypes ==
    ASSUME IncTypeOK, NEW r \in Caller, ~ Asks(r, "quiet"), NEW label \in {"inc", "update"},
           call' = [call EXCEPT ![r].pc = label]
    PROVE  call' \in [Caller -> {Quiet} \cup Calling]
<1>1. [call[r] EXCEPT !.pc = label] \in Calling
  BY Asking DEF Calling
<1> QED
  BY <1>1 DEF IncTypeOK

\* What a call on the key of r writes when nobody hears of it.
Unheard(r) ==
    \/ UNCHANGED <<seq, given, again>>
    \/ \E s \in Store : LoseCount(s, call[r].key) \/ Set(s, call[r].key, call[r].value)

\* Each call that raises, and each request that ends in the middle, is one of those.
LEMMA RaisesUnheard ==
    ASSUME IncTypeOK, NEW r \in Caller, IncrRaises(r) \/ SetRaises(r) \/ CallEnds(r)
    PROVE  /\ Unheard(r) /\ ~ Asks(r, "quiet") /\ Raises(call[r].key)
           /\ call[r].key \in Counter /\ call[r].value \in Int /\ call[r] \in Calling
           /\ call' \in [Caller -> {Quiet} \cup Calling]
           /\ call'[r] = Quiet \/ call'[r].key = call[r].key
           /\ \A q \in Caller : q # r => call'[q] = call[q]
<1>1. Unheard(r) /\ ~ Asks(r, "quiet") /\ Raises(call[r].key)
  BY DEF IncrRaises, SetRaises, CallEnds, Unheard, Store, Asks
<1>2. call[r].key \in Counter /\ call[r].value \in Int /\ call[r] \in Calling
  BY <1>1, Asking
<1>3. \/ call' = [call EXCEPT ![r] = Quiet]
      \/ call' = [call EXCEPT ![r].pc = "inc"] \/ call' = [call EXCEPT ![r].pc = "update"]
  BY DEF IncrRaises, SetRaises, CallEnds, Done
<1>4. call' \in [Caller -> {Quiet} \cup Calling]
  BY <1>1, <1>3, MoveTypes DEF IncTypeOK
<1>5. call'[r] = Quiet \/ call'[r].key = call[r].key
  BY <1>2, <1>3 DEF IncTypeOK, Calling
<1>6. \A q \in Caller : q # r => call'[q] = call[q]
  BY <1>3 DEF IncTypeOK
<1> QED
  BY <1>1, <1>2, <1>4, <1>5, <1>6

LEMMA UnheardTypes ==
    ASSUME IncTypeOK, NEW r \in Caller, Unheard(r), call[r].key \in Counter, call[r].value \in Int
    PROVE  /\ seq' \in [Store -> [Counter -> Int]]
           /\ given' \in [Store -> [Counter -> SUBSET Int]]
           /\ again' \subseteq Store \X Counter \X Int
<1>1. CASE UNCHANGED <<seq, given, again>>
  BY <1>1 DEF IncTypeOK
<1>2. ASSUME NEW s \in Store, LoseCount(s, call[r].key) PROVE seq' \in [Store -> [Counter -> Int]] /\ UNCHANGED <<given, again>>
  BY <1>2, CountedTypes DEF LoseCount
<1>3. ASSUME NEW s \in Store, Set(s, call[r].key, call[r].value)
      PROVE  /\ seq' \in [Store -> [Counter -> Int]]
             /\ given' \in [Store -> [Counter -> SUBSET Int]]
             /\ again' \subseteq Store \X Counter \X Int
  BY <1>3, SetTypes
<1> QED
  BY <1>1, <1>2, <1>3 DEF Unheard, IncTypeOK

LEMMA IncTypeStep == IncTypeOK /\ [IncNext]_incVars => IncTypeOK'
<1> SUFFICES ASSUME IncTypeOK, [IncNext]_incVars PROVE IncTypeOK'
  OBVIOUS
<1>1. ASSUME NEW r \in Caller, NEW k \in Counter, GetNextIncrement(r, k) PROVE IncTypeOK'
  BY <1>1, BeginTypes DEF GetNextIncrement, IncTypeOK
<1>2. ASSUME NEW r \in Caller, NEW k \in Counter, NEW v \in Base, ResetIncrement(r, k, v)
      PROVE IncTypeOK'
  <2>1. v \in Int /\ anew' \in [Counter -> Int \cup {Nowhere}]
    BY <1>2, BaseAssumption DEF ResetIncrement, IncTypeOK
  <2> QED
    BY <1>2, <2>1, BeginTypes DEF ResetIncrement
<1>3. ASSUME NEW r \in Caller, IncrRedis(r) PROVE IncTypeOK'
  BY <1>3, GiveTypes DEF IncrRedis, Asks, Store
<1>4. ASSUME NEW r \in Caller, IncMongo(r) PROVE IncTypeOK'
  BY <1>4, GiveTypes DEF IncMongo, Asks, Store
<1>5. ASSUME NEW r \in Caller, IncrRaises(r) PROVE IncTypeOK'
  <2>1. /\ Unheard(r) /\ call[r].key \in Counter /\ call[r].value \in Int
        /\ Raises(call[r].key) /\ call' \in [Caller -> {Quiet} \cup Calling]
    BY <1>5, RaisesUnheard
  <2> QED
    BY <2>1, UnheardTypes, RaisesTypes DEF IncTypeOK
<1>6. ASSUME NEW r \in Caller, SetRedis(r) PROVE IncTypeOK'
  <2>1. ~ Asks(r, "quiet") /\ call[r].key \in Counter /\ call[r].value \in Int
    BY <1>6, Asking DEF SetRedis, Asks
  <2>2. call' \in [Caller -> {Quiet} \cup Calling]
    BY <1>6, <2>1, MoveTypes DEF SetRedis
  <2> QED
    BY <1>6, <2>1, <2>2, SetTypes DEF SetRedis, IncTypeOK, Store
<1>7. ASSUME NEW r \in Caller, SetRaises(r) PROVE IncTypeOK'
  <2>1. /\ Unheard(r) /\ call[r].key \in Counter /\ call[r].value \in Int
        /\ Raises(call[r].key) /\ call' \in [Caller -> {Quiet} \cup Calling]
    BY <1>7, RaisesUnheard
  <2> QED
    BY <2>1, UnheardTypes, RaisesTypes DEF IncTypeOK
<1>8. ASSUME NEW r \in Caller, UpdateMongo(r) PROVE IncTypeOK'
  <2>1. call[r].key \in Counter /\ call[r].value \in Int
    BY <1>8, Asking DEF UpdateMongo, Asks
  <2>2. call' \in [Caller -> {Quiet} \cup Calling]
    BY <1>8 DEF UpdateMongo, Done, IncTypeOK
  <2>3. anew' \in [Counter -> Int \cup {Nowhere}]
    BY <1>8, <2>1 DEF UpdateMongo, IncTypeOK
  <2> QED
    BY <1>8, <2>1, <2>2, <2>3, SetTypes DEF UpdateMongo, Updated, IncTypeOK, Store
<1>9. ASSUME NEW r \in Caller, CallEnds(r) PROVE IncTypeOK'
  <2>1. /\ Unheard(r) /\ call[r].key \in Counter /\ call[r].value \in Int
        /\ Raises(call[r].key) /\ call' \in [Caller -> {Quiet} \cup Calling]
    BY <1>9, RaisesUnheard
  <2> QED
    BY <2>1, UnheardTypes, RaisesTypes DEF IncTypeOK
<1>10. CASE UNCHANGED incVars
  BY <1>10 DEF incVars, IncTypeOK
<1> QED
  BY <1>1, <1>2, <1>3, <1>4, <1>5, <1>6, <1>7, <1>8, <1>9, <1>10 DEF IncNext

\* Counters, requests and the history of both have their types.
THEOREM IncTypeCorrect == IncSpec => []IncTypeOK
<1>1. IncInit => IncTypeOK
  BY IncrementBounds DEF IncInit, IncTypeOK, Store
<1> QED
  BY <1>1, IncTypeStep, PTL DEF IncSpec

-----------------------------------------------------------------------------
(***************************************************************************)
(* No store repeats itself: what it gave lies below its number.            *)
(***************************************************************************)
GivenInv ==
    /\ IncTypeOK
    /\ again = {}
    /\ \A s \in Store, k \in Counter : \A n \in given[s][k] : n <= seq[s][k]

LEMMA GivenGive ==
    ASSUME GivenInv, NEW s \in Store, NEW r \in Caller, ~ Asks(r, "quiet"), Give(s, r)
    PROVE  /\ again' = {}
           /\ \A t \in Store, c \in Counter : \A m \in given'[t][c] : m <= seq'[t][c]
<1> DEFINE k == call[r].key
           n == seq[s][k] + 1
<1>1. IncTypeOK /\ k \in Counter /\ seq[s][k] \in Int
  BY Asking DEF GivenInv, IncTypeOK
<1>2. n \notin given[s][k]
  BY <1>1 DEF GivenInv
<1>3. again' = {}
  BY <1>2 DEF Give, GivenInv
<1>4. ASSUME NEW t \in Store, NEW c \in Counter PROVE \A m \in given'[t][c] : m <= seq'[t][c]
  <2>1. CASE t = s /\ c = k
    <3>1. given'[t][c] = given[s][k] \cup {n} /\ seq'[t][c] = n
      BY <2>1, <1>1 DEF Give, Counted, IncTypeOK
    <3>2. \A m \in given[s][k] : m \in Int /\ m <= seq[s][k]
      BY <1>1 DEF GivenInv, IncTypeOK
    <3> QED
      BY <3>1, <3>2, <1>1
  <2>2. CASE ~ (t = s /\ c = k)
    <3>1. given'[t][c] = given[t][c] /\ seq'[t][c] = seq[t][c]
      BY <2>2, <1>1 DEF Give, Counted, IncTypeOK
    <3> QED
      BY <3>1 DEF GivenInv
  <2> QED
    BY <2>1, <2>2
<1> QED
  BY <1>3, <1>4

LEMMA GivenSet ==
    ASSUME GivenInv, NEW s \in Store, NEW k \in Counter, NEW v \in Int, Set(s, k, v)
    PROVE  /\ again' = {}
           /\ \A t \in Store, c \in Counter : \A m \in given'[t][c] : m <= seq'[t][c]
<1>1. again' = {}
  BY DEF GivenInv, Set
<1>2. ASSUME NEW t \in Store, NEW c \in Counter PROVE \A m \in given'[t][c] : m <= seq'[t][c]
  <2>1. CASE t = s /\ c = k
    BY <2>1 DEF GivenInv, IncTypeOK, Set
  <2>2. CASE ~ (t = s /\ c = k)
    BY <2>2 DEF GivenInv, IncTypeOK, Set
  <2> QED
    BY <2>1, <2>2
<1> QED
  BY <1>1, <1>2

\* A number that was lost leaves a gap above what was given.
LEMMA GivenCounted ==
    ASSUME GivenInv, NEW s \in Store, NEW k \in Counter, LoseCount(s, k)
    PROVE  again' = {} /\ \A t \in Store, c \in Counter : \A m \in given'[t][c] : m <= seq'[t][c]
<1> SUFFICES ASSUME NEW t \in Store, NEW c \in Counter PROVE \A m \in given'[t][c] : m <= seq'[t][c]
  BY DEF GivenInv, LoseCount
<1>1. seq[t][c] \in Int /\ given[t][c] \subseteq Int /\ \A m \in given[t][c] : m <= seq[t][c]
  BY DEF GivenInv, IncTypeOK
<1>2. seq'[t][c] = seq[t][c] \/ seq'[t][c] = seq[t][c] + 1
  BY DEF GivenInv, IncTypeOK, Counted, LoseCount
<1>3. given' = given
  BY DEF LoseCount
<1> QED
  BY <1>1, <1>2, <1>3

LEMMA GivenStep == GivenInv /\ [IncNext]_incVars => GivenInv'
<1> SUFFICES ASSUME GivenInv, [IncNext]_incVars
             PROVE  /\ again' = {}
                    /\ \A s \in Store, k \in Counter : \A n \in given'[s][k] : n <= seq'[s][k]
  BY IncTypeStep DEF GivenInv
<1> DEFINE Goal == /\ again' = {}
                   /\ \A s \in Store, k \in Counter : \A n \in given'[s][k] : n <= seq'[s][k]
<1>0. IncTypeOK
  BY DEF GivenInv
<1>1. ASSUME UNCHANGED <<seq, given, again>> PROVE Goal
  BY <1>1 DEF GivenInv
<1>2. ASSUME NEW r \in Caller, NEW k \in Counter, GetNextIncrement(r, k) PROVE Goal
  BY <1>1, <1>2 DEF GetNextIncrement, Begin
<1>3. ASSUME NEW r \in Caller, NEW k \in Counter, NEW v \in Base, ResetIncrement(r, k, v) PROVE Goal
  BY <1>1, <1>3 DEF ResetIncrement, Begin
<1>4. ASSUME NEW r \in Caller, IncrRedis(r) PROVE Goal
  BY <1>4, GivenGive DEF IncrRedis, Asks, Store
<1>5. ASSUME NEW r \in Caller, IncMongo(r) PROVE Goal
  BY <1>5, GivenGive DEF IncMongo, Asks, Store
<1>6. ASSUME NEW r \in Caller, IncrRaises(r) \/ SetRaises(r) \/ CallEnds(r) PROVE Goal
  <2>1. Unheard(r) /\ call[r].key \in Counter /\ call[r].value \in Int
    BY <1>0, <1>6, RaisesUnheard
  <2> QED
    BY <1>1, <2>1, GivenCounted, GivenSet DEF Unheard
<1>7. ASSUME NEW r \in Caller, SetRedis(r) PROVE Goal
  <2>1. call[r].key \in Counter /\ call[r].value \in Int /\ Set("redis", call[r].key, call[r].value)
    BY <1>0, <1>7, Asking DEF SetRedis, Asks
  <2> QED
    BY <2>1, GivenSet DEF Store
<1>8. ASSUME NEW r \in Caller, UpdateMongo(r) PROVE Goal
  <2>1. call[r].key \in Counter /\ call[r].value \in Int /\ Set("mongo", call[r].key, call[r].value)
    BY <1>0, <1>8, Asking DEF UpdateMongo, Updated, Asks
  <2> QED
    BY <2>1, GivenSet DEF Store
<1>9. CASE UNCHANGED incVars
  BY <1>1, <1>9 DEF incVars
<1> QED
  BY <1>2, <1>3, <1>4, <1>5, <1>6, <1>7, <1>8, <1>9 DEF IncNext

\* get_next_increment: between two settings of a store that store gives no number twice.
THEOREM StoreCorrect == IncSpec => []StoreNeverRepeats
<1>1. IncInit => GivenInv
  BY IncrementBounds DEF IncInit, GivenInv, IncTypeOK, Store
<1>2. GivenInv => StoreNeverRepeats
  BY DEF GivenInv, StoreNeverRepeats
<1> QED
  BY <1>1, <1>2, GivenStep, PTL DEF IncSpec

-----------------------------------------------------------------------------
(***************************************************************************)
(* A reset that is alone.  After its SET the Redis counter stands at its   *)
(* value; once it is over only calls that ask Redis are on the key, until  *)
(* one of them fails.                                                      *)
(***************************************************************************)
AloneInv ==
    \A r \in alone :
        /\ call[r].pc \in {"set", "update"}
        /\ \A q \in Caller : call[q] # Quiet /\ call[q].key = call[r].key => q = r
        /\ Asks(r, "update") => /\ seq["redis"][call[r].key] = call[r].value
                                /\ given["redis"][call[r].key] = {}

AnewInv ==
    \A k \in Counter : anew[k] # Nowhere =>
        /\ anew[k] <= seq["redis"][k]
        /\ given["redis"][k] = (anew[k] + 1)..seq["redis"][k]
        /\ seq["mongo"][k] = anew[k]
        /\ \A r \in Caller : call[r] # Quiet /\ call[r].key = k => Asks(r, "incr")

ResetInv == IncTypeOK /\ AloneInv /\ AnewInv

\* What a SET and an INCR write, and what they leave alone.
LEMMA SetWrites ==
    ASSUME IncTypeOK, NEW s \in Store, NEW k \in Counter, NEW v \in Int, Set(s, k, v)
    PROVE  /\ seq'[s][k] = v /\ given'[s][k] = {}
           /\ \A t \in Store, c \in Counter : t # s \/ c # k =>
                seq'[t][c] = seq[t][c] /\ given'[t][c] = given[t][c]
  BY DEF IncTypeOK, Set

LEMMA CountedWrites ==
    ASSUME IncTypeOK, NEW s \in Store, NEW k \in Counter, seq' = Counted(s, k)
    PROVE  /\ seq'[s][k] = seq[s][k] + 1
           /\ \A t \in Store, c \in Counter : t # s \/ c # k => seq'[t][c] = seq[t][c]
  BY DEF IncTypeOK, Counted

\* A request on another key is none of a lone reset's.
LEMMA AloneApart ==
    ASSUME ResetInv, NEW x \in alone, NEW r \in Caller, ~ Asks(r, "quiet"), r # x
    PROVE  /\ x \in Caller /\ call[x] # Quiet /\ call[x].key \in Counter
           /\ call[x].key # call[r].key
<1>1. x \in Caller /\ call[x].pc \in {"set", "update"} /\ IncTypeOK
  BY DEF ResetInv, IncTypeOK, AloneInv
<1>2. ~ Asks(x, "quiet") /\ call[x] # Quiet /\ call[r] # Quiet
  BY <1>1 DEF Asks, Quiet
<1> QED
  BY <1>1, <1>2, Asking DEF ResetInv, AloneInv

LEMMA ResetBegin ==
    ASSUME ResetInv, NEW r \in Caller, NEW k \in Counter, NEW v \in Int,
           NEW label \in {"incr", "set"}, Begin(r, label, k, v),
           anew' = IF label = "set" THEN [anew EXCEPT ![k] = Nowhere] ELSE anew
    PROVE  AloneInv' /\ AnewInv'
<1>0. IncTypeOK /\ call' = [call EXCEPT ![r] = [pc |-> label, key |-> k, value |-> v]]
      /\ UNCHANGED <<seq, given>> /\ call[r].pc = "quiet"
  BY DEF ResetInv, Begin, Asks
<1>1. ASSUME NEW x \in alone'
      PROVE  /\ call'[x].pc \in {"set", "update"}
             /\ \A q \in Caller : call'[q] # Quiet /\ call'[q].key = call'[x].key => q = x
             /\ Asks(x, "update")' => /\ seq'["redis"][call'[x].key] = call'[x].value
                                      /\ given'["redis"][call'[x].key] = {}
  <2>1. CASE x \in alone
    <3>1. x \in Caller /\ call[x].pc \in {"set", "update"} /\ x # r
      BY <1>0, <2>1 DEF ResetInv, IncTypeOK, AloneInv
    <3>2. call[x] # Quiet
      BY <3>1 DEF Quiet
    <3>3. x \notin On(k)
      BY <1>1, <3>1, <1>0 DEF Begin, On
    <3>4. call[x].key # k /\ call'[x] = call[x]
      BY <1>0, <3>1, <3>2, <3>3 DEF On, IncTypeOK
    <3>5. \A q \in Caller : call'[q] # Quiet /\ call'[q].key = call[x].key => q = x
      <4> SUFFICES ASSUME NEW q \in Caller, call'[q] # Quiet, call'[q].key = call[x].key
                   PROVE  q = x
        OBVIOUS
      <4>1. q # r
        BY <1>0, <3>4 DEF IncTypeOK
      <4>2. call'[q] = call[q]
        BY <1>0, <4>1 DEF IncTypeOK
      <4> QED
        BY <2>1, <4>2 DEF ResetInv, AloneInv
    <3> QED
      BY <1>0, <2>1, <3>1, <3>4, <3>5 DEF ResetInv, AloneInv, Asks
  <2>2. CASE x = r /\ label = "set" /\ On(k) = {}
    <3>1. call'[x] = [pc |-> "set", key |-> k, value |-> v]
      BY <1>0, <2>2 DEF IncTypeOK
    <3>2. \A q \in Caller : call'[q] # Quiet /\ call'[q].key = k => q = x
      BY <1>0, <2>2 DEF IncTypeOK, On
    <3> QED
      BY <3>1, <3>2 DEF Asks
  <2> QED
    BY <1>1, <2>1, <2>2 DEF Begin
<1>2. ASSUME NEW c \in Counter, anew'[c] # Nowhere
      PROVE  /\ anew[c] # Nowhere /\ anew'[c] = anew[c]
             /\ \A q \in Caller : call'[q] # Quiet /\ call'[q].key = c => Asks(q, "incr")'
  <2>1. anew[c] # Nowhere /\ anew'[c] = anew[c] /\ (label = "set" => c # k)
    BY <1>0, <1>2 DEF IncTypeOK
  <2>2. ASSUME NEW q \in Caller, call'[q] # Quiet, call'[q].key = c PROVE Asks(q, "incr")'
    <3>1. CASE q = r
      <4>1. call'[q] = [pc |-> label, key |-> k, value |-> v]
        BY <1>0, <3>1 DEF IncTypeOK
      <4> QED
        BY <2>1, <2>2, <4>1 DEF Asks
    <3>2. CASE q # r
      <4>1. call'[q] = call[q]
        BY <1>0, <3>2 DEF IncTypeOK
      <4> QED
        BY <2>1, <2>2, <4>1 DEF ResetInv, AnewInv, Asks
    <3> QED
      BY <3>1, <3>2
  <2> QED
    BY <2>1, <2>2
<1> QED
  BY <1>0, <1>1, <1>2 DEF ResetInv, AloneInv, AnewInv

LEMMA ResetGive ==
    ASSUME ResetInv, NEW s \in Store, NEW r \in Caller, Give(s, r),
           Asks(r, IF s = "redis" THEN "incr" ELSE "inc")
    PROVE  AloneInv' /\ AnewInv'
<1> DEFINE k == call[r].key
           n == seq[s][k] + 1
<1>0. /\ IncTypeOK /\ ~ Asks(r, "quiet") /\ k \in Counter /\ call[r] # Quiet
      /\ call' = [call EXCEPT ![r] = Quiet] /\ UNCHANGED <<alone, anew>>
  BY Asking DEF ResetInv, Give, Done, Asks, Quiet
<1>1. /\ seq'[s][k] = n /\ given'[s][k] = given[s][k] \cup {n}
      /\ \A t \in Store, c \in Counter : t # s \/ c # k =>
            seq'[t][c] = seq[t][c] /\ given'[t][c] = given[t][c]
  <2>1. given' = [given EXCEPT ![s][k] = @ \cup {n}] /\ seq' = Counted(s, k)
    BY DEF Give
  <2> QED
    BY <1>0, <2>1, CountedWrites DEF IncTypeOK
<1>2. ASSUME NEW x \in alone
      PROVE  /\ call'[x].pc \in {"set", "update"}
             /\ \A q \in Caller : call'[q] # Quiet /\ call'[q].key = call'[x].key => q = x
             /\ Asks(x, "update")' => /\ seq'["redis"][call'[x].key] = call'[x].value
                                      /\ given'["redis"][call'[x].key] = {}
  <2>1. call[x].pc \in {"set", "update"} /\ x # r
    BY DEF ResetInv, AloneInv, Asks
  <2>2. x \in Caller /\ call[x].key \in Counter /\ call[x].key # k
    BY <1>0, <2>1, AloneApart
  <2>3. call'[x] = call[x]
    BY <1>0, <2>1, <2>2 DEF IncTypeOK
  <2>4. \A q \in Caller : call'[q] # Quiet => call'[q] = call[q]
    BY <1>0 DEF IncTypeOK
  <2> QED
    BY <1>1, <2>1, <2>2, <2>3, <2>4 DEF ResetInv, AloneInv, Asks, Store
<1>3. ASSUME NEW c \in Counter, anew[c] # Nowhere
      PROVE  /\ anew[c] <= seq'["redis"][c]
             /\ given'["redis"][c] = (anew[c] + 1)..seq'["redis"][c]
             /\ seq'["mongo"][c] = anew[c]
             /\ \A q \in Caller : call'[q] # Quiet /\ call'[q].key = c => Asks(q, "incr")'
  <2>1. /\ anew[c] <= seq["redis"][c]
        /\ given["redis"][c] = (anew[c] + 1)..seq["redis"][c]
        /\ seq["mongo"][c] = anew[c]
        /\ \A q \in Caller : call[q] # Quiet /\ call[q].key = c => Asks(q, "incr")
    BY <1>3 DEF ResetInv, AnewInv
  <2>2. \A q \in Caller : call'[q] # Quiet => call'[q] = call[q]
    BY <1>0 DEF IncTypeOK
  <2>3. \A q \in Caller : call'[q] # Quiet /\ call'[q].key = c => Asks(q, "incr")'
    BY <2>1, <2>2 DEF Asks
  <2>4. CASE c # k
    BY <1>1, <2>1, <2>3, <2>4 DEF Store
  <2>5. CASE c = k
    <3>1. s = "redis"
      BY <1>0, <2>1, <2>5 DEF Asks, Store
    <3>2. seq'["redis"][c] = seq["redis"][c] + 1 /\ seq'["mongo"][c] = seq["mongo"][c]
      BY <1>1, <2>5, <3>1 DEF Store
    <3>3. given'["redis"][c] = given["redis"][c] \cup {seq["redis"][c] + 1}
      BY <1>1, <2>5, <3>1
    <3>4. seq["redis"][c] \in Int /\ anew[c] \in Int
      BY <1>0, <1>3 DEF IncTypeOK, Store
    <3>5. (anew[c] + 1)..(seq["redis"][c] + 1) = ((anew[c] + 1)..seq["redis"][c]) \cup {seq["redis"][c] + 1}
      BY <2>1, <3>4
    <3> QED
      BY <2>1, <2>3, <3>2, <3>3, <3>4, <3>5
  <2> QED
    BY <2>4, <2>5
<1> QED
  BY <1>0, <1>2, <1>3 DEF AloneInv, AnewInv

\* A call that raises ends what was alone or anew on its key, and touches no other key.
LEMMA ResetRaises ==
    ASSUME ResetInv, NEW r \in Caller, ~ Asks(r, "quiet"), Raises(call[r].key),
           call'[r] = Quiet \/ call'[r].key = call[r].key,
           \A q \in Caller : q # r => call'[q] = call[q],
           \A t \in Store, c \in Counter :
                c # call[r].key => seq'[t][c] = seq[t][c] /\ given'[t][c] = given[t][c]
    PROVE  AloneInv' /\ AnewInv'
<1> DEFINE k == call[r].key
<1>0. IncTypeOK /\ k \in Counter /\ call[r] # Quiet
  BY Asking DEF ResetInv, Asks, Quiet
<1>1. alone' = alone \ On(k) /\ r \in On(k)
  BY <1>0 DEF Raises, On
<1>2. ASSUME NEW x \in alone'
      PROVE  /\ call'[x].pc \in {"set", "update"}
             /\ \A q \in Caller : call'[q] # Quiet /\ call'[q].key = call'[x].key => q = x
             /\ Asks(x, "update")' => /\ seq'["redis"][call'[x].key] = call'[x].value
                                      /\ given'["redis"][call'[x].key] = {}
  <2>1. x \in alone /\ x # r
    BY <1>1, <1>2
  <2>2. x \in Caller /\ call[x].key \in Counter /\ call[x].key # k
    BY <2>1, AloneApart
  <2>3. call'[x] = call[x]
    BY <2>1, <2>2
  <2>4. \A q \in Caller : call'[q] # Quiet /\ call'[q].key = call[x].key => call'[q] = call[q]
    BY <2>2
  <2> QED
    BY <2>1, <2>2, <2>3, <2>4 DEF ResetInv, AloneInv, Asks, Store
<1>3. ASSUME NEW c \in Counter, anew'[c] # Nowhere
      PROVE  /\ anew'[c] <= seq'["redis"][c]
             /\ given'["redis"][c] = (anew'[c] + 1)..seq'["redis"][c]
             /\ seq'["mongo"][c] = anew'[c]
             /\ \A q \in Caller : call'[q] # Quiet /\ call'[q].key = c => Asks(q, "incr")'
  <2>1. c # k /\ anew'[c] = anew[c]
    BY <1>0, <1>3 DEF Raises, IncTypeOK
  <2>2. \A q \in Caller : call'[q] # Quiet /\ call'[q].key = c => call'[q] = call[q]
    BY <2>1
  <2> QED
    BY <1>3, <2>1, <2>2 DEF ResetInv, AnewInv, Asks, Store
<1> QED
  BY <1>2, <1>3 DEF AloneInv, AnewInv

\* While a reset is under way its key is not anew.
LEMMA NotAnew ==
    ASSUME ResetInv, NEW r \in Caller, ~ Asks(r, "quiet"), ~ Asks(r, "incr")
    PROVE  anew[call[r].key] = Nowhere
  BY Asking DEF ResetInv, AnewInv, Asks, Quiet

LEMMA ResetSetRedis ==
    ASSUME ResetInv, NEW r \in Caller, SetRedis(r)
    PROVE  AloneInv' /\ AnewInv'
<1> DEFINE k == call[r].key
<1>0. /\ IncTypeOK /\ ~ Asks(r, "quiet") /\ k \in Counter /\ call[r].value \in Int
      /\ call[r] \in Calling /\ UNCHANGED <<alone, anew>>
  BY Asking DEF ResetInv, SetRedis, Asks
<1>1. /\ seq'["redis"][k] = call[r].value /\ given'["redis"][k] = {}
      /\ \A t \in Store, c \in Counter : t # "redis" \/ c # k =>
            seq'[t][c] = seq[t][c] /\ given'[t][c] = given[t][c]
  BY <1>0, SetWrites DEF SetRedis, Store
<1>2. /\ call'[r].pc = "update" /\ call'[r].key = k /\ call'[r].value = call[r].value
      /\ \A q \in Caller : q # r => call'[q] = call[q]
  BY <1>0 DEF SetRedis, IncTypeOK, Calling
<1>3. ASSUME NEW x \in alone
      PROVE  /\ call'[x].pc \in {"set", "update"}
             /\ \A q \in Caller : call'[q] # Quiet /\ call'[q].key = call'[x].key => q = x
             /\ Asks(x, "update")' => /\ seq'["redis"][call'[x].key] = call'[x].value
                                      /\ given'["redis"][call'[x].key] = {}
  <2>1. CASE x = r
    <3>1. \A q \in Caller : call'[q] # Quiet /\ call'[q].key = k => q = x
      BY <1>2, <2>1 DEF ResetInv, AloneInv
    <3>2. call'[x].key = k /\ call'[x].value = call[r].value /\ call'[x].pc = "update"
      BY <1>2, <2>1
    <3>3. seq'["redis"][call'[x].key] = call'[x].value /\ given'["redis"][call'[x].key] = {}
      BY <1>1, <3>2
    <3> QED
      BY <3>1, <3>2, <3>3
  <2>2. CASE x # r
    <3>1. x \in Caller /\ call[x].key \in Counter /\ call[x].key # k
      BY <1>0, <2>2, AloneApart
    <3>2. call'[x] = call[x]
      BY <1>2, <2>2, <3>1
    <3>3. \A q \in Caller : call'[q] # Quiet /\ call'[q].key = call[x].key => call'[q] = call[q]
      BY <1>2, <3>1
    <3>4. /\ call[x].pc \in {"set", "update"}
          /\ \A q \in Caller : call[q] # Quiet /\ call[q].key = call[x].key => q = x
          /\ call[x].pc = "update" => /\ seq["redis"][call[x].key] = call[x].value
                                      /\ given["redis"][call[x].key] = {}
      BY <1>0, <1>3 DEF ResetInv, AloneInv, Asks
    <3>5. \A q \in Caller : call'[q] # Quiet /\ call'[q].key = call'[x].key => q = x
      BY <3>2, <3>3, <3>4
    <3>6. /\ seq'["redis"][call[x].key] = seq["redis"][call[x].key]
          /\ given'["redis"][call[x].key] = given["redis"][call[x].key]
      BY <1>1, <3>1 DEF Store
    <3> QED
      BY <3>2, <3>4, <3>5, <3>6 DEF Asks
  <2> QED
    BY <2>1, <2>2
<1>4. ASSUME NEW c \in Counter, anew[c] # Nowhere
      PROVE  /\ anew[c] <= seq'["redis"][c]
             /\ given'["redis"][c] = (anew[c] + 1)..seq'["redis"][c]
             /\ seq'["mongo"][c] = anew[c]
             /\ \A q \in Caller : call'[q] # Quiet /\ call'[q].key = c => Asks(q, "incr")'
  <2>1. c # k
    BY <1>0, <1>4, NotAnew DEF SetRedis, Asks
  <2>2. \A q \in Caller : call'[q] # Quiet /\ call'[q].key = c => call'[q] = call[q]
    BY <1>2, <2>1
  <2> QED
    BY <1>1, <1>4, <2>1, <2>2 DEF ResetInv, AnewInv, Asks, Store
<1> QED
  BY <1>0, <1>3, <1>4 DEF AloneInv, AnewInv

LEMMA ResetUpdateMongo ==
    ASSUME ResetInv, NEW r \in Caller, UpdateMongo(r)
    PROVE  AloneInv' /\ AnewInv'
<1> DEFINE k == call[r].key
<1>0. /\ IncTypeOK /\ ~ Asks(r, "quiet") /\ k \in Counter /\ call[r].value \in Int
      /\ call' = [call EXCEPT ![r] = Quiet] /\ alone' = alone \ {r}
  BY Asking DEF ResetInv, UpdateMongo, Asks, Done
<1>1. /\ seq'["mongo"][k] = call[r].value
      /\ \A t \in Store, c \in Counter : t # "mongo" \/ c # k =>
            seq'[t][c] = seq[t][c] /\ given'[t][c] = given[t][c]
  BY <1>0, SetWrites DEF UpdateMongo, Updated, Store
<1>2. \A q \in Caller : call'[q] # Quiet => q # r /\ call'[q] = call[q]
  BY <1>0 DEF IncTypeOK
<1>3. ASSUME NEW x \in alone'
      PROVE  /\ call'[x].pc \in {"set", "update"}
             /\ \A q \in Caller : call'[q] # Quiet /\ call'[q].key = call'[x].key => q = x
             /\ Asks(x, "update")' => /\ seq'["redis"][call'[x].key] = call'[x].value
                                      /\ given'["redis"][call'[x].key] = {}
  <2>1. x \in alone /\ x # r
    BY <1>0, <1>3
  <2>2. x \in Caller /\ call[x].key \in Counter /\ call[x].key # k
    BY <1>0, <2>1, AloneApart
  <2>3. call'[x] = call[x]
    BY <1>0, <2>1, <2>2 DEF IncTypeOK
  <2> QED
    BY <1>1, <1>2, <2>1, <2>2, <2>3 DEF ResetInv, AloneInv, Asks, Store
<1>4. ASSUME NEW c \in Counter, anew'[c] # Nowhere
      PROVE  /\ anew'[c] <= seq'["redis"][c]
             /\ given'["redis"][c] = (anew'[c] + 1)..seq'["redis"][c]
             /\ seq'["mongo"][c] = anew'[c]
             /\ \A q \in Caller : call'[q] # Quiet /\ call'[q].key = c => Asks(q, "incr")'
  <2>1. CASE c = k
    <3>1. anew[k] = Nowhere
      BY <1>0, NotAnew DEF UpdateMongo, Asks
    <3>2. r \in alone /\ anew'[k] = call[r].value
      BY <1>0, <1>4, <2>1, <3>1 DEF UpdateMongo, IncTypeOK
    <3>3. seq["redis"][k] = call[r].value /\ given["redis"][k] = {}
      BY <3>2 DEF UpdateMongo, ResetInv, AloneInv
    <3>4. \A q \in Caller : call'[q] # Quiet => call'[q].key # k
      BY <1>2, <3>2 DEF ResetInv, AloneInv
    <3>5. (call[r].value + 1)..call[r].value = {}
      BY <1>0
    <3>6. seq'["redis"][k] = call[r].value /\ given'["redis"][k] = {}
      BY <1>0, <1>1, <3>3 DEF Store
    <3>7. call[r].value <= call[r].value
      BY <1>0
    <3> QED
      BY <1>1, <2>1, <3>2, <3>4, <3>5, <3>6, <3>7
  <2>2. CASE c # k
    <3>1. anew'[c] = anew[c]
      BY <1>0, <2>2 DEF UpdateMongo, IncTypeOK
    <3> QED
      BY <1>1, <1>2, <1>4, <2>2, <3>1 DEF ResetInv, AnewInv, Asks, Store
  <2> QED
    BY <2>1, <2>2
<1> QED
  BY <1>3, <1>4 DEF AloneInv, AnewInv

LEMMA ResetStep == ResetInv /\ [IncNext]_incVars => ResetInv'
<1> SUFFICES ASSUME ResetInv, [IncNext]_incVars PROVE AloneInv' /\ AnewInv'
  BY IncTypeStep DEF ResetInv
<1>0. IncTypeOK
  BY DEF ResetInv
<1>1. ASSUME NEW r \in Caller, NEW k \in Counter, GetNextIncrement(r, k) PROVE AloneInv' /\ AnewInv'
  BY <1>1, ResetBegin DEF GetNextIncrement
<1>2. ASSUME NEW r \in Caller, NEW k \in Counter, NEW v \in Base, ResetIncrement(r, k, v)
      PROVE  AloneInv' /\ AnewInv'
  BY <1>2, ResetBegin, BaseAssumption DEF ResetIncrement
<1>3. ASSUME NEW r \in Caller, IncrRedis(r) PROVE AloneInv' /\ AnewInv'
  BY <1>3, ResetGive DEF IncrRedis, Store
<1>4. ASSUME NEW r \in Caller, IncMongo(r) PROVE AloneInv' /\ AnewInv'
  BY <1>4, ResetGive DEF IncMongo, Store
<1>5. ASSUME NEW r \in Caller, IncrRaises(r) \/ SetRaises(r) \/ CallEnds(r) PROVE AloneInv' /\ AnewInv'
  <2>1. /\ Unheard(r) /\ ~ Asks(r, "quiet") /\ Raises(call[r].key)
        /\ call[r].key \in Counter /\ call[r].value \in Int
        /\ call'[r] = Quiet \/ call'[r].key = call[r].key
        /\ \A q \in Caller : q # r => call'[q] = call[q]
    BY <1>0, <1>5, RaisesUnheard
  <2>2. \A t \in Store, c \in Counter :
            c # call[r].key => seq'[t][c] = seq[t][c] /\ given'[t][c] = given[t][c]
    BY <1>0, <2>1, CountedWrites, SetWrites DEF Unheard, LoseCount
  <2> QED
    BY <2>1, <2>2, ResetRaises
<1>6. ASSUME NEW r \in Caller, SetRedis(r) PROVE AloneInv' /\ AnewInv'
  BY <1>6, ResetSetRedis
<1>7. ASSUME NEW r \in Caller, UpdateMongo(r) PROVE AloneInv' /\ AnewInv'
  BY <1>7, ResetUpdateMongo
<1>8. CASE UNCHANGED incVars
  BY <1>8 DEF incVars, ResetInv, AloneInv, AnewInv, Asks
<1> QED
  BY <1>1, <1>2, <1>3, <1>4, <1>5, <1>6, <1>7, <1>8 DEF IncNext

\* reset_increment: after a reset that nothing overlapped and that failed nowhere the
\* numbers begin anew, without gaps, until a call on the key fails or it is reset again.
THEOREM ResetCorrect == IncSpec => []ResetStartsAnew
<1>1. IncInit => ResetInv
  BY IncrementBounds DEF IncInit, ResetInv, IncTypeOK, AloneInv, AnewInv, Store
<1>2. ResetInv => ResetStartsAnew
  BY DEF ResetInv, AnewInv, ResetStartsAnew
<1> QED
  BY <1>1, <1>2, ResetStep, PTL DEF IncSpec

-----------------------------------------------------------------------------
(***************************************************************************)
(* The leader's key.  A leader got its key at some moment, and the key     *)
(* that is there now, or the lease it ended by, is not older than that.    *)
(***************************************************************************)
LEMMA CronTypeStep == CronTypeOK /\ [CronNext]_cronVars => CronTypeOK'
<1> SUFFICES ASSUME CronTypeOK, [CronNext]_cronVars PROVE CronTypeOK'
  OBVIOUS
<1>1. ASSUME NEW p \in Server, IsCronLeader(p) PROVE CronTypeOK'
  BY <1>1, LeaseAssumption DEF CronTypeOK, IsCronLeader
<1>2. ASSUME NEW p \in Server, Lead(p) \/ AnswerLost(p) \/ CronEnds(p) PROVE CronTypeOK'
  BY <1>2 DEF CronTypeOK, Lead, AnswerLost, CronEnds
<1>3. ASSUME CronTick PROVE CronTypeOK'
  BY <1>3, LeaseAssumption DEF CronTypeOK, CronTick
<1>4. CASE UNCHANGED cronVars
  BY <1>4 DEF CronTypeOK, cronVars
<1> QED
  BY <1>1, <1>2, <1>3, <1>4 DEF CronNext

\* The key and the servers have their types, and a key ends within a lease.
THEOREM CronTypeCorrect == CronSpec => []CronTypeOK
<1>1. CronInit => CronTypeOK
  BY LeaseAssumption DEF CronInit, CronTypeOK
<1> QED
  BY <1>1, CronTypeStep, PTL DEF CronSpec

Leads(p) == asking[p] # Off \/ busy[p] # Off

LeaderInv ==
    /\ CronTypeOK
    /\ \A p \in Server : asking[p] = Off \/ busy[p] = Off
    /\ \A p \in Server : Leads(p) =>
         \/ LeaderSince(p) + Lease <= cronNow
         \/ keyEnd = LeaderSince(p) + Lease
    /\ OverlapNeedsOverrun

LEMMA LeaderStep == LeaderInv /\ [CronNext]_cronVars => LeaderInv'
<1> SUFFICES ASSUME LeaderInv, [CronNext]_cronVars PROVE LeaderInv'
  OBVIOUS
<1>0. CronTypeOK /\ CronTypeOK' /\ Lease \in Nat /\ Lease > 0
  BY CronTypeStep, LeaseAssumption DEF LeaderInv
<1>1. ASSUME NEW p \in Server, IsCronLeader(p) PROVE LeaderInv'
  <2>1. /\ asking'[p] = cronNow /\ busy'[p] = Off /\ keyEnd' = cronNow + Lease /\ cronNow' = cronNow
        /\ \A q \in Server : q # p => asking'[q] = asking[q] /\ busy'[q] = busy[q]
    BY <1>0, <1>1 DEF IsCronLeader, CronTypeOK
  <2>2. LeaderSince(p)' = cronNow
    BY <1>0, <2>1 DEF LeaderSince, CronTypeOK, Off
  <2>3. \A q \in Server : q # p => LeaderSince(q)' = LeaderSince(q)
    BY <2>1 DEF LeaderSince
  <2>4. \A q \in Server : q # p /\ LeaderSince(q) # Off => LeaderSince(q) + Lease <= cronNow
    BY <1>0, <1>1 DEF LeaderInv, IsCronLeader, Granted, LeaderSince, Leads, CronTypeOK, NoKey, Off
  <2>5. OverlapNeedsOverrun'
    BY <1>0, <2>1, <2>2, <2>3, <2>4 DEF LeaderInv, OverlapNeedsOverrun, LeaderSince, CronTypeOK, Off
  <2> QED
    BY <1>0, <2>1, <2>2, <2>3, <2>4, <2>5 DEF LeaderInv, Leads, LeaderSince
<1>2. ASSUME NEW p \in Server, Lead(p) PROVE LeaderInv'
  <2>1. /\ asking'[p] = Off /\ busy'[p] = asking[p] /\ UNCHANGED <<cronNow, keyEnd>>
        /\ \A q \in Server : q # p => asking'[q] = asking[q] /\ busy'[q] = busy[q]
    BY <1>0, <1>2 DEF Lead, CronTypeOK
  <2>2. \A q \in Server : LeaderSince(q)' = LeaderSince(q) /\ Leads(q)' = Leads(q)
    BY <1>2, <2>1 DEF Lead, LeaderSince, Leads, LeaderInv
  <2> QED
    BY <1>0, <1>2, <2>1, <2>2 DEF LeaderInv, OverlapNeedsOverrun
<1>3. ASSUME NEW p \in Server, AnswerLost(p) \/ CronEnds(p) PROVE LeaderInv'
  <2>1. /\ UNCHANGED <<cronNow, keyEnd>> /\ LeaderSince(p)' = Off /\ ~ Leads(p)'
        /\ \A q \in Server : q # p => asking'[q] = asking[q] /\ busy'[q] = busy[q]
    BY <1>0, <1>3 DEF AnswerLost, CronEnds, CronTypeOK, LeaderInv, Leads, LeaderSince
  <2>2. \A q \in Server : q # p => LeaderSince(q)' = LeaderSince(q) /\ Leads(q)' = Leads(q)
    BY <2>1 DEF LeaderSince, Leads
  <2>3. asking'[p] = Off \/ busy'[p] = Off
    BY <2>1 DEF Leads
  <2> QED
    BY <1>0, <2>1, <2>2, <2>3 DEF LeaderInv, OverlapNeedsOverrun
<1>4. ASSUME CronTick PROVE LeaderInv'
  <2>1. cronNow' = cronNow + 1 /\ UNCHANGED <<asking, busy>>
        /\ keyEnd' = IF keyEnd = cronNow + 1 THEN NoKey ELSE keyEnd
    BY <1>4 DEF CronTick
  <2>2. \A q \in Server : LeaderSince(q)' = LeaderSince(q) /\ Leads(q)' = Leads(q)
    BY <2>1 DEF LeaderSince, Leads
  <2>3. \A q \in Server : Leads(q) => LeaderSince(q) \in Nat
    BY <1>0 DEF Leads, LeaderSince, CronTypeOK
  <2>4. \A q \in Server : Leads(q) =>
            LeaderSince(q) + Lease <= cronNow + 1 \/ keyEnd' = LeaderSince(q) + Lease
    BY <1>0, <2>1, <2>3 DEF LeaderInv, CronTypeOK
  <2> QED
    BY <1>0, <2>1, <2>2, <2>4 DEF LeaderInv, OverlapNeedsOverrun
<1>5. CASE UNCHANGED cronVars
  BY <1>0, <1>5 DEF LeaderInv, cronVars, OverlapNeedsOverrun, LeaderSince, Leads
<1> QED
  BY <1>1, <1>2, <1>3, <1>4, <1>5 DEF CronNext

\* is_cron_leader: two leaders at one time need a first one that outran the lease.
THEOREM LeaderCorrect == CronSpec => []OverlapNeedsOverrun
<1>1. CronInit => LeaderInv
  BY LeaseAssumption DEF CronInit, LeaderInv, CronTypeOK, OverlapNeedsOverrun, LeaderSince, Leads
<1>2. LeaderInv => OverlapNeedsOverrun
  BY DEF LeaderInv
<1> QED
  BY <1>1, <1>2, LeaderStep, PTL DEF CronSpec
=============================================================================
