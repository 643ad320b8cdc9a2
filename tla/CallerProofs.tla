----------------------------- MODULE CallerProofs -----------------------------
(***************************************************************************)
(* Theorems about what a request finds out about its caller: the context   *)
(* and the audit trail of AuditTrail, for any number of requests; the      *)
(* shared token of TokenCache, for any life, margin and latency; the       *)
(* shared key set of SsoCerts, for any time to live and any fetch limit;   *)
(* the rows of users in Accounts, for any number of transactions, and that *)
(* they implement the atomic changes of UserTable; and the                 *)
(* administrator of Bootstrap, for any number of workers and troubles,     *)
(* with what a start after the last trouble leaves behind.                 *)
(* The five share no state, so each has an invariant of its own.           *)
(***************************************************************************)
EXTENDS AuditTrail, Accounts, TokenCache, SsoCerts, Bootstrap, FiniteSetTheorems, TLAPS

-----------------------------------------------------------------------------
(* TokenCache.  The time the cache counts to is later than the end of the  *)
(* token by the latency of its answer at most: the token is issued between *)
(* the question and the reading of the answer.                             *)

Asked(c) ==
    /\ co[c].since \in Nat /\ co[c].since <= clock /\ clock <= co[c].since + Latency
    /\ Is(c, "issued") => co[c].end \in Nat /\ co[c].since + Life <= co[c].end

TokenInv ==
    /\ TokTypeOK
    /\ \A c \in Coroutine : ~ Is(c, "rests") => Asked(c)
    /\ cached # NoToken => expireAt <= cached + Latency
    /\ SentTokensHold

LEMMA TokenInitial == TokInit => TokenInv
  BY DEF TokInit, TokenInv, TokTypeOK, SentTokensHold, Is, Rests, NoToken

LEMMA UseCachedStep ==
    ASSUME TokenInv, NEW c \in Coroutine, UseCached(c)
    PROVE  TokenInv'
<1>1. cached \in Nat /\ clock + Margin < cached + Latency
  BY MarginAssumption, LatencyAssumption DEF TokenInv, TokTypeOK, UseCached, Fresh
<1>2. SentTokensHold'
  BY <1>1 DEF TokenInv, SentTokensHold, UseCached, Send
<1>3. sent' \subseteq [at : Nat, end : Nat]
  BY <1>1 DEF TokenInv, TokTypeOK, UseCached, Send
<1> QED
  BY <1>2, <1>3 DEF TokenInv, TokTypeOK, Asked, UseCached, Is

LEMMA RequestAccessTokenStep ==
    ASSUME TokenInv, NEW c \in Coroutine, RequestAccessToken(c)
    PROVE  TokenInv'
<1>1. co'[c] = [pc |-> "posted", since |-> clock, end |-> NoToken] /\ co'[c] \in Fetching
  BY DEF TokenInv, TokTypeOK, RequestAccessToken, Fetching
<1>2. \A d \in Coroutine \ {c} : co'[d] = co[d]
  BY DEF TokenInv, TokTypeOK, RequestAccessToken
<1>3. co' \in [Coroutine -> {Rests} \cup Fetching]
  BY <1>1 DEF TokenInv, TokTypeOK, RequestAccessToken
<1>4. \A d \in Coroutine : ~ Is(d, "rests")' => Asked(d)'
  <2>1. Asked(c)'
    BY <1>1, LatencyAssumption DEF TokenInv, TokTypeOK, Asked, Is, RequestAccessToken
  <2>2. ASSUME NEW d \in Coroutine \ {c}, ~ Is(d, "rests")' PROVE Asked(d)'
    BY <1>2, <2>2 DEF TokenInv, Asked, Is, RequestAccessToken
  <2> QED
    BY <2>1, <2>2
<1> QED
  BY <1>3, <1>4 DEF TokenInv, TokTypeOK, SentTokensHold, RequestAccessToken

LEMMA IssueTokenStep ==
    ASSUME TokenInv, NEW c \in Coroutine, IssueToken(c)
    PROVE  TokenInv'
<1>1. Asked(c) /\ co[c] \in Fetching /\ clock + Life \in Nat
  BY LifeAssumption DEF TokenInv, TokTypeOK, IssueToken, Is, Rests
<1>2. /\ co'[c].since = co[c].since /\ co'[c].pc = "issued" /\ co'[c].end = clock + Life
      /\ co'[c] \in Fetching
  BY <1>1 DEF TokenInv, TokTypeOK, IssueToken, Fetching
<1>3. \A d \in Coroutine \ {c} : co'[d] = co[d]
  BY DEF TokenInv, TokTypeOK, IssueToken
<1>4. co' \in [Coroutine -> {Rests} \cup Fetching]
  BY <1>2 DEF TokenInv, TokTypeOK, IssueToken
<1>5. \A d \in Coroutine : ~ Is(d, "rests")' => Asked(d)'
  <2>1. Asked(c)'
    BY <1>1, <1>2, LifeAssumption, LatencyAssumption DEF TokenInv, TokTypeOK, Asked, Is, IssueToken
  <2>2. ASSUME NEW d \in Coroutine \ {c}, ~ Is(d, "rests")' PROVE Asked(d)'
    BY <1>3, <2>2 DEF TokenInv, Asked, Is, IssueToken
  <2> QED
    BY <2>1, <2>2
<1> QED
  BY <1>4, <1>5 DEF TokenInv, TokTypeOK, SentTokensHold, IssueToken

\* A coroutine that goes back to rest takes nothing from the others.
LEMMA RestsAgain ==
    ASSUME TokenInv, NEW c \in Coroutine, co' = [co EXCEPT ![c] = Rests], UNCHANGED clock
    PROVE  /\ co' \in [Coroutine -> {Rests} \cup Fetching]
           /\ \A d \in Coroutine : ~ Is(d, "rests")' => Asked(d)'
<1>1. co'[c] = Rests /\ \A d \in Coroutine \ {c} : co'[d] = co[d]
  BY DEF TokenInv, TokTypeOK
<1>2. Is(c, "rests")'
  BY <1>1 DEF Is, Rests
<1>3. ASSUME NEW d \in Coroutine \ {c}, ~ Is(d, "rests")' PROVE Asked(d)'
  BY <1>1, <1>3 DEF TokenInv, Asked, Is
<1>4. co' \in [Coroutine -> {Rests} \cup Fetching]
  BY DEF TokenInv, TokTypeOK
<1> QED
  BY <1>2, <1>3, <1>4

LEMMA ReadAnswerStep ==
    ASSUME TokenInv, NEW c \in Coroutine, ReadAnswer(c)
    PROVE  TokenInv'
<1>1. Asked(c) /\ Is(c, "issued") /\ clock \in Nat
  BY DEF TokenInv, TokTypeOK, ReadAnswer, Is
<1>2. co[c].end \in Nat /\ clock + Life \in Nat /\ clock + Life <= co[c].end + Latency
  BY <1>1, LifeAssumption, LatencyAssumption DEF Asked
<1>3. SentTokensHold'
  BY <1>2 DEF TokenInv, SentTokensHold, ReadAnswer, Send
<1>4. sent' \subseteq [at : Nat, end : Nat]
  BY <1>1, <1>2 DEF TokenInv, TokTypeOK, ReadAnswer, Send
<1>5. cached' = co[c].end /\ expireAt' = clock + Life /\ UNCHANGED clock
  BY DEF ReadAnswer
<1>6. /\ co' \in [Coroutine -> {Rests} \cup Fetching]
      /\ \A d \in Coroutine : ~ Is(d, "rests")' => Asked(d)'
  BY <1>5, RestsAgain DEF ReadAnswer
<1> QED
  BY <1>1, <1>2, <1>3, <1>4, <1>5, <1>6 DEF TokenInv, TokTypeOK

LEMMA FetchFailsStep ==
    ASSUME TokenInv, NEW c \in Coroutine, FetchFails(c)
    PROVE  TokenInv'
<1>1. /\ co' \in [Coroutine -> {Rests} \cup Fetching]
      /\ \A d \in Coroutine : ~ Is(d, "rests")' => Asked(d)'
  BY RestsAgain DEF FetchFails
<1> QED
  BY <1>1 DEF TokenInv, TokTypeOK, SentTokensHold, FetchFails

LEMMA TokenTickStep == TokenInv /\ TokenTick => TokenInv'
<1> SUFFICES ASSUME TokenInv, TokenTick PROVE TokenInv'
  OBVIOUS
<1>1. clock' = clock + 1 /\ UNCHANGED <<cached, expireAt, co, sent>>
  BY DEF TokenTick
<1>2. ASSUME NEW c \in Coroutine, ~ Is(c, "rests")' PROVE Asked(c)'
  <2>1. Asked(c) /\ clock < co[c].since + Latency /\ clock \in Nat
    BY <1>1, <1>2 DEF TokenInv, TokTypeOK, TokenTick, Is
  <2> QED
    BY <1>1, <2>1, LatencyAssumption DEF Asked, Is
<1> QED
  BY <1>1, <1>2 DEF TokenInv, TokTypeOK, SentTokensHold

LEMMA TokenStep == TokenInv /\ [TokNext]_tokVars => TokenInv'
<1> SUFFICES ASSUME TokenInv, [TokNext]_tokVars PROVE TokenInv'
  OBVIOUS
<1>1. CASE UNCHANGED tokVars
  BY <1>1 DEF TokenInv, TokTypeOK, SentTokensHold, Asked, Is, tokVars
<1> QED
  BY <1>1, UseCachedStep, RequestAccessTokenStep, IssueTokenStep, ReadAnswerStep,
     FetchFailsStep, TokenTickStep DEF TokNext

\* Every variable of the token cache keeps its type.
THEOREM TokenTypeCorrect == TokSpec => []TokTypeOK
  BY TokenInitial, TokenStep, PTL DEF TokSpec, TokenInv

\* _get_access_token: no token is sent that is overdue by more than its answer's latency
\* exceeds the margin, whatever late answers do to the cache.
THEOREM TokenCorrect == TokSpec => []SentTokensHold
  BY TokenInitial, TokenStep, PTL DEF TokSpec, TokenInv

-----------------------------------------------------------------------------
(* SsoCerts.  A set that was answered after `since` was not replaced before *)
(* it, and what is stored ends within the time to live and one fetch after  *)
(* the set was replaced.                                                    *)

\* Keycloak replaced v at the moment t or later, if at all.
CurrentAt(v, t) == v < keySet => t <= retired[v]

Fetched(r) ==
    /\ ver[r].since \in Nat /\ ver[r].since <= time /\ time <= ver[r].since + FetchLimit
    /\ In(r, "store") => ver[r].set \in 0..keySet /\ CurrentAt(ver[r].set, ver[r].since)

Stored ==
    /\ time < jwksEnd /\ jwksEnd <= time + CertsLife
    /\ jwks < keySet => jwksEnd <= retired[jwks] + CertsLife + FetchLimit

CertsInv ==
    /\ CertsTypeOK
    /\ retired \in [0..MaxRotations -> Nat]
    /\ \A r \in Verifier : ~ In(r, "absent") => Fetched(r)
    /\ jwks # NoCerts => Stored
    /\ TrustedSetsAreRecent

LEMMA CertsInitial == CertsInit => CertsInv
<1> SUFFICES ASSUME CertsInit PROVE CertsInv
  OBVIOUS
<1>1. \A r \in Verifier : In(r, "absent")
  BY DEF CertsInit, In, Absent
<1> QED
  BY <1>1, CertsBounds DEF CertsInit, CertsInv, CertsTypeOK, TrustedSetsAreRecent, NoCerts

\* The requests other than r stand where they stood, and Keycloak and the clock too.
LEMMA OthersFetched ==
    ASSUME CertsInv, NEW r \in Verifier, UNCHANGED <<time, keySet, retired>>,
           NEW s, ver' = [ver EXCEPT ![r] = s], NEW d \in Verifier \ {r}, ~ In(d, "absent")'
    PROVE  Fetched(d)' /\ ver'[d].set \in 0..keySet \cup {NoCerts}
<1>1. ver'[d] = ver[d]
  BY DEF CertsInv, CertsTypeOK
<1> QED
  BY <1>1 DEF CertsInv, CertsTypeOK, Fetched, In, CurrentAt

\* A set that the Redis key or an answer of Keycloak gives may be trusted.
LEMMA MayCheck ==
    ASSUME CertsInv, NEW v \in 0..keySet, CheckAgainst(v), UNCHANGED <<time, keySet, retired>>,
           v < keySet => time < retired[v] + CertsLife + FetchLimit
    PROVE  TrustedSetsAreRecent' /\ trusted' \subseteq [set : 0..keySet, at : 0..time]
<1>1. trusted' = trusted \cup {[set |-> v, at |-> time]} /\ time \in 0..time
  BY DEF CheckAgainst, CertsInv, CertsTypeOK
<1> QED
  BY <1>1 DEF CertsInv, CertsTypeOK, TrustedSetsAreRecent

LEMMA VerifyCachedStep ==
    ASSUME CertsInv, NEW r \in Verifier, VerifyCached(r)
    PROVE  CertsInv'
<1>1. jwks \in 0..keySet /\ jwks \in 0..MaxRotations /\ Stored /\ retired[jwks] \in Nat
  BY CertsBounds DEF CertsInv, CertsTypeOK, VerifyCached, NoCerts
<1>2. jwks < keySet => time < retired[jwks] + CertsLife + FetchLimit
  BY <1>1, CertsLifeAssumption, FetchLimitAssumption DEF Stored, CertsInv, CertsTypeOK
<1>3. TrustedSetsAreRecent' /\ trusted' \subseteq [set : 0..keySet, at : 0..time]
  BY <1>1, <1>2, MayCheck DEF VerifyCached
<1> QED
  BY <1>3 DEF CertsInv, CertsTypeOK, VerifyCached, Fetched, In, CurrentAt, Stored

LEMMA FetchCertsStep ==
    ASSUME CertsInv, NEW r \in Verifier, FetchCerts(r)
    PROVE  CertsInv'
<1>1. /\ ver'[r] = [pc |-> "get", since |-> time, set |-> NoCerts]
      /\ ver'[r] \in Verifying /\ ver' \in [Verifier -> {Absent} \cup Verifying]
  BY DEF CertsInv, CertsTypeOK, FetchCerts, Verifying
<1>2. ASSUME NEW d \in Verifier, ~ In(d, "absent")'
      PROVE  Fetched(d)' /\ ver'[d].set \in 0..keySet \cup {NoCerts}
  <2>1. CASE d = r
    BY <1>1, <2>1, FetchLimitAssumption DEF CertsInv, CertsTypeOK, Fetched, In, FetchCerts
  <2>2. CASE d # r
    BY <1>2, <2>2, OthersFetched DEF FetchCerts
  <2> QED
    BY <2>1, <2>2
<1> QED
  BY <1>1, <1>2 DEF CertsInv, CertsTypeOK, FetchCerts, Stored, TrustedSetsAreRecent

LEMMA AnswerCertsStep ==
    ASSUME CertsInv, NEW r \in Verifier, AnswerCerts(r)
    PROVE  CertsInv'
<1>1. Fetched(r) /\ ver[r] \in Verifying /\ keySet \in Nat
  BY CertsBounds DEF CertsInv, CertsTypeOK, AnswerCerts, In, Absent
<1>2. /\ ver'[r].pc = "store" /\ ver'[r].set = keySet /\ ver'[r].since = ver[r].since
      /\ ver'[r] \in Verifying /\ ver' \in [Verifier -> {Absent} \cup Verifying]
  BY <1>1 DEF CertsInv, CertsTypeOK, AnswerCerts, Verifying
<1>3. ASSUME NEW d \in Verifier, ~ In(d, "absent")'
      PROVE  Fetched(d)' /\ ver'[d].set \in 0..keySet \cup {NoCerts}
  <2>1. CASE d = r
    BY <1>1, <1>2, <2>1 DEF Fetched, In, AnswerCerts, CurrentAt
  <2>2. CASE d # r
    BY <1>3, <2>2, OthersFetched DEF AnswerCerts
  <2> QED
    BY <2>1, <2>2
<1> QED
  BY <1>2, <1>3 DEF CertsInv, CertsTypeOK, AnswerCerts, Stored, TrustedSetsAreRecent

LEMMA StoreCertsStep ==
    ASSUME CertsInv, NEW r \in Verifier, StoreCerts(r)
    PROVE  CertsInv'
<1> DEFINE v == ver[r].set
<1>1. Fetched(r) /\ In(r, "store") /\ time \in Nat /\ keySet \in 0..MaxRotations
  BY DEF CertsInv, CertsTypeOK, StoreCerts, In
<1>2. v \in 0..keySet /\ v \in 0..MaxRotations /\ retired[v] \in Nat
  BY <1>1, CertsBounds DEF Fetched, CertsInv
<1>3. v < keySet => time <= retired[v] + FetchLimit
  BY <1>1, <1>2, FetchLimitAssumption DEF Fetched, CurrentAt
<1>4. TrustedSetsAreRecent' /\ trusted' \subseteq [set : 0..keySet, at : 0..time]
  <2>1. v < keySet => time < retired[v] + CertsLife + FetchLimit
    <3> HIDE DEF v
    <3>1. ASSUME NEW x \in Nat, time <= x + FetchLimit PROVE time < x + CertsLife + FetchLimit
      BY <1>1, <3>1, CertsLifeAssumption, FetchLimitAssumption
    <3> QED
      BY <1>2, <1>3, <3>1
  <2> QED
    BY <1>2, <2>1, MayCheck DEF StoreCerts
<1>5. jwks' = v /\ jwksEnd' = time + CertsLife /\ UNCHANGED <<time, keySet, retired>>
  BY DEF StoreCerts, EndOfStored
<1>6. Stored' /\ jwksEnd' \in Nat
  BY <1>1, <1>2, <1>3, <1>5, CertsLifeAssumption, FetchLimitAssumption DEF Stored
<1>7. ver'[r] = Absent /\ ver' \in [Verifier -> {Absent} \cup Verifying]
  BY DEF CertsInv, CertsTypeOK, StoreCerts, End
<1>8. ASSUME NEW d \in Verifier, ~ In(d, "absent")'
      PROVE  Fetched(d)' /\ ver'[d].set \in 0..keySet \cup {NoCerts}
  <2>1. d # r
    BY <1>7, <1>8 DEF In, Absent
  <2> QED
    BY <1>8, <2>1, OthersFetched DEF StoreCerts, End
<1> QED
  BY <1>2, <1>4, <1>5, <1>6, <1>7, <1>8 DEF CertsInv, CertsTypeOK

LEMMA VerifyFailsStep ==
    ASSUME CertsInv, NEW r \in Verifier, VerifyFails(r)
    PROVE  CertsInv'
<1>1. ver'[r] = Absent /\ ver' \in [Verifier -> {Absent} \cup Verifying]
  BY DEF CertsInv, CertsTypeOK, VerifyFails, End
<1>2. ASSUME NEW d \in Verifier, ~ In(d, "absent")'
      PROVE  Fetched(d)' /\ ver'[d].set \in 0..keySet \cup {NoCerts}
  <2>1. d # r
    BY <1>1, <1>2 DEF In, Absent
  <2> QED
    BY <1>2, <2>1, OthersFetched DEF VerifyFails, End
<1> QED
  BY <1>1, <1>2 DEF CertsInv, CertsTypeOK, VerifyFails, Stored, TrustedSetsAreRecent

LEMMA RotateKeysStep == CertsInv /\ RotateKeys => CertsInv'
<1> SUFFICES ASSUME CertsInv, RotateKeys PROVE CertsInv'
  OBVIOUS
<1>1. /\ keySet \in Nat /\ keySet' = keySet + 1 /\ keySet' \in 0..MaxRotations /\ time \in Nat
      /\ UNCHANGED <<time, jwks, jwksEnd, ver, trusted>>
  BY CertsBounds DEF CertsInv, CertsTypeOK, RotateKeys
<1>2. /\ retired' \in [0..MaxRotations -> Nat] /\ retired'[keySet] = time
      /\ \A v \in 0..MaxRotations : v # keySet => retired'[v] = retired[v]
  BY <1>1 DEF CertsInv, CertsTypeOK, RotateKeys
<1>3. ASSUME NEW r \in Verifier, ~ In(r, "absent")'
      PROVE  Fetched(r)' /\ ver'[r].set \in 0..keySet' \cup {NoCerts}
  <2>1. Fetched(r) /\ ver[r].set \in 0..keySet \cup {NoCerts} /\ ver' = ver
    BY <1>1, <1>3 DEF CertsInv, CertsTypeOK, In
  <2>2. ASSUME In(r, "store")
        PROVE  ver[r].set \in 0..keySet' /\ CurrentAt(ver[r].set, ver[r].since)'
    <3>1. ver[r].set \in 0..keySet /\ CurrentAt(ver[r].set, ver[r].since)
      BY <2>1, <2>2 DEF Fetched
    <3>2. ver[r].set \in 0..MaxRotations
      BY <1>1, <3>1, CertsBounds
    <3> QED
      BY <1>1, <1>2, <2>1, <3>1, <3>2 DEF Fetched, CurrentAt
  <2> QED
    BY <1>1, <2>1, <2>2 DEF Fetched, In
<1>4. jwks' # NoCerts => Stored'
  <2> SUFFICES ASSUME jwks # NoCerts PROVE Stored'
    BY <1>1
  <2>1. Stored /\ jwks \in 0..keySet /\ jwks \in 0..MaxRotations
    BY <1>1, CertsBounds DEF CertsInv, CertsTypeOK
  <2> QED
    BY <1>1, <1>2, <2>1, CertsLifeAssumption, FetchLimitAssumption DEF Stored, CertsInv, CertsTypeOK
<1>5. TrustedSetsAreRecent'
  <2> SUFFICES ASSUME NEW t \in trusted, t.set < keySet + 1
               PROVE  t.at < retired'[t.set] + CertsLife + FetchLimit
    BY <1>1 DEF TrustedSetsAreRecent
  <2>1. t.set \in 0..keySet /\ t.set \in 0..MaxRotations /\ t.at \in Nat /\ t.at <= time
    BY <1>1, CertsBounds DEF CertsInv, CertsTypeOK
  <2> QED
    BY <1>1, <1>2, <2>1, CertsLifeAssumption, FetchLimitAssumption DEF CertsInv, TrustedSetsAreRecent
<1> QED
  BY <1>1, <1>2, <1>3, <1>4, <1>5 DEF CertsInv, CertsTypeOK

LEMMA CertsTickStep == CertsInv /\ CertsTick => CertsInv'
<1> SUFFICES ASSUME CertsInv, CertsTick PROVE CertsInv'
  OBVIOUS
<1>1. /\ time \in Nat /\ time' = time + 1 /\ jwks' = IF jwksEnd = time + 1 THEN NoCerts ELSE jwks
      /\ UNCHANGED <<keySet, jwksEnd, ver, retired, trusted>>
  BY DEF CertsInv, CertsTypeOK, CertsTick
<1>2. ASSUME NEW r \in Verifier, ~ In(r, "absent")' PROVE Fetched(r)'
  <2>1. Fetched(r) /\ time < ver[r].since + FetchLimit
    BY <1>1, <1>2 DEF CertsInv, CertsTick, In
  <2> QED
    BY <1>1, <2>1, FetchLimitAssumption DEF Fetched, In, CurrentAt
<1>3. jwks' # NoCerts => Stored'
  BY <1>1, CertsLifeAssumption DEF CertsInv, CertsTypeOK, Stored
<1>4. trusted \subseteq [set : 0..keySet, at : 0..time']
  BY <1>1 DEF CertsInv, CertsTypeOK
<1> QED
  BY <1>1, <1>2, <1>3, <1>4 DEF CertsInv, CertsTypeOK, TrustedSetsAreRecent, In

LEMMA CertsStep == CertsInv /\ [CertsNext]_certVars => CertsInv'
<1> SUFFICES ASSUME CertsInv, [CertsNext]_certVars PROVE CertsInv'
  OBVIOUS
<1>1. CASE UNCHANGED certVars
  BY <1>1 DEF CertsInv, CertsTypeOK, TrustedSetsAreRecent, Fetched, CurrentAt, Stored, In, certVars
<1> QED
  BY <1>1, VerifyCachedStep, FetchCertsStep, AnswerCertsStep, StoreCertsStep, VerifyFailsStep,
     RotateKeysStep, CertsTickStep DEF CertsNext

\* Every variable keeps its type: no request is answered a set that does not exist yet.
THEOREM CertsTypeCorrect == CertsSpec => []CertsTypeOK
  BY CertsInitial, CertsStep, PTL DEF CertsSpec, CertsInv

\* get_certs: a token is checked against a set that Keycloak still had within the time to
\* live of the Redis key and the time of one fetch.
THEOREM CertsCorrect == CertsSpec => []TrustedSetsAreRecent
  BY CertsInitial, CertsStep, PTL DEF CertsSpec, CertsInv

-----------------------------------------------------------------------------
(* AuditTrail.  The partition of the header reaches each of the request's   *)
(* three tasks by the copy made when the task begins, and no other request  *)
(* writes there; an entry is written on the last step before the answer.    *)

Place == {"idle", "enter", "call", "handle", "log", "answer", "done", "lost"}
Req == [pc : Place, partition : Partition \cup {Unset}, authorized : BOOLEAN, skipped : BOOLEAN,
        user : User \cup {Unset}, status : Status \cup {"none"}, answer : Status \cup {"none"}]
Entry == [request : Request, status : Status, timestamp : Nat, createdAt : {NoTime},
          partition : Partition \cup {Unset}, user : User \cup {Unset}]

CarriedTo(task, q) == ctx[<<task, q>>].partition = req[q].partition

ReqInv(q) ==
    /\ At(q, "idle") => ctx[<<"outer", q>>] = Empty /\ req[q].user = Unset
    /\ At(q, "enter") => /\ ctx[<<"outer", q>>].user = Unset /\ CarriedTo("outer", q)
                         /\ req[q].user = Unset
    /\ At(q, "call") => /\ ctx[<<"audit", q>>].user = Unset /\ CarriedTo("audit", q)
                        /\ req[q].user = Unset
    /\ At(q, "handle") => /\ CarriedTo("audit", q) /\ CarriedTo("handler", q)
                          /\ ctx[<<"handler", q>>].user = req[q].user
    /\ At(q, "log") => CarriedTo("audit", q) /\ Audited(q) /\ req[q].status \in Status

EntryInv(e) ==
    LET q == e.request
    IN /\ req[q].pc \in {"answer", "done", "lost"}
       /\ Audited(q) /\ e.partition = req[q].partition /\ e.status = req[q].status

AuditInv ==
    /\ now \in 0..Horizon
    /\ req \in [Request -> Req]
    /\ ctx \in [Task -> Context]
    /\ entries \subseteq Entry
    /\ \A q \in Request : ReqInv(q)
    /\ \A e \in entries : EntryInv(e)
    /\ \A d, e \in entries : d.request = e.request => d = e

LEMMA AuditInitial == Init => AuditInv
<1> SUFFICES ASSUME Init PROVE AuditInv
  OBVIOUS
<1>1. Empty \in Context
  BY DEF Empty, Context
<1>2. ctx \in [Task -> Context] /\ req \in [Request -> Req] /\ now \in 0..Horizon
  BY <1>1, HorizonAssumption DEF Init, Req, Place, Status
<1>3. ASSUME NEW q \in Request PROVE ReqInv(q)
  <2>1. <<"outer", q>> \in Task
    BY DEF Task
  <2> QED
    BY <2>1 DEF Init, ReqInv, At
<1> QED
  BY <1>2, <1>3 DEF Init, AuditInv

\* A step of q in its own record and one of its own tasks leaves the other requests alone,
\* and the entries too when q has none yet or keeps what they say.
LEMMA OwnStep ==
    ASSUME AuditInv, NEW q \in Request, NEW t \in {"outer", "audit", "handler"},
           NEW c \in Context, NEW s \in Req, UNCHANGED <<now, entries>>,
           req' = [req EXCEPT ![q] = s], ctx' = ctx \/ SetIn(<<t, q>>, c), ReqInv(q)',
           s.pc # "log" => \/ req[q].pc \notin {"answer", "done", "lost"}
                           \/ /\ s.pc \in {"answer", "done", "lost"}
                              /\ s.authorized = req[q].authorized /\ s.skipped = req[q].skipped
                              /\ s.partition = req[q].partition /\ s.status = req[q].status,
           s.pc = "log" => req[q].pc \notin {"answer", "done", "lost"}
    PROVE  AuditInv'
<1>1. <<t, q>> \in Task
  BY DEF Task
<1>2. ctx' \in [Task -> Context] /\ req' \in [Request -> Req] /\ req'[q] = s
  BY <1>1 DEF AuditInv, SetIn
<1>3. ASSUME NEW p \in Request, p # q PROVE ReqInv(p)'
  <2>1. req'[p] = req[p] /\ ReqInv(p)
    BY <1>3 DEF AuditInv
  <2>2. ASSUME NEW u \in {"outer", "audit", "handler"} PROVE ctx'[<<u, p>>] = ctx[<<u, p>>]
    <3>1. <<u, p>> \in Task /\ <<u, p>> # <<t, q>>
      BY <1>3 DEF Task
    <3> QED
      BY <1>1, <3>1 DEF AuditInv, SetIn
  <2> QED
    BY <2>1, <2>2 DEF ReqInv, At, CarriedTo, Audited
<1>4. ASSUME NEW e \in entries PROVE EntryInv(e)'
  <2>1. e.request \in Request /\ EntryInv(e)
    BY DEF AuditInv, Entry
  <2>2. CASE e.request # q
    BY <2>1, <2>2 DEF AuditInv, EntryInv, Audited
  <2>3. CASE e.request = q
    <3>1. req[q].pc \in {"answer", "done", "lost"}
      BY <2>1, <2>3 DEF EntryInv
    <3> QED
      BY <1>2, <2>1, <2>3, <3>1 DEF EntryInv, Audited
  <2> QED
    BY <2>2, <2>3
<1> QED
  BY <1>2, <1>3, <1>4 DEF AuditInv

LEMMA RequestTypes ==
    ASSUME AuditInv, NEW q \in Request
    PROVE  /\ req[q] \in Req /\ ReqInv(q)
           /\ \A t \in {"outer", "audit", "handler"} : <<t, q>> \in Task /\ ctx[<<t, q>>] \in Context
  BY DEF AuditInv, Task

LEMMA ArriveStep == ASSUME AuditInv, NEW q \in Request, Arrive(q) PROVE AuditInv'
<1> USE RequestTypes
<1>1. PICK p \in Partition \cup {Unset}, a, s \in BOOLEAN :
        /\ req' = [req EXCEPT ![q].pc = "enter", ![q].partition = p,
                              ![q].authorized = a, ![q].skipped = s]
        /\ SetIn(<<"outer", q>>, [ctx[<<"outer", q>>] EXCEPT !.partition = p])
  BY DEF Arrive
<1> DEFINE n == [req[q] EXCEPT !.pc = "enter", !.partition = p, !.authorized = a, !.skipped = s]
           c == [ctx[<<"outer", q>>] EXCEPT !.partition = p]
<1>a. n \in Req /\ n.pc = "enter" /\ n.partition = p /\ n.user = req[q].user
  BY DEF Req, Place
<1>b. c \in Context /\ c.partition = p /\ c.user = ctx[<<"outer", q>>].user
  BY DEF Context
<1>c. req' = [req EXCEPT ![q] = n]
  BY <1>1 DEF AuditInv
<1>2. n \in Req /\ c \in Context /\ req' = [req EXCEPT ![q] = n]
  BY <1>a, <1>b, <1>c
<1>3. req'[q] = n /\ ctx'[<<"outer", q>>] = c
  BY <1>1, <1>2 DEF AuditInv, SetIn
<1>4. ReqInv(q)'
  <2>1. ctx[<<"outer", q>>].user = Unset /\ req[q].user = Unset
    <3>1. ctx[<<"outer", q>>] = Empty /\ req[q].user = Unset
      BY DEF Arrive, ReqInv
    <3> QED
      BY <3>1 DEF Empty
  <2> QED
    BY <1>3, <1>a, <1>b, <2>1 DEF ReqInv, At, CarriedTo
<1> QED
  BY <1>1, <1>2, <1>4, OwnStep DEF Arrive, At

LEMMA EnterStep == ASSUME AuditInv, NEW q \in Request, Enter(q) PROVE AuditInv'
<1> USE RequestTypes
<1> DEFINE n == [req[q] EXCEPT !.pc = "call"]
<1>1. n \in Req /\ req' = [req EXCEPT ![q] = n]
  BY DEF Req, Place, Enter, AuditInv
<1>2. req'[q] = n /\ ctx'[<<"audit", q>>] = ctx[<<"outer", q>>]
  BY <1>1 DEF AuditInv, Enter, SetIn
<1>3. ReqInv(q)'
  BY <1>2 DEF Enter, ReqInv, At, CarriedTo, Req
<1> QED
  BY <1>1, <1>3, OwnStep DEF Enter, At

LEMMA CallNextStep == ASSUME AuditInv, NEW q \in Request, CallNext(q) PROVE AuditInv'
<1> USE RequestTypes
<1> DEFINE n == [req[q] EXCEPT !.pc = "handle"]
<1>1. n \in Req /\ req' = [req EXCEPT ![q] = n]
  BY DEF Req, Place, CallNext, AuditInv
<1>2. /\ req'[q] = n /\ ctx'[<<"handler", q>>] = ctx[<<"audit", q>>]
      /\ ctx'[<<"audit", q>>] = ctx[<<"audit", q>>]
  <2>1. <<"audit", q>> # <<"handler", q>>
    OBVIOUS
  <2> QED
    BY <1>1, <2>1 DEF AuditInv, CallNext, SetIn
<1>3. ReqInv(q)'
  BY <1>2 DEF CallNext, ReqInv, At, CarriedTo, Req
<1> QED
  BY <1>1, <1>3, OwnStep DEF CallNext, At

LEMMA AuthenticateStep == ASSUME AuditInv, NEW q \in Request, Authenticate(q) PROVE AuditInv'
<1> USE RequestTypes
<1>1. PICK u \in User :
        /\ req' = [req EXCEPT ![q].user = u]
        /\ SetIn(<<"handler", q>>, [ctx[<<"handler", q>>] EXCEPT !.user = u])
  BY DEF Authenticate
<1> DEFINE n == [req[q] EXCEPT !.user = u]
           c == [ctx[<<"handler", q>>] EXCEPT !.user = u]
<1>a. n \in Req
  BY DEF Req
<1>b. c \in Context
  BY DEF Context
<1>2. n \in Req /\ c \in Context /\ req' = [req EXCEPT ![q] = n]
  BY <1>1, <1>a, <1>b DEF AuditInv
<1>3. req'[q] = n /\ ctx'[<<"handler", q>>] = c /\ ctx'[<<"audit", q>>] = ctx[<<"audit", q>>]
  <2>1. <<"audit", q>> # <<"handler", q>>
    OBVIOUS
  <2> QED
    BY <1>1, <1>2, <2>1 DEF AuditInv, SetIn
<1>4. ReqInv(q)'
  BY <1>3 DEF Authenticate, ReqInv, At, CarriedTo, Req, Context
<1> QED
  BY <1>1, <1>2, <1>4, OwnStep DEF Authenticate, At

LEMMA HandleStep == ASSUME AuditInv, NEW q \in Request, Handle(q) PROVE AuditInv'
<1> USE RequestTypes
<1>1. PICK s \in Status : 
        req' = [req EXCEPT ![q].status = s, ![q].pc = IF Audited(q) THEN "log" ELSE "answer"]
  BY DEF Handle
<1> DEFINE n == [req[q] EXCEPT !.status = s, !.pc = IF Audited(q) THEN "log" ELSE "answer"]
<1>2. n \in Req /\ req' = [req EXCEPT ![q] = n]
  BY <1>1 DEF Req, Place, AuditInv
<1>3. req'[q] = n /\ UNCHANGED <<now, ctx, entries>>
  BY <1>2 DEF AuditInv, Handle
<1>4. ReqInv(q)'
  BY <1>3 DEF Handle, ReqInv, At, CarriedTo, Req, Audited
<1>5. req[q].pc \notin {"answer", "done", "lost"}
  BY DEF Handle, At
<1> QED
  BY <1>2, <1>3, <1>4, <1>5, OwnStep

LEMMA LogStep == ASSUME AuditInv, NEW q \in Request, Log(q) PROVE AuditInv'
<1> USE RequestTypes
<1> DEFINE n == [req[q] EXCEPT !.pc = "answer"]
           f == NewEntry(q)
<1>1. n \in Req /\ req' = [req EXCEPT ![q] = n] /\ ctx' = ctx /\ now' = now /\ req'[q] = n
  BY DEF Req, Place, Log, AuditInv
<1>2. At(q, "log") /\ CarriedTo("audit", q) /\ Audited(q) /\ req[q].status \in Status
  BY DEF Log, ReqInv
<1>3. /\ f \in Entry /\ f.request = q /\ f.status = req[q].status
      /\ f.partition = req[q].partition
  <2>1. ctx[<<"audit", q>>] \in Context
    OBVIOUS
  <2>2. now \in Nat
    BY HorizonAssumption DEF AuditInv
  <2> QED
    BY <1>2, <2>1, <2>2 DEF NewEntry, LoggedStatus, Entry, CarriedTo, Context
<1>4. \A e \in entries : e.request \in Request /\ e.request # q
  BY <1>2 DEF AuditInv, EntryInv, Entry, At
<1>5. entries' = entries \cup {f}
  BY DEF Log
<1>6. ASSUME NEW p \in Request PROVE ReqInv(p)'
  <2>1. CASE p = q
    BY <1>1, <2>1 DEF ReqInv, At, Req
  <2>2. CASE p # q
    <3>1. req'[p] = req[p] /\ ReqInv(p)
      BY <1>1, <2>2 DEF AuditInv
    <3> QED
      BY <1>1, <3>1 DEF ReqInv, At, CarriedTo, Audited
  <2> QED
    BY <2>1, <2>2
<1>7. ASSUME NEW e \in entries' PROVE EntryInv(e)'
  <2>1. CASE e = f
    BY <1>1, <1>2, <1>3, <2>1 DEF EntryInv, Audited, Req
  <2>2. CASE e \in entries
    <3>1. req'[e.request] = req[e.request] /\ EntryInv(e)
      BY <1>1, <1>4, <2>2 DEF AuditInv
    <3> QED
      BY <3>1 DEF EntryInv, Audited
  <2> QED
    BY <1>5, <2>1, <2>2
<1>8. \A d, e \in entries' : d.request = e.request => d = e
  BY <1>3, <1>4, <1>5 DEF AuditInv
<1>9. req' \in [Request -> Req] /\ entries' \subseteq Entry
  BY <1>1, <1>3, <1>5 DEF AuditInv
<1> QED
  BY <1>1, <1>6, <1>7, <1>8, <1>9 DEF AuditInv

LEMMA LogFailsStep == ASSUME AuditInv, NEW q \in Request, LogFails(q) PROVE AuditInv'
<1> USE RequestTypes
<1> DEFINE n == [req[q] EXCEPT !.pc = "answer"]
<1>1. n \in Req /\ req' = [req EXCEPT ![q] = n] /\ req'[q] = n /\ UNCHANGED <<now, ctx, entries>>
  BY DEF Req, Place, LogFails, AfterFailedLog, AuditInv
<1>2. ReqInv(q)' /\ req[q].pc \notin {"answer", "done", "lost"}
  BY <1>1 DEF LogFails, ReqInv, At, Req
<1> QED
  BY <1>1, <1>2, OwnStep

LEMMA AnswerStep == ASSUME AuditInv, NEW q \in Request, Answer(q) PROVE AuditInv'
<1> USE RequestTypes
<1> DEFINE n == [req[q] EXCEPT !.pc = "done", !.answer = req[q].status]
<1>1. n \in Req /\ req' = [req EXCEPT ![q] = n] /\ req'[q] = n /\ UNCHANGED <<now, ctx, entries>>
  BY DEF Req, Place, Answer, AuditInv
<1>2. ReqInv(q)'
  BY <1>1 DEF Answer, ReqInv, At, Req
<1>3. /\ n.pc = "done" /\ n.authorized = req[q].authorized /\ n.skipped = req[q].skipped
      /\ n.partition = req[q].partition /\ n.status = req[q].status
  BY DEF Req
<1> QED
  BY <1>1, <1>2, <1>3, OwnStep

LEMMA LoseStep == ASSUME AuditInv, NEW q \in Request, Lose(q) PROVE AuditInv'
<1> USE RequestTypes
<1> DEFINE n == [req[q] EXCEPT !.pc = "lost"]
<1>1. n \in Req /\ req' = [req EXCEPT ![q] = n] /\ req'[q] = n /\ UNCHANGED <<now, ctx, entries>>
  BY DEF Req, Place, Lose, AuditInv
<1>2. ReqInv(q)'
  BY <1>1 DEF Lose, ReqInv, At, Req
<1>3. /\ n.pc = "lost" /\ n.authorized = req[q].authorized /\ n.skipped = req[q].skipped
      /\ n.partition = req[q].partition /\ n.status = req[q].status
  BY DEF Req
<1> QED
  BY <1>1, <1>2, <1>3, OwnStep

LEMMA AuditStep == AuditInv /\ [Next]_vars => AuditInv'
<1> SUFFICES ASSUME AuditInv, [Next]_vars PROVE AuditInv'
  OBVIOUS
<1>1. ASSUME NEW years \in {2, 4}, ClearOldLogs(years) PROVE AuditInv'
  <2>1. entries' \subseteq entries /\ UNCHANGED <<now, req, ctx>>
    BY <1>1 DEF ClearOldLogs
  <2> QED
    BY <2>1 DEF AuditInv, ReqInv, EntryInv, At, CarriedTo, Audited
<1>2. CASE Tick
  BY <1>2, HorizonAssumption DEF Tick, AuditInv, ReqInv, EntryInv, At, CarriedTo, Audited
<1>3. CASE UNCHANGED vars
  BY <1>3 DEF vars, AuditInv, ReqInv, EntryInv, At, CarriedTo, Audited
<1> QED
  BY <1>1, <1>2, <1>3, ArriveStep, EnterStep, CallNextStep, AuthenticateStep, HandleStep,
     LogStep, LogFailsStep, AnswerStep, LoseStep DEF Next, Serve

LEMMA AuditInvImplies == AuditInv => TypeOK /\ EntryIsOfItsRequest /\ ContextIsOwn
<1> SUFFICES ASSUME AuditInv PROVE TypeOK /\ EntryIsOfItsRequest /\ ContextIsOwn
  OBVIOUS
<1>1. \A e \in entries : /\ e.status \in Status /\ Audited(e.request)
                         /\ e.partition = req[e.request].partition
                         /\ e.status = req[e.request].status
  BY DEF AuditInv, EntryInv, Entry
<1>2. TypeOK
  BY <1>1 DEF AuditInv, TypeOK, Req, Place, Audited
<1>3. EntryIsOfItsRequest
  BY <1>1 DEF AuditInv, EntryIsOfItsRequest
<1>4. ContextIsOwn
  <2> SUFFICES ASSUME NEW q \in Request, At(q, "handle")
               PROVE  ctx[<<"handler", q>>] = [partition |-> req[q].partition, user |-> req[q].user]
    BY DEF ContextIsOwn
  <2>1. /\ ctx[<<"handler", q>>] \in Context
        /\ ctx[<<"handler", q>>].partition = req[q].partition
        /\ ctx[<<"handler", q>>].user = req[q].user
    BY RequestTypes DEF ReqInv, CarriedTo
  <2> QED
    BY <2>1 DEF Context
<1> QED
  BY <1>2, <1>3, <1>4

\* Every variable keeps its type, and an entry is of an audited request.
THEOREM AuditTypeCorrect == Spec => []TypeOK
  BY AuditInitial, AuditStep, AuditInvImplies, PTL DEF Spec

\* AuditLogMiddleware: an entry has the partition and the status of its own request, and a
\* request has one entry at most, however requests interleave.
THEOREM AuditCorrect == Spec => []EntryIsOfItsRequest
  BY AuditInitial, AuditStep, AuditInvImplies, PTL DEF Spec

\* The ContextVars: a route sees the partition and the user of its own request only.
THEOREM ContextCorrect == Spec => []ContextIsOwn
  BY AuditInitial, AuditStep, AuditInvImplies, PTL DEF Spec

-----------------------------------------------------------------------------
(* Accounts: the rows, the transactions under way and the answers.          *)

Busy(r) == ~ Stands(r, "out")
Writes(r) == Open(r, {"insert", "update"})
Removes(r) == Open(r, {"update", "delete"})
Adds(r) == Open(r, {"insert"})

\* Ids are given out in order, and an insert has none before its flush.
AccTyped ==
    /\ rows \in [AccountId -> Row \cup {NoRow}]
    /\ claimed \in [Person -> Name] /\ renamings \in 0..MaxRenamings
    /\ tx \in [AccountRequest -> {Out} \cup Tx]
    /\ lastId \in 0..MaxAccounts /\ answered \subseteq Named /\ gone \subseteq 1..lastId
    /\ \A i \in AccountId : Exists(i) => i <= lastId
    /\ \A a \in answered : a.id <= lastId
    /\ \A r \in AccountRequest : Busy(r) =>
        /\ tx[r].id <= lastId
        /\ tx[r].id = NoId <=> Stands(r, "flush") /\ tx[r].does = "insert"

\* What a statement says agrees with what it is for; the user name and the person of a row
\* do not change.
StatementInv ==
    \A r \in AccountRequest : Busy(r) =>
        /\ tx[r].does = "insert" /\ tx[r].for \in Person =>
               tx[r].row.sso = tx[r].for /\ tx[r].row.name = tx[r].as
        /\ tx[r].does \in {"update", "delete"} => tx[r].for = Admin
        /\ tx[r].does = "none" => ~ Stands(r, "flush")
        /\ tx[r].does = "update" /\ Exists(tx[r].id) =>
               rows[tx[r].id].name = tx[r].row.name /\ rows[tx[r].id].sso = tx[r].row.sso

\* What is flushed and not committed clashes neither with the table nor with one another.
TableInv ==
    /\ \A i, j \in AccountId : i # j /\ Exists(i) /\ Exists(j) => ~ Clash(rows[i], rows[j])
    /\ \A r \in AccountRequest : Writes(r) =>
        \A i \in AccountId : Exists(i) /\ i # tx[r].id => ~ Clash(tx[r].row, rows[i])
    /\ \A r, q \in AccountRequest : r # q /\ Writes(r) /\ Writes(q) => ~ Clash(tx[r].row, tx[q].row)
    /\ \A r \in AccountRequest : Adds(r) => ~ Exists(tx[r].id)
    /\ \A r \in AccountRequest : Removes(r) => Exists(tx[r].id)
    /\ \A r, q \in AccountRequest : r # q /\ Removes(r) /\ Removes(q) => tx[r].id # tx[q].id
    /\ \A r, q \in AccountRequest : r # q /\ Adds(r) /\ Busy(q) => tx[r].id # tx[q].id

\* The answer of r, and those that were given or will be.
NameAnswer(r) ==
    [id |-> tx[r].id, name |-> tx[r].row.name, for |-> tx[r].for, as |-> tx[r].as]
Pending(r) == tx[r].pc \in {"flushed", "sent", "stored"} /\ Names(r)
Claims == answered \cup {NameAnswer(r) : r \in {q \in AccountRequest : Pending(q)}}

Fits(row, a) == row.name = a.name /\ (a.for \in Person => row.sso = a.for \/ row.name = a.as)
FitsNew(row, a) == row.name = a.name /\ (a.for \in Person => row.sso = a.for /\ row.name = a.as)

\* The user an answer names is in the table, or about to be, or gone.
Held(a) ==
    \/ a.id \in gone
    \/ a.id \in AccountId /\ Exists(a.id) /\ Fits(rows[a.id], a)
    \/ \E r \in AccountRequest : Adds(r) /\ tx[r].id = a.id /\ FitsNew(tx[r].row, a)

ClaimInv ==
    /\ \A r \in AccountRequest : Adds(r) /\ Stands(r, "flushed") =>
        \A a \in answered : a.id # tx[r].id
    /\ \A a \in Claims : Held(a)
    /\ \A a, b \in Claims :
        a.for \in Person /\ a.for = b.for /\ a.as = b.as /\ a.id # b.id => {a.id, b.id} \cap gone # {}

AccInv == AccTyped /\ StatementInv /\ TableInv /\ ClaimInv

LEMMA AccInitial == AccInit => AccInv
<1> SUFFICES ASSUME AccInit PROVE AccInv
  OBVIOUS
<1>1. \A r \in AccountRequest : tx[r] = Out /\ ~ Busy(r) /\ ~ Pending(r) /\ ~ Writes(r) /\ ~ Removes(r) /\ ~ Adds(r)
  BY DEF AccInit, Out, Busy, Stands, Pending, Writes, Removes, Adds, Open
<1>2. \A i \in AccountId : ~ Exists(i)
  BY DEF AccInit, Exists
<1>3. Claims = {}
  BY <1>1 DEF AccInit, Claims
<1>4. AccTyped
  BY <1>1, <1>2, NameOfAssumption, AccountBounds DEF AccInit, AccTyped
<1> QED
  BY <1>1, <1>2, <1>3, <1>4 DEF AccInit, AccInv, StatementInv, TableInv, ClaimInv

LEMMA BusyTx ==
    ASSUME AccTyped, NEW r \in AccountRequest, Busy(r)
    PROVE  /\ tx[r] \in Tx /\ tx[r].row \in Row /\ tx[r].id \in AccountId \cup {NoId}
           /\ tx[r].for \in Person \cup {Admin} /\ tx[r].as \in Name
           /\ tx[r].id <= lastId /\ (~ Stands(r, "flush") => tx[r].id \in AccountId)
  BY DEF AccTyped, Busy, Stands, Out, Tx

\* A flushed or sent statement is of a request that is busy, and has an id.
LEMMA OpenBusy ==
    ASSUME AccTyped, NEW r \in AccountRequest, NEW D, Open(r, D)
    PROVE  Busy(r) /\ tx[r].id \in AccountId /\ tx[r].row \in Row
<1>1. Busy(r) /\ ~ Stands(r, "flush")
  BY DEF Open, Busy, Stands
<1> QED
  BY <1>1, BusyTx

LEMMA ClashSymmetric == ASSUME NEW a, NEW b, Clash(a, b) PROVE Clash(b, a)
  BY DEF Clash

\* What does not concern r is as it was.
LEMMA OthersStay ==
    ASSUME NEW r \in AccountRequest, \A q \in AccountRequest : q # r => tx'[q] = tx[q]
    PROVE  \A q \in AccountRequest : q # r =>
               /\ Busy(q)' <=> Busy(q)
               /\ Writes(q)' <=> Writes(q)
               /\ Removes(q)' <=> Removes(q)
               /\ Adds(q)' <=> Adds(q)
               /\ Pending(q)' <=> Pending(q)
               /\ Stands(q, "flushed")' <=> Stands(q, "flushed")
               /\ NameAnswer(q)' = NameAnswer(q)
  BY DEF Busy, Stands, Writes, Removes, Adds, Open, Pending, Names, NameAnswer

\* An answer that was given before, or is of r, or of somebody else.
LEMMA ClaimCases ==
    ASSUME NEW r \in AccountRequest, \A q \in AccountRequest : q # r => tx'[q] = tx[q],
           NEW a \in Claims'
    PROVE  \/ a \in answered'
           \/ Pending(r)' /\ a = NameAnswer(r)'
           \/ \E q \in AccountRequest : q # r /\ Pending(q) /\ a = NameAnswer(q) /\ a \in Claims
<1>1. a \in answered' \/ \E q \in AccountRequest : Pending(q)' /\ a = NameAnswer(q)'
  BY DEF Claims
<1>2. ASSUME NEW q \in AccountRequest, q # r, Pending(q)', a = NameAnswer(q)'
      PROVE  Pending(q) /\ a = NameAnswer(q) /\ a \in Claims
  BY <1>2, OthersStay DEF Claims
<1> QED
  BY <1>1, <1>2

\* A request that selects a row, or finds none.
LEMMA SelectTyped ==
    ASSUME AccInv, NEW r \in AccountRequest, NEW does, NEW i, NEW row \in Row,
           NEW for \in Person \cup {Admin}, NEW as \in Name,
           Select(r, does, i, row, for, as),
           \/ does = "insert" /\ i = NoId
           \/ does \in {"update", "delete", "none"} /\ i \in AccountId /\ Exists(i)
    PROVE  /\ AccTyped'
           /\ tx'[r] = [pc |-> IF does = "none" THEN "flushed" ELSE "flush",
                        does |-> does, id |-> i, row |-> row, for |-> for, as |-> as]
           /\ \A q \in AccountRequest : q # r => tx'[q] = tx[q]
<1> DEFINE new == [pc |-> IF does = "none" THEN "flushed" ELSE "flush",
                   does |-> does, id |-> i, row |-> row, for |-> for, as |-> as]
<1>1. new \in Tx
  BY DEF Tx
<1>2. tx' = [tx EXCEPT ![r] = new] /\ UNCHANGED <<rows, claimed, renamings, lastId, answered, gone>>
  BY DEF Select
<1>3. new.pc # "out" /\ new.id = i /\ new.does = does /\ (new.pc = "flush" <=> does # "none")
  OBVIOUS
<1> HIDE DEF new
<1>4. tx'[r] = new /\ (\A q \in AccountRequest : q # r => tx'[q] = tx[q])
      /\ tx' \in [AccountRequest -> {Out} \cup Tx]
  BY <1>1, <1>2 DEF AccInv, AccTyped
<1>5. i <= lastId /\ (i = NoId <=> does = "insert")
  BY DEF AccInv, AccTyped, AccountId, NoId, Exists
<1>6. \A q \in AccountRequest : Busy(q)' =>
        /\ tx'[q].id <= lastId
        /\ tx'[q].id = NoId <=> Stands(q, "flush")' /\ tx'[q].does = "insert"
  <2> SUFFICES ASSUME NEW q \in AccountRequest, Busy(q)'
               PROVE  /\ tx'[q].id <= lastId
                      /\ tx'[q].id = NoId <=> Stands(q, "flush")' /\ tx'[q].does = "insert"
    OBVIOUS
  <2>1. CASE q = r
    BY <1>3, <1>4, <1>5, <2>1 DEF Stands
  <2>2. CASE q # r
    BY <1>4, <2>2 DEF AccInv, AccTyped, Busy, Stands
  <2> QED
    BY <2>1, <2>2
<1>7. AccTyped'
  BY <1>2, <1>4, <1>6 DEF AccInv, AccTyped, Exists
<1> QED
  BY <1>4, <1>7 DEF new

\* A selection that is to be followed by a statement: nothing is flushed or answered yet.
LEMMA SelectStep ==
    ASSUME AccInv, NEW r \in AccountRequest, NEW does \in {"insert", "update", "delete"},
           NEW i, NEW row \in Row, NEW for \in Person \cup {Admin}, NEW as \in Name,
           Select(r, does, i, row, for, as),
           \/ does = "insert" /\ i = NoId /\ (for \in Person => row.sso = for /\ row.name = as)
           \/ /\ does \in {"update", "delete"} /\ i \in AccountId /\ Exists(i) /\ for = Admin
              /\ row.name = rows[i].name /\ row.sso = rows[i].sso
    PROVE  AccInv'
<1>0. /\ AccTyped'
      /\ tx'[r] = [pc |-> IF does = "none" THEN "flushed" ELSE "flush",
                   does |-> does, id |-> i, row |-> row, for |-> for, as |-> as]
      /\ \A q \in AccountRequest : q # r => tx'[q] = tx[q]
  <2>1. \/ does = "insert" /\ i = NoId
        \/ does \in {"update", "delete", "none"} /\ i \in AccountId /\ Exists(i)
    OBVIOUS
  <2> QED
    BY <2>1, SelectTyped
<1>1. /\ AccTyped'
      /\ tx'[r] = [pc |-> "flush", does |-> does, id |-> i, row |-> row, for |-> for, as |-> as]
      /\ \A q \in AccountRequest : q # r => tx'[q] = tx[q]
      /\ UNCHANGED <<rows, lastId, answered, gone>> /\ ~ Busy(r)
  BY <1>0 DEF Select, Busy
<1>2. /\ ~ Writes(r)' /\ ~ Removes(r)' /\ ~ Adds(r)' /\ ~ Pending(r)' /\ Stands(r, "flush")'
      /\ ~ Writes(r) /\ ~ Removes(r) /\ ~ Adds(r) /\ ~ Pending(r)
  BY <1>1 DEF Writes, Removes, Adds, Open, Pending, Busy, Stands
<1>3. \A q \in AccountRequest : q # r =>
               /\ Busy(q)' <=> Busy(q)
               /\ Writes(q)' <=> Writes(q)
               /\ Removes(q)' <=> Removes(q)
               /\ Adds(q)' <=> Adds(q)
               /\ Pending(q)' <=> Pending(q)
               /\ Stands(q, "flushed")' <=> Stands(q, "flushed")
               /\ NameAnswer(q)' = NameAnswer(q)
  BY <1>1, OthersStay
<1>4. StatementInv'
  <2> SUFFICES ASSUME NEW q \in AccountRequest, Busy(q)'
               PROVE  /\ tx'[q].does = "insert" /\ tx'[q].for \in Person =>
                             tx'[q].row.sso = tx'[q].for /\ tx'[q].row.name = tx'[q].as
                      /\ tx'[q].does \in {"update", "delete"} => tx'[q].for = Admin
                      /\ tx'[q].does = "none" => ~ Stands(q, "flush")'
                      /\ tx'[q].does = "update" /\ Exists(tx'[q].id) =>
                             /\ rows[tx'[q].id].name = tx'[q].row.name
                             /\ rows[tx'[q].id].sso = tx'[q].row.sso
    BY <1>1 DEF StatementInv, Exists
  <2>1. CASE q = r
    <3>1. /\ tx'[q].does = does /\ tx'[q].for = for /\ tx'[q].as = as /\ tx'[q].row = row
          /\ tx'[q].id = i
      <4>1. tx'[q] = [pc |-> "flush", does |-> does, id |-> i, row |-> row, for |-> for, as |-> as]
        BY <1>1, <2>1
      <4> QED
        BY ONLY <4>1
    <3>2. CASE does = "insert"
      BY <3>1, <3>2
    <3>3. CASE does # "insert"
      BY <3>1, <3>3
    <3> QED
      BY <3>2, <3>3
  <2>2. CASE q # r
    BY <1>1, <1>3, <2>2 DEF AccInv, StatementInv, Stands
  <2> QED
    BY <2>1, <2>2
<1>5. TableInv'
  <2>1. ASSUME NEW q \in AccountRequest, Adds(q), q # r PROVE tx[q].id # i
    <3>1. tx[q].id \in AccountId /\ ~ Exists(tx[q].id)
      BY <2>1, OpenBusy DEF AccInv, TableInv, Adds
    <3>2. i = NoId \/ Exists(i)
      OBVIOUS
    <3>3. tx[q].id # NoId
      BY <3>1, AccountBounds DEF AccountId, NoId
    <3> QED
      BY <3>1, <3>2, <3>3 DEF Exists
  <2>2. \A p, q \in AccountRequest : p # q /\ Adds(p)' /\ Busy(q)' => tx'[p].id # tx'[q].id
    BY <1>1, <1>2, <1>3, <2>1 DEF AccInv, TableInv
  <2> QED
    BY <1>1, <1>2, <1>3, <2>2 DEF AccInv, TableInv, Exists
<1>6. Claims' \subseteq Claims
  BY <1>1, <1>2, ClaimCases DEF Claims
<1>7. \A a : Held(a) => Held(a)'
  BY <1>1, <1>2, <1>3 DEF Held, Exists
<1>8. ClaimInv'
  BY <1>1, <1>2, <1>3, <1>6, <1>7 DEF AccInv, ClaimInv
<1> QED
  BY <1>1, <1>4, <1>5, <1>8 DEF AccInv

\* The one row that matches a person is in the table; who was answered before under the same
\* name has it, or is gone.
LEMMA FoundPersonStep ==
    ASSUME AccInv, NEW r \in AccountRequest, NEW p \in Person, NEW i, Matches(p) = {i},
           Select(r, "none", i, rows[i], p, claimed[p])
    PROVE  AccInv'
<1>0. /\ i \in AccountId /\ Exists(i) /\ rows[i] \in Row /\ claimed[p] \in Name
      /\ rows[i].sso = p \/ rows[i].name = claimed[p]
      /\ \A j \in AccountId : Exists(j) /\ (rows[j].sso = p \/ rows[j].name = claimed[p]) => j = i
  <2>1. \A j : j \in Matches(p) <=>
            j \in AccountId /\ Exists(j) /\ (rows[j].sso = p \/ rows[j].name = claimed[p])
    BY DEF Matches
  <2> QED
    BY <2>1 DEF AccInv, AccTyped, Exists
<1>1. /\ AccTyped'
      /\ tx'[r] = [pc |-> "flushed", does |-> "none", id |-> i, row |-> rows[i], for |-> p, as |-> claimed[p]]
      /\ \A q \in AccountRequest : q # r => tx'[q] = tx[q]
  BY <1>0, SelectTyped
<1>2. UNCHANGED <<rows, lastId, answered, gone>> /\ ~ Busy(r)
  BY DEF Select, Busy
<1>3. /\ tx'[r].pc = "flushed" /\ tx'[r].does = "none" /\ tx'[r].id = i /\ tx'[r].row = rows[i]
      /\ tx'[r].for = p /\ tx'[r].as = claimed[p]
  <2> QED
    BY ONLY <1>1
<1>4. /\ ~ Writes(r)' /\ ~ Removes(r)' /\ ~ Adds(r)' /\ Busy(r)' /\ ~ Stands(r, "flush")'
      /\ ~ Writes(r) /\ ~ Removes(r) /\ ~ Adds(r) /\ ~ Pending(r)
  BY <1>2, <1>3 DEF Writes, Removes, Adds, Open, Pending, Busy, Stands
<1>5. \A q \in AccountRequest : q # r =>
               /\ Busy(q)' <=> Busy(q)
               /\ Writes(q)' <=> Writes(q)
               /\ Removes(q)' <=> Removes(q)
               /\ Adds(q)' <=> Adds(q)
               /\ Pending(q)' <=> Pending(q)
               /\ Stands(q, "flushed")' <=> Stands(q, "flushed")
               /\ NameAnswer(q)' = NameAnswer(q)
  BY <1>1, OthersStay
<1>6. StatementInv'
  <2> SUFFICES ASSUME NEW q \in AccountRequest, Busy(q)'
               PROVE  /\ tx'[q].does = "insert" /\ tx'[q].for \in Person =>
                             tx'[q].row.sso = tx'[q].for /\ tx'[q].row.name = tx'[q].as
                      /\ tx'[q].does \in {"update", "delete"} => tx'[q].for = Admin
                      /\ tx'[q].does = "none" => ~ Stands(q, "flush")'
                      /\ tx'[q].does = "update" /\ Exists(tx'[q].id) =>
                             /\ rows[tx'[q].id].name = tx'[q].row.name
                             /\ rows[tx'[q].id].sso = tx'[q].row.sso
    BY <1>2 DEF StatementInv, Exists
  <2>1. CASE q = r
    BY <1>3, <1>4, <2>1
  <2>2. CASE q # r
    BY <1>1, <1>5, <2>2 DEF AccInv, StatementInv, Stands
  <2> QED
    BY <2>1, <2>2
<1>7. TableInv'
  <2>1. \A a, q \in AccountRequest : a # q /\ Adds(a)' /\ Busy(q)' => tx'[a].id # tx'[q].id
    BY <1>0, <1>1, <1>3, <1>4, <1>5 DEF AccInv, TableInv, Exists
  <2> QED
    BY <1>1, <1>2, <1>4, <1>5, <2>1 DEF AccInv, TableInv, Exists
<1>8. PICK new : /\ new = NameAnswer(r)'
                 /\ new.id = i /\ new.name = rows[i].name /\ new.for = p /\ new.as = claimed[p]
  <2>1. /\ NameAnswer(r)'.id = i /\ NameAnswer(r)'.name = rows[i].name /\ NameAnswer(r)'.for = p
        /\ NameAnswer(r)'.as = claimed[p]
    BY <1>3 DEF NameAnswer
  <2> QED
    BY <2>1
<1>9. \A a \in Claims' : a \in Claims \/ a = new
  BY <1>1, <1>2, <1>8, ClaimCases DEF Claims
<1>10. \A a : Held(a) => Held(a)'
  BY <1>1, <1>2, <1>4, <1>5 DEF Held, Exists
<1>11. Held(new)'
  BY <1>0, <1>2, <1>8 DEF Held, Fits, Exists
<1>12. ASSUME NEW a \in Claims, a.for = p, a.as = claimed[p], a.id # i PROVE a.id \in gone
  <2>1. CASE a.id \in AccountId /\ Exists(a.id) /\ Fits(rows[a.id], a)
    BY <1>0, <1>12, <2>1 DEF Fits
  <2>2. ASSUME NEW q \in AccountRequest, Adds(q), tx[q].id = a.id, FitsNew(tx[q].row, a) PROVE FALSE
    <3>1. ~ Clash(tx[q].row, rows[i]) /\ p # NoKey
      BY <1>0, <1>12, <2>2, NoKeyAssumption DEF AccInv, TableInv, Adds, Writes, Open
    <3>2. tx[q].row.sso = p /\ tx[q].row.name = claimed[p]
      BY <1>12, <2>2 DEF FitsNew
    <3> QED
      BY <1>0, <3>1, <3>2 DEF Clash
  <2> QED
    BY <2>1, <2>2 DEF AccInv, ClaimInv, Held
<1>13. ClaimInv'
  <2>1. \A a \in Claims' : Held(a)'
    BY <1>9, <1>10, <1>11 DEF AccInv, ClaimInv
  <2>2. \A a, b \in Claims' :
          a.for \in Person /\ a.for = b.for /\ a.as = b.as /\ a.id # b.id => {a.id, b.id} \cap gone' # {}
    BY <1>2, <1>8, <1>9, <1>12 DEF AccInv, ClaimInv
  <2>3. \A q \in AccountRequest : Adds(q)' /\ Stands(q, "flushed")' =>
          \A a \in answered' : a.id # tx'[q].id
    BY <1>1, <1>2, <1>4, <1>5 DEF AccInv, ClaimInv
  <2> QED
    BY <2>1, <2>2, <2>3 DEF ClaimInv
<1> QED
  BY <1>1, <1>6, <1>7, <1>13 DEF AccInv

LEMMA InitUserStep == ASSUME AccInv, NEW r \in AccountRequest, NEW p \in Person, InitUser(r, p) PROVE AccInv'
<1>1. p # NoKey /\ claimed[p] \in Name /\ EmailOf[p] \in Email \cup {NoKey}
  BY NoKeyAssumption, EmailOfAssumption DEF AccInv, AccTyped
<1> DEFINE new == [name |-> claimed[p], email |-> EmailOf[p], sso |-> p]
<1>2. new \in Row /\ new.sso = p /\ new.name = claimed[p]
  BY <1>1 DEF Row
<1>3. CASE Select(r, "insert", NoId, new, p, claimed[p])
  <2> HIDE DEF new
  <2> QED
    BY <1>1, <1>2, <1>3, SelectStep
<1>4. CASE Cardinality(Matches(p)) = 1
           /\ \E i \in Matches(p) : Select(r, "none", i, rows[i], p, claimed[p])
  <2>1. IsFiniteSet(Matches(p))
    <3>1. IsFiniteSet(AccountId)
      BY FS_Interval, AccountBounds DEF AccountId
    <3>2. Matches(p) \in SUBSET AccountId
      BY DEF Matches
    <3> QED
      BY <3>1, <3>2, FS_Subset
  <2>2. PICK i : Matches(p) = {i}
    BY <1>4, <2>1, FS_Singleton
  <2>3. Select(r, "none", i, rows[i], p, claimed[p])
    BY <1>4, <2>2
  <2> QED
    BY <2>2, <2>3, FoundPersonStep
<1> QED
  BY <1>3, <1>4 DEF InitUser

LEMMA CreateUserStep ==
    ASSUME AccInv, NEW r \in AccountRequest, NEW n \in Name, NEW e \in Email \cup {NoKey}, CreateUser(r, n, e)
    PROVE  AccInv'
<1> DEFINE new == [name |-> n, email |-> e, sso |-> NoKey]
<1>1. new \in Row
  BY DEF Row
<1>2. Select(r, "insert", NoId, new, Admin, n) /\ Admin \notin Person
  BY AdminAssumption DEF CreateUser
<1> HIDE DEF new
<1> QED
  BY <1>1, <1>2, SelectStep

LEMMA UpdateUserStep ==
    ASSUME AccInv, NEW r \in AccountRequest, NEW i \in AccountId, NEW e \in Email \cup {NoKey}, UpdateUser(r, i, e)
    PROVE  AccInv'
<1> DEFINE new == [rows[i] EXCEPT !.email = e]
<1>1. rows[i] \in Row
  BY DEF UpdateUser, Exists, AccInv, AccTyped
<1>2. new \in Row /\ new.name = rows[i].name /\ new.sso = rows[i].sso /\ rows[i].name \in Name
  BY <1>1 DEF Row
<1>3. Select(r, "update", i, new, Admin, rows[i].name) /\ Exists(i)
  BY DEF UpdateUser
<1> HIDE DEF new
<1> QED
  BY <1>2, <1>3, SelectStep

LEMMA DeleteUserRowStep ==
    ASSUME AccInv, NEW r \in AccountRequest, NEW i \in AccountId, DeleteUserRow(r, i)
    PROVE  AccInv'
<1>1. rows[i] \in Row
  BY DEF DeleteUserRow, Exists, AccInv, AccTyped
<1>2. rows[i].name \in Name
  BY <1>1 DEF Row
<1>3. Select(r, "delete", i, rows[i], Admin, rows[i].name) /\ Exists(i)
  BY DEF DeleteUserRow
<1> QED
  BY <1>1, <1>2, <1>3, SelectStep

\* A request that ends: its statement is undone, and so is the user it had named.
LEMMA LeaveStep ==
    ASSUME AccInv, NEW r \in AccountRequest, Busy(r), Leave(r),
           UNCHANGED <<rows, claimed, renamings, lastId, answered>>,
           gone \subseteq gone', gone' \subseteq 1..lastId,
           Stands(r, "sent") /\ tx[r].does = "insert" => tx[r].id \in gone'
    PROVE  AccInv'
<1>1. /\ tx' \in [AccountRequest -> {Out} \cup Tx] /\ tx'[r] = Out
      /\ \A q \in AccountRequest : q # r => tx'[q] = tx[q]
  BY DEF Leave, AccInv, AccTyped
<1>2. /\ ~ Writes(r)' /\ ~ Removes(r)' /\ ~ Adds(r)' /\ ~ Busy(r)' /\ ~ Pending(r)'
  BY <1>1 DEF Writes, Removes, Adds, Open, Pending, Busy, Stands, Out
<1>3. \A q \in AccountRequest : q # r =>
               /\ Busy(q)' <=> Busy(q)
               /\ Writes(q)' <=> Writes(q)
               /\ Removes(q)' <=> Removes(q)
               /\ Adds(q)' <=> Adds(q)
               /\ Pending(q)' <=> Pending(q)
               /\ Stands(q, "flushed")' <=> Stands(q, "flushed")
               /\ NameAnswer(q)' = NameAnswer(q)
  BY <1>1, OthersStay
<1>4. AccTyped'
  BY <1>1, <1>2 DEF AccInv, AccTyped, Exists, Busy, Stands
<1>5. StatementInv'
  BY <1>1, <1>2 DEF AccInv, StatementInv, Exists, Busy, Stands
<1>6. TableInv'
  BY <1>1, <1>2, <1>3 DEF AccInv, TableInv, Exists
<1>7. \A a \in Claims' : a \in Claims /\ (a \in answered \/ \E q \in AccountRequest : q # r /\ Busy(q) /\ a.id = tx[q].id)
  <2> SUFFICES ASSUME NEW a \in Claims'
               PROVE  a \in Claims /\ (a \in answered \/ \E q \in AccountRequest : q # r /\ Busy(q) /\ a.id = tx[q].id)
    OBVIOUS
  <2>1. CASE a \in answered'
    BY <2>1 DEF Claims
  <2>2. ASSUME NEW q \in AccountRequest, q # r, Pending(q), a = NameAnswer(q), a \in Claims
        PROVE  Busy(q) /\ a.id = tx[q].id
    BY <2>2 DEF Pending, Busy, Stands, NameAnswer
  <2> QED
    BY <1>1, <1>2, <2>1, <2>2, ClaimCases
<1>8. ASSUME NEW a \in Claims' PROVE Held(a)'
  <2>1. CASE Adds(r) /\ tx[r].id = a.id
    <3>1. a \in answered
      BY <1>7, <1>8, <2>1 DEF AccInv, TableInv
    <3>2. ~ Stands(r, "flushed")
      BY <2>1, <3>1 DEF AccInv, ClaimInv
    <3>3. a.id \in gone'
      BY <2>1, <3>2 DEF Adds, Open, Stands
    <3> QED
      BY <3>3 DEF Held
  <2>2. CASE ~ (Adds(r) /\ tx[r].id = a.id)
    <3>1. Held(a)
      BY <1>7, <1>8 DEF AccInv, ClaimInv
    <3> QED
      BY <1>1, <1>3, <2>2, <3>1 DEF Held, Exists
  <2> QED
    BY <2>1, <2>2
<1>9. ClaimInv'
  <2>1. \A a, b \in Claims' :
          a.for \in Person /\ a.for = b.for /\ a.as = b.as /\ a.id # b.id => {a.id, b.id} \cap gone' # {}
    <3>1. Claims' \subseteq Claims
      BY <1>7
    <3>2. ASSUME NEW a \in Claims, NEW b \in Claims, a.for \in Person, a.for = b.for,
                 a.as = b.as, a.id # b.id
          PROVE  {a.id, b.id} \cap gone' # {}
      BY <3>2 DEF AccInv, ClaimInv
    <3> QED
      BY <3>1, <3>2
  <2>2. \A q \in AccountRequest : Adds(q)' /\ Stands(q, "flushed")' =>
          \A a \in answered' : a.id # tx'[q].id
    BY <1>1, <1>2, <1>3 DEF AccInv, ClaimInv
  <2> QED
    BY <1>8, <2>1, <2>2 DEF ClaimInv
<1> QED
  BY <1>4, <1>5, <1>6, <1>9 DEF AccInv

LEMMA RollbackStep == ASSUME AccInv, NEW r \in AccountRequest, Rollback(r) PROVE AccInv'
<1>1. Busy(r) /\ Leave(r) /\ UNCHANGED <<rows, claimed, renamings, lastId, answered>>
      /\ gone' = IF Stands(r, "sent") /\ tx[r].does = "insert" THEN gone \cup {tx[r].id} ELSE gone
  BY DEF Rollback, Busy
<1>2. Stands(r, "sent") => tx[r].id \in 1..lastId
  <2>1. Stands(r, "sent") => tx[r].id \in AccountId /\ tx[r].id <= lastId
    BY <1>1, BusyTx DEF AccInv, Stands
  <2> QED
    BY <2>1, AccountBounds DEF AccountId, AccInv, AccTyped
<1>3. gone' \subseteq 1..lastId
  BY <1>1, <1>2 DEF AccInv, AccTyped
<1> QED
  BY <1>1, <1>3, LeaveStep

\* The fields of a statement that is carried out.
LEMMA FlushedFields ==
    ASSUME AccTyped, NEW r \in AccountRequest, Busy(r), NEW l \in {"flushed", "sent", "stored"},
           NEW d \in {"insert", "update", "delete", "none"}, NEW i \in AccountId,
           tx' = [tx EXCEPT ![r] = [tx[r] EXCEPT !.pc = l, !.does = d, !.id = i]]
    PROVE  /\ tx' \in [AccountRequest -> {Out} \cup Tx]
           /\ \A q \in AccountRequest : q # r => tx'[q] = tx[q]
           /\ tx'[r].pc = l /\ tx'[r].does = d /\ tx'[r].id = i /\ tx'[r].row = tx[r].row
           /\ tx'[r].for = tx[r].for /\ tx'[r].as = tx[r].as
<1> DEFINE new == [tx[r] EXCEPT !.pc = l, !.does = d, !.id = i]
<1>1. tx[r] \in Tx
  BY BusyTx
<1>2. /\ new \in Tx /\ new.pc = l /\ new.does = d /\ new.id = i /\ new.row = tx[r].row
      /\ new.for = tx[r].for /\ new.as = tx[r].as
  BY <1>1 DEF Tx
<1> HIDE DEF new
<1>3. tx' = [tx EXCEPT ![r] = new]
  BY DEF new
<1> QED
  BY <1>2, <1>3 DEF AccTyped

LEMMA FlushTyped ==
    ASSUME AccTyped, NEW r \in AccountRequest, Busy(r), NEW l \in {"flushed", "sent", "stored"},
           NEW i \in AccountId, lastId \in Nat, lastId' \in Nat,
           \A q \in AccountRequest : q # r => tx'[q] = tx[q],
           tx' \in [AccountRequest -> {Out} \cup Tx], tx'[r].pc = l, tx'[r].id = i,
           lastId <= lastId', lastId' <= MaxAccounts, i <= lastId',
           UNCHANGED <<claimed, renamings>>, rows' \in [AccountId -> Row \cup {NoRow}],
           \A j \in AccountId : Exists(j)' => j <= lastId',
           answered' \subseteq Named, \A a \in answered' : a.id <= lastId', gone' \subseteq 1..lastId'
    PROVE  AccTyped'
<1>1. ASSUME NEW q \in AccountRequest, Busy(q)'
      PROVE  /\ tx'[q].id <= lastId'
             /\ tx'[q].id = NoId <=> Stands(q, "flush")' /\ tx'[q].does = "insert"
  <2>1. CASE q = r
    BY <2>1, AccountBounds DEF Stands, AccountId, NoId
  <2>2. CASE q # r
    <3>1. Busy(q) /\ tx'[q] = tx[q]
      BY <1>1, <2>2 DEF Busy, Stands
    <3>2. tx[q].id \in Nat
      BY <3>1, BusyTx, AccountBounds DEF AccountId, NoId
    <3>3. tx[q].id <= lastId /\ (tx[q].id = NoId <=> Stands(q, "flush") /\ tx[q].does = "insert")
      BY <3>1 DEF AccTyped
    <3> QED
      BY <3>1, <3>2, <3>3 DEF Stands
  <2> QED
    BY <2>1, <2>2
<1>2. lastId' \in 0..MaxAccounts
  BY AccountBounds
<1> QED
  BY <1>1, <1>2 DEF AccTyped

\* The row takes the next id; nobody has one of its keys, or is about to.
LEMMA InsertFlushed ==
    ASSUME AccInv, NEW r \in AccountRequest, Stands(r, "flush"), tx[r].does = "insert",
           ~ Waits(r), ~ Taken(r), lastId < MaxAccounts, lastId' = lastId + 1,
           tx' = [tx EXCEPT ![r].pc = "flushed", ![r].id = lastId'],
           UNCHANGED <<rows, claimed, renamings, answered, gone>>
    PROVE  AccInv'
<1>0. /\ Busy(r) /\ lastId \in Nat /\ lastId + 1 \in AccountId /\ tx[r].id = NoId
      /\ tx[r].row \in Row
  <2>1. Busy(r) /\ lastId \in Nat /\ lastId + 1 \in AccountId
    BY AccountBounds DEF Busy, Stands, AccInv, AccTyped, AccountId
  <2> QED
    BY <2>1, BusyTx DEF AccInv, AccTyped
<1>1. /\ tx' \in [AccountRequest -> {Out} \cup Tx]
      /\ \A q \in AccountRequest : q # r => tx'[q] = tx[q]
      /\ tx'[r].pc = "flushed" /\ tx'[r].does = "insert" /\ tx'[r].id = lastId + 1
      /\ tx'[r].row = tx[r].row /\ tx'[r].for = tx[r].for /\ tx'[r].as = tx[r].as
  <2>1. tx[r] \in Tx
    BY <1>0, BusyTx DEF AccInv
  <2> DEFINE new == [tx[r] EXCEPT !.pc = "flushed", !.id = lastId + 1]
  <2>2. /\ new \in Tx /\ new.pc = "flushed" /\ new.does = "insert" /\ new.id = lastId + 1
        /\ new.row = tx[r].row /\ new.for = tx[r].for /\ new.as = tx[r].as
    BY <1>0, <2>1 DEF Tx
  <2>3. tx' = [tx EXCEPT ![r] = new]
    OBVIOUS
  <2> HIDE DEF new
  <2> QED
    BY <2>2, <2>3 DEF AccInv, AccTyped
<1>2. AccTyped'
  <2>1. \A i \in AccountId : Exists(i)' => i <= lastId'
    BY <1>0, AccountBounds DEF AccInv, AccTyped, Exists, AccountId
  <2>2. \A a \in answered' : a.id <= lastId'
    BY <1>0, AccountBounds DEF AccInv, AccTyped, Named, AccountId
  <2>3. gone' \subseteq 1..lastId'
    BY <1>0 DEF AccInv, AccTyped
  <2>4. lastId' \in Nat /\ lastId <= lastId' /\ lastId' <= MaxAccounts /\ lastId + 1 <= lastId'
    BY <1>0, AccountBounds
  <2> QED
    BY <1>0, <1>1, <2>1, <2>2, <2>3, <2>4, FlushTyped DEF AccInv, AccTyped
<1>3. /\ Writes(r)' /\ ~ Removes(r)' /\ Adds(r)' /\ Busy(r)' /\ ~ Stands(r, "flush")'
      /\ ~ Writes(r) /\ ~ Removes(r) /\ ~ Adds(r) /\ ~ Pending(r)
  BY <1>1 DEF Writes, Removes, Adds, Open, Pending, Busy, Stands
<1>4. \A q \in AccountRequest : q # r =>
               /\ Busy(q)' <=> Busy(q)
               /\ Writes(q)' <=> Writes(q)
               /\ Removes(q)' <=> Removes(q)
               /\ Adds(q)' <=> Adds(q)
               /\ Pending(q)' <=> Pending(q)
               /\ Stands(q, "flushed")' <=> Stands(q, "flushed")
               /\ NameAnswer(q)' = NameAnswer(q)
  BY <1>1, OthersStay
<1>5. /\ \A i \in AccountId : Exists(i) => i # lastId + 1 /\ ~ Clash(tx[r].row, rows[i])
      /\ \A q \in AccountRequest : q # r /\ Writes(q) => ~ Clash(tx[r].row, tx[q].row)
      /\ \A q \in AccountRequest : q # r /\ Busy(q) => tx[q].id # lastId + 1
      /\ \A a \in answered : a.id # lastId + 1
  <2>1. \A i \in AccountId : Exists(i) => i # lastId + 1 /\ ~ Clash(tx[r].row, rows[i])
    <3>1. \A i \in AccountId : i \notin {NoId} /\ (i <= lastId => i # lastId + 1)
      BY <1>0, AccountBounds DEF AccountId, NoId
    <3> QED
      BY <1>0, <3>1 DEF Taken, AccInv, AccTyped
  <2>2. \A q \in AccountRequest : q # r /\ Writes(q) => ~ Clash(tx[r].row, tx[q].row)
    BY DEF Waits, Writes
  <2>3. ASSUME NEW q \in AccountRequest, Busy(q) PROVE tx[q].id # lastId + 1
    <3>1. tx[q].id \in Nat /\ tx[q].id <= lastId
      BY <2>3, BusyTx, AccountBounds DEF AccInv, AccountId, NoId
    <3> QED
      BY <1>0, <3>1
  <2>4. ASSUME NEW a \in answered PROVE a.id # lastId + 1
    <3>1. a.id \in Nat /\ a.id <= lastId
      BY AccountBounds DEF AccInv, AccTyped, Named, AccountId
    <3> QED
      BY <1>0, <3>1
  <2> QED
    BY <2>1, <2>2, <2>3, <2>4
<1>6. StatementInv'
  <2> SUFFICES ASSUME NEW q \in AccountRequest, Busy(q)'
               PROVE  /\ tx'[q].does = "insert" /\ tx'[q].for \in Person =>
                             tx'[q].row.sso = tx'[q].for /\ tx'[q].row.name = tx'[q].as
                      /\ tx'[q].does \in {"update", "delete"} => tx'[q].for = Admin
                      /\ tx'[q].does = "none" => ~ Stands(q, "flush")'
                      /\ tx'[q].does = "update" /\ Exists(tx'[q].id) =>
                             /\ rows[tx'[q].id].name = tx'[q].row.name
                             /\ rows[tx'[q].id].sso = tx'[q].row.sso
    BY DEF StatementInv, Exists
  <2>1. CASE q = r
    BY <1>0, <1>1, <2>1 DEF AccInv, StatementInv
  <2>2. CASE q # r
    BY <1>1, <1>4, <2>2 DEF AccInv, StatementInv, Stands
  <2> QED
    BY <2>1, <2>2
<1>7. TableInv'
  <2>1. \A i \in AccountId : Exists(i)' <=> Exists(i)
    BY DEF Exists
  <2>2. \A a \in AccountRequest : Writes(a)' =>
          \A i \in AccountId : Exists(i)' /\ i # tx'[a].id => ~ Clash(tx'[a].row, rows'[i])
    BY <1>1, <1>4, <1>5, <2>1 DEF AccInv, TableInv
  <2>3. ASSUME NEW a \in AccountRequest, NEW q \in AccountRequest, a # q, Writes(a)', Writes(q)'
        PROVE  ~ Clash(tx'[a].row, tx'[q].row)
    BY <1>1, <1>4, <1>5, <2>3, ClashSymmetric DEF AccInv, TableInv
  <2>4. \A a \in AccountRequest : Adds(a)' => ~ Exists(tx[a].id)'
    <3>1. ~ Exists(lastId + 1)
      BY <1>0, <1>5
    <3> QED
      BY <1>1, <1>4, <3>1 DEF AccInv, TableInv, Exists
  <2>5. \A a \in AccountRequest : Removes(a)' => Exists(tx[a].id)'
    BY <1>1, <1>3, <1>4 DEF AccInv, TableInv, Exists
  <2>6. \A a, q \in AccountRequest : a # q /\ Removes(a)' /\ Removes(q)' => tx'[a].id # tx'[q].id
    BY <1>1, <1>3, <1>4 DEF AccInv, TableInv
  <2>7. \A a, q \in AccountRequest : a # q /\ Adds(a)' /\ Busy(q)' => tx'[a].id # tx'[q].id
    <3> SUFFICES ASSUME NEW a \in AccountRequest, NEW q \in AccountRequest, a # q, Adds(a)', Busy(q)'
                 PROVE  tx'[a].id # tx'[q].id
      OBVIOUS
    <3>1. CASE a = r
      BY <1>1, <1>4, <1>5, <3>1
    <3>2. CASE q = r
      <4>1. Busy(a)
        BY <1>4, <3>2 DEF Adds, Open, Busy, Stands
      <4> QED
        BY <1>1, <1>5, <3>2, <4>1
    <3>3. CASE a # r /\ q # r
      BY <1>1, <1>4, <3>3 DEF AccInv, TableInv
    <3> QED
      BY <3>1, <3>2, <3>3
  <2>8. \A i, j \in AccountId : i # j /\ Exists(i)' /\ Exists(j)' => ~ Clash(rows'[i], rows'[j])
    BY <2>1 DEF AccInv, TableInv
  <2> QED
    BY <2>2, <2>3, <2>4, <2>5, <2>6, <2>7, <2>8 DEF TableInv
<1>8. PICK new : /\ new = NameAnswer(r)' /\ new.id = lastId + 1 /\ new.name = tx[r].row.name
                 /\ new.for = tx[r].for /\ new.as = tx[r].as
  <2>1. /\ NameAnswer(r)'.id = lastId + 1 /\ NameAnswer(r)'.name = tx[r].row.name
        /\ NameAnswer(r)'.for = tx[r].for /\ NameAnswer(r)'.as = tx[r].as
    BY <1>1 DEF NameAnswer
  <2> QED
    BY <2>1
<1>9. \A a \in Claims' : a \in Claims \/ a = new
  BY <1>1, <1>8, ClaimCases DEF Claims
<1>10. tx[r].for \in Person => tx[r].row.sso = tx[r].for /\ tx[r].row.name = tx[r].as
  BY <1>0 DEF AccInv, StatementInv
<1>11. \A a : Held(a) => Held(a)'
  BY <1>1, <1>3, <1>4 DEF Held, Exists
<1>12. Held(new)'
  BY <1>1, <1>3, <1>8, <1>10 DEF Held, FitsNew
<1>13. ASSUME NEW a \in Claims, a.for \in Person, a.for = tx[r].for, a.as = tx[r].as PROVE a.id \in gone
  <2>0. tx[r].row.sso = a.for /\ tx[r].row.name = a.as /\ a.for # NoKey
    BY <1>10, <1>13, NoKeyAssumption
  <2>1. CASE a.id \in AccountId /\ Exists(a.id) /\ Fits(rows[a.id], a)
    <3>1. ~ Clash(tx[r].row, rows[a.id])
      BY <1>5, <2>1
    <3> QED
      BY <1>13, <2>0, <2>1, <3>1 DEF Fits, Clash
  <2>2. ASSUME NEW q \in AccountRequest, Adds(q), tx[q].id = a.id, FitsNew(tx[q].row, a) PROVE FALSE
    <3>1. ~ Clash(tx[r].row, tx[q].row)
      BY <1>3, <1>5, <2>2 DEF Adds, Writes, Open
    <3> QED
      BY <1>13, <2>0, <2>2, <3>1 DEF FitsNew, Clash
  <2> QED
    BY <2>1, <2>2 DEF AccInv, ClaimInv, Held
<1>14. ClaimInv'
  <2>1. \A a \in Claims' : Held(a)'
    BY <1>9, <1>11, <1>12 DEF AccInv, ClaimInv
  <2>2. \A a, b \in Claims' :
          a.for \in Person /\ a.for = b.for /\ a.as = b.as /\ a.id # b.id => {a.id, b.id} \cap gone' # {}
    BY <1>8, <1>9, <1>13 DEF AccInv, ClaimInv
  <2>3. \A q \in AccountRequest : Adds(q)' /\ Stands(q, "flushed")' =>
          \A a \in answered' : a.id # tx'[q].id
    BY <1>1, <1>3, <1>4, <1>5 DEF AccInv, ClaimInv
  <2> QED
    BY <2>1, <2>2, <2>3 DEF ClaimInv
<1> QED
  BY <1>2, <1>6, <1>7, <1>14 DEF AccInv

LEMMA FlushInsertStep == ASSUME AccInv, NEW r \in AccountRequest, FlushInsert(r) PROVE AccInv'
<1>1. CASE Leave(r) /\ UNCHANGED lastId
  <2>1. Busy(r) /\ ~ Stands(r, "sent")
    BY DEF FlushInsert, Busy, Stands
  <2>2. UNCHANGED <<rows, claimed, renamings, lastId, answered, gone>> /\ gone \subseteq 1..lastId
    BY <1>1 DEF FlushInsert, AccInv, AccTyped
  <2> QED
    BY <1>1, <2>1, <2>2, LeaveStep
<1>2. CASE ~ Taken(r) /\ lastId < MaxAccounts /\ lastId' = lastId + 1
           /\ tx' = [tx EXCEPT ![r].pc = "flushed", ![r].id = lastId']
  BY <1>2, InsertFlushed DEF FlushInsert
<1> QED
  BY <1>1, <1>2 DEF FlushInsert

\* A statement on a row that is there: nobody else has flushed one for it.
LEMMA ChangeFlushed ==
    ASSUME AccInv, NEW r \in AccountRequest, Stands(r, "flush"), tx[r].does \in {"update", "delete"},
           NEW d \in {"update", "delete", "none"}, d = "none" \/ d = tx[r].does,
           d # "none" => Exists(tx[r].id) /\ ~ Locked(r),
           d = "update" => ~ Waits(r) /\ ~ Taken(r),
           NEW new, new = [tx[r] EXCEPT !.pc = "flushed", !.does = d], tx' = [tx EXCEPT ![r] = new],
           UNCHANGED <<rows, claimed, renamings, lastId, answered, gone>>
    PROVE  AccInv'
<1>0. /\ Busy(r) /\ lastId \in Nat /\ tx[r].id \in AccountId /\ tx[r].id <= lastId /\ tx[r].row \in Row
      /\ tx[r].for = Admin /\ tx[r] \in Tx
  <2>1. Busy(r) /\ lastId \in Nat
    BY DEF Busy, Stands, AccInv, AccTyped
  <2>2. tx[r].id # NoId /\ tx[r].for = Admin
    BY <2>1 DEF AccInv, AccTyped, StatementInv
  <2> QED
    BY <2>1, <2>2, BusyTx DEF AccInv
<1>1. /\ tx' \in [AccountRequest -> {Out} \cup Tx]
      /\ \A q \in AccountRequest : q # r => tx'[q] = tx[q]
      /\ tx'[r].pc = "flushed" /\ tx'[r].does = d /\ tx'[r].id = tx[r].id
      /\ tx'[r].row = tx[r].row /\ tx'[r].for = tx[r].for /\ tx'[r].as = tx[r].as
  <2>1. /\ new \in Tx /\ new.pc = "flushed" /\ new.does = d /\ new.id = tx[r].id
        /\ new.row = tx[r].row /\ new.for = tx[r].for /\ new.as = tx[r].as
    BY <1>0 DEF Tx
  <2>2. tx \in [AccountRequest -> {Out} \cup Tx]
    BY DEF AccInv, AccTyped
  <2> QED
    BY <2>1, <2>2
<1>2. AccTyped'
  <2>1. /\ \A i \in AccountId : Exists(i)' => i <= lastId'
        /\ \A a \in answered' : a.id <= lastId' /\ gone' \subseteq 1..lastId'
        /\ lastId' \in Nat /\ lastId <= lastId' /\ lastId' <= MaxAccounts
    BY <1>0, AccountBounds DEF AccInv, AccTyped, Exists
  <2> QED
    BY <1>0, <1>1, <2>1, FlushTyped DEF AccInv, AccTyped
<1>3. /\ Writes(r)' <=> d = "update"
      /\ Removes(r)' <=> d # "none"
      /\ ~ Adds(r)' /\ Busy(r)' /\ ~ Stands(r, "flush")' /\ ~ Pending(r)'
      /\ ~ Writes(r) /\ ~ Removes(r) /\ ~ Adds(r) /\ ~ Pending(r)
  BY <1>0, <1>1 DEF Writes, Removes, Adds, Open, Pending, Busy, Stands, Names
<1>4. \A q \in AccountRequest : q # r =>
               /\ Busy(q)' <=> Busy(q)
               /\ Writes(q)' <=> Writes(q)
               /\ Removes(q)' <=> Removes(q)
               /\ Adds(q)' <=> Adds(q)
               /\ Pending(q)' <=> Pending(q)
               /\ Stands(q, "flushed")' <=> Stands(q, "flushed")
               /\ NameAnswer(q)' = NameAnswer(q)
  BY <1>1, OthersStay
<1>5. StatementInv'
  <2> SUFFICES ASSUME NEW q \in AccountRequest, Busy(q)'
               PROVE  /\ tx'[q].does = "insert" /\ tx'[q].for \in Person =>
                             tx'[q].row.sso = tx'[q].for /\ tx'[q].row.name = tx'[q].as
                      /\ tx'[q].does \in {"update", "delete"} => tx'[q].for = Admin
                      /\ tx'[q].does = "none" => ~ Stands(q, "flush")'
                      /\ tx'[q].does = "update" /\ Exists(tx'[q].id) =>
                             /\ rows[tx'[q].id].name = tx'[q].row.name
                             /\ rows[tx'[q].id].sso = tx'[q].row.sso
    BY DEF StatementInv, Exists
  <2>1. CASE q = r
    <3>1. d = "update" /\ Exists(tx[r].id) =>
            rows[tx[r].id].name = tx[r].row.name /\ rows[tx[r].id].sso = tx[r].row.sso
      BY <1>0 DEF AccInv, StatementInv
    <3>2. /\ tx'[q].does = d /\ tx'[q].id = tx[r].id /\ tx'[q].for = Admin /\ tx'[q].row = tx[r].row
          /\ ~ Stands(q, "flush")'
      BY <1>0, <1>1, <1>3, <2>1
    <3> QED
      BY <3>1, <3>2 DEF Exists
  <2>2. CASE q # r
    BY <1>1, <1>4, <2>2 DEF AccInv, StatementInv, Stands
  <2> QED
    BY <2>1, <2>2
<1>6. TableInv'
  <2>1. \A i \in AccountId : Exists(i)' <=> Exists(i)
    BY DEF Exists
  <2>2. /\ d = "update" => \A i \in AccountId : Exists(i) /\ i # tx[r].id => ~ Clash(tx[r].row, rows[i])
        /\ d = "update" => \A q \in AccountRequest : q # r /\ Writes(q) => ~ Clash(tx[r].row, tx[q].row)
        /\ d # "none" => \A q \in AccountRequest : q # r /\ Removes(q) => tx[r].id # tx[q].id
    BY DEF Taken, Waits, Locked, Writes, Removes
  <2>3. ASSUME NEW q \in AccountRequest, Adds(q) PROVE tx[q].id # tx[r].id
    BY <1>0, <1>3, <2>3 DEF AccInv, TableInv
  <2>4. \A a \in AccountRequest : Writes(a)' =>
          \A i \in AccountId : Exists(i)' /\ i # tx'[a].id => ~ Clash(tx'[a].row, rows'[i])
    BY <1>1, <1>3, <1>4, <2>1, <2>2 DEF AccInv, TableInv
  <2>5. ASSUME NEW a \in AccountRequest, NEW q \in AccountRequest, a # q, Writes(a)', Writes(q)'
        PROVE  ~ Clash(tx'[a].row, tx'[q].row)
    BY <1>1, <1>3, <1>4, <2>2, <2>5, ClashSymmetric DEF AccInv, TableInv
  <2>6. \A a \in AccountRequest : Adds(a)' => ~ Exists(tx[a].id)'
    BY <1>3, <1>4 DEF AccInv, TableInv, Exists
  <2>7. ASSUME NEW a \in AccountRequest, Removes(a)' PROVE Exists(tx'[a].id) /\ tx'[a].id = tx[a].id
    BY <1>1, <1>3, <1>4, <2>7 DEF AccInv, TableInv, Exists
  <2>8. ASSUME NEW a \in AccountRequest, NEW q \in AccountRequest, a # q, Removes(a)', Removes(q)'
        PROVE  tx'[a].id # tx'[q].id
    BY <1>1, <1>3, <1>4, <2>2, <2>8 DEF AccInv, TableInv
  <2>9. ASSUME NEW a \in AccountRequest, NEW q \in AccountRequest, a # q, Adds(a)', Busy(q)'
        PROVE  tx'[a].id # tx'[q].id
    <3>1. a # r /\ Adds(a)
      BY <1>3, <1>4, <2>9
    <3> QED
      BY <1>1, <1>4, <2>3, <2>9, <3>1 DEF AccInv, TableInv
  <2>10. \A i, j \in AccountId : i # j /\ Exists(i)' /\ Exists(j)' => ~ Clash(rows'[i], rows'[j])
    BY <2>1 DEF AccInv, TableInv
  <2>11. \A a \in AccountRequest : Adds(a)' => tx'[a].id = tx[a].id
    BY <1>1, <1>3
  <2> QED
    BY <2>4, <2>5, <2>6, <2>7, <2>8, <2>9, <2>10, <2>11 DEF TableInv, Exists
<1>7. Claims' \subseteq Claims
  BY <1>1, <1>3, ClaimCases DEF Claims
<1>8. \A a : Held(a) => Held(a)'
  BY <1>1, <1>3, <1>4 DEF Held, Exists
<1>9. ClaimInv'
  BY <1>1, <1>3, <1>4, <1>7, <1>8 DEF AccInv, ClaimInv
<1> QED
  BY <1>2, <1>5, <1>6, <1>9 DEF AccInv

LEMMA FlushUpdateStep == ASSUME AccInv, NEW r \in AccountRequest, FlushUpdate(r) PROVE AccInv'
<1>1. /\ Busy(r) /\ ~ Stands(r, "sent") /\ Stands(r, "flush") /\ tx[r].does = "update"
      /\ ~ Locked(r) /\ ~ Waits(r)
      /\ UNCHANGED <<rows, claimed, renamings, lastId, answered, gone>>
      /\ gone \subseteq 1..lastId
  BY DEF FlushUpdate, Busy, Stands, AccInv, AccTyped
<1>2. CASE Leave(r)
  BY <1>1, <1>2, LeaveStep
<1>3. CASE ~ Taken(r) /\ Exists(tx[r].id) /\ tx' = [tx EXCEPT ![r].pc = "flushed"]
  <2>1. tx[r] \in Tx
    BY <1>1, BusyTx DEF AccInv
  <2>2. [tx[r] EXCEPT !.pc = "flushed"] = [tx[r] EXCEPT !.pc = "flushed", !.does = "update"]
    BY <1>1, <2>1 DEF Tx
  <2>3. tx' = [tx EXCEPT ![r] = [tx[r] EXCEPT !.pc = "flushed"]]
    BY <1>3
  <2>4. PICK new : new = [tx[r] EXCEPT !.pc = "flushed", !.does = "update"]
    OBVIOUS
  <2>5. tx' = [tx EXCEPT ![r] = new]
    BY <2>2, <2>3, <2>4
  <2> QED
    BY <1>1, <1>3, <2>4, <2>5, ChangeFlushed
<1> QED
  BY <1>2, <1>3 DEF FlushUpdate

LEMMA FlushDeleteStep == ASSUME AccInv, NEW r \in AccountRequest, FlushDelete(r) PROVE AccInv'
<1>1. /\ Stands(r, "flush") /\ tx[r].does = "delete" /\ ~ Locked(r)
      /\ UNCHANGED <<rows, claimed, renamings, lastId, answered, gone>>
  BY DEF FlushDelete
<1>2. PICK d \in {"delete", "none"} : d = IF Exists(tx[r].id) THEN tx[r].does ELSE "none"
  BY <1>1
<1>3. PICK new : new = [tx[r] EXCEPT !.pc = "flushed", !.does = d]
  OBVIOUS
<1>4. tx' = [tx EXCEPT ![r] = new]
  BY <1>2, <1>3 DEF FlushDelete
<1> QED
  BY <1>1, <1>2, <1>3, <1>4, ChangeFlushed

\* What a commit makes of its own row; the others stay.
LEMMA CommitRows ==
    ASSUME AccInv, NEW r \in AccountRequest, Commit(r)
    PROVE  /\ rows' \in [AccountId -> Row \cup {NoRow}]
           /\ \A i \in AccountId : i # tx[r].id => rows'[i] = rows[i]
           /\ Writes(r) => /\ rows'[tx[r].id] # NoRow /\ rows'[tx[r].id].name = tx[r].row.name
                           /\ rows'[tx[r].id].email = tx[r].row.email
                           /\ rows'[tx[r].id].sso = tx[r].row.sso
           /\ tx[r].does = "delete" => rows'[tx[r].id] = NoRow
           /\ tx[r].does = "none" => UNCHANGED rows
<1>1. /\ Busy(r) /\ tx[r].id \in AccountId /\ tx[r].row \in Row /\ tx[r] \in Tx
      /\ rows \in [AccountId -> Row \cup {NoRow}] /\ rows' = AfterCommit(r)
      /\ tx[r].does \in {"insert", "update", "delete", "none"} /\ tx[r].pc \in {"flushed", "sent"}
  <2>1. Busy(r) /\ ~ Stands(r, "flush")
    BY DEF Commit, Busy, Stands
  <2>2. tx[r] \in Tx /\ tx[r].id \in AccountId /\ tx[r].row \in Row
    BY <2>1, BusyTx DEF AccInv
  <2> QED
    BY <2>1, <2>2 DEF Commit, AccInv, AccTyped, Tx
<1>2. CASE tx[r].does = "insert"
  <2>1. rows' = [rows EXCEPT ![tx[r].id] = tx[r].row]
    BY <1>1, <1>2 DEF AfterCommit
  <2> QED
    BY <1>1, <1>2, <2>1, NoRowAssumption DEF Exists
<1>3. CASE tx[r].does = "update"
  <2>1. Exists(tx[r].id) /\ rows[tx[r].id].name = tx[r].row.name /\ rows[tx[r].id].sso = tx[r].row.sso
    BY <1>1, <1>3 DEF AccInv, StatementInv, TableInv, Removes, Open
  <2>2. rows' = [rows EXCEPT ![tx[r].id] = [rows[tx[r].id] EXCEPT !.email = tx[r].row.email]]
    BY <1>1, <1>3 DEF AfterCommit
  <2>3. rows[tx[r].id] \in Row
    BY <1>1, <2>1 DEF Exists
  <2> DEFINE row == [rows[tx[r].id] EXCEPT !.email = tx[r].row.email]
  <2>4. row \in Row /\ row.name = tx[r].row.name /\ row.sso = tx[r].row.sso /\ row.email = tx[r].row.email
    BY <1>1, <2>1, <2>3 DEF Row
  <2>5. rows' = [rows EXCEPT ![tx[r].id] = row]
    BY <2>2
  <2> HIDE DEF row
  <2> QED
    BY <1>1, <1>3, <2>4, <2>5, NoRowAssumption DEF Exists
<1>4. CASE tx[r].does = "delete"
  <2>1. rows' = [rows EXCEPT ![tx[r].id] = NoRow]
    BY <1>1, <1>4 DEF AfterCommit
  <2>2. ~ Writes(r)
    BY <1>4 DEF Writes, Open
  <2> QED
    BY <1>1, <1>4, <2>1, <2>2 DEF Exists
<1>5. CASE tx[r].does = "none"
  <2>1. rows' = rows
    BY <1>1, <1>5 DEF AfterCommit
  <2>2. ~ Writes(r)
    BY <1>5 DEF Writes, Open
  <2> QED
    BY <1>1, <1>5, <2>1, <2>2
<1> QED
  BY <1>1, <1>2, <1>3, <1>4, <1>5

\* A request that is committed holds nothing back any more.
LEMMA CommitFields ==
    ASSUME AccInv, NEW r \in AccountRequest, Commit(r)
    PROVE  /\ tx' \in [AccountRequest -> {Out} \cup Tx]
           /\ \A q \in AccountRequest : q # r => tx'[q] = tx[q]
           /\ Busy(r) /\ tx[r].pc \in {"flushed", "sent"} /\ tx[r].id \in AccountId /\ tx[r].id <= lastId
           /\ ~ Writes(r)' /\ ~ Removes(r)' /\ ~ Adds(r)' /\ ~ Stands(r, "flush")'
           /\ Busy(r)' => Pending(r)' = Pending(r) /\ tx'[r].id = tx[r].id /\ tx'[r].row = tx[r].row
                          /\ tx'[r].for = tx[r].for /\ tx'[r].as = tx[r].as /\ tx'[r].does = tx[r].does
           /\ ~ Busy(r)' => ~ Pending(r)'
<1>1. /\ Busy(r) /\ tx[r].pc \in {"flushed", "sent"} /\ ~ Stands(r, "flush")
      /\ tx \in [AccountRequest -> {Out} \cup Tx]
  BY DEF Commit, Busy, Stands, AccInv, AccTyped
<1>2. tx[r] \in Tx /\ tx[r].id \in AccountId /\ tx[r].id <= lastId
  BY <1>1, BusyTx DEF AccInv
<1>3. CASE Stands(r, "sent")
  <2>1. tx' = [tx EXCEPT ![r] = Out]
    BY <1>3 DEF Commit, Leave
  <2>2. ~ Busy(r)' /\ tx'[r] = Out /\ Out.pc = "out"
    BY <1>1, <2>1 DEF Busy, Stands, Out
  <2> QED
    BY <1>1, <1>2, <2>1, <2>2 DEF Writes, Removes, Adds, Open, Stands, Pending
<1>4. CASE ~ Stands(r, "sent")
  <2> DEFINE new == [tx[r] EXCEPT !.pc = "stored"]
  <2>1. tx' = [tx EXCEPT ![r] = new]
    BY <1>4 DEF Commit
  <2>2. /\ new \in Tx /\ new.pc = "stored" /\ new.id = tx[r].id /\ new.row = tx[r].row
        /\ new.for = tx[r].for /\ new.as = tx[r].as /\ new.does = tx[r].does
    BY <1>2 DEF Tx
  <2> HIDE DEF new
  <2>3. tx'[r] = new /\ Busy(r)'
    BY <1>1, <2>1, <2>2 DEF Busy, Stands
  <2> QED
    BY <1>1, <1>2, <2>1, <2>2, <2>3 DEF Writes, Removes, Adds, Open, Stands, Pending, Names
<1> QED
  BY <1>3, <1>4

LEMMA CommitStep == ASSUME AccInv, NEW r \in AccountRequest, Commit(r) PROVE AccInv'
<1>1. /\ tx' \in [AccountRequest -> {Out} \cup Tx]
      /\ \A q \in AccountRequest : q # r => tx'[q] = tx[q]
      /\ Busy(r) /\ tx[r].pc \in {"flushed", "sent"} /\ tx[r].id \in AccountId /\ tx[r].id <= lastId
      /\ ~ Writes(r)' /\ ~ Removes(r)' /\ ~ Adds(r)' /\ ~ Stands(r, "flush")'
      /\ Busy(r)' => Pending(r)' = Pending(r) /\ tx'[r].id = tx[r].id /\ tx'[r].row = tx[r].row
                     /\ tx'[r].for = tx[r].for /\ tx'[r].as = tx[r].as /\ tx'[r].does = tx[r].does
      /\ ~ Busy(r)' => ~ Pending(r)'
  BY CommitFields
<1>2. /\ rows' \in [AccountId -> Row \cup {NoRow}]
      /\ \A i \in AccountId : i # tx[r].id => rows'[i] = rows[i]
      /\ Writes(r) => /\ rows'[tx[r].id] # NoRow /\ rows'[tx[r].id].name = tx[r].row.name
                      /\ rows'[tx[r].id].email = tx[r].row.email
                      /\ rows'[tx[r].id].sso = tx[r].row.sso
      /\ tx[r].does = "delete" => rows'[tx[r].id] = NoRow
      /\ tx[r].does = "none" => UNCHANGED rows
  BY CommitRows
<1>3. /\ UNCHANGED <<claimed, renamings, lastId, answered>>
      /\ gone' = IF tx[r].does = "delete" THEN gone \cup {tx[r].id} ELSE gone
  BY DEF Commit
<1>4. \A q \in AccountRequest : q # r =>
               /\ Busy(q)' <=> Busy(q)
               /\ Writes(q)' <=> Writes(q)
               /\ Removes(q)' <=> Removes(q)
               /\ Adds(q)' <=> Adds(q)
               /\ Pending(q)' <=> Pending(q)
               /\ Stands(q, "flushed")' <=> Stands(q, "flushed")
               /\ NameAnswer(q)' = NameAnswer(q)
  BY <1>1, OthersStay
<1>5. \/ Writes(r)
      \/ tx[r].does = "delete" /\ Removes(r)
      \/ tx[r].does = "none"
  <2>1. tx[r].does \in {"insert", "update", "delete", "none"}
    BY <1>1, BusyTx DEF AccInv, Tx
  <2> QED
    BY <1>1, <2>1 DEF Writes, Removes, Open
<1>6. \A i \in AccountId : i # tx[r].id => (Exists(i)' <=> Exists(i))
  BY <1>2 DEF Exists
<1>7. AccTyped'
  <2>1. \A i \in AccountId : Exists(i)' => i <= lastId'
    BY <1>1, <1>3, <1>6 DEF AccInv, AccTyped
  <2>2. gone' \subseteq 1..lastId'
    <3>1. gone \subseteq 1..lastId /\ lastId \in Nat
      BY DEF AccInv, AccTyped
    <3>2. tx[r].id \in 1..lastId
      BY <1>1, <3>1, AccountBounds DEF AccountId
    <3> QED
      BY <1>3, <3>1, <3>2
  <2>3. ASSUME NEW q \in AccountRequest, Busy(q)'
        PROVE  /\ tx'[q].id <= lastId'
               /\ tx'[q].id = NoId <=> Stands(q, "flush")' /\ tx'[q].does = "insert"
    <3>1. CASE q = r
      BY <1>1, <1>3, <2>3, <3>1, AccountBounds DEF AccountId, NoId
    <3>2. CASE q # r
      BY <1>1, <1>3, <1>4, <2>3, <3>2 DEF AccInv, AccTyped, Stands
    <3> QED
      BY <3>1, <3>2
  <2> QED
    BY <1>1, <1>2, <1>3, <2>1, <2>2, <2>3 DEF AccInv, AccTyped
<1>8. StatementInv'
  <2>1. ASSUME NEW q \in AccountRequest, Busy(q), tx[q].does = "update", tx[q].id \in AccountId,
               rows'[tx[q].id] # NoRow
        PROVE  rows'[tx[q].id].name = tx[q].row.name /\ rows'[tx[q].id].sso = tx[q].row.sso
    <3>1. CASE tx[q].id # tx[r].id
      BY <1>2, <1>6, <2>1, <3>1 DEF AccInv, StatementInv, Exists
    <3>2. CASE tx[q].id = tx[r].id /\ tx[r].does = "insert"
      <4>1. Adds(r) /\ q # r
        BY <1>1, <2>1, <3>2 DEF Adds, Open
      <4> QED
        BY <2>1, <3>2, <4>1 DEF AccInv, TableInv
    <3>3. CASE tx[q].id = tx[r].id /\ tx[r].does = "update"
      <4>1. Writes(r) /\ Removes(r)
        BY <1>1, <3>3 DEF Writes, Removes, Open
      <4>2. Exists(tx[r].id)
        BY <4>1 DEF AccInv, TableInv
      <4>3. /\ rows[tx[r].id].name = tx[r].row.name /\ rows[tx[r].id].sso = tx[r].row.sso
        BY <1>1, <3>3, <4>2 DEF AccInv, StatementInv
      <4>4. /\ rows[tx[q].id].name = tx[q].row.name /\ rows[tx[q].id].sso = tx[q].row.sso
        BY <2>1, <3>3, <4>2 DEF AccInv, StatementInv, Exists
      <4> QED
        BY <1>2, <3>3, <4>1, <4>3, <4>4
    <3>4. CASE tx[q].id = tx[r].id /\ tx[r].does = "delete"
      BY <1>2, <2>1, <3>4 DEF Exists
    <3>5. CASE tx[q].id = tx[r].id /\ tx[r].does = "none"
      BY <1>2, <2>1, <3>5 DEF AccInv, StatementInv, Exists
    <3> QED
      BY <1>5, <3>1, <3>2, <3>3, <3>4, <3>5 DEF Writes, Open
  <2> SUFFICES ASSUME NEW q \in AccountRequest, Busy(q)'
               PROVE  /\ tx'[q].does = "insert" /\ tx'[q].for \in Person =>
                             tx'[q].row.sso = tx'[q].for /\ tx'[q].row.name = tx'[q].as
                      /\ tx'[q].does \in {"update", "delete"} => tx'[q].for = Admin
                      /\ tx'[q].does = "none" => ~ Stands(q, "flush")'
                      /\ tx'[q].does = "update" /\ rows'[tx[q].id] # NoRow =>
                             /\ rows'[tx[q].id].name = tx[q].row.name
                             /\ rows'[tx[q].id].sso = tx[q].row.sso
                      /\ tx'[q].id = tx[q].id /\ tx'[q].row = tx[q].row
    BY DEF StatementInv, Exists
  <2>2. /\ Busy(q) /\ tx'[q].does = tx[q].does /\ tx'[q].for = tx[q].for /\ tx'[q].as = tx[q].as
        /\ tx'[q].row = tx[q].row /\ tx'[q].id = tx[q].id /\ (Stands(q, "flush")' => Stands(q, "flush"))
    BY <1>1, <1>4 DEF Stands
  <2>3. tx[q].does = "update" => tx[q].id \in AccountId
    <3>1. tx[q].id \in AccountId \cup {NoId} /\ (tx[q].id = NoId => tx[q].does = "insert")
      BY <2>2, BusyTx DEF AccInv, AccTyped
    <3> QED
      BY <3>1
  <2> QED
    BY <2>1, <2>2, <2>3 DEF AccInv, StatementInv
<1>9. TableInv'
  <2>1. \A q \in AccountRequest : q # r /\ (Adds(q) \/ Removes(q)) => tx[q].id # tx[r].id \/ tx[r].does = "none"
    <3>1. \A q \in AccountRequest : q # r /\ Adds(q) => tx[q].id # tx[r].id
      BY <1>1 DEF AccInv, TableInv
    <3>2. \A q \in AccountRequest : q # r /\ Removes(q) /\ Removes(r) => tx[q].id # tx[r].id
      BY DEF AccInv, TableInv
    <3>3. \A q \in AccountRequest : q # r /\ Removes(q) /\ Adds(r) => tx[q].id # tx[r].id
      BY OpenBusy DEF AccInv, TableInv, Removes
    <3>4. Removes(r) \/ Adds(r) \/ tx[r].does = "none"
      BY <1>5 DEF Writes, Removes, Adds, Open
    <3> QED
      BY <3>1, <3>2, <3>3, <3>4
  <2>2. \A q \in AccountRequest : q # r /\ Writes(q) => Adds(q) \/ Removes(q)
    BY DEF Writes, Adds, Removes, Open
  <2>3. ASSUME NEW i \in AccountId, Exists(i)', NEW row,
               Exists(i) => ~ Clash(row, rows[i]), i = tx[r].id /\ Writes(r) => ~ Clash(row, tx[r].row)
        PROVE  ~ Clash(row, rows'[i])
    <3>1. CASE i # tx[r].id
      BY <1>2, <1>6, <2>3, <3>1
    <3>2. CASE i = tx[r].id /\ Writes(r)
      BY <1>2, <2>3, <3>2 DEF Clash
    <3>3. CASE i = tx[r].id /\ tx[r].does = "none"
      BY <1>2, <2>3, <3>3 DEF Exists
    <3> QED
      BY <1>2, <1>5, <2>3, <3>1, <3>2, <3>3 DEF Exists
  <2>4. ASSUME NEW i \in AccountId, NEW j \in AccountId, i # j, Exists(i)', Exists(j)', j # tx[r].id
        PROVE  ~ Clash(rows'[i], rows'[j])
    <3>1. Exists(j) /\ rows'[j] = rows[j]
      BY <1>2, <1>6, <2>4
    <3>2. Exists(i) => ~ Clash(rows[j], rows[i])
      BY <2>4, <3>1 DEF AccInv, TableInv
    <3>3. i = tx[r].id /\ Writes(r) => ~ Clash(rows[j], tx[r].row)
      BY <2>4, <3>1, ClashSymmetric DEF AccInv, TableInv
    <3>4. ~ Clash(rows[j], rows'[i])
      BY <2>3, <2>4, <3>2, <3>3
    <3> QED
      BY <3>1, <3>4, ClashSymmetric
  <2>5. ASSUME NEW i \in AccountId, NEW j \in AccountId, i # j, Exists(i)', Exists(j)'
        PROVE  ~ Clash(rows'[i], rows'[j])
    <3>1. CASE j # tx[r].id
      BY <2>4, <2>5, <3>1
    <3>2. CASE j = tx[r].id
      BY <2>4, <2>5, <3>2, ClashSymmetric
    <3> QED
      BY <3>1, <3>2
  <2>6. ASSUME NEW q \in AccountRequest, Writes(q)', NEW i \in AccountId, Exists(i)', i # tx'[q].id
        PROVE  ~ Clash(tx'[q].row, rows'[i])
    <3>1. q # r /\ Writes(q) /\ tx'[q] = tx[q]
      BY <1>1, <1>4, <2>6
    <3>2. Exists(i) => ~ Clash(tx[q].row, rows[i])
      BY <2>6, <3>1 DEF AccInv, TableInv
    <3>3. Writes(r) => ~ Clash(tx[q].row, tx[r].row)
      BY <3>1 DEF AccInv, TableInv
    <3> QED
      BY <2>3, <2>6, <3>1, <3>2, <3>3
  <2>7. \A q, u \in AccountRequest : q # u /\ Writes(q)' /\ Writes(u)' => ~ Clash(tx'[q].row, tx'[u].row)
    BY <1>1, <1>4 DEF AccInv, TableInv
  <2>8. ASSUME NEW q \in AccountRequest, Adds(q)' PROVE rows'[tx[q].id] = NoRow /\ tx'[q].id = tx[q].id
    <3>1. q # r /\ Adds(q) /\ tx'[q] = tx[q] /\ tx[q].id \in AccountId /\ ~ Exists(tx[q].id)
      BY <1>1, <1>4, <2>8, OpenBusy DEF AccInv, TableInv, Adds
    <3> QED
      BY <1>2, <2>1, <3>1 DEF Exists
  <2>9. ASSUME NEW q \in AccountRequest, Removes(q)' PROVE rows'[tx[q].id] # NoRow /\ tx'[q].id = tx[q].id
    <3>1. q # r /\ Removes(q) /\ tx'[q] = tx[q] /\ tx[q].id \in AccountId /\ Exists(tx[q].id)
      BY <1>1, <1>4, <2>9, OpenBusy DEF AccInv, TableInv, Removes
    <3> QED
      BY <1>2, <2>1, <3>1 DEF Exists
  <2>10. \A q, u \in AccountRequest : q # u /\ Removes(q)' /\ Removes(u)' => tx'[q].id # tx'[u].id
    BY <1>1, <1>4 DEF AccInv, TableInv
  <2>11. ASSUME NEW q \in AccountRequest, NEW u \in AccountRequest, q # u, Adds(q)', Busy(u)'
         PROVE  tx'[q].id # tx'[u].id
    <3>1. Adds(q) /\ tx'[q] = tx[q] /\ Busy(u) /\ tx'[u].id = tx[u].id
      BY <1>1, <1>4, <2>11
    <3> QED
      BY <2>11, <3>1 DEF AccInv, TableInv
  <2> QED
    BY <2>5, <2>6, <2>7, <2>8, <2>9, <2>10, <2>11 DEF TableInv, Exists
<1>10. Claims' \subseteq Claims
  <2>1. Pending(r)' => Pending(r) /\ NameAnswer(r)' = NameAnswer(r)
    BY <1>1 DEF NameAnswer
  <2> QED
    BY <1>1, <1>3, <2>1, ClaimCases DEF Claims
<1>11. ASSUME NEW a, Held(a) PROVE Held(a)'
  <2>1. CASE a.id \in gone
    BY <1>3, <2>1 DEF Held
  <2>2. CASE a.id \in AccountId /\ Exists(a.id) /\ Fits(rows[a.id], a)
    <3>1. CASE a.id # tx[r].id
      BY <1>2, <1>6, <2>2, <3>1 DEF Held, Exists
    <3>2. CASE a.id = tx[r].id /\ tx[r].does = "delete"
      BY <1>3, <3>2 DEF Held
    <3>3. CASE a.id = tx[r].id /\ tx[r].does = "none"
      BY <1>2, <2>2, <3>3 DEF Held, Exists
    <3>4. CASE a.id = tx[r].id /\ Writes(r)
      <4>1. ~ Adds(r)
        BY <2>2, <3>4 DEF AccInv, TableInv, Exists
      <4>2. tx[r].does = "update"
        BY <3>4, <4>1 DEF Writes, Adds, Open
      <4>3. rows[a.id].name = tx[r].row.name /\ rows[a.id].sso = tx[r].row.sso
        BY <1>1, <2>2, <3>4, <4>2 DEF AccInv, StatementInv, Exists
      <4>4. Exists(a.id)' /\ Fits(rows'[a.id], a)
        BY <1>2, <2>2, <3>4, <4>3 DEF Fits, Exists
      <4> QED
        BY <2>2, <4>4 DEF Held, Exists, Fits
    <3> QED
      BY <1>5, <3>1, <3>2, <3>3, <3>4
  <2>3. ASSUME NEW q \in AccountRequest, Adds(q), tx[q].id = a.id, FitsNew(tx[q].row, a) PROVE Held(a)'
    <3>1. CASE q = r
      <4>1. Writes(r)
        BY <2>3, <3>1 DEF Writes, Adds, Open
      <4>2. Exists(a.id)' /\ Fits(rows'[a.id], a) /\ a.id \in AccountId
        BY <1>1, <1>2, <2>3, <3>1, <4>1 DEF Fits, FitsNew, Exists
      <4> QED
        BY <4>2 DEF Held, Exists, Fits
    <3>2. CASE q # r
      BY <1>1, <1>4, <2>3, <3>2 DEF Held
    <3> QED
      BY <3>1, <3>2
  <2> QED
    BY <1>11, <2>1, <2>2, <2>3 DEF Held
<1>12. ClaimInv'
  <2>1. \A a, b \in Claims' :
          a.for \in Person /\ a.for = b.for /\ a.as = b.as /\ a.id # b.id => {a.id, b.id} \cap gone' # {}
    <3>1. gone \subseteq gone'
      BY <1>3
    <3>2. ASSUME NEW a \in Claims, NEW b \in Claims, a.for \in Person, a.for = b.for,
                 a.as = b.as, a.id # b.id
          PROVE  {a.id, b.id} \cap gone # {}
      BY <3>2 DEF AccInv, ClaimInv
    <3> QED
      BY <1>10, <3>1, <3>2
  <2>2. \A a \in Claims' : Held(a)'
    BY <1>10, <1>11 DEF AccInv, ClaimInv
  <2>3. \A q \in AccountRequest : Adds(q)' /\ Stands(q, "flushed")' =>
          \A a \in answered' : a.id # tx'[q].id
    BY <1>1, <1>3, <1>4 DEF AccInv, ClaimInv
  <2> QED
    BY <2>1, <2>2, <2>3 DEF ClaimInv
<1> QED
  BY <1>7, <1>8, <1>9, <1>12 DEF AccInv

\* The answer leaves, before the commit or after it; it was to be given already.
LEMMA SendAnswerStep == ASSUME AccInv, NEW r \in AccountRequest, SendAnswer(r) PROVE AccInv'
<1>1. /\ Busy(r) /\ ~ Stands(r, "flush") /\ ~ Stands(r, "sent") /\ tx[r].pc \in {"flushed", "stored"}
      /\ tx \in [AccountRequest -> {Out} \cup Tx]
      /\ UNCHANGED <<rows, claimed, renamings, lastId, gone>>
      /\ answered' = IF Names(r) THEN answered \cup {NameAnswer(r)} ELSE answered
  BY DEF SendAnswer, Busy, Stands, AccInv, AccTyped, NameAnswer
<1>2. tx[r] \in Tx /\ tx[r].id \in AccountId /\ tx[r].id <= lastId /\ tx[r].row \in Row
  BY <1>1, BusyTx DEF AccInv
<1>3. /\ tx' \in [AccountRequest -> {Out} \cup Tx]
      /\ \A q \in AccountRequest : q # r => tx'[q] = tx[q]
      /\ Adds(r)' => ~ Stands(r, "flushed")'
      /\ \/ /\ ~ Busy(r)' /\ ~ Pending(r)' /\ ~ Writes(r)' /\ ~ Removes(r)' /\ ~ Adds(r)'
            /\ ~ Writes(r) /\ ~ Removes(r) /\ ~ Adds(r)
         \/ /\ tx'[r].id = tx[r].id /\ tx'[r].row = tx[r].row /\ tx'[r].for = tx[r].for
            /\ tx'[r].as = tx[r].as /\ tx'[r].does = tx[r].does /\ Busy(r)' /\ ~ Stands(r, "flush")'
            /\ Pending(r)' <=> Pending(r)
            /\ Writes(r)' <=> Writes(r)
            /\ Removes(r)' <=> Removes(r)
            /\ Adds(r)' <=> Adds(r)
  <2>1. CASE Stands(r, "stored")
    <3>1. tx' = [tx EXCEPT ![r] = Out]
      BY <2>1 DEF SendAnswer, Leave
    <3>2. ~ Busy(r)' /\ tx'[r] = Out /\ Out.pc = "out"
      BY <1>1, <3>1 DEF Busy, Stands, Out
    <3> QED
      BY <1>1, <2>1, <3>1, <3>2 DEF Writes, Removes, Adds, Open, Stands, Pending
  <2>2. CASE ~ Stands(r, "stored")
    <3> DEFINE new == [tx[r] EXCEPT !.pc = "sent"]
    <3>1. tx' = [tx EXCEPT ![r] = new]
      BY <2>2 DEF SendAnswer
    <3>2. /\ new \in Tx /\ new.pc = "sent" /\ new.id = tx[r].id /\ new.row = tx[r].row
          /\ new.for = tx[r].for /\ new.as = tx[r].as /\ new.does = tx[r].does
      BY <1>2 DEF Tx
    <3> HIDE DEF new
    <3>3. tx'[r] = new /\ Busy(r)' /\ tx[r].pc = "flushed"
      BY <1>1, <2>2, <3>1, <3>2 DEF Busy, Stands
    <3>4. /\ tx' \in [AccountRequest -> {Out} \cup Tx]
          /\ \A q \in AccountRequest : q # r => tx'[q] = tx[q]
      BY <1>1, <3>1, <3>2
    <3> QED
      BY <3>2, <3>3, <3>4 DEF Writes, Removes, Adds, Open, Stands, Pending, Names
  <2> QED
    BY <2>1, <2>2
<1>4. \A q \in AccountRequest : q # r =>
               /\ Busy(q)' <=> Busy(q)
               /\ Writes(q)' <=> Writes(q)
               /\ Removes(q)' <=> Removes(q)
               /\ Adds(q)' <=> Adds(q)
               /\ Pending(q)' <=> Pending(q)
               /\ Stands(q, "flushed")' <=> Stands(q, "flushed")
               /\ NameAnswer(q)' = NameAnswer(q)
  BY <1>3, OthersStay
<1>5. Names(r) => Pending(r) /\ NameAnswer(r) \in Claims
  BY <1>1 DEF Pending, Claims
<1>6. NameAnswer(r) \in Named /\ NameAnswer(r).id = tx[r].id
  <2>1. tx[r].row.name \in Name /\ tx[r].for \in Person \cup {Admin} /\ tx[r].as \in Name
    BY <1>2 DEF Tx, Row
  <2> QED
    BY <1>2, <2>1 DEF NameAnswer, Named
<1>7. AccTyped'
  <2>1. answered' \subseteq Named /\ \A a \in answered' : a.id <= lastId'
    BY <1>1, <1>2, <1>6 DEF AccInv, AccTyped
  <2>2. ASSUME NEW q \in AccountRequest, Busy(q)'
        PROVE  /\ tx'[q].id <= lastId'
               /\ tx'[q].id = NoId <=> Stands(q, "flush")' /\ tx'[q].does = "insert"
    <3>1. CASE q = r
      BY <1>1, <1>2, <1>3, <2>2, <3>1, AccountBounds DEF AccountId, NoId
    <3>2. CASE q # r
      BY <1>1, <1>3, <1>4, <2>2, <3>2 DEF AccInv, AccTyped, Stands
    <3> QED
      BY <3>1, <3>2
  <2> QED
    BY <1>1, <1>3, <2>1, <2>2 DEF AccInv, AccTyped, Exists
<1>8. StatementInv'
  <2> SUFFICES ASSUME NEW q \in AccountRequest, Busy(q)'
               PROVE  /\ tx'[q].does = "insert" /\ tx'[q].for \in Person =>
                             tx'[q].row.sso = tx'[q].for /\ tx'[q].row.name = tx'[q].as
                      /\ tx'[q].does \in {"update", "delete"} => tx'[q].for = Admin
                      /\ tx'[q].does = "none" => ~ Stands(q, "flush")'
                      /\ tx'[q].does = "update" /\ Exists(tx[q].id) =>
                             /\ rows[tx[q].id].name = tx[q].row.name
                             /\ rows[tx[q].id].sso = tx[q].row.sso
                      /\ tx'[q].id = tx[q].id /\ tx'[q].row = tx[q].row
    BY <1>1 DEF StatementInv, Exists
  <2>1. /\ Busy(q) /\ tx'[q].does = tx[q].does /\ tx'[q].for = tx[q].for /\ tx'[q].as = tx[q].as
        /\ tx'[q].row = tx[q].row /\ tx'[q].id = tx[q].id /\ (Stands(q, "flush")' => Stands(q, "flush"))
    BY <1>1, <1>3, <1>4 DEF Stands
  <2> QED
    BY <2>1 DEF AccInv, StatementInv
<1>9. TableInv'
  <2>1. \A q \in AccountRequest :
          /\ Writes(q)' => Writes(q) /\ tx'[q].row = tx[q].row /\ tx'[q].id = tx[q].id
          /\ Removes(q)' => Removes(q) /\ tx'[q].id = tx[q].id
          /\ Adds(q)' => Adds(q) /\ tx'[q].id = tx[q].id
          /\ Busy(q)' => Busy(q) /\ tx'[q].id = tx[q].id
    BY <1>1, <1>3, <1>4
  <2>2. \A i : Exists(i)' <=> rows[i] # NoRow
    BY <1>1 DEF Exists
  <2> QED
    BY <1>1, <2>1, <2>2 DEF AccInv, TableInv, Exists
<1>10. Claims' \subseteq Claims
  <2>1. Pending(r)' => Pending(r) /\ NameAnswer(r)' = NameAnswer(r)
    BY <1>3 DEF NameAnswer
  <2> QED
    BY <1>1, <1>3, <1>5, <2>1, ClaimCases DEF Claims
<1>11. ASSUME NEW a, Held(a) PROVE Held(a)'
  <2>1. \A q \in AccountRequest : Adds(q) => Adds(q)' /\ tx'[q].id = tx[q].id /\ tx'[q].row = tx[q].row
    BY <1>3, <1>4
  <2> QED
    BY <1>1, <1>11, <2>1 DEF Held, Exists
<1>12. ClaimInv'
  <2>1. ASSUME NEW q \in AccountRequest, Adds(q)', Stands(q, "flushed")', NEW a \in answered'
        PROVE  a.id # tx'[q].id
    <3>1. q # r /\ Adds(q) /\ Stands(q, "flushed") /\ tx'[q] = tx[q]
      BY <1>3, <1>4, <2>1
    <3>2. CASE a \in answered
      BY <3>1, <3>2 DEF AccInv, ClaimInv
    <3>3. CASE a = NameAnswer(r)
      BY <1>1, <1>6, <3>1, <3>3 DEF AccInv, TableInv
    <3> QED
      BY <1>1, <2>1, <3>2, <3>3
  <2>2. \A a \in Claims' : Held(a)'
    BY <1>10, <1>11 DEF AccInv, ClaimInv
  <2>3. \A a, b \in Claims' :
          a.for \in Person /\ a.for = b.for /\ a.as = b.as /\ a.id # b.id => {a.id, b.id} \cap gone' # {}
    BY <1>1, <1>10 DEF AccInv, ClaimInv
  <2> QED
    BY <2>1, <2>2, <2>3 DEF ClaimInv
<1> QED
  BY <1>7, <1>8, <1>9, <1>12 DEF AccInv

\* A change of a name in Keycloak touches neither the table nor the answers.
LEMMA RenamePersonStep ==
    ASSUME AccInv, UNCHANGED <<rows, tx, lastId, answered, gone>>,
           claimed' \in [Person -> Name], renamings' \in 0..MaxRenamings
    PROVE  AccInv'
<1>1. \A r \in AccountRequest :
        /\ Busy(r)' = Busy(r) /\ Writes(r)' = Writes(r) /\ Removes(r)' = Removes(r) /\ Adds(r)' = Adds(r)
        /\ Pending(r)' = Pending(r) /\ NameAnswer(r)' = NameAnswer(r)
        /\ Stands(r, "flush")' = Stands(r, "flush") /\ Stands(r, "flushed")' = Stands(r, "flushed")
  BY DEF Busy, Writes, Removes, Adds, Open, Pending, Names, NameAnswer, Stands
<1>2. Claims' = Claims
  BY <1>1 DEF Claims
<1>3. AccTyped'
  BY <1>1 DEF AccInv, AccTyped, Exists
<1>4. StatementInv'
  BY <1>1 DEF AccInv, StatementInv, Exists
<1>5. TableInv'
  BY <1>1 DEF AccInv, TableInv, Exists
<1>6. ClaimInv'
  BY <1>1, <1>2 DEF AccInv, ClaimInv, Held, Exists
<1> QED
  BY <1>3, <1>4, <1>5, <1>6 DEF AccInv

LEMMA AccStep == AccInv /\ [AccNext]_accVars => AccInv'
<1> SUFFICES ASSUME AccInv, [AccNext]_accVars PROVE AccInv'
  OBVIOUS
<1>1. ASSUME NEW p \in Person, NEW n \in Name, RenamePerson(p, n) PROVE AccInv'
  <2>1. claimed' \in [Person -> Name] /\ renamings' \in 0..MaxRenamings
    BY <1>1, AccountBounds DEF RenamePerson, AccInv, AccTyped
  <2> QED
    BY <1>1, <2>1, RenamePersonStep DEF RenamePerson
<1>2. CASE UNCHANGED accVars
  BY <1>2, RenamePersonStep DEF accVars, AccInv, AccTyped
<1> QED
  BY <1>1, <1>2, CreateUserStep, InitUserStep, UpdateUserStep, DeleteUserRowStep, FlushInsertStep,
     FlushUpdateStep, FlushDeleteStep, CommitStep, SendAnswerStep, RollbackStep DEF AccNext

\* Every variable keeps its type, and the committed rows differ in their unique columns.
THEOREM AccountTypeCorrect == AccSpec => []AccTypeOK
<1>1. AccInv => AccTypeOK
  BY DEF AccInv, AccTyped, TableInv, AccTypeOK
<1> QED
  BY <1>1, AccInitial, AccStep, PTL DEF AccSpec

\* create_user and init_user: two answers with one user name name one user, unless one of
\* the users is gone.
THEOREM NameCorrect == AccSpec => []OneUserPerName
<1>1. AccInv => OneUserPerName
  <2> SUFFICES ASSUME AccInv, NEW a \in answered, NEW b \in answered, a.name = b.name, a.id # b.id,
                      a.id \notin gone, b.id \notin gone
               PROVE  FALSE
    BY DEF OneUserPerName
  <2>1. Held(a) /\ Held(b)
    BY DEF AccInv, ClaimInv, Claims
  <2>2. ASSUME NEW x \in answered, NEW y \in answered, x.name = y.name, x.id # y.id,
               x.id \in AccountId, Exists(x.id), Fits(rows[x.id], x)
        PROVE  ~ (y.id \in AccountId /\ Exists(y.id) /\ Fits(rows[y.id], y))
    BY <2>2 DEF AccInv, TableInv, Fits, Clash
  <2>3. ASSUME NEW x \in answered, NEW y \in answered, x.name = y.name, x.id # y.id,
               x.id \in AccountId, Exists(x.id), Fits(rows[x.id], x),
               NEW r \in AccountRequest, Adds(r), tx[r].id = y.id, FitsNew(tx[r].row, y)
        PROVE  FALSE
    BY <2>3 DEF AccInv, TableInv, Fits, FitsNew, Clash, Adds, Writes, Open
  <2>4. ASSUME NEW r \in AccountRequest, Adds(r), tx[r].id = a.id, FitsNew(tx[r].row, a),
               NEW q \in AccountRequest, Adds(q), tx[q].id = b.id, FitsNew(tx[q].row, b)
        PROVE  FALSE
    BY <2>4 DEF AccInv, TableInv, FitsNew, Clash, Adds, Writes, Open
  <2> QED
    BY <2>1, <2>2, <2>3, <2>4 DEF Held
<1> QED
  BY <1>1, AccInitial, AccStep, PTL DEF AccSpec

\* init_user: a person who keeps the user name is one user in all answers, unless that
\* user is gone.
THEOREM PersonCorrect == AccSpec => []OneUserPerPerson
<1>1. AccInv => OneUserPerPerson
  BY DEF AccInv, ClaimInv, Claims, OneUserPerPerson
<1> QED
  BY <1>1, AccInitial, AccStep, PTL DEF AccSpec

-----------------------------------------------------------------------------
(* Accounts implements UserTable: a change takes effect when its            *)
(* transaction is committed, and an insert that is answered before is a     *)
(* promise until then.                                                      *)

\* An id that an insert holds was never anybody else's.
FreshInv == \A r \in AccountRequest : Adds(r) => tx[r].id \notin gone

UserInv == AccInv /\ FreshInv

\* What the transaction of r does to tx is of r alone.
LEMMA OwnTx ==
    ASSUME AccTyped, NEW r \in AccountRequest
    PROVE  /\ \A new : tx' = [tx EXCEPT ![r] = new] =>
                           tx'[r] = new /\ \A q \in AccountRequest \ {r} : tx'[q] = tx[q]
           /\ Leave(r) => ~ Adds(r)' /\ r \notin Answering' /\ \A q \in AccountRequest \ {r} : tx'[q] = tx[q]
<1>1. tx \in [AccountRequest -> {Out} \cup Tx]
  BY DEF AccTyped
<1>2. ASSUME NEW new, tx' = [tx EXCEPT ![r] = new]
      PROVE  tx'[r] = new /\ \A q \in AccountRequest \ {r} : tx'[q] = tx[q]
  BY <1>1, <1>2
<1>3. ASSUME Leave(r)
      PROVE  ~ Adds(r)' /\ r \notin Answering' /\ \A q \in AccountRequest \ {r} : tx'[q] = tx[q]
  <2>1. tx' = [tx EXCEPT ![r] = Out] /\ Out.pc = "out"
    BY <1>3 DEF Leave, Out
  <2>2. tx'[r] = Out /\ \A q \in AccountRequest \ {r} : tx'[q] = tx[q]
    BY <1>2, <2>1
  <2> QED BY <2>1, <2>2 DEF Adds, Open, Answering, Stands
<1> QED BY <1>2, <1>3

\* A stage that r enters keeps the rest of its transaction.
LEMMA StageOf ==
    ASSUME AccTyped, NEW r \in AccountRequest, Busy(r), NEW label, tx' = [tx EXCEPT ![r].pc = label]
    PROVE  /\ tx'[r].pc = label /\ tx'[r].does = tx[r].does /\ tx'[r].id = tx[r].id /\ tx'[r].row = tx[r].row
           /\ \A q \in AccountRequest \ {r} : tx'[q] = tx[q]
<1>1. tx[r] \in Tx /\ tx \in [AccountRequest -> {Out} \cup Tx]
  BY BusyTx DEF AccTyped
<1> DEFINE new == [tx[r] EXCEPT !.pc = label]
<1>2. tx' = [tx EXCEPT ![r] = new]
  OBVIOUS
<1>3. new.pc = label /\ new.does = tx[r].does /\ new.id = tx[r].id /\ new.row = tx[r].row
  BY <1>1 DEF Tx
<1> HIDE DEF new
<1> QED BY <1>2, <1>3, OwnTx

\* A request that selects leaves what the users are and were told; it holds nothing yet.
LEMMA SelectHolds ==
    ASSUME AccTyped, NEW r \in AccountRequest, NEW does, NEW i, NEW row, NEW for, NEW as, Select(r, does, i, row, for, as)
    PROVE  /\ UNCHANGED <<rows, answered, gone>> /\ \A q \in AccountRequest \ {r} : tx'[q] = tx[q]
           /\ ~ Adds(r)' /\ r \notin Answering /\ r \notin Answering'
<1> DEFINE new == [pc |-> IF does = "none" THEN "flushed" ELSE "flush", does |-> does, id |-> i, row |-> row,
                   for |-> for, as |-> as]
<1>1. tx' = [tx EXCEPT ![r] = new] /\ tx[r].pc = "out" /\ UNCHANGED <<rows, answered, gone>>
  BY DEF Select, Stands
<1>2. new.pc # "sent" /\ (new.pc = "flushed" => new.does # "insert")
  OBVIOUS
<1> HIDE DEF new
<1>3. tx'[r] = new /\ \A q \in AccountRequest \ {r} : tx'[q] = tx[q]
  BY <1>1, OwnTx
<1> QED BY <1>1, <1>2, <1>3 DEF Adds, Open, Answering, Stands

\* What a request does before its commit without an answer, or after both, or Keycloak.
Quietly(r) ==
    \/ \E n \in Name, e \in Email \cup {NoKey} : CreateUser(r, n, e)
    \/ \E p \in Person : InitUser(r, p)
    \/ \E i \in AccountId, e \in Email \cup {NoKey} : UpdateUser(r, i, e)
    \/ \E i \in AccountId : DeleteUserRow(r, i)
    \/ FlushInsert(r) \/ FlushUpdate(r) \/ FlushDelete(r)

LEMMA QuietKeeps ==
    ASSUME AccInv, NEW r \in AccountRequest, Quietly(r)
    PROVE  /\ UNCHANGED <<rows, answered, gone>> /\ \A q \in AccountRequest \ {r} : tx'[q] = tx[q]
           /\ r \notin Answering /\ r \notin Answering'
           /\ Adds(r)' => tx'[r].id \notin gone
<1>1. AccTyped
  BY DEF AccInv
<1>2. ASSUME \/ \E n \in Name, e \in Email \cup {NoKey} : CreateUser(r, n, e)
             \/ \E p \in Person : InitUser(r, p)
             \/ \E i \in AccountId, e \in Email \cup {NoKey} : UpdateUser(r, i, e)
             \/ \E i \in AccountId : DeleteUserRow(r, i)
      PROVE  \E does, i, row, for, as : Select(r, does, i, row, for, as)
  BY <1>2 DEF CreateUser, InitUser, UpdateUser, DeleteUserRow
<1>3. CASE FlushInsert(r)
  <2>1. UNCHANGED <<rows, answered, gone>> /\ r \notin Answering /\ Busy(r) /\ gone \subseteq 1..lastId /\ lastId \in Nat
    BY <1>1, <1>3, AccountBounds DEF FlushInsert, Answering, Stands, Busy, AccTyped
  <2>2. CASE Leave(r)
    BY <1>1, <2>1, <2>2, OwnTx
  <2>3. CASE tx' = [tx EXCEPT ![r].pc = "flushed", ![r].id = lastId'] /\ lastId' = lastId + 1
    <3> DEFINE new == [tx[r] EXCEPT !.pc = "flushed", !.id = lastId']
    <3>1. tx' = [tx EXCEPT ![r] = new]
      BY <2>3
    <3>2. new.pc = "flushed" /\ new.id = lastId + 1
      BY <1>1, <2>1, <2>3, BusyTx DEF Tx
    <3> HIDE DEF new
    <3>3. tx'[r] = new /\ \A q \in AccountRequest \ {r} : tx'[q] = tx[q]
      BY <1>1, <3>1, OwnTx
    <3>4. tx'[r].id \notin gone
      BY <2>1, <3>2, <3>3
    <3> QED BY <2>1, <3>2, <3>3, <3>4 DEF Answering, Stands
  <2> QED BY <1>3, <2>2, <2>3 DEF FlushInsert
<1>4. CASE FlushUpdate(r)
  <2>1. UNCHANGED <<rows, answered, gone>> /\ r \notin Answering /\ Busy(r) /\ tx[r].does = "update"
    BY <1>4 DEF FlushUpdate, Answering, Stands, Busy
  <2>2. CASE Leave(r)
    BY <1>1, <2>1, <2>2, OwnTx
  <2>3. CASE tx' = [tx EXCEPT ![r].pc = "flushed"]
    <3>1. tx'[r].does = "update" /\ \A q \in AccountRequest \ {r} : tx'[q] = tx[q]
      BY <1>1, <2>1, <2>3, StageOf
    <3> QED BY <2>1, <3>1 DEF Answering, Adds, Open
  <2> QED BY <1>4, <2>2, <2>3 DEF FlushUpdate
<1>5. CASE FlushDelete(r)
  <2>1. UNCHANGED <<rows, answered, gone>> /\ r \notin Answering /\ Busy(r) /\ tx[r].does = "delete"
        /\ tx' = [tx EXCEPT ![r].pc = "flushed", ![r].does = IF Exists(tx[r].id) THEN @ ELSE "none"]
    BY <1>5 DEF FlushDelete, Answering, Stands, Busy
  <2> DEFINE new == [tx[r] EXCEPT !.pc = "flushed", !.does = IF Exists(tx[r].id) THEN @ ELSE "none"]
  <2>2. tx' = [tx EXCEPT ![r] = new]
    BY <2>1
  <2>3. new.does # "insert"
    BY <1>1, <2>1, BusyTx DEF Tx
  <2> HIDE DEF new
  <2>4. tx'[r] = new /\ \A q \in AccountRequest \ {r} : tx'[q] = tx[q]
    BY <1>1, <2>2, OwnTx
  <2> QED BY <2>1, <2>3, <2>4 DEF Answering, Adds, Open
<1> QED BY <1>1, <1>2, <1>3, <1>4, <1>5, SelectHolds DEF Quietly

\* Of the ids that go, none is held by an insert of somebody else.
LEMMA FreshStep == AccInv /\ FreshInv /\ [AccNext]_accVars => FreshInv'
<1> SUFFICES ASSUME AccInv, FreshInv, [AccNext]_accVars PROVE FreshInv'
  OBVIOUS
<1>1. AccTyped /\ TableInv
  BY DEF AccInv
<1>2. ASSUME NEW r \in AccountRequest, \A q \in AccountRequest \ {r} : tx'[q] = tx[q],
             Adds(r)' => tx'[r].id \notin gone',
             \A q \in AccountRequest \ {r} : Adds(q) => tx[q].id \notin gone'
      PROVE  FreshInv'
  BY <1>2 DEF FreshInv, Adds, Open
<1>3. ASSUME NEW r \in AccountRequest, Quietly(r) PROVE FreshInv'
  <2>1. /\ gone' = gone /\ \A q \in AccountRequest \ {r} : tx'[q] = tx[q]
        /\ Adds(r)' => tx'[r].id \notin gone
    BY <1>3, QuietKeeps
  <2> QED BY <1>2, <2>1 DEF FreshInv
<1>4. ASSUME NEW r \in AccountRequest, Commit(r) PROVE FreshInv'
  <2>1. ~ Adds(r)' /\ \A q \in AccountRequest \ {r} : tx'[q] = tx[q]
    BY <1>4, CommitFields
  <2>2. ASSUME NEW q \in AccountRequest \ {r}, Adds(q) PROVE tx[q].id \notin gone'
    <3>1. tx[q].id \notin gone /\ ~ Exists(tx[q].id)
      BY <1>1, <2>2 DEF FreshInv, TableInv
    <3>2. tx[r].does = "delete" => Exists(tx[r].id)
      BY <1>1, <1>4 DEF Commit, TableInv, Removes, Open
    <3> QED BY <1>4, <3>1, <3>2 DEF Commit
  <2> QED BY <1>2, <2>1, <2>2
<1>5. ASSUME NEW r \in AccountRequest, SendAnswer(r) PROVE FreshInv'
  <2>1. gone' = gone /\ Busy(r) /\ tx[r].pc \in {"flushed", "stored"}
    BY <1>5 DEF SendAnswer, Busy, Stands
  <2>2. CASE Leave(r)
    BY <1>1, <1>2, <2>1, <2>2, OwnTx DEF FreshInv
  <2>3. CASE tx[r].pc = "flushed" /\ tx' = [tx EXCEPT ![r].pc = "sent"]
    <3>1. tx'[r].does = tx[r].does /\ tx'[r].id = tx[r].id /\ \A q \in AccountRequest \ {r} : tx'[q] = tx[q]
      BY <1>1, <2>1, <2>3, StageOf
    <3>2. Adds(r)' => Adds(r)
      BY <2>3, <3>1 DEF Adds, Open
    <3> QED BY <1>2, <2>1, <3>1, <3>2 DEF FreshInv
  <2> QED BY <1>5, <2>1, <2>2, <2>3 DEF SendAnswer, Stands
<1>6. ASSUME NEW r \in AccountRequest, Rollback(r) PROVE FreshInv'
  <2>1. ~ Adds(r)' /\ \A q \in AccountRequest \ {r} : tx'[q] = tx[q]
    BY <1>1, <1>6, OwnTx DEF Rollback
  <2>2. ASSUME NEW q \in AccountRequest \ {r}, Adds(q) PROVE tx[q].id \notin gone'
    <3>1. Busy(r)
      BY <1>6 DEF Rollback, Busy
    <3>2. tx[q].id \notin gone /\ tx[q].id # tx[r].id
      BY <1>1, <2>2, <3>1 DEF FreshInv, TableInv
    <3> QED BY <1>6, <3>2 DEF Rollback
  <2> QED BY <1>2, <2>1, <2>2
<1>7. ASSUME UNCHANGED <<tx, gone>> PROVE FreshInv'
  BY <1>7 DEF FreshInv, Adds, Open
<1> QED BY <1>3, <1>4, <1>5, <1>6, <1>7 DEF AccNext, Quietly, RenamePerson, accVars

\* Whatever does not touch an answered insert is a stutter of what was promised.
LEMMA PromisesStay ==
    ASSUME NEW r \in AccountRequest, \A q \in AccountRequest \ {r} : tx'[q] = tx[q], r \notin Answering, r \notin Answering'
    PROVE  Promised' = Promised
<1>1. \A q \in AccountRequest : q \in Answering' <=> q \in Answering
  BY DEF Answering, Stands
<1>2. \A q \in Answering : q \in Answering' /\ q # r /\ tx'[q] = tx[q]
  BY <1>1 DEF Answering
<1>3. \A q \in Answering' : q \in Answering /\ tx'[q] = tx[q]
  BY <1>1, <1>2 DEF Answering
<1> QED BY <1>2, <1>3 DEF Promised

\* An answered insert has an id of its own, and is the promise of it.
PromiseOf(r) == [id |-> tx[r].id, row |-> tx[r].row]

LEMMA PromisesDiffer ==
    ASSUME AccInv, NEW r \in AccountRequest, Busy(r), NEW p \in Promised
    PROVE  \E q \in Answering : p = PromiseOf(q) /\ Adds(q) /\ Writes(q) /\ (q # r => p.id # tx[r].id)
<1>1. PICK q \in Answering : p = PromiseOf(q)
  BY DEF Promised, PromiseOf
<1>2. q \in AccountRequest /\ Adds(q) /\ Writes(q)
  BY <1>1 DEF Answering, Stands, Adds, Writes, Open
<1>3. q # r => tx[q].id # tx[r].id
  BY <1>2 DEF AccInv, TableInv
<1> QED BY <1>1, <1>2, <1>3 DEF PromiseOf

\* What r has flushed shares no column with anybody else, in the table or promised.
LEMMA FlushedUnique ==
    ASSUME AccInv, NEW r \in AccountRequest, Writes(r), NEW row,
           row.name = tx[r].row.name, row.email = tx[r].row.email, row.sso = tx[r].row.sso
    PROVE  Users!Unique(tx[r].id, row)
<1>1. Busy(r) /\ tx[r].id \in AccountId
  BY OpenBusy DEF AccInv, Writes
<1>2. ASSUME NEW other, ~ Clash(tx[r].row, other) PROVE ~ Users!Clash(row, other)
  BY <1>2 DEF Clash, Users!Clash, Users!Shared
<1>3. ASSUME NEW j \in AccountId \ {tx[r].id}, rows[j] # NoRow PROVE ~ Users!Clash(row, rows[j])
  <2>1. ~ Clash(tx[r].row, rows[j])
    BY <1>3 DEF AccInv, TableInv, Exists
  <2> QED BY <1>2, <2>1
<1>4. ASSUME NEW p \in Promised, p.id # tx[r].id PROVE ~ Users!Clash(row, p.row)
  <2>1. PICK q \in Answering : p = PromiseOf(q) /\ Writes(q)
    BY <1>1, PromisesDiffer
  <2>2. q \in AccountRequest /\ q # r
    BY <1>4, <2>1 DEF Answering, PromiseOf
  <2>3. ~ Clash(tx[r].row, tx[q].row)
    BY <2>1, <2>2 DEF AccInv, TableInv
  <2> QED BY <1>2, <2>1, <2>3 DEF PromiseOf
<1> QED BY <1>3, <1>4 DEF Users!Unique

\* An insert that nobody was told of is of an unused id.
LEMMA FlushedUnused ==
    ASSUME UserInv, NEW r \in AccountRequest, Adds(r), r \notin Answering
    PROVE  Users!Unused(tx[r].id)
<1>1. Busy(r)
  BY OpenBusy DEF UserInv, AccInv, Adds
<1>2. rows[tx[r].id] = NoRow /\ tx[r].id \notin gone
  BY DEF UserInv, AccInv, FreshInv, TableInv, Exists
<1>3. \A p \in Promised : p.id # tx[r].id
  BY <1>1, PromisesDiffer DEF UserInv
<1> QED BY <1>2, <1>3 DEF Users!Unused

\* The promise of r and no other is over when r is no longer answering.
LEMMA PromiseOver ==
    ASSUME AccInv, NEW r \in Answering, \A q \in AccountRequest \ {r} : tx'[q] = tx[q], r \notin Answering'
    PROVE  PromiseOf(r) \in Promised /\ Promised' = Promised \ {PromiseOf(r)}
<1>1. r \in AccountRequest /\ Busy(r)
  BY DEF Answering, Stands, Busy
<1>2. PromiseOf(r) \in Promised
  BY DEF Promised, PromiseOf
<1>3. \A q \in AccountRequest \ {r} : (q \in Answering' <=> q \in Answering) /\ PromiseOf(q)' = PromiseOf(q)
  BY DEF Answering, Stands, PromiseOf
<1>4. ASSUME NEW p \in Promised', p \notin Promised \ {PromiseOf(r)} PROVE FALSE
  <2>1. PICK q \in Answering' : p = PromiseOf(q)'
    BY DEF Promised, PromiseOf
  <2>2. q \in Answering /\ q # r /\ p = PromiseOf(q)
    BY <1>3, <2>1 DEF Answering
  <2>3. p \in Promised
    BY <2>2 DEF Promised, PromiseOf
  <2>4. tx[q].id # tx[r].id
    BY <1>1, <2>2 DEF AccInv, TableInv, Adds, Open, Answering, Stands
  <2> QED BY <1>4, <2>2, <2>3, <2>4 DEF PromiseOf
<1>5. ASSUME NEW p \in Promised, p # PromiseOf(r) PROVE p \in Promised'
  <2>1. PICK q \in Answering : p = PromiseOf(q)
    BY DEF Promised, PromiseOf
  <2>2. q \in Answering' /\ p = PromiseOf(q)'
    BY <1>3, <1>5, <2>1 DEF Answering
  <2> QED BY <2>2 DEF Promised, PromiseOf
<1> QED BY <1>2, <1>4, <1>5

LEMMA CommitImplements == ASSUME UserInv, NEW r \in AccountRequest, Commit(r) PROVE [Users!Next]_Users!userVars
<1>1. AccInv /\ AccTyped /\ StatementInv /\ TableInv
  BY DEF UserInv, AccInv
<1>2. /\ \A q \in AccountRequest \ {r} : tx'[q] = tx[q]
      /\ Busy(r) /\ tx[r].pc \in {"flushed", "sent"} /\ tx[r].id \in AccountId /\ ~ Adds(r)'
  BY <1>1, CommitFields
<1>3. tx[r].row \in Row /\ tx[r].does \in {"insert", "update", "delete", "none"} /\ r \notin Answering'
  BY <1>1, <1>2, BusyTx DEF Tx, Answering, Adds, Open, Stands
<1>4. rows' = AfterCommit(r) /\ answered' = answered
      /\ gone' = IF tx[r].does = "delete" THEN gone \cup {tx[r].id} ELSE gone
  BY DEF Commit
<1>5. tx[r].does # "insert" => Promised' = Promised
  BY <1>2, <1>3, PromisesStay DEF Answering
<1>6. CASE tx[r].does = "insert" /\ Stands(r, "sent")
  <2>1. r \in Answering
    BY <1>6 DEF Answering
  <2>2. PromiseOf(r) \in Promised /\ Promised' = Promised \ {PromiseOf(r)}
    BY <1>1, <1>2, <1>3, <2>1, PromiseOver
  <2>3. rows' = [rows EXCEPT ![PromiseOf(r).id] = PromiseOf(r).row] /\ gone' = gone
    BY <1>4, <1>6 DEF AfterCommit, PromiseOf
  <2>4. Users!Keep(PromiseOf(r))
    BY <1>4, <2>2, <2>3 DEF Users!Keep
  <2> QED BY <2>2, <2>4 DEF Users!Next
<1>7. CASE tx[r].does = "insert" /\ ~ Stands(r, "sent")
  <2>1. Adds(r) /\ Writes(r) /\ r \notin Answering
    BY <1>2, <1>7 DEF Adds, Writes, Open, Answering
  <2>2. Promised' = Promised
    BY <1>2, <1>3, <2>1, PromisesStay
  <2>3. Users!Unused(tx[r].id) /\ Users!Unique(tx[r].id, tx[r].row)
    BY <1>1, <2>1, FlushedUnused, FlushedUnique
  <2>4. rows' = [rows EXCEPT ![tx[r].id] = tx[r].row] /\ gone' = gone
    BY <1>4, <1>7 DEF AfterCommit
  <2>5. Users!Add(tx[r].id, tx[r].row) /\ tx[r].row \in Users!Row
    BY <1>3, <1>4, <2>2, <2>3, <2>4 DEF Users!Add, Row, Users!Row
  <2> QED BY <1>2, <2>3, <2>5 DEF Users!NewUser, Users!Next
<1>8. CASE tx[r].does = "update"
  <2>1. Writes(r) /\ Removes(r)
    BY <1>2, <1>8 DEF Writes, Removes, Open
  <2>2. Exists(tx[r].id) /\ rows[tx[r].id].name = tx[r].row.name /\ rows[tx[r].id].sso = tx[r].row.sso
    BY <1>1, <1>2, <1>8, <2>1 DEF StatementInv, TableInv
  <2>3. rows[tx[r].id] \in Row
    BY <1>1, <1>2, <2>2 DEF AccTyped, Exists
  <2> DEFINE e == tx[r].row.email
             row == [rows[tx[r].id] EXCEPT !.email = e]
  <2>4. row.name = tx[r].row.name /\ row.email = tx[r].row.email /\ row.sso = tx[r].row.sso
        /\ e \in Email \cup {NoKey}
    BY <1>3, <2>2, <2>3 DEF Row
  <2>5. Users!Unique(tx[r].id, row)
    <3> HIDE DEF row
    <3> QED BY <1>1, <2>1, <2>4, FlushedUnique
  <2>6. rows' = [rows EXCEPT ![tx[r].id].email = e] /\ gone' = gone
    BY <1>4, <1>8 DEF AfterCommit
  <2>7. Users!SetEmail(tx[r].id, e)
    BY <1>4, <1>5, <1>8, <2>2, <2>5, <2>6 DEF Users!SetEmail, Exists
  <2> HIDE DEF e
  <2> QED BY <1>2, <2>4, <2>7 DEF Users!Next
<1>9. CASE tx[r].does = "delete"
  <2>1. Exists(tx[r].id)
    BY <1>1, <1>2, <1>9 DEF TableInv, Removes, Open
  <2>2. rows' = [rows EXCEPT ![tx[r].id] = NoRow]
    BY <1>4, <1>9 DEF AfterCommit
  <2>3. Users!RemoveUser(tx[r].id)
    BY <1>4, <1>5, <1>9, <2>1, <2>2 DEF Users!RemoveUser, Exists
  <2> QED BY <1>2, <2>3 DEF Users!Next
<1>10. CASE tx[r].does = "none"
  <2>1. rows' = rows /\ gone' = gone
    BY <1>4, <1>10 DEF AfterCommit
  <2> QED BY <1>4, <1>5, <1>10, <2>1 DEF Users!userVars
<1> QED BY <1>3, <1>6, <1>7, <1>8, <1>9, <1>10

LEMMA SendAnswerImplements ==
    ASSUME UserInv, NEW r \in AccountRequest, SendAnswer(r)
    PROVE  [Users!Next]_Users!userVars
<1>1. AccInv /\ AccTyped /\ StatementInv /\ TableInv /\ ClaimInv
  BY DEF UserInv, AccInv
<1>2. /\ tx[r].pc \in {"flushed", "stored"} /\ Busy(r) /\ UNCHANGED <<rows, gone>>
      /\ answered' = IF Names(r) THEN answered \cup {NameAnswer(r)} ELSE answered
  BY DEF SendAnswer, Busy, Stands, NameAnswer
<1>3. /\ tx[r] \in Tx /\ tx[r].row \in Row /\ tx[r].id \in AccountId
      /\ tx[r].for \in Person \cup {Admin} /\ tx[r].as \in Name /\ r \notin Answering
  BY <1>1, <1>2, BusyTx DEF Stands, Answering
<1>4. NameAnswer(r) \in Users!Named
  BY <1>3 DEF NameAnswer, Users!Named, Row
<1>5. CASE tx[r].pc = "flushed" /\ tx[r].does = "insert"
  <2>1. tx' = [tx EXCEPT ![r].pc = "sent"] /\ Names(r)
    BY <1>5 DEF SendAnswer, Stands, Names
  <2>2. /\ tx'[r].pc = "sent" /\ tx'[r].does = "insert" /\ PromiseOf(r)' = PromiseOf(r)
        /\ \A q \in AccountRequest \ {r} : tx'[q] = tx[q]
    BY <1>1, <1>2, <1>5, <2>1, StageOf DEF PromiseOf
  <2>3. r \in Answering' /\ \A q \in AccountRequest \ {r} :
            (q \in Answering' <=> q \in Answering) /\ PromiseOf(q)' = PromiseOf(q)
    BY <2>2 DEF Answering, Stands, PromiseOf
  <2>4. Promised' = Promised \cup {PromiseOf(r)}
    <3>1. ASSUME NEW p \in Promised' PROVE p \in Promised \cup {PromiseOf(r)}
      <4>1. PICK q \in Answering' : p = PromiseOf(q)'
        BY DEF Promised, PromiseOf
      <4> QED BY <2>2, <2>3, <4>1 DEF Promised, PromiseOf, Answering
    <3>2. ASSUME NEW p \in Promised PROVE p \in Promised'
      <4>1. PICK q \in Answering : p = PromiseOf(q)
        BY DEF Promised, PromiseOf
      <4>2. q \in Answering' /\ p = PromiseOf(q)'
        BY <1>3, <2>3, <4>1 DEF Answering
      <4> QED BY <4>2 DEF Promised, PromiseOf
    <3>3. PromiseOf(r) \in Promised'
      BY <2>2, <2>3 DEF Promised, PromiseOf
    <3> QED BY <3>1, <3>2, <3>3
  <2>5. Adds(r) /\ Writes(r)
    BY <1>5 DEF Adds, Writes, Open
  <2>6. Users!Unused(tx[r].id) /\ Users!Unique(tx[r].id, tx[r].row)
    BY <1>1, <1>3, <2>5, FlushedUnused, FlushedUnique
  <2>7. NameAnswer(r).id = tx[r].id /\ Users!About(NameAnswer(r), tx[r].row)
    BY <1>1, <1>2, <1>5 DEF NameAnswer, Users!About, StatementInv
  <2>8. Users!Promise(tx[r].id, tx[r].row) /\ tx[r].row \in Users!Row
    BY <1>2, <1>3, <1>4, <2>1, <2>4, <2>6, <2>7 DEF Users!Promise, PromiseOf, Row, Users!Row
  <2> QED BY <1>3, <2>6, <2>8 DEF Users!NewUser, Users!Next
<1>6. CASE ~ (tx[r].pc = "flushed" /\ tx[r].does = "insert")
  <2>1. r \notin Answering' /\ \A q \in AccountRequest \ {r} : tx'[q] = tx[q]
    <3>1. CASE Leave(r)
      BY <1>1, <3>1, OwnTx
    <3>2. CASE tx[r].pc = "flushed" /\ tx' = [tx EXCEPT ![r].pc = "sent"]
      <4>1. tx'[r].does = tx[r].does /\ \A q \in AccountRequest \ {r} : tx'[q] = tx[q]
        BY <1>1, <1>2, <3>2, StageOf
      <4> QED BY <1>6, <3>2, <4>1 DEF Answering
    <3> QED BY <1>2, <3>1, <3>2 DEF SendAnswer, Stands
  <2>2. Promised' = Promised
    BY <1>3, <2>1, PromisesStay
  <2>3. CASE Names(r)
    <3>1. NameAnswer(r) \in Claims
      BY <1>2, <2>3 DEF Claims, Pending
    <3>2. ASSUME NEW q \in AccountRequest, Adds(q) PROVE tx[q].id # tx[r].id
      BY <1>1, <1>2, <1>6, <3>2 DEF TableInv, Adds, Open
    <3>3. \/ NameAnswer(r).id \in gone
          \/ Exists(NameAnswer(r).id) /\ Fits(rows[NameAnswer(r).id], NameAnswer(r))
      BY <1>1, <3>1, <3>2 DEF ClaimInv, Held, NameAnswer
    <3>4. Users!Tell(NameAnswer(r))
      BY <1>2, <2>2, <2>3, <3>3 DEF Users!Tell, Users!About, Fits, Exists
    <3> QED BY <1>4, <3>4 DEF Users!Next
  <2>4. CASE ~ Names(r)
    BY <1>2, <2>2, <2>4 DEF Users!userVars
  <2> QED BY <2>3, <2>4
<1> QED BY <1>5, <1>6

LEMMA RollbackImplements ==
    ASSUME UserInv, NEW r \in AccountRequest, Rollback(r)
    PROVE  [Users!Next]_Users!userVars
<1>1. AccInv /\ AccTyped
  BY DEF UserInv, AccInv
<1>2. /\ r \notin Answering' /\ \A q \in AccountRequest \ {r} : tx'[q] = tx[q]
      /\ UNCHANGED <<rows, answered>> /\ gone' = IF r \in Answering THEN gone \cup {tx[r].id} ELSE gone
  BY <1>1, OwnTx DEF Rollback, Answering
<1>3. CASE r \in Answering
  <2>1. PromiseOf(r) \in Promised /\ Promised' = Promised \ {PromiseOf(r)}
    BY <1>1, <1>2, <1>3, PromiseOver
  <2>2. Users!Break(PromiseOf(r))
    BY <1>2, <1>3, <2>1 DEF Users!Break, PromiseOf
  <2> QED BY <2>1, <2>2 DEF Users!Next
<1>4. CASE r \notin Answering
  BY <1>2, <1>4, PromisesStay DEF Users!userVars
<1> QED BY <1>3, <1>4

\* What clients see of the table users is what UserTable promises, for any number of
\* transactions: every step of Accounts is one of its atomic changes, or a promise that is
\* given, kept or broken, or an answer, or a stutter.
THEOREM AccountsImplementUserTable == AccSpec => ImplementsUserTable
<1>1. AccInit => FreshInv /\ Users!Init
  BY DEF AccInit, FreshInv, Adds, Open, Out, Answering, Stands, Promised, Users!Init
<1>2. UserInv /\ [AccNext]_accVars => [Users!Next]_Users!userVars
  <2> SUFFICES ASSUME UserInv, [AccNext]_accVars PROVE [Users!Next]_Users!userVars
    OBVIOUS
  <2>1. ASSUME NEW r \in AccountRequest, Quietly(r) PROVE UNCHANGED Users!userVars
    <3>1. /\ UNCHANGED <<rows, answered, gone>> /\ \A q \in AccountRequest \ {r} : tx'[q] = tx[q]
          /\ r \notin Answering /\ r \notin Answering'
      BY <2>1, QuietKeeps DEF UserInv
    <3> QED BY <3>1, PromisesStay DEF Users!userVars
  <2>2. ASSUME UNCHANGED <<rows, tx, answered, gone>> PROVE UNCHANGED Users!userVars
    BY <2>2 DEF Users!userVars, Promised, Answering, Stands
  <2> QED
    BY <2>1, <2>2, CommitImplements, SendAnswerImplements, RollbackImplements
       DEF AccNext, Quietly, RenamePerson, accVars
<1>3. AccInv /\ FreshInv => UserInv
  BY DEF UserInv
<1> QED BY <1>1, <1>2, <1>3, AccInitial, AccStep, FreshStep, PTL DEF AccSpec, ImplementsUserTable, Users!Spec

-----------------------------------------------------------------------------
\* As long as nothing goes wrong: a worker that is past the administrator's insert has
\* one that is committed, or its own; and so has whoever set the flag.
AdminInv == troubles = 0 =>
    /\ \A w \in Worker : pc[w] \in {"matchFlag", "insertFlag", "commit"} => admin # NoAdmin \/ w \in pendingAdmin
    /\ (flagDocs # {} \/ \E w \in Worker : pc[w] = "serving") => admin # NoAdmin \/ pendingAdmin # {}

BootInv == BootTypeOK /\ AdminInv

LEMMA BootInitial == BootInit => BootInv
<1> SUFFICES ASSUME BootInit PROVE BootInv
  OBVIOUS
<1>1. BootTypeOK
  <2>1. troubles \in 0..MaxTroubles
    BY MaxTroublesAssumption DEF BootInit
  <2>2. pc \in [Worker -> SeedPcs \cup BootPcs \cup {"down", "serving"}]
    BY DEF BootInit
  <2> QED BY <2>1, <2>2 DEF BootInit, BootTypeOK
<1>2. AdminInv
  BY DEF BootInit, AdminInv
<1> QED BY <1>1, <1>2 DEF BootInv

\* A step of w keeps the types of the rows and stages of the other workers.
LEMMA BootTypes ==
    ASSUME BootTypeOK, NEW w \in Worker, NEW label \in SeedPcs \cup BootPcs \cup {"down", "serving"}, Goto(w, label),
           pendingRole' \subseteq pendingRole \cup {w}, w \in pendingRole' => label = "insertAdmin",
           pendingAdmin' \subseteq pendingAdmin \cup {w},
           w \in pendingAdmin' => label \in {"matchFlag", "insertFlag", "commit"}
    PROVE  /\ pc'[w] = label /\ \A v \in Worker \ {w} : pc'[v] = pc[v]
           /\ pc' \in [Worker -> SeedPcs \cup BootPcs \cup {"down", "serving"}]
           /\ pendingRole' \in SUBSET {v \in Worker : pc'[v] = "insertAdmin"}
           /\ pendingAdmin' \in SUBSET {v \in Worker : pc'[v] \in {"matchFlag", "insertFlag", "commit"}}
<1>1. pc'[w] = label /\ \A v \in Worker \ {w} : pc'[v] = pc[v]
  BY DEF BootTypeOK, Goto
<1>2. pc' \in [Worker -> SeedPcs \cup BootPcs \cup {"down", "serving"}]
  BY DEF BootTypeOK, Goto
<1>3. pendingRole' \in SUBSET {v \in Worker : pc'[v] = "insertAdmin"}
  BY <1>1 DEF BootTypeOK
<1>4. pendingAdmin' \in SUBSET {v \in Worker : pc'[v] \in {"matchFlag", "insertFlag", "commit"}}
  BY <1>1 DEF BootTypeOK
<1> QED BY <1>1, <1>2, <1>3, <1>4

\* A step that goes on with no more than there was; what else it changes is of the seed.
LEMMA MoveOnStep ==
    ASSUME BootInv, NEW w \in Worker, NEW label \in SeedPcs \cup BootPcs \cup {"down", "serving"}, Goto(w, label),
           UNCHANGED <<flagDocs, troubles>>, tables' \in BOOLEAN, role' \in BOOLEAN,
           admin' \in {NoAdmin, SeedName, DefaultName}, admin # NoAdmin => admin' # NoAdmin,
           pendingRole' \subseteq pendingRole \cup {w}, w \in pendingRole' => label = "insertAdmin",
           pendingAdmin \ {w} \subseteq pendingAdmin', pendingAdmin' \subseteq pendingAdmin \cup {w},
           w \in pendingAdmin' => label \in {"matchFlag", "insertFlag", "commit"},
           w \in pendingAdmin => w \in pendingAdmin' \/ admin' # NoAdmin,
           troubles = 0 /\ label \in {"matchFlag", "insertFlag", "commit"} => admin' # NoAdmin \/ w \in pendingAdmin',
           troubles = 0 /\ label = "serving" => admin' # NoAdmin \/ pendingAdmin' # {}
    PROVE  BootInv'
<1>1. BootTypeOK /\ AdminInv
  BY DEF BootInv
<1>2. /\ pc'[w] = label /\ \A v \in Worker \ {w} : pc'[v] = pc[v]
      /\ pc' \in [Worker -> SeedPcs \cup BootPcs \cup {"down", "serving"}]
      /\ pendingRole' \in SUBSET {v \in Worker : pc'[v] = "insertAdmin"}
      /\ pendingAdmin' \in SUBSET {v \in Worker : pc'[v] \in {"matchFlag", "insertFlag", "commit"}}
  BY <1>1, BootTypes
<1>3. BootTypeOK'
  BY <1>1, <1>2 DEF BootTypeOK
<1>4. admin # NoAdmin \/ pendingAdmin # {} => admin' # NoAdmin \/ pendingAdmin' # {}
  OBVIOUS
<1>5. AdminInv'
  <2> SUFFICES ASSUME troubles = 0
      PROVE  /\ \A v \in Worker : pc'[v] \in {"matchFlag", "insertFlag", "commit"}
                  => admin' # NoAdmin \/ v \in pendingAdmin'
             /\ (flagDocs # {} \/ \E v \in Worker : pc'[v] = "serving") => admin' # NoAdmin \/ pendingAdmin' # {}
    BY DEF AdminInv
  <2>1. ASSUME NEW v \in Worker, pc'[v] \in {"matchFlag", "insertFlag", "commit"}
        PROVE  admin' # NoAdmin \/ v \in pendingAdmin'
    BY <1>1, <1>2, <2>1 DEF AdminInv
  <2>2. ASSUME NEW v \in Worker, pc'[v] = "serving" PROVE admin' # NoAdmin \/ pendingAdmin' # {}
    BY <1>1, <1>2, <1>4, <2>2 DEF AdminInv
  <2>3. flagDocs # {} => admin' # NoAdmin \/ pendingAdmin' # {}
    BY <1>1, <1>4 DEF AdminInv
  <2> QED BY <2>1, <2>2, <2>3
<1> QED BY <1>3, <1>5 DEF BootInv

LEMMA SeedStep == ASSUME BootInv, NEW w \in Worker, Start(w) \/ Seed(w) PROVE BootInv'
<1>1. /\ BootTypeOK /\ UNCHANGED <<flagDocs, troubles>>
      /\ tables \in BOOLEAN /\ role \in BOOLEAN /\ admin \in {NoAdmin, SeedName, DefaultName}
  BY DEF BootInv, BootTypeOK, Start, Seed, CreateAll, SelectAdmin, SelectRole, InsertRole, InsertAdmin, sqlVars
<1>2. w \notin pendingAdmin /\ (w \in pendingRole => pc[w] = "insertAdmin")
  BY <1>1 DEF BootTypeOK, Start, Seed, CreateAll, SelectAdmin, SelectRole, InsertRole, InsertAdmin
<1> USE DEF SeedPcs, BootPcs
<1>3. CASE Start(w)
  BY <1>1, <1>2, <1>3, MoveOnStep DEF Start, sqlVars, txVars
<1>4. CASE CreateAll(w)
  <2>1. PICK label \in {"selectAdmin", "makeTables", "findFlag"} : Goto(w, label)
    BY <1>4 DEF CreateAll
  <2>2. UNCHANGED <<admin, role, pendingRole, pendingAdmin>> /\ tables' \in BOOLEAN /\ w \notin pendingRole
    BY <1>2, <1>4 DEF CreateAll, txVars
  <2> QED BY <1>1, <1>2, <2>1, <2>2, MoveOnStep
<1>5. CASE SelectAdmin(w)
  <2>1. PICK label \in {"findFlag", "selectRole"} : Goto(w, label)
    BY <1>5 DEF SelectAdmin
  <2>2. UNCHANGED <<tables, admin, role, pendingRole, pendingAdmin>> /\ w \notin pendingRole
    BY <1>2, <1>5 DEF SelectAdmin, sqlVars, txVars
  <2> QED BY <1>1, <1>2, <2>1, <2>2, MoveOnStep
<1>6. CASE SelectRole(w)
  <2>1. PICK label \in {"insertAdmin", "insertRole"} : Goto(w, label)
    BY <1>6 DEF SelectRole
  <2>2. UNCHANGED <<tables, admin, role, pendingRole, pendingAdmin>> /\ w \notin pendingRole
    BY <1>2, <1>6 DEF SelectRole, sqlVars, txVars
  <2> QED BY <1>1, <1>2, <2>1, <2>2, MoveOnStep
<1>7. CASE InsertRole(w)
  <2>1. CASE role
    <3>1. Goto(w, "findFlag") /\ EndTx(w) /\ UNCHANGED <<tables, admin, role>>
      BY <1>7, <2>1 DEF InsertRole, sqlVars
    <3> QED BY <1>1, <1>2, <3>1, MoveOnStep DEF EndTx
  <2>2. CASE ~ role
    <3>1. Goto(w, "insertAdmin") /\ pendingRole' = pendingRole \cup {w} /\ UNCHANGED <<tables, admin, role, pendingAdmin>>
      BY <1>7, <2>2 DEF InsertRole, sqlVars
    <3> QED BY <1>1, <1>2, <3>1, MoveOnStep
  <2> QED BY <2>1, <2>2
<1>8. CASE InsertAdmin(w)
  <2>1. /\ Goto(w, "findFlag") /\ EndTx(w) /\ tables' = tables
        /\ admin' \in {NoAdmin, SeedName, DefaultName} /\ admin' # NoAdmin
    BY <1>1, <1>8, NoAdminAssumption DEF InsertAdmin
  <2>2. role' \in BOOLEAN
    BY <1>8 DEF InsertAdmin
  <2> QED BY <1>1, <1>2, <2>1, <2>2, MoveOnStep DEF EndTx
<1> QED BY <1>3, <1>4, <1>5, <1>6, <1>7, <1>8 DEF Seed

LEMMA BootStep == ASSUME BootInv, NEW w \in Worker, Boot(w) PROVE BootInv'
<1>1. BootTypeOK /\ AdminInv /\ w \notin pendingRole
  BY DEF BootInv, BootTypeOK, Boot, FindFlag, SelectDefault, InsertDefault, MatchFlag, InsertFlag, CommitBoot
<1>2. tables \in BOOLEAN /\ role \in BOOLEAN /\ admin \in {NoAdmin, SeedName, DefaultName} /\ DefaultName # NoAdmin
  BY <1>1, NoAdminAssumption DEF BootTypeOK
<1> USE DEF SeedPcs, BootPcs
<1>3. CASE FindFlag(w)
  <2>1. UNCHANGED <<tables, admin, role, flagDocs, pendingRole, pendingAdmin, troubles>> /\ w \notin pendingAdmin
    BY <1>1, <1>3 DEF FindFlag, sqlVars, txVars, BootTypeOK
  <2>2. CASE flagDocs # {} /\ Goto(w, "serving")
    <3>1. troubles = 0 => admin # NoAdmin \/ pendingAdmin # {}
      BY <1>1, <2>2 DEF AdminInv
    <3> QED BY <1>1, <1>2, <2>1, <2>2, <3>1, MoveOnStep
  <2>3. CASE Goto(w, "selectDefault")
    BY <1>1, <1>2, <2>1, <2>3, MoveOnStep
  <2> QED BY <1>3, <2>2, <2>3 DEF FindFlag
<1>4. CASE SelectDefault(w)
  <2>1. UNCHANGED <<tables, admin, role, flagDocs, pendingRole, pendingAdmin, troubles>> /\ w \notin pendingAdmin
    BY <1>1, <1>4 DEF SelectDefault, sqlVars, txVars, BootTypeOK
  <2>2. CASE admin = DefaultName /\ Goto(w, "matchFlag")
    BY <1>1, <1>2, <2>1, <2>2, MoveOnStep
  <2>3. CASE Goto(w, "insertDefault")
    BY <1>1, <1>2, <2>1, <2>3, MoveOnStep
  <2> QED BY <1>4, <2>2, <2>3 DEF SelectDefault
<1>5. CASE InsertDefault(w)
  <2>1. UNCHANGED <<tables, admin, role, flagDocs, troubles>>
    BY <1>5 DEF InsertDefault, sqlVars
  <2>2. CASE admin # NoAdmin /\ Goto(w, "serving") /\ EndTx(w)
    BY <1>1, <1>2, <2>1, <2>2, MoveOnStep DEF EndTx
  <2>3. CASE Goto(w, "matchFlag") /\ pendingAdmin' = pendingAdmin \cup {w} /\ pendingRole' = pendingRole
    BY <1>1, <1>2, <2>1, <2>3, MoveOnStep
  <2> QED BY <1>5, <2>2, <2>3 DEF InsertDefault
<1>6. CASE MatchFlag(w)
  <2>1. UNCHANGED <<tables, admin, role, flagDocs, pendingRole, pendingAdmin, troubles>> /\ pc[w] = "matchFlag"
    BY <1>6 DEF MatchFlag, sqlVars, txVars
  <2>2. troubles = 0 => admin # NoAdmin \/ w \in pendingAdmin
    BY <1>1, <2>1 DEF AdminInv
  <2>3. PICK label \in {"commit", "insertFlag"} : Goto(w, label)
    BY <1>6 DEF MatchFlag
  <2> QED BY <1>1, <1>2, <2>1, <2>2, <2>3, MoveOnStep
<1>7. CASE InsertFlag(w)
  <2>1. UNCHANGED <<tables, admin, role, pendingRole, pendingAdmin, troubles>> /\ pc[w] = "insertFlag"
        /\ Goto(w, "commit") /\ flagDocs' \in SUBSET DocId
    BY <1>1, <1>7 DEF InsertFlag, sqlVars, txVars, BootTypeOK
  <2>2. troubles = 0 => admin # NoAdmin \/ w \in pendingAdmin
    BY <1>1, <2>1 DEF AdminInv
  <2>3. /\ pc'[w] = "commit" /\ \A v \in Worker \ {w} : pc'[v] = pc[v]
        /\ pc' \in [Worker -> SeedPcs \cup BootPcs \cup {"down", "serving"}]
        /\ pendingRole' \in SUBSET {v \in Worker : pc'[v] = "insertAdmin"}
        /\ pendingAdmin' \in SUBSET {v \in Worker : pc'[v] \in {"matchFlag", "insertFlag", "commit"}}
    BY <1>1, <2>1, BootTypes
  <2>4. BootTypeOK'
    BY <1>1, <2>1, <2>3 DEF BootTypeOK
  <2>5. AdminInv'
    BY <1>1, <2>1, <2>2, <2>3 DEF AdminInv
  <2> QED BY <2>4, <2>5 DEF BootInv
<1>8. CASE CommitBoot(w)
  <2>1. UNCHANGED <<tables, role, flagDocs, troubles>> /\ pc[w] = "commit" /\ Goto(w, "serving") /\ EndTx(w)
        /\ admin' = IF w \in pendingAdmin THEN DefaultName ELSE admin
    BY <1>8 DEF CommitBoot, CommittedBy
  <2>2. troubles = 0 => admin' # NoAdmin
    BY <1>1, <1>2, <2>1 DEF AdminInv
  <2>3. w \in pendingAdmin => admin' # NoAdmin
    BY <1>2, <2>1
  <2> QED BY <1>1, <1>2, <2>1, <2>2, <2>3, MoveOnStep DEF EndTx
<1> QED BY <1>3, <1>4, <1>5, <1>6, <1>7, <1>8 DEF Boot

\* After a trouble only the types are left to show.
LEMMA TroubleStep ==
    ASSUME BootInv, DeleteAdmin \/ \E w \in Worker : CallFails(w) \/ Crash(w)
    PROVE  BootInv'
<1>1. BootTypeOK /\ troubles' = troubles + 1 /\ troubles < MaxTroubles /\ troubles \in Nat
  BY MaxTroublesAssumption DEF BootInv, BootTypeOK, DeleteAdmin, CallFails, Crash, Trouble
<1>2. troubles' \in 0..MaxTroubles /\ troubles' # 0
  BY <1>1, MaxTroublesAssumption
<1>3. BootTypeOK'
  <2>1. CASE DeleteAdmin
    BY <1>1, <1>2, <2>1 DEF DeleteAdmin, BootTypeOK, txVars
  <2>2. ASSUME NEW w \in Worker, CallFails(w) \/ Crash(w) PROVE BootTypeOK'
    <3>1. PICK label \in {"findFlag", "serving", "down"} : Goto(w, label)
      BY <2>2 DEF CallFails, Crash
    <3>2. EndTx(w) /\ UNCHANGED <<tables, admin, role, flagDocs>>
      BY <2>2 DEF CallFails, Crash, sqlVars
    <3>3. /\ pc' \in [Worker -> SeedPcs \cup BootPcs \cup {"down", "serving"}]
          /\ pendingRole' \in SUBSET {v \in Worker : pc'[v] = "insertAdmin"}
          /\ pendingAdmin' \in SUBSET {v \in Worker : pc'[v] \in {"matchFlag", "insertFlag", "commit"}}
      BY <1>1, <3>1, <3>2, BootTypes DEF EndTx, BootPcs
    <3> QED BY <1>1, <1>2, <3>2, <3>3 DEF BootTypeOK
  <2> QED BY <2>1, <2>2
<1> QED BY <1>2, <1>3 DEF BootInv, AdminInv

LEMMA StartUpStep == BootInv /\ [BootNext]_bootVars => BootInv'
<1> SUFFICES ASSUME BootInv, [BootNext]_bootVars PROVE BootInv'
  OBVIOUS
<1>1. CASE BootNext
  BY <1>1, SeedStep, BootStep, TroubleStep DEF BootNext, StartUp
<1>2. CASE UNCHANGED bootVars
  <2>1. UNCHANGED <<tables, admin, role, flagDocs, pc, pendingRole, pendingAdmin, troubles>>
    BY <1>2 DEF bootVars, sqlVars, txVars
  <2> QED BY <2>1 DEF BootInv, BootTypeOK, AdminInv
<1> QED BY <1>1, <1>2

\* Each worker has one transaction, and rows in it only between its insert and its end.
THEOREM BootTypeCorrect == BootSpec => []BootTypeOK
<1>1. BootInv => BootTypeOK
  BY DEF BootInv
<1> QED BY <1>1, BootInitial, StartUpStep, PTL DEF BootSpec

\* However many workers start at once and whichever insert loses, without a trouble none
\* serves before the administrator is there or only waits for a commit.
THEOREM ServingCorrect == BootSpec => []ServingHasAdmin
<1>1. BootInv => ServingHasAdmin
  BY DEF BootInv, AdminInv, ServingHasAdmin
<1> QED BY <1>1, BootInitial, StartUpStep, PTL DEF BootSpec

-----------------------------------------------------------------------------
(* What a start leaves behind once the troubles are over.  RestartRepairs   *)
(* is a liveness property; what follows is the part of it that holds at     *)
(* every step: the seed of a later start ends with an administrator, each   *)
(* step of a start comes nearer to its end, and no circle of workers waits. *)

\* The administrator is there, or a worker has all it needs to make one: it has yet to
\* look for it, or inserts a role nobody else has committed, or only inserts the user.
Underway ==
    \/ admin # NoAdmin
    \/ \E v \in Worker : pc[v] \in {"selectAdmin", "selectRole", "insertAdmin"} \/ (pc[v] = "insertRole" /\ ~ role)

\* w has gone through the seed, and nobody is in it.
SeedOver(w) == pc[w] \notin {"down", "checkTables", "makeTables"} /\ \A v \in Worker : pc[v] \notin SeedPcs

\* w either started after the last trouble and is still at the tables, or an administrator
\* is underway; one is as soon as a worker that looked for the tables finds them made.
Repaired(w) ==
    /\ BootInv
    /\ troubles = MaxTroubles
    /\ \/ pc[w] \in {"down", "checkTables"}
       \/ pc[w] = "makeTables" /\ (tables => Underway)
       \/ Underway

\* A start has no step after the last trouble but those of StartUp.
LEMMA TroublesAreOver ==
    ASSUME NEW w \in Worker, Repaired(w), BootNext
    PROVE  troubles' = MaxTroubles /\ \E v \in Worker : StartUp(v)
<1>1. troubles = MaxTroubles /\ MaxTroubles \in Nat
  BY MaxTroublesAssumption DEF Repaired
<1>2. PICK v \in Worker : StartUp(v)
  BY <1>1 DEF BootNext, CallFails, Crash, DeleteAdmin, Trouble
<1>3. troubles' = troubles
  BY <1>2 DEF StartUp, Start, Seed, Boot, CreateAll, SelectAdmin, SelectRole, InsertRole, InsertAdmin,
              FindFlag, SelectDefault, InsertDefault, MatchFlag, InsertFlag, CommitBoot
<1> QED BY <1>1, <1>2, <1>3

\* Where a step of v takes it.
LEMMA StageAfter ==
    ASSUME BootTypeOK, NEW v \in Worker, NEW label, Goto(v, label)
    PROVE  pc'[v] = label /\ \A u \in Worker \ {v} : pc'[u] = pc[u]
  BY DEF BootTypeOK, Goto

\* Whoever has the administrator in hand keeps it there until it is committed.
LEMMA UnderwayKept == ASSUME BootTypeOK, Underway, NEW v \in Worker, StartUp(v) PROVE Underway'
<1>1. /\ admin \in {NoAdmin, SeedName, DefaultName} /\ SeedName # NoAdmin /\ DefaultName # NoAdmin
      /\ pc \in [Worker -> SeedPcs \cup BootPcs \cup {"down", "serving"}]
  BY NoAdminAssumption DEF BootTypeOK
<1>2. CASE admin # NoAdmin
  <2>1. admin' # NoAdmin
    BY <1>1, <1>2 DEF StartUp, Start, Seed, Boot, CreateAll, SelectAdmin, SelectRole, InsertRole, InsertAdmin, FindFlag,
       SelectDefault, InsertDefault, MatchFlag, InsertFlag, CommitBoot, CommittedBy, sqlVars
  <2> QED BY <2>1 DEF Underway
<1>3. ASSUME admin = NoAdmin, NEW u \in Worker,
             pc[u] \in {"selectAdmin", "selectRole", "insertAdmin"} \/ (pc[u] = "insertRole" /\ ~ role)
      PROVE  Underway'
  <2>1. CASE v = u
    <3>1. CASE SelectAdmin(v)
      <4>1. pc'[v] = "selectRole"
        BY <1>1, <1>3, <3>1, StageAfter DEF SelectAdmin, SeedFound
      <4> QED BY <4>1 DEF Underway
    <3>2. CASE SelectRole(v)
      <4>1. role' = role /\ (pc'[v] = "insertAdmin" \/ (pc'[v] = "insertRole" /\ ~ role))
        BY <3>2, StageAfter DEF SelectRole, sqlVars
      <4> QED BY <4>1 DEF Underway
    <3>3. CASE InsertRole(v)
      <4>1. ~ role
        BY <1>3, <2>1, <3>3 DEF InsertRole
      <4>2. pc'[v] = "insertAdmin"
        BY <3>3, <4>1, StageAfter DEF InsertRole
      <4> QED BY <4>2 DEF Underway
    <3>4. CASE InsertAdmin(v)
      <4>1. admin' = SeedName
        BY <1>3, <3>4 DEF InsertAdmin
      <4> QED BY <1>1, <4>1 DEF Underway
    <3> QED
      BY <1>3, <2>1, <3>1, <3>2, <3>3, <3>4 DEF StartUp, Start, Seed, Boot, CreateAll, FindFlag, SelectDefault,
         InsertDefault, MatchFlag, InsertFlag, CommitBoot
  <2>2. CASE v # u
    <3>1. pc'[u] = pc[u]
      BY <2>2 DEF BootTypeOK, Goto, StartUp, Start, Seed, Boot, CreateAll, SelectAdmin, SelectRole, InsertRole, InsertAdmin,
         FindFlag, SelectDefault, InsertDefault, MatchFlag, InsertFlag, CommitBoot
    <3>2. CASE InsertAdmin(v)
      <4>1. admin' = SeedName
        BY <1>3, <3>2 DEF InsertAdmin
      <4> QED BY <1>1, <4>1 DEF Underway
    <3>3. CASE ~ InsertAdmin(v)
      <4>1. role' = role
        BY <3>3 DEF StartUp, Start, Seed, Boot, CreateAll, SelectAdmin, SelectRole, InsertRole,
           FindFlag, SelectDefault, InsertDefault, MatchFlag, InsertFlag, CommitBoot, sqlVars
      <4> QED BY <1>3, <3>1, <4>1 DEF Underway
    <3> QED BY <3>2, <3>3
  <2> QED BY <2>1, <2>2
<1> QED BY <1>2, <1>3 DEF Underway

\* w's own way to the tables, and what another worker may do to them in the meantime.
LEMMA TablesStep ==
    ASSUME NEW w \in Worker, BootTypeOK, NEW v \in Worker, StartUp(v), ~ Underway,
           pc[w] \in {"down", "checkTables"} \/ (pc[w] = "makeTables" /\ ~ tables)
    PROVE  Underway' \/ pc'[w] \in {"down", "checkTables"} \/ (pc'[w] = "makeTables" /\ ~ tables')
<1>1. CASE CreateAll(v)
  <2>1. CASE pc[v] = "makeTables" /\ ~ tables
    <3>1. pc'[v] = "selectAdmin"
      BY <1>1, <2>1, StageAfter DEF CreateAll
    <3> QED BY <3>1 DEF Underway
  <2>2. CASE pc[v] = "checkTables" /\ tables
    <3>1. pc'[v] = "selectAdmin"
      BY <1>1, <2>2, StageAfter DEF CreateAll
    <3> QED BY <3>1 DEF Underway
  <2>3. CASE pc[v] = "checkTables" /\ ~ tables
    <3>1. pc'[v] = "makeTables" /\ tables' = tables /\ \A u \in Worker \ {v} : pc'[u] = pc[u]
      BY <1>1, <2>3, StageAfter DEF CreateAll, BootTypeOK
    <3> QED BY <2>3, <3>1
  <2>4. CASE pc[v] = "makeTables" /\ tables
    <3>1. v # w
      BY <2>4
    <3>2. pc'[w] = pc[w]
      BY <1>1, <3>1 DEF CreateAll, BootTypeOK, Goto
    <3> QED BY <2>4, <3>2
  <2> QED BY <1>1, <2>1, <2>2, <2>3, <2>4 DEF CreateAll
<1>2. CASE Start(v)
  <2>1. tables' = tables /\ pc'[v] = "checkTables" /\ \A u \in Worker \ {v} : pc'[u] = pc[u]
    BY <1>2, StageAfter DEF Start, sqlVars
  <2> QED BY <2>1
<1>3. CASE ~ CreateAll(v) /\ ~ Start(v)
  <2>1. /\ tables' = tables /\ pc[v] \in (SeedPcs \cup BootPcs) \ {"checkTables", "makeTables"}
        /\ \A u \in Worker \ {v} : pc'[u] = pc[u]
    BY <1>3 DEF BootTypeOK, Goto, StartUp, Seed, Boot, SelectAdmin, SelectRole, InsertRole, InsertAdmin, SeedPcs, BootPcs,
       FindFlag, SelectDefault, InsertDefault, MatchFlag, InsertFlag, CommitBoot, sqlVars
  <2>2. v # w
    BY <2>1 DEF SeedPcs, BootPcs
  <2> QED BY <2>1, <2>2
<1> QED BY <1>1, <1>2, <1>3

LEMMA RepairedStep == ASSUME NEW w \in Worker, Repaired(w), [BootNext]_bootVars PROVE Repaired(w)'
<1>1. BootInv /\ BootInv'
  BY StartUpStep DEF Repaired
<1>2. CASE BootNext
  <2>1. troubles' = MaxTroubles
    BY <1>2, TroublesAreOver
  <2>2. PICK v \in Worker : StartUp(v)
    BY <1>2, TroublesAreOver
  <2>3. CASE Underway
    <3>1. Underway'
      BY <1>1, <2>2, <2>3, UnderwayKept DEF BootInv
    <3> QED BY <1>1, <2>1, <3>1 DEF Repaired
  <2>4. CASE ~ Underway
    <3>1. pc[w] \in {"down", "checkTables"} \/ (pc[w] = "makeTables" /\ ~ tables)
      BY <2>4 DEF Repaired
    <3>2. Underway' \/ pc'[w] \in {"down", "checkTables"} \/ (pc'[w] = "makeTables" /\ ~ tables')
      BY <1>1, <2>2, <2>4, <3>1, TablesStep DEF BootInv
    <3> QED BY <1>1, <2>1, <3>2 DEF Repaired
  <2> QED BY <2>3, <2>4
<1>3. CASE UNCHANGED bootVars
  BY <1>1, <1>3 DEF Repaired, Underway, bootVars, sqlVars, txVars
<1> QED BY <1>2, <1>3

\* What a start promises, whatever the troubles before it left behind (a flag without an
\* administrator, half of the tables' workers, a role without a user): once the troubles
\* are over and w has started anew, w is through the seed and nobody in it only if the
\* administrator is there.  It is the safety core of RestartRepairs.
THEOREM RestartIsSafe ==
    ASSUME NEW w \in Worker
    PROVE  BootSpec => []((pc[w] = "down" /\ troubles = MaxTroubles) => [](SeedOver(w) => admin # NoAdmin))
<1>1. BootInv /\ pc[w] = "down" /\ troubles = MaxTroubles => Repaired(w)
  BY DEF Repaired
<1>2. Repaired(w) /\ [BootNext]_bootVars => Repaired(w)'
  BY RepairedStep
<1>3. Repaired(w) => (SeedOver(w) => admin # NoAdmin)
  BY DEF Repaired, Underway, SeedOver, SeedPcs
<1> QED BY <1>1, <1>2, <1>3, BootInitial, StartUpStep, PTL DEF BootSpec

\* How far a stage is from serving requests.
StagesLeft(label) ==
    CASE label = "down" -> 13
      [] label = "checkTables" -> 12
      [] label = "makeTables" -> 11
      [] label = "selectAdmin" -> 10
      [] label = "selectRole" -> 9
      [] label = "insertRole" -> 8
      [] label = "insertAdmin" -> 7
      [] label = "findFlag" -> 6
      [] label = "selectDefault" -> 5
      [] label = "insertDefault" -> 4
      [] label = "matchFlag" -> 3
      [] label = "insertFlag" -> 2
      [] label = "commit" -> 1
      [] label = "serving" -> 0

LEMMA SeedStages ==
    /\ StagesLeft("down") = 13 /\ StagesLeft("checkTables") = 12 /\ StagesLeft("makeTables") = 11
    /\ StagesLeft("selectAdmin") = 10 /\ StagesLeft("selectRole") = 9 /\ StagesLeft("insertRole") = 8
    /\ StagesLeft("insertAdmin") = 7 /\ StagesLeft("findFlag") = 6
  BY DEF StagesLeft

LEMMA BootStages ==
    /\ StagesLeft("findFlag") = 6 /\ StagesLeft("selectDefault") = 5 /\ StagesLeft("insertDefault") = 4
    /\ StagesLeft("matchFlag") = 3 /\ StagesLeft("insertFlag") = 2 /\ StagesLeft("commit") = 1 /\ StagesLeft("serving") = 0
  BY DEF StagesLeft

LEMMA StartUpAdvances ==
    ASSUME BootTypeOK, NEW w \in Worker, StartUp(w)
    PROVE  /\ StagesLeft(pc[w]) \in 1..13 /\ StagesLeft(pc'[w]) \in 0..12 /\ StagesLeft(pc'[w]) < StagesLeft(pc[w])
           /\ \A v \in Worker \ {w} : pc'[v] = pc[v]
<1> DEFINE Nearer(before, after) ==
        pc[w] = before /\ pc'[w] = after /\ \A v \in Worker \ {w} : pc'[v] = pc[v]
<1>1. CASE Start(w) \/ Seed(w)
  <2>1. \/ Nearer("down", "checkTables")
        \/ Nearer("checkTables", "makeTables") \/ Nearer("checkTables", "selectAdmin")
        \/ Nearer("makeTables", "selectAdmin") \/ Nearer("makeTables", "findFlag")
        \/ Nearer("selectAdmin", "selectRole") \/ Nearer("selectAdmin", "findFlag")
        \/ Nearer("selectRole", "insertRole") \/ Nearer("selectRole", "insertAdmin")
        \/ Nearer("insertRole", "insertAdmin") \/ Nearer("insertRole", "findFlag")
        \/ Nearer("insertAdmin", "findFlag")
    BY <1>1, StageAfter DEF Start, Seed, CreateAll, SelectAdmin, SelectRole, InsertRole, InsertAdmin
  <2> QED BY <2>1, SeedStages
<1>2. CASE Boot(w)
  <2>1. \/ Nearer("findFlag", "selectDefault") \/ Nearer("findFlag", "serving")
        \/ Nearer("selectDefault", "insertDefault") \/ Nearer("selectDefault", "matchFlag")
        \/ Nearer("insertDefault", "matchFlag") \/ Nearer("insertDefault", "serving")
        \/ Nearer("matchFlag", "insertFlag") \/ Nearer("matchFlag", "commit")
        \/ Nearer("insertFlag", "commit") \/ Nearer("commit", "serving")
    BY <1>2, StageAfter DEF Boot, FindFlag, SelectDefault, InsertDefault, MatchFlag, InsertFlag, CommitBoot
  <2> QED BY <2>1, BootStages
<1> QED BY <1>1, <1>2 DEF StartUp

\* Without a failed call a start is over after thirteen calls of its worker at most: each
\* brings it nearer to serving, neither conflict sends it back, and none moves another.
THEOREM StartsAdvance ==
    BootSpec => [][\A w \in Worker : StartUp(w) =>
                      /\ StagesLeft(pc[w]) \in 1..13 /\ StagesLeft(pc'[w]) \in 0..12
                      /\ StagesLeft(pc'[w]) < StagesLeft(pc[w])
                      /\ \A v \in Worker \ {w} : pc'[v] = pc[v]]_bootVars
<1>1. BootInv =>
        \A w \in Worker : StartUp(w) =>
            /\ StagesLeft(pc[w]) \in 1..13 /\ StagesLeft(pc'[w]) \in 0..12
            /\ StagesLeft(pc'[w]) < StagesLeft(pc[w])
            /\ \A v \in Worker \ {w} : pc'[v] = pc[v]
  BY StartUpAdvances DEF BootInv
<1> QED BY <1>1, BootInitial, StartUpStep, PTL DEF BootSpec

\* w wants a row whose key another transaction holds uncommitted.
WaitsForKey(w) ==
    \/ pc[w] = "insertRole" /\ ~ Free(w, pendingRole)
    \/ pc[w] \in {"insertAdmin", "insertDefault"} /\ ~ Free(w, pendingAdmin)

\* The seed takes the role before the user and the bootstrap takes only the user, so the
\* transactions of a start never wait for each other in a circle: as long as a worker is
\* not serving there is one that waits for nobody.
THEOREM NobodyWaitsInACircle ==
    BootSpec => []((\E w \in Worker : pc[w] # "serving") => \E w \in Worker : pc[w] # "serving" /\ ~ WaitsForKey(w))
<1>1. ASSUME BootInv, NEW w \in Worker, pc[w] # "serving"
      PROVE  \E v \in Worker : pc[v] # "serving" /\ ~ WaitsForKey(v)
  <2>1. /\ pendingRole \in SUBSET {v \in Worker : pc[v] = "insertAdmin"}
        /\ pendingAdmin \in SUBSET {v \in Worker : pc[v] \in {"matchFlag", "insertFlag", "commit"}}
    BY <1>1 DEF BootInv, BootTypeOK
  <2>2. ASSUME NEW v \in pendingAdmin PROVE v \in Worker /\ pc[v] # "serving" /\ ~ WaitsForKey(v)
    BY <2>1 DEF WaitsForKey
  <2>3. ASSUME pendingAdmin = {}, NEW v \in pendingRole PROVE v \in Worker /\ pc[v] # "serving" /\ ~ WaitsForKey(v)
    BY <2>1, <2>3 DEF WaitsForKey, Free
  <2>4. ASSUME pendingAdmin = {}, pendingRole = {} PROVE ~ WaitsForKey(w)
    BY <2>4 DEF WaitsForKey, Free
  <2> QED BY <1>1, <2>2, <2>3, <2>4
<1>2. BootInv => ((\E w \in Worker : pc[w] # "serving") => \E w \in Worker : pc[w] # "serving" /\ ~ WaitsForKey(w))
  BY <1>1
<1> QED BY <1>2, BootInitial, StartUpStep, PTL DEF BootSpec

=============================================================================
