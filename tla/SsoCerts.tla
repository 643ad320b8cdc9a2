------------------------------- MODULE SsoCerts -------------------------------
(***************************************************************************)
(* SsoService.get_certs and verify: the key set of Keycloak, which all     *)
(* workers share in a Redis key that ends by itself.  Requests that find   *)
(* no key fetch the set and store it, one beside the other; an answer that *)
(* was under way while Keycloak changed its keys may be stored last.       *)
(*                                                                         *)
(* The code's timeout of 10 s is for each phase of the fetch, and the SET  *)
(* in Redis has none: that both together have a FetchLimit is an           *)
(* assumption about the network, Keycloak and Redis.                       *)
(***************************************************************************)
EXTENDS Integers

CONSTANTS
    Verifier,       \* requests with a Keycloak token
    CertsLife,      \* the time to live of the Redis key: 4 seconds
    FetchLimit,     \* assumed: no fetch, with the store after it, takes longer
    CertsHorizon,   \* bound: the clock stops here
    MaxRotations    \* bound: changes of the key set

ASSUME CertsLifeAssumption == CertsLife \in Nat \ {0}
ASSUME FetchLimitAssumption == FetchLimit \in Nat
ASSUME CertsBounds == CertsHorizon \in Nat /\ MaxRotations \in Nat

VARIABLES
    time,
    keySet,         \* Keycloak: which key set is the current one
    jwks,           \* the Redis key: the set it holds, NoCerts when it is not there
    jwksEnd,        \* when it ends
    ver,            \* each request: where it stands, since when, the set it was answered
    retired,        \* history: when each earlier set was replaced
    trusted         \* history: the sets tokens were checked against, and when

certVars == <<time, keySet, jwks, jwksEnd, ver, retired, trusted>>

NoCerts == -1
Absent == [pc |-> "absent"]
Verifying == [pc : {"get", "store"}, since : Nat, set : Nat \cup {NoCerts}]

In(r, label) == ver[r].pc = label
End(r) == ver' = [ver EXCEPT ![r] = Absent]
CheckAgainst(v) == trusted' = trusted \cup {[set |-> v, at |-> time]}

-----------------------------------------------------------------------------
\* The set in Redis is used at once.
VerifyCached(r) ==
    /\ In(r, "absent")
    /\ jwks # NoCerts
    /\ CheckAgainst(jwks)
    /\ UNCHANGED <<time, keySet, jwks, jwksEnd, ver, retired>>

FetchCerts(r) ==
    /\ In(r, "absent")
    /\ jwks = NoCerts
    /\ ver' = [ver EXCEPT ![r] = [pc |-> "get", since |-> time, set |-> NoCerts]]
    /\ UNCHANGED <<time, keySet, jwks, jwksEnd, retired, trusted>>

\* Keycloak answers with the set it has now.
AnswerCerts(r) ==
    /\ In(r, "get")
    /\ ver' = [ver EXCEPT ![r].pc = "store", ![r].set = keySet]
    /\ UNCHANGED <<time, keySet, jwks, jwksEnd, retired, trusted>>

\* A mutated form: SET without a time to live.
EndNever == NoCerts
EndOfStored == time + CertsLife

StoreCerts(r) ==
    /\ In(r, "store")
    /\ jwks' = ver[r].set
    /\ jwksEnd' = EndOfStored
    /\ CheckAgainst(ver[r].set)
    /\ End(r)
    /\ UNCHANGED <<time, keySet, retired>>

\* The fetch or the store raises, or the answer is not 200: no token is checked.
VerifyFails(r) ==
    /\ ~ In(r, "absent")
    /\ End(r)
    /\ UNCHANGED <<time, keySet, jwks, jwksEnd, retired, trusted>>

RotateKeys ==
    /\ keySet < MaxRotations
    /\ keySet' = keySet + 1
    /\ retired' = [retired EXCEPT ![keySet] = time]
    /\ UNCHANGED <<time, jwks, jwksEnd, ver, trusted>>

CertsTick ==
    /\ time < CertsHorizon
    /\ \A r \in Verifier : ~ In(r, "absent") => time < ver[r].since + FetchLimit
    /\ time' = time + 1
    /\ jwks' = IF jwksEnd = time + 1 THEN NoCerts ELSE jwks
    /\ UNCHANGED <<keySet, jwksEnd, ver, retired, trusted>>

CertsInit ==
    /\ time = 0
    /\ keySet = 0
    /\ jwks = NoCerts
    /\ jwksEnd = 0
    /\ ver = [r \in Verifier |-> Absent]
    /\ retired = [v \in 0..MaxRotations |-> 0]
    /\ trusted = {}

CertsNext ==
    \/ \E r \in Verifier :
         VerifyCached(r) \/ FetchCerts(r) \/ AnswerCerts(r) \/ StoreCerts(r) \/ VerifyFails(r)
    \/ RotateKeys
    \/ CertsTick

CertsSpec == CertsInit /\ [][CertsNext]_certVars

-----------------------------------------------------------------------------
\* No request was answered a set that does not exist yet.
CertsTypeOK ==
    /\ time \in Nat
    /\ keySet \in 0..MaxRotations
    /\ jwks \in 0..keySet \cup {NoCerts}
    /\ jwksEnd \in Nat
    /\ ver \in [Verifier -> {Absent} \cup Verifying]
    /\ \A r \in Verifier : ~ In(r, "absent") => ver[r].set \in 0..keySet \cup {NoCerts}
    /\ trusted \subseteq [set : 0..keySet, at : 0..time]

\* get_certs: a token is checked against a set that Keycloak still had within the life of
\* the Redis key and the time of one fetch, also when fetches overtake one another
\* around a change of the keys.
TrustedSetsAreRecent ==
    \A t \in trusted : t.set < keySet => t.at < retired[t.set] + CertsLife + FetchLimit
=============================================================================
