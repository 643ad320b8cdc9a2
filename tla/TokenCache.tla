------------------------------ MODULE TokenCache ------------------------------
(***************************************************************************)
(* InternalAuthHttpService: the OAuth2 token that a worker's coroutines    *)
(* share for their calls of other services.  The token is used from the    *)
(* cache until Margin before its time; otherwise the coroutine asks the    *)
(* authorisation server for another one, beside others that do the same.   *)
(* The time of a token is counted from the moment its answer is read, not  *)
(* from the moment it was issued.                                          *)
(*                                                                         *)
(* A token server is configured (without one the token is a fixed text),   *)
(* and gives its tokens one life.  The code's timeout of 15 s is for each  *)
(* phase of a call, so that a call as a whole has a Latency is an          *)
(* assumption about the network and the server.                            *)
(***************************************************************************)
EXTENDS Integers

CONSTANTS
    Coroutine,
    Life,           \* expires_in
    Margin,         \* 5000 ms
    Latency,        \* assumed: no answer of the authorisation server comes later
    TokenHorizon    \* bound: the clock stops here

ASSUME LifeAssumption == Life \in Nat \ {0}
ASSUME MarginAssumption == Margin \in Nat
ASSUME LatencyAssumption == Latency \in Nat
ASSUME TokenHorizonAssumption == TokenHorizon \in Nat

VARIABLES
    clock,          \* the time of this worker and of the authorisation server
    cached,         \* _cached_access_token: when it really ends; NoToken at first
    expireAt,       \* _cached_token_expire_at
    co,             \* each coroutine: where it stands, since when, the end of its token
    sent            \* history: when a token was sent, and when that token ends

tokVars == <<clock, cached, expireAt, co, sent>>

NoToken == -1
Rests == [pc |-> "rests"]
Fetching == [pc : {"posted", "issued"}, since : Nat, end : Nat \cup {NoToken}]

Is(c, label) == co[c].pc = label

\* A mutated form: the margin is taken off and not put on.
FreshLate == cached # NoToken /\ clock - Margin < expireAt
Fresh == cached # NoToken /\ clock + Margin < expireAt

\* The coroutine goes on to its own request with a token that ends then; between this
\* and taking the token it does not await.
Send(end) == sent' = sent \cup {[at |-> clock, end |-> end]}

-----------------------------------------------------------------------------
UseCached(c) ==
    /\ Is(c, "rests")
    /\ Fresh
    /\ Send(cached)
    /\ UNCHANGED <<clock, cached, expireAt, co>>

RequestAccessToken(c) ==
    /\ Is(c, "rests")
    /\ ~ Fresh
    /\ co' = [co EXCEPT ![c] = [pc |-> "posted", since |-> clock, end |-> NoToken]]
    /\ UNCHANGED <<clock, cached, expireAt, sent>>

\* The authorisation server issues the token.
IssueToken(c) ==
    /\ Is(c, "posted")
    /\ co' = [co EXCEPT ![c].pc = "issued", ![c].end = clock + Life]
    /\ UNCHANGED <<clock, cached, expireAt, sent>>

\* The answer is read: it replaces whatever is cached by now, a later token as well.
ReadAnswer(c) ==
    /\ Is(c, "issued")
    /\ cached' = co[c].end
    /\ expireAt' = clock + Life
    /\ Send(co[c].end)
    /\ co' = [co EXCEPT ![c] = Rests]
    /\ UNCHANGED clock

\* An answer other than 200, or none in time, raises; the cache stays.
FetchFails(c) ==
    /\ ~ Is(c, "rests")
    /\ co' = [co EXCEPT ![c] = Rests]
    /\ UNCHANGED <<clock, cached, expireAt, sent>>

TokenTick ==
    /\ clock < TokenHorizon
    /\ \A c \in Coroutine : ~ Is(c, "rests") => clock < co[c].since + Latency
    /\ clock' = clock + 1
    /\ UNCHANGED <<cached, expireAt, co, sent>>

TokInit ==
    /\ clock = 0
    /\ cached = NoToken
    /\ expireAt = 0
    /\ co = [c \in Coroutine |-> Rests]
    /\ sent = {}

TokNext ==
    \/ \E c \in Coroutine :
         UseCached(c) \/ RequestAccessToken(c) \/ IssueToken(c) \/ ReadAnswer(c) \/ FetchFails(c)
    \/ TokenTick

TokSpec == TokInit /\ [][TokNext]_tokVars

-----------------------------------------------------------------------------
TokTypeOK ==
    /\ clock \in Nat
    /\ cached \in Nat \cup {NoToken}
    /\ expireAt \in Nat
    /\ co \in [Coroutine -> {Rests} \cup Fetching]
    /\ sent \subseteq [at : Nat, end : Nat]

\* _get_access_token: no token is sent that is overdue by as much as the latency of its
\* answer exceeds the margin; with answers within the margin every token sent is valid.
\* This holds although a late answer replaces a later token, and although the cache
\* counts from the wrong moment.  A fetched token that lives shorter than its answer takes is
\* the exception: it is sent whatever the margin.
SentTokensHold ==
    \A s \in sent :
        \/ s.at + Margin < s.end + Latency
        \/ s.at + Life <= s.end + Latency
=============================================================================
