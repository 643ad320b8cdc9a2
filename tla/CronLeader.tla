------------------------------ MODULE CronLeader ------------------------------
(***************************************************************************)
(* CronManagerService.is_cron_leader: the servers that run a cron function *)
(* at one time ask Redis for a key of its name, which only the first gets. *)
(* The key ends by its time to live and nothing renews or deletes it.      *)
(*                                                                         *)
(* The function itself is not in this code: a leader is busy as long as it *)
(* likes.  One cron name is modelled; the keys of two have nothing in      *)
(* common.                                                                 *)
(***************************************************************************)
EXTENDS Integers

CONSTANTS
    Server,         \* the processes with ENABLE_CRON
    Lease,          \* the time to live of the key
    CronHorizon     \* bound: the clock stops here

ASSUME LeaseAssumption == Lease \in Nat \ {0}
ASSUME CronHorizonAssumption == CronHorizon \in Nat

VARIABLES
    cronNow,        \* the clock of Redis
    keyEnd,         \* when the key ends, NoKey when it is not there
    asking,         \* servers that were answered OK and do not know it yet: since when
    busy            \* leaders at work: when each got the key

cronVars == <<cronNow, keyEnd, asking, busy>>

NoKey == -1
Off == -1

\* A mutated form: SET without NX.
GrantedAlways == TRUE
Granted == keyEnd = NoKey

-----------------------------------------------------------------------------
\* SET NX EX is carried out; a server that is refused goes on at once.
IsCronLeader(p) ==
    /\ asking[p] = Off
    /\ busy[p] = Off
    /\ Granted
    /\ keyEnd' = cronNow + Lease
    /\ asking' = [asking EXCEPT ![p] = cronNow]
    /\ UNCHANGED <<cronNow, busy>>

\* The answer arrives, and the function starts.
Lead(p) ==
    /\ asking[p] # Off
    /\ busy' = [busy EXCEPT ![p] = asking[p]]
    /\ asking' = [asking EXCEPT ![p] = Off]
    /\ UNCHANGED <<cronNow, keyEnd>>

\* The answer is lost and the server takes itself for no leader, or it dies.
AnswerLost(p) ==
    /\ asking[p] # Off
    /\ asking' = [asking EXCEPT ![p] = Off]
    /\ UNCHANGED <<cronNow, keyEnd, busy>>

\* The function ends or its process dies; the key stays.
CronEnds(p) ==
    /\ busy[p] # Off
    /\ busy' = [busy EXCEPT ![p] = Off]
    /\ UNCHANGED <<cronNow, keyEnd, asking>>

CronTick ==
    /\ cronNow < CronHorizon
    /\ cronNow' = cronNow + 1
    /\ keyEnd' = IF keyEnd = cronNow + 1 THEN NoKey ELSE keyEnd
    /\ UNCHANGED <<asking, busy>>

CronInit ==
    /\ cronNow = 0
    /\ keyEnd = NoKey
    /\ asking = [p \in Server |-> Off]
    /\ busy = [p \in Server |-> Off]

CronNext ==
    \/ \E p \in Server : IsCronLeader(p) \/ Lead(p) \/ AnswerLost(p) \/ CronEnds(p)
    \/ CronTick

CronSpec == CronInit /\ [][CronNext]_cronVars

-----------------------------------------------------------------------------
\* A key that is there ends later than now, and within a lease.
CronTypeOK ==
    /\ cronNow \in Nat
    /\ keyEnd = NoKey \/ keyEnd \in (cronNow + 1)..(cronNow + Lease)
    /\ asking \in [Server -> Nat \cup {Off}]
    /\ busy \in [Server -> Nat \cup {Off}]

\* When the server p got the key, of all those that hold or wait for a leader's answer.
LeaderSince(p) == IF asking[p] # Off THEN asking[p] ELSE busy[p]

\* is_cron_leader: two servers are leaders of one function at the same time only when
\* the first has been one for the whole life of the key, however late the answers come
\* and whoever died meanwhile.
OverlapNeedsOverrun ==
    \A p, q \in Server :
        p # q /\ LeaderSince(p) # Off /\ LeaderSince(q) # Off /\ LeaderSince(p) <= LeaderSince(q)
            => LeaderSince(p) + Lease <= LeaderSince(q)
=============================================================================
