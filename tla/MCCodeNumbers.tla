---------------------------- MODULE MCCodeNumbers ----------------------------
(***************************************************************************)
(* The three services that count and lock in one Redis, for TLC.  A key is *)
(* one that codes are numbered by, and then CodeNumbers has whatever the   *)
(* routes of the increments do to it; or one that only they write, as in   *)
(* Increments; or the leader's.  No step on one touches what another       *)
(* reads: it is enough to run each beside the others' initial states.      *)
(***************************************************************************)
EXTENDS CodeNumbers, Increments, CronLeader, TLC

\* bound: the increments count and set the key of the first day only, and only while a
\* request of that day is on its way, and no more once they have set it.
MeddlingOfInterest ==
    req' = req /\ now' = now =>
        /\ \A k \in Key : settings[k] = 0
        /\ \A k \in Key : k.date # 0 => count'[k] = count[k] /\ settings'[k] = settings[k]
        /\ \E r \in Request : ~ At(r, "idle") /\ req[r].key.date = 0

RedisInit == Init /\ IncInit /\ CronInit
RedisNext ==
    \/ IncInit /\ CronInit /\ Next /\ MeddlingOfInterest /\ UNCHANGED <<incVars, cronVars>>
    \/ Init /\ CronInit /\ IncNext /\ UNCHANGED <<vars, cronVars>>
    \/ Init /\ IncInit /\ CronNext /\ UNCHANGED <<vars, incVars>>
RedisSpec == RedisInit /\ [][RedisNext]_<<vars, incVars, cronVars>>

\* The values counters are reset to.
IncrementBase == {-1, 1}

\* Requests are only compared with one another.
CodeSymmetry == Permutations(Request)
=============================================================================
