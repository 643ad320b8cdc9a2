--------------------------- MODULE SessionLifecycle ---------------------------
(***************************************************************************)
(* What the authentication service promises about a session, without the   *)
(* requests, the database and the clock that bring it about: a session is  *)
(* opened once, gets one deadline once, hands out refresh tokens that all  *)
(* carry that deadline, and once revoked stays revoked.  An open session   *)
(* may lose the deadline it was to keep; its tokens are bound by none.     *)
(***************************************************************************)
CONSTANTS
    SessionId,
    Time,       \* the deadlines a session may get
    NoTime      \* no deadline yet

VARIABLES
    phase,      \* "unused", "open" or "revoked"
    deadline,   \* the deadline of each session
    loose,      \* the sessions that lost theirs
    handed      \* the <<session, expiry>> pairs of the tokens handed out

vars == <<phase, deadline, loose, handed>>

Init ==
    /\ phase = [s \in SessionId |-> "unused"]
    /\ deadline = [s \in SessionId |-> NoTime]
    /\ loose = {}
    /\ handed = {}

Open(s) ==
    /\ phase[s] = "unused"
    /\ phase' = [phase EXCEPT ![s] = "open"]
    /\ UNCHANGED <<deadline, loose, handed>>

FixDeadline(s, t) ==
    /\ phase[s] = "open"
    /\ deadline[s] = NoTime
    /\ deadline' = [deadline EXCEPT ![s] = t]
    /\ UNCHANGED <<phase, loose, handed>>

\* A refresh under way when the session is revoked still hands out its token.
Hand(s) ==
    /\ deadline[s] # NoTime
    /\ \E t \in IF s \in loose THEN Time ELSE {deadline[s]} : handed' = handed \cup {<<s, t>>}
    /\ UNCHANGED <<phase, deadline, loose>>

\* The store keeps another deadline than the one that was fixed, or none.
Lose(s) ==
    /\ phase[s] = "open"
    /\ loose' = loose \cup {s}
    /\ UNCHANGED <<phase, deadline, handed>>

Revoke(s) ==
    /\ phase[s] = "open"
    /\ phase' = [phase EXCEPT ![s] = "revoked"]
    /\ UNCHANGED <<deadline, loose, handed>>

Next ==
    \E s \in SessionId :
        Open(s) \/ Hand(s) \/ Lose(s) \/ Revoke(s) \/ (\E t \in Time : FixDeadline(s, t))

Spec == Init /\ [][Next]_vars
=============================================================================
