----------------------------- MODULE AuthSessions -----------------------------
(***************************************************************************)
(* AuthService: login, refresh_tokens and logout, over the Mongo           *)
(* collection auth_sessions and the SQL table of users.                    *)
(*                                                                         *)
(* Each awaited call of a request is one action, and so is the reading of  *)
(* the clock between two of them.  A session document and its jti are      *)
(* written together and always queried together, so one SessionId stands   *)
(* for the pair.  Only the refresh tokens are kept: the access tokens made *)
(* beside them are read by no operation of this service.  A request may be *)
(* cut off at any await (its worker is killed, or the call raises): Abort. *)
(***************************************************************************)
EXTENDS Integers

CONSTANTS
    User,           \* user ids of the SQL table
    SessionId,      \* the values of `_id` in auth_sessions, with their jti
    Request,        \* login and refresh requests
    RefreshLife,    \* JWT_REFRESH_EXP
    WritesMayFail,  \* whether update_session may raise and be swallowed
    NoUser, NoAuth, NoTime, NoSession,
    MaxTime         \* bound: the clock stops there

ASSUME RefreshLifeAssumption == RefreshLife \in Nat \ {0}
ASSUME WritesMayFailAssumption == WritesMayFail \in BOOLEAN
ASSUME MaxTimeAssumption == MaxTime \in Nat
ASSUME NoUserAssumption == NoUser \notin User
ASSUME NoAuthAssumption == NoAuth \notin SessionId
ASSUME NoTimeAssumption == NoTime \notin Nat

Expiry == Nat \cup {NoTime}
Session == [user : User, exp : Expiry]
Token == [auth : SessionId, user : User, exp : Nat]

ASSUME NoSessionAssumption == NoSession \notin Session

VARIABLES
    now,        \* the clock, in the unit of the expiry times
    accounts,   \* the users the SQL table holds
    sessions,   \* auth_sessions: the document of each _id
    tokens,     \* the refresh tokens handed to clients
    pc,         \* where each request stands
    who,        \* local `user` of each request
    auth,       \* local `auth["_id"]` of each request
    exp,        \* local `auth["exp"]` of each request
    used,       \* history: the session ids ever inserted
    revoked,    \* history: the sessions ever logged out
    deadline,   \* history: the first expiry computed for a session
    slipped,    \* history: sessions whose expiry was computed and not stored
    lateAuth,   \* history: the sessions logged out before a request started
    lateUser    \* history: the users deleted before a request started

storeVars == <<now, accounts, sessions, tokens>>
localVars == <<pc, who, auth, exp>>
historyVars == <<used, revoked, deadline, slipped, lateAuth, lateUser>>
vars == <<storeVars, localVars, historyVars>>

Live(s) == sessions[s] # NoSession

-----------------------------------------------------------------------------
\* A request starts: what is gone already is gone for it.
Start(r) ==
    /\ pc[r] = "idle"
    /\ lateAuth' = [lateAuth EXCEPT ![r] = revoked]
    /\ lateUser' = [lateUser EXCEPT ![r] = User \ accounts]
    /\ UNCHANGED <<used, revoked, deadline, slipped>>

Goto(r, label) == pc' = [pc EXCEPT ![r] = label]

\* The request ends, answered or cut off, and its locals go with it.
Finish(r) ==
    /\ Goto(r, "idle")
    /\ who' = [who EXCEPT ![r] = NoUser]
    /\ auth' = [auth EXCEPT ![r] = NoAuth]
    /\ exp' = [exp EXCEPT ![r] = NoTime]
    /\ lateAuth' = [lateAuth EXCEPT ![r] = {}]
    /\ lateUser' = [lateUser EXCEPT ![r] = {}]
    /\ UNCHANGED <<used, revoked, deadline, slipped>>

(***************************************************************************)
(* login: _validate_password, then _create_empty_auth.  A wrong name or    *)
(* password is answered 401 and changes nothing; is_active is not read.    *)
(***************************************************************************)
ValidatePassword(r, u) ==
    /\ Start(r)
    /\ u \in accounts
    /\ Goto(r, "createAuth")
    /\ who' = [who EXCEPT ![r] = u]
    /\ UNCHANGED <<storeVars, auth, exp>>

CreateEmptyAuth(r, s) ==
    /\ pc[r] = "createAuth"
    /\ s \notin used
    /\ sessions' = [sessions EXCEPT ![s] = [user |-> who[r], exp |-> NoTime]]
    /\ used' = used \cup {s}
    /\ Goto(r, "setExp")
    /\ auth' = [auth EXCEPT ![r] = s]
    /\ UNCHANGED <<now, accounts, tokens, who, exp, revoked, deadline, slipped, lateAuth, lateUser>>

(***************************************************************************)
(* refresh_tokens: the token is verified, its session fetched, then the    *)
(* user its `sub` names.  The session is a copy: it may be revoked, and    *)
(* the user deleted, before the request goes on.  An expired token, or one *)
(* whose session is gone, is answered 401 and changes nothing.             *)
(***************************************************************************)
\* jwt.decode raises once the expiry is reached.
Valid(t) == now < t.exp

FetchSession(r, t) ==
    /\ Start(r)
    /\ Valid(t)
    /\ Live(t.auth)
    /\ Goto(r, "readUser")
    /\ who' = [who EXCEPT ![r] = t.user]
    /\ auth' = [auth EXCEPT ![r] = t.auth]
    /\ exp' = [exp EXCEPT ![r] = sessions[t.auth].exp]
    /\ UNCHANGED storeVars

\* A mutated form: the claims of the token stand for the row.
UserFoundInClaims(r) == TRUE
UserFound(r) == who[r] \in accounts

ReadUser(r) ==
    /\ pc[r] = "readUser"
    /\ \/ /\ UserFound(r)
          /\ Goto(r, "setExp")
          /\ UNCHANGED <<who, auth, exp, historyVars>>
       \/ ~ UserFound(r) /\ Finish(r)
    /\ UNCHANGED storeVars

(***************************************************************************)
(* _generate_tokens, for login and refresh alike: the expiry is computed   *)
(* when the session has none, written back, and the tokens are made.       *)
(***************************************************************************)
\* A mutated form: every call computes a new expiry.
SessionExpSliding(r) == now + RefreshLife
SessionExp(r) == IF exp[r] = NoTime THEN now + RefreshLife ELSE exp[r]

SetExp(r) ==
    /\ pc[r] = "setExp"
    /\ exp' = [exp EXCEPT ![r] = SessionExp(r)]
    /\ deadline' = [deadline EXCEPT ![auth[r]] = IF @ = NoTime THEN SessionExp(r) ELSE @]
    /\ Goto(r, "storeExp")
    /\ UNCHANGED <<storeVars, who, auth, used, revoked, slipped, lateAuth, lateUser>>

\* A mutated form: update_one with upsert=True.
UpdatedUpserting(r) == [sessions EXCEPT ![auth[r]] = [user |-> who[r], exp |-> exp[r]]]
\* update_one without upsert: nothing happens when the session is gone.
Updated(r) ==
    IF Live(auth[r]) THEN [sessions EXCEPT ![auth[r]].exp = exp[r]] ELSE sessions

\* update_session returns False when the call raises, and nobody looks at it.
StoreExp(r) ==
    /\ pc[r] = "storeExp"
    /\ \/ sessions' = Updated(r) /\ UNCHANGED slipped
       \/ /\ WritesMayFail
          /\ UNCHANGED sessions
          /\ slipped' = IF sessions # Updated(r) THEN slipped \cup {auth[r]} ELSE slipped
    /\ Goto(r, "issue")
    /\ UNCHANGED <<now, accounts, tokens, who, auth, exp, used, revoked, deadline, lateAuth, lateUser>>

IssueTokens(r) ==
    /\ pc[r] = "issue"
    /\ tokens' = tokens \cup {[auth |-> auth[r], user |-> who[r], exp |-> exp[r]]}
    /\ Finish(r)
    /\ UNCHANGED <<now, accounts, sessions>>

(***************************************************************************)
(* logout: delete_one on the session of a valid token; 401 without one.    *)
(***************************************************************************)
Logout(t) ==
    /\ Valid(t)
    /\ Live(t.auth)
    /\ sessions' = [sessions EXCEPT ![t.auth] = NoSession]
    /\ revoked' = revoked \cup {t.auth}
    /\ UNCHANGED <<now, accounts, tokens, localVars, used, deadline, slipped, lateAuth, lateUser>>

-----------------------------------------------------------------------------
\* The request is cut off at an await: a worker killed, a call that raises.
Abort(r) ==
    /\ pc[r] # "idle"
    /\ Finish(r)
    /\ UNCHANGED storeVars

\* delete_user of the user router.  An id is never given out again.
DeleteUser(u) ==
    /\ u \in accounts
    /\ accounts' = accounts \ {u}
    /\ UNCHANGED <<now, sessions, tokens, localVars, historyVars>>

Tick ==
    /\ now < MaxTime
    /\ now' = now + 1
    /\ UNCHANGED <<accounts, sessions, tokens, localVars, historyVars>>

Init ==
    /\ now = 0
    /\ accounts = User
    /\ sessions = [s \in SessionId |-> NoSession]
    /\ tokens = {}
    /\ pc = [r \in Request |-> "idle"]
    /\ who = [r \in Request |-> NoUser]
    /\ auth = [r \in Request |-> NoAuth]
    /\ exp = [r \in Request |-> NoTime]
    /\ used = {}
    /\ revoked = {}
    /\ deadline = [s \in SessionId |-> NoTime]
    /\ slipped = {}
    /\ lateAuth = [r \in Request |-> {}]
    /\ lateUser = [r \in Request |-> {}]

Login(r) == \/ \E u \in User : ValidatePassword(r, u)
            \/ \E s \in SessionId : CreateEmptyAuth(r, s)
Refresh(r) == (\E t \in tokens : FetchSession(r, t)) \/ ReadUser(r)

Next ==
    \/ \E r \in Request :
         Login(r) \/ Refresh(r) \/ SetExp(r) \/ StoreExp(r) \/ IssueTokens(r) \/ Abort(r)
    \/ \E t \in tokens : Logout(t)
    \/ \E u \in User : DeleteUser(u)
    \/ Tick

Spec == Init /\ [][Next]_vars

-----------------------------------------------------------------------------
TypeOK ==
    /\ now \in Nat
    /\ accounts \in SUBSET User
    /\ sessions \in [SessionId -> Session \cup {NoSession}]
    /\ tokens \in SUBSET Token
    /\ pc \in [Request -> {"idle", "createAuth", "readUser", "setExp", "storeExp", "issue"}]
    /\ who \in [Request -> User \cup {NoUser}]
    /\ auth \in [Request -> SessionId \cup {NoAuth}]
    /\ exp \in [Request -> Expiry]
    /\ used \in SUBSET SessionId
    /\ revoked \in SUBSET SessionId
    /\ deadline \in [SessionId -> Expiry]
    /\ slipped \in SUBSET SessionId
    /\ lateAuth \in [Request -> SUBSET SessionId]
    /\ lateUser \in [Request -> SUBSET User]

\* A refresh never prolongs a session: as long as no write of the expiry was
\* swallowed, every refresh token of a session, of whichever login, refresh or
\* race of refreshes, expires at the time the session document holds.
OneDeadline ==
    \A t \in tokens : t.auth \notin slipped =>
        /\ Live(t.auth) => sessions[t.auth].exp = t.exp
        /\ \A u \in tokens : u.auth = t.auth => u.exp = t.exp

\* The request r hands out tokens in this step.
Issues(r) == pc[r] = "issue" /\ tokens' # tokens

\* A request that starts after a logout obtains no token of the session that was
\* logged out, although refreshes under way write to its document meanwhile.
NoTokensAfterLogout == [][\A r \in Request : Issues(r) => auth[r] \notin lateAuth[r]]_vars

\* A request that starts after a user was deleted obtains no token for it, although
\* the sessions of the user stay in the other database.
NoTokensAfterDelete == [][\A r \in Request : Issues(r) => who[r] \notin lateUser[r]]_vars

(***************************************************************************)
(* The service implements SessionLifecycle; a swallowed write is a Lose.   *)
(***************************************************************************)
Phase == [s \in SessionId |->
            IF s \notin used THEN "unused" ELSE IF Live(s) THEN "open" ELSE "revoked"]

Lifecycle == INSTANCE SessionLifecycle WITH
    Time <- 0..(MaxTime + RefreshLife),
    phase <- Phase,
    loose <- slipped,
    handed <- {<<t.auth, t.exp>> : t \in tokens}

\* The sessions, their expiry and their tokens evolve as SessionLifecycle says:
\* opened once, one deadline, tokens of that deadline only unless the write of it was
\* swallowed, revoked for good.
ImplementsLifecycle == Lifecycle!Spec
=============================================================================
