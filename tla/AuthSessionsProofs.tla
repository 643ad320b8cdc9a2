-------------------------- MODULE AuthSessionsProofs --------------------------
(***************************************************************************)
(* Theorems about AuthSessions, for any number of users, sessions and      *)
(* concurrent requests, any refresh life and swallowed writes or none: the *)
(* type invariant, that a refresh never prolongs a session, that no token  *)
(* is issued for what was logged out or deleted before, and that the whole *)
(* implements SessionLifecycle.                                            *)
(***************************************************************************)
EXTENDS AuthSessions, TLAPS

-----------------------------------------------------------------------------
(***************************************************************************)
(* The type invariant.  It needs to know which locals a request at each    *)
(* stage has set.                                                          *)
(***************************************************************************)
Holding(r) == pc[r] \in {"readUser", "setExp", "storeExp", "issue"}

LocalsInv ==
    \A r \in Request :
        /\ pc[r] # "idle" => who[r] \in User
        /\ Holding(r) <=> auth[r] # NoAuth
        /\ Holding(r) => auth[r] \in used
        /\ ~ Holding(r) => exp[r] = NoTime
        /\ pc[r] \in {"storeExp", "issue"} => exp[r] # NoTime

\* Only a session that was inserted has a document.
LiveInv == \A s \in SessionId : Live(s) => s \in used

Typed == TypeOK /\ LocalsInv /\ LiveInv

\* A computed expiry is a time.
LEMMA SessionExpTyped ==
    ASSUME TypeOK, NEW r \in Request
    PROVE  SessionExp(r) \in Nat
BY RefreshLifeAssumption DEF TypeOK, SessionExp, Expiry

\* What update_session leaves behind is a collection of sessions, and it neither
\* removes nor revives one.
LEMMA UpdatedTyped ==
    ASSUME Typed, NEW r \in Request, Holding(r)
    PROVE  /\ Updated(r) \in [SessionId -> Session \cup {NoSession}]
           /\ \A s \in SessionId : Updated(r)[s] = NoSession <=> sessions[s] = NoSession
           /\ \A s \in SessionId : s # auth[r] => Updated(r)[s] = sessions[s]
           /\ Live(auth[r]) => Updated(r)[auth[r]].exp = exp[r]
<1>1. auth[r] \in SessionId /\ exp[r] \in Expiry
  BY NoAuthAssumption DEF Typed, TypeOK, LocalsInv, Holding
<1>2. CASE ~ Live(auth[r])
  BY <1>2 DEF Updated, Typed, TypeOK
<1>3. CASE Live(auth[r])
  <2>1. sessions[auth[r]] \in Session
    BY <1>1, <1>3 DEF Live, Typed, TypeOK
  <2> DEFINE doc == [sessions[auth[r]] EXCEPT !.exp = exp[r]]
  <2>2. doc \in Session /\ doc.exp = exp[r]
    BY <1>1, <2>1 DEF Session
  <2>3. doc # NoSession /\ sessions[auth[r]] # NoSession
    BY <2>1, <2>2, NoSessionAssumption
  <2>4. Updated(r) = [sessions EXCEPT ![auth[r]] = doc]
    BY <1>3 DEF Updated
  <2> HIDE DEF doc
  <2> QED
    BY <1>1, <2>2, <2>3, <2>4 DEF Typed, TypeOK
<1> QED
  BY <1>2, <1>3

\* The initial states are typed.
LEMMA InitTyped == Init => Typed
BY NoAuthAssumption DEF Init, Typed, TypeOK, LocalsInv, LiveInv, Live, Holding, Expiry

\* A request that ends leaves typed locals, and those of the others alone.
LEMMA FinishTyped ==
    ASSUME Typed, NEW r \in Request, Finish(r)
    PROVE  /\ pc' \in [Request -> {"idle", "createAuth", "readUser", "setExp", "storeExp", "issue"}]
           /\ who' \in [Request -> User \cup {NoUser}]
           /\ auth' \in [Request -> SessionId \cup {NoAuth}]
           /\ exp' \in [Request -> Expiry]
           /\ lateAuth' \in [Request -> SUBSET SessionId]
           /\ lateUser' \in [Request -> SUBSET User]
           /\ used' = used /\ revoked' = revoked /\ deadline' = deadline /\ slipped' = slipped
           /\ LocalsInv'
BY DEF Finish, Goto, Typed, TypeOK, LocalsInv, Holding, Expiry

\* Every step keeps the types.
LEMMA NextTyped == Typed /\ [Next]_vars => Typed'
<1> SUFFICES ASSUME Typed, [Next]_vars PROVE Typed'
  OBVIOUS
<1> USE DEF Typed, Goto
<1>0. ASSUME UNCHANGED <<sessions, used>> PROVE LiveInv'
  BY <1>0 DEF LiveInv, Live
<1>1. ASSUME NEW r \in Request, NEW u \in User, ValidatePassword(r, u) PROVE Typed'
  <2>1. TypeOK'
    BY <1>1 DEF ValidatePassword, Start, storeVars, TypeOK
  <2>2. LocalsInv'
    BY <1>1, NoUserAssumption DEF ValidatePassword, Start, LocalsInv, Holding, TypeOK
  <2> QED
    BY <1>0, <1>1, <2>1, <2>2 DEF ValidatePassword, Start, storeVars
<1>2. ASSUME NEW r \in Request, NEW s \in SessionId, CreateEmptyAuth(r, s) PROVE Typed'
  <2>1. who[r] \in User
    BY <1>2 DEF CreateEmptyAuth, LocalsInv
  <2>2. [user |-> who[r], exp |-> NoTime] \in Session
    BY <2>1 DEF Session, Expiry
  <2>3. TypeOK'
    BY <1>2, <2>2 DEF CreateEmptyAuth, TypeOK
  <2>4. LocalsInv'
    BY <1>2, NoAuthAssumption DEF CreateEmptyAuth, LocalsInv, Holding, TypeOK
  <2>5. LiveInv'
    BY <1>2 DEF CreateEmptyAuth, LiveInv, Live, TypeOK
  <2> QED
    BY <2>3, <2>4, <2>5
<1>3. ASSUME NEW r \in Request, NEW t \in tokens, FetchSession(r, t) PROVE Typed'
  <2>1. t.auth \in SessionId /\ t.user \in User
    BY DEF TypeOK, Token
  <2>2. sessions[t.auth].exp \in Expiry /\ t.auth \in used
    BY <1>3, <2>1 DEF FetchSession, Live, LiveInv, TypeOK, Session
  <2>3. TypeOK'
    BY <1>3, <2>1, <2>2 DEF FetchSession, Start, storeVars, TypeOK
  <2>4. LocalsInv'
    BY <1>3, <2>1, <2>2, NoAuthAssumption
    DEF FetchSession, Start, LocalsInv, Holding, TypeOK
  <2> QED
    BY <1>0, <1>3, <2>3, <2>4 DEF FetchSession, Start, storeVars
<1>4. ASSUME NEW r \in Request, ReadUser(r) PROVE Typed'
  <2>1. CASE Finish(r)
    BY <1>0, <1>4, <2>1, FinishTyped DEF ReadUser, storeVars, TypeOK
  <2>2. CASE ~ Finish(r)
    BY <1>0, <1>4, <2>2 DEF ReadUser, storeVars, historyVars, TypeOK, LocalsInv, Holding
  <2> QED
    BY <2>1, <2>2
<1>5. ASSUME NEW r \in Request, SetExp(r) PROVE Typed'
  <2>1. SessionExp(r) \in Nat
    BY SessionExpTyped
  <2>2. TypeOK'
    BY <1>5, <2>1 DEF SetExp, storeVars, TypeOK, Expiry
  <2>3. LocalsInv'
    BY <1>5, <2>1, NoTimeAssumption DEF SetExp, LocalsInv, Holding, TypeOK
  <2> QED
    BY <1>0, <1>5, <2>2, <2>3 DEF SetExp, storeVars
<1>6. ASSUME NEW r \in Request, StoreExp(r) PROVE Typed'
  <2>1. Holding(r) /\ auth[r] \in SessionId
    BY <1>6, NoAuthAssumption DEF StoreExp, Holding, LocalsInv, TypeOK
  <2>2. sessions' \in [SessionId -> Session \cup {NoSession}]
    BY <1>6, <2>1, UpdatedTyped DEF StoreExp, TypeOK
  <2>3. slipped' \in SUBSET SessionId
    BY <1>6, <2>1 DEF StoreExp, TypeOK
  <2>4. TypeOK'
    BY <1>6, <2>2, <2>3 DEF StoreExp, TypeOK
  <2>5. LocalsInv'
    BY <1>6 DEF StoreExp, LocalsInv, Holding, TypeOK
  <2>6. LiveInv'
    BY <1>6, <2>1, UpdatedTyped DEF StoreExp, LiveInv, Live
  <2> QED
    BY <2>4, <2>5, <2>6
<1>7. ASSUME NEW r \in Request, IssueTokens(r) PROVE Typed'
  <2>1. auth[r] \in SessionId /\ who[r] \in User /\ exp[r] \in Nat
    BY <1>7, NoAuthAssumption DEF IssueTokens, LocalsInv, Holding, TypeOK, Expiry
  <2>2. [auth |-> auth[r], user |-> who[r], exp |-> exp[r]] \in Token
    BY <2>1 DEF Token
  <2> QED
    BY <1>0, <1>7, <2>2, FinishTyped DEF IssueTokens, TypeOK
<1>8. ASSUME NEW r \in Request, Abort(r) PROVE Typed'
  BY <1>0, <1>8, FinishTyped DEF Abort, storeVars, TypeOK
<1>9. ASSUME NEW t \in tokens, Logout(t) PROVE Typed'
  <2>1. t.auth \in SessionId
    BY DEF TypeOK, Token
  <2>2. TypeOK'
    BY <1>9, <2>1 DEF Logout, localVars, TypeOK
  <2>3. LocalsInv'
    BY <1>9 DEF Logout, localVars, LocalsInv, Holding
  <2>4. LiveInv'
    BY <1>9 DEF Logout, LiveInv, Live, TypeOK
  <2> QED
    BY <2>2, <2>3, <2>4
<1>10. ASSUME NEW u \in User, DeleteUser(u) PROVE Typed'
  BY <1>0, <1>10 DEF DeleteUser, localVars, historyVars, TypeOK, LocalsInv, Holding
<1>11. CASE Tick
  BY <1>0, <1>11 DEF Tick, localVars, historyVars, TypeOK, LocalsInv, Holding
<1>12. CASE UNCHANGED vars
  BY <1>0, <1>12 DEF vars, storeVars, localVars, historyVars, TypeOK, LocalsInv, Holding
<1> QED
  BY <1>1, <1>2, <1>3, <1>4, <1>5, <1>6, <1>7, <1>8, <1>9, <1>10, <1>11, <1>12
  DEF Next, Login, Refresh

\* Every variable keeps its type; in particular no document of auth_sessions is ever
\* half a session, and no token is made without an expiry.
THEOREM TypeCorrect == Spec => []TypeOK
<1>1. Typed => TypeOK
  BY DEF Typed
<1> QED
  BY <1>1, InitTyped, NextTyped, PTL DEF Spec

-----------------------------------------------------------------------------
(***************************************************************************)
(* A refresh never prolongs a session.  OneDeadline compares tokens with   *)
(* the document; it is kept because of what the requests under way hold:   *)
(* a session without a deadline is in the hands of one request only, and   *)
(* whatever a request holds of any other session is its deadline.          *)
(***************************************************************************)
\* A deadline exists from the first computation on, so always where a write of it
\* was swallowed, and never before the session.
DeadlineFixed ==
    /\ \A s \in slipped : deadline[s] # NoTime
    /\ \A s \in SessionId \ used : deadline[s] = NoTime

TokenDeadline ==
    \A t \in tokens :
        /\ t.auth \in used
        /\ deadline[t.auth] # NoTime
        /\ t.auth \notin slipped => t.exp = deadline[t.auth]
        /\ (t.auth \notin slipped /\ Live(t.auth)) => sessions[t.auth].exp = deadline[t.auth]

\* What request r holds of its session, when no write of that session was swallowed.
HeldDeadline(r) ==
    (Holding(r) /\ auth[r] \notin slipped) =>
        /\ exp[r] = deadline[auth[r]]
        /\ (pc[r] = "issue" /\ Live(auth[r])) => sessions[auth[r]].exp = deadline[auth[r]]

\* Only the login that opened a session holds it before it has a deadline.
OneOpener ==
    \A r, q \in Request :
        (Holding(r) /\ Holding(q) /\ auth[r] = auth[q] /\ deadline[auth[r]] = NoTime) => r = q

\* Past the computation the deadline exists.
HeldFixed ==
    \A r \in Request : pc[r] \in {"storeExp", "issue"} => deadline[auth[r]] # NoTime

DeadlineInv ==
    /\ Typed /\ DeadlineFixed /\ TokenDeadline /\ OneOpener /\ HeldFixed
    /\ \A r \in Request : HeldDeadline(r)

\* A step that changes none of sessions, tokens, slipped, deadline and used, and in
\* which no request takes hold of a session or changes what it holds, keeps DeadlineInv.
LEMMA DeadlineUndisturbed ==
    ASSUME DeadlineInv, Typed',
           UNCHANGED <<sessions, tokens, slipped, deadline, used>>,
           \A q \in Request :
              \/ ~ Holding(q)'
              \/ /\ Holding(q) /\ auth'[q] = auth[q] /\ exp'[q] = exp[q]
                 /\ pc'[q] \in {"storeExp", "issue"} => pc'[q] = pc[q]
    PROVE  DeadlineInv'
<1>1. DeadlineFixed' /\ TokenDeadline'
  BY DEF DeadlineInv, DeadlineFixed, TokenDeadline, Live
<1>2. OneOpener' /\ HeldFixed'
  BY DEF DeadlineInv, OneOpener, HeldFixed, Holding
<1>3. \A q \in Request : HeldDeadline(q)'
  BY DEF DeadlineInv, HeldDeadline, Holding, Live
<1> QED
  BY <1>1, <1>2, <1>3 DEF DeadlineInv

\* No session exists in an initial state.
LEMMA InitDeadline == Init => DeadlineInv
<1> SUFFICES ASSUME Init PROVE DeadlineInv
  OBVIOUS
<1>1. Typed
  BY InitTyped
<1> QED
  BY <1>1 DEF Init, DeadlineInv, DeadlineFixed, TokenDeadline, OneOpener, HeldFixed, HeldDeadline, Holding

\* Opening a session: it is new, so no token, no deadline and no other request has it.
LEMMA CreateKeepsDeadline ==
    ASSUME DeadlineInv, Typed', NEW r \in Request, NEW s \in SessionId, CreateEmptyAuth(r, s)
    PROVE  DeadlineInv'
<1>1. /\ pc[r] = "createAuth" /\ s \notin used /\ used' = used \cup {s}
      /\ sessions' = [sessions EXCEPT ![s] = [user |-> who[r], exp |-> NoTime]]
      /\ auth' = [auth EXCEPT ![r] = s] /\ pc' = [pc EXCEPT ![r] = "setExp"]
      /\ tokens' = tokens /\ exp' = exp /\ deadline' = deadline /\ slipped' = slipped
  BY DEF CreateEmptyAuth, Goto
<1>2. auth'[r] = s /\ pc'[r] = "setExp" /\ Holding(r)' /\ ~ Holding(r)
      /\ \A q \in Request \ {r} : auth'[q] = auth[q] /\ pc'[q] = pc[q] /\ Holding(q)' = Holding(q)
  BY <1>1 DEF DeadlineInv, Typed, TypeOK, Holding
<1>3. exp[r] = NoTime /\ deadline[s] = NoTime
  BY <1>1, <1>2 DEF DeadlineInv, DeadlineFixed, Typed, LocalsInv
<1>4. \A q \in Request \ {r} : Holding(q) => auth[q] # s
  BY <1>1 DEF DeadlineInv, Typed, LocalsInv
<1>5. \A t \in tokens : t.auth \in SessionId /\ t.auth # s
  BY <1>1 DEF DeadlineInv, TokenDeadline, Typed, TypeOK, Token
<1>6. \A v \in SessionId \ {s} : sessions'[v] = sessions[v]
  BY <1>1 DEF DeadlineInv, Typed, TypeOK
<1>7. DeadlineFixed'
  BY <1>1 DEF DeadlineInv, DeadlineFixed
<1>8. TokenDeadline'
  BY <1>1, <1>5, <1>6 DEF DeadlineInv, TokenDeadline, Live
<1>9. OneOpener' /\ HeldFixed'
  BY <1>1, <1>2, <1>4 DEF DeadlineInv, OneOpener, HeldFixed, Holding
<1>10. ASSUME NEW q \in Request PROVE HeldDeadline(q)'
  <2>1. CASE q = r
    BY <1>1, <1>2, <1>3, <2>1 DEF HeldDeadline
  <2>2. CASE q # r
    <3>1. Holding(q) => auth[q] \in SessionId
      BY NoAuthAssumption DEF DeadlineInv, Typed, TypeOK, LocalsInv
    <3> QED
      BY <1>1, <1>2, <1>4, <1>6, <2>2, <3>1 DEF DeadlineInv, HeldDeadline, Live
  <2> QED
    BY <2>1, <2>2
<1> QED
  BY <1>7, <1>8, <1>9, <1>10 DEF DeadlineInv

\* Fetching a session: the token that asks for it shows that it has a deadline, and
\* the document holds it.
LEMMA FetchKeepsDeadline ==
    ASSUME DeadlineInv, Typed', NEW r \in Request, NEW t \in tokens, FetchSession(r, t)
    PROVE  DeadlineInv'
<1>1. /\ Live(t.auth)
      /\ sessions' = sessions /\ tokens' = tokens
      /\ used' = used /\ deadline' = deadline /\ slipped' = slipped
  BY DEF FetchSession, Start, storeVars
<1>2. /\ pc'[r] = "readUser" /\ auth'[r] = t.auth /\ exp'[r] = sessions[t.auth].exp
      /\ \A q \in Request \ {r} : /\ pc'[q] = pc[q] /\ auth'[q] = auth[q] /\ exp'[q] = exp[q]
                                  /\ Holding(q)' = Holding(q)
  BY DEF FetchSession, Goto, DeadlineInv, Typed, TypeOK, Holding
<1>3. deadline[t.auth] # NoTime
      /\ (t.auth \notin slipped => sessions[t.auth].exp = deadline[t.auth])
  BY <1>1 DEF DeadlineInv, TokenDeadline
<1>4. DeadlineFixed' /\ TokenDeadline'
  BY <1>1 DEF DeadlineInv, DeadlineFixed, TokenDeadline, Live
<1>5. OneOpener' /\ HeldFixed'
  BY <1>1, <1>2, <1>3 DEF DeadlineInv, OneOpener, HeldFixed, Holding
<1>6. ASSUME NEW q \in Request PROVE HeldDeadline(q)'
  BY <1>1, <1>2, <1>3 DEF DeadlineInv, HeldDeadline, Live
<1> QED
  BY <1>4, <1>5, <1>6 DEF DeadlineInv

\* Computing the expiry: either the session had a deadline and the request holds it,
\* or it had none and no one else knows of the session.
LEMMA SetExpKeepsDeadline ==
    ASSUME DeadlineInv, Typed', NEW r \in Request, SetExp(r)
    PROVE  DeadlineInv'
<1> DEFINE s == auth[r]
<1>1. /\ pc[r] = "setExp" /\ Holding(r)
      /\ sessions' = sessions /\ tokens' = tokens /\ auth' = auth
      /\ used' = used /\ slipped' = slipped
      /\ deadline' = [deadline EXCEPT ![s] = IF @ = NoTime THEN SessionExp(r) ELSE @]
  BY DEF SetExp, storeVars, Holding
<1>2. /\ pc'[r] = "storeExp" /\ exp'[r] = SessionExp(r) /\ Holding(r)'
      /\ \A q \in Request \ {r} : pc'[q] = pc[q] /\ exp'[q] = exp[q] /\ Holding(q)' = Holding(q)
  BY DEF SetExp, Goto, DeadlineInv, Typed, TypeOK, Holding
<1>3. s \in SessionId /\ s \in used /\ SessionExp(r) # NoTime
  BY <1>1, SessionExpTyped, NoTimeAssumption, NoAuthAssumption
  DEF DeadlineInv, Typed, TypeOK, LocalsInv
<1>4. /\ deadline'[s] = IF deadline[s] = NoTime THEN SessionExp(r) ELSE deadline[s]
      /\ deadline'[s] # NoTime
      /\ \A v \in SessionId \ {s} : deadline'[v] = deadline[v]
  BY <1>1, <1>3 DEF DeadlineInv, Typed, TypeOK
<1>5. s \notin slipped => exp'[r] = deadline'[s]
  BY <1>1, <1>2, <1>3, <1>4 DEF DeadlineInv, HeldDeadline, SessionExp
<1>6. \A t \in tokens : t.auth \in SessionId /\ deadline'[t.auth] = deadline[t.auth]
  BY <1>4 DEF DeadlineInv, TokenDeadline, Typed, TypeOK, Token
<1>7. \A q \in Request \ {r} :
        Holding(q) => auth[q] \in SessionId /\ deadline'[auth[q]] = deadline[auth[q]]
  BY <1>1, <1>4, NoAuthAssumption DEF DeadlineInv, OneOpener, Typed, TypeOK, LocalsInv
<1>8. DeadlineFixed'
  BY <1>1, <1>3, <1>4 DEF DeadlineInv, DeadlineFixed, Typed, TypeOK
<1>9. TokenDeadline'
  BY <1>1, <1>6 DEF DeadlineInv, TokenDeadline, Live
<1>10. OneOpener' /\ HeldFixed'
  BY <1>1, <1>2, <1>4, <1>7 DEF DeadlineInv, OneOpener, HeldFixed, Holding
<1>11. ASSUME NEW q \in Request PROVE HeldDeadline(q)'
  BY <1>1, <1>2, <1>5, <1>7 DEF DeadlineInv, HeldDeadline, Live, Holding
<1> QED
  BY <1>8, <1>9, <1>10, <1>11 DEF DeadlineInv

\* Writing the expiry back: what the request holds is the deadline, so the document
\* gets it, or the write is swallowed and the session counts as slipped.
LEMMA StoreExpKeepsDeadline ==
    ASSUME DeadlineInv, Typed', NEW r \in Request, StoreExp(r)
    PROVE  DeadlineInv'
<1> DEFINE s == auth[r]
<1>1. /\ pc[r] = "storeExp" /\ Holding(r)
      /\ tokens' = tokens /\ auth' = auth /\ exp' = exp /\ used' = used /\ deadline' = deadline
  BY DEF StoreExp, Holding
<1>2. /\ pc'[r] = "issue" /\ Holding(r)'
      /\ \A q \in Request \ {r} : pc'[q] = pc[q] /\ Holding(q)' = Holding(q)
  BY DEF StoreExp, Goto, DeadlineInv, Typed, TypeOK, Holding
<1>3. s \in SessionId /\ deadline[s] # NoTime
  BY <1>1, NoAuthAssumption DEF DeadlineInv, HeldFixed, Typed, TypeOK, LocalsInv
<1>4. slipped \subseteq slipped' /\ slipped' \subseteq slipped \cup {s}
  BY DEF StoreExp
<1>5. \A v \in SessionId : v # s => Updated(r)[v] = sessions[v]
  BY <1>1, UpdatedTyped DEF DeadlineInv
<1>6. \A v \in SessionId \ slipped' : sessions'[v] = Updated(r)[v]
  BY <1>5 DEF StoreExp
<1>7. \A v \in SessionId \ slipped' : Live(v)' <=> Live(v)
  BY <1>1, <1>6, UpdatedTyped DEF DeadlineInv, Live
<1>8. (s \notin slipped' /\ Live(s)) => sessions'[s].exp = deadline[s]
  BY <1>1, <1>3, <1>4, <1>6, UpdatedTyped DEF DeadlineInv, HeldDeadline
<1>9. DeadlineFixed'
  BY <1>1, <1>3, <1>4 DEF DeadlineInv, DeadlineFixed
<1>10. TokenDeadline'
  <2> SUFFICES ASSUME NEW t \in tokens
               PROVE  /\ t.auth \in used /\ deadline[t.auth] # NoTime
                      /\ t.auth \notin slipped' => t.exp = deadline[t.auth]
                      /\ (t.auth \notin slipped' /\ Live(t.auth)')
                            => sessions'[t.auth].exp = deadline[t.auth]
    BY <1>1 DEF TokenDeadline
  <2>1. t.auth \in SessionId
    BY DEF DeadlineInv, Typed, TypeOK, Token
  <2>2. CASE t.auth = s
    BY <1>3, <1>4, <1>7, <1>8, <2>1, <2>2 DEF DeadlineInv, TokenDeadline
  <2>3. CASE t.auth # s
    BY <1>4, <1>6, <1>5, <1>7, <2>1, <2>3 DEF DeadlineInv, TokenDeadline
  <2> QED
    BY <2>2, <2>3
<1>11. OneOpener' /\ HeldFixed'
  BY <1>1, <1>2, <1>3 DEF DeadlineInv, OneOpener, HeldFixed
<1>12. ASSUME NEW q \in Request PROVE HeldDeadline(q)'
  <2> SUFFICES ASSUME Holding(q)', auth[q] \notin slipped'
               PROVE  /\ exp[q] = deadline[auth[q]]
                      /\ (pc'[q] = "issue" /\ Live(auth[q])')
                            => sessions'[auth[q]].exp = deadline[auth[q]]
    BY <1>1 DEF HeldDeadline
  <2>1. Holding(q) /\ auth[q] \in SessionId /\ auth[q] \notin slipped
    BY <1>1, <1>2, <1>4, NoAuthAssumption DEF DeadlineInv, Typed, TypeOK, LocalsInv
  <2>2. exp[q] = deadline[auth[q]]
    BY <2>1 DEF DeadlineInv, HeldDeadline
  <2>3. CASE auth[q] = s
    BY <1>1, <1>7, <1>8, <2>1, <2>2, <2>3
  <2>4. CASE auth[q] # s
    BY <1>1, <1>2, <1>6, <1>5, <1>7, <2>1, <2>2, <2>4 DEF DeadlineInv, HeldDeadline
  <2> QED
    BY <2>3, <2>4
<1> QED
  BY <1>9, <1>10, <1>11, <1>12 DEF DeadlineInv

\* Issuing the tokens: they carry the deadline, and the document holds it already.
LEMMA IssueKeepsDeadline ==
    ASSUME DeadlineInv, Typed', NEW r \in Request, IssueTokens(r)
    PROVE  DeadlineInv'
<1> DEFINE t == [auth |-> auth[r], user |-> who[r], exp |-> exp[r]]
<1>1. /\ pc[r] = "issue" /\ Holding(r) /\ sessions' = sessions /\ tokens' = tokens \cup {t}
      /\ used' = used /\ deadline' = deadline /\ slipped' = slipped
  BY DEF IssueTokens, Finish, Holding
<1>2. /\ ~ Holding(r)' /\ pc'[r] = "idle"
      /\ \A q \in Request \ {r} : /\ pc'[q] = pc[q] /\ auth'[q] = auth[q] /\ exp'[q] = exp[q]
                                  /\ Holding(q)' = Holding(q)
  BY DEF IssueTokens, Finish, Goto, DeadlineInv, Typed, TypeOK, Holding
<1>3. /\ t.auth = auth[r] /\ t.exp = exp[r]
      /\ auth[r] \in used /\ deadline[auth[r]] # NoTime
  BY <1>1 DEF DeadlineInv, HeldFixed, Typed, LocalsInv
<1>4. auth[r] \notin slipped =>
        /\ exp[r] = deadline[auth[r]]
        /\ Live(auth[r]) => sessions[auth[r]].exp = deadline[auth[r]]
  BY <1>1 DEF DeadlineInv, HeldDeadline
<1> HIDE DEF t
<1>5. DeadlineFixed' /\ TokenDeadline'
  BY <1>1, <1>3, <1>4 DEF DeadlineInv, DeadlineFixed, TokenDeadline, Live
<1>6. OneOpener' /\ HeldFixed'
  BY <1>1, <1>2 DEF DeadlineInv, OneOpener, HeldFixed
<1>7. ASSUME NEW q \in Request PROVE HeldDeadline(q)'
  BY <1>1, <1>2 DEF DeadlineInv, HeldDeadline, Live
<1> QED
  BY <1>5, <1>6, <1>7 DEF DeadlineInv

\* Logging out: a document fewer, and nothing is claimed of a session that has none.
LEMMA LogoutKeepsDeadline ==
    ASSUME DeadlineInv, Typed', NEW t \in tokens, Logout(t)
    PROVE  DeadlineInv'
<1>1. /\ tokens' = tokens /\ pc' = pc /\ auth' = auth /\ exp' = exp
      /\ used' = used /\ deadline' = deadline /\ slipped' = slipped
  BY DEF Logout, localVars
<1>2. t.auth \in SessionId
  BY DEF DeadlineInv, Typed, TypeOK, Token
<1>3. \A v \in SessionId : Live(v)' => Live(v) /\ sessions'[v] = sessions[v]
  BY <1>2 DEF Logout, Live, DeadlineInv, Typed, TypeOK
<1>4. /\ \A u \in tokens : u.auth \in SessionId
      /\ \A q \in Request : Holding(q) => auth[q] \in SessionId
  BY NoAuthAssumption DEF DeadlineInv, Typed, TypeOK, Token, LocalsInv
<1>5. DeadlineFixed' /\ TokenDeadline'
  BY <1>1, <1>3, <1>4 DEF DeadlineInv, DeadlineFixed, TokenDeadline
<1>6. OneOpener' /\ HeldFixed'
  BY <1>1 DEF DeadlineInv, OneOpener, HeldFixed, Holding
<1>7. ASSUME NEW q \in Request PROVE HeldDeadline(q)'
  BY <1>1, <1>3, <1>4 DEF DeadlineInv, HeldDeadline, Holding
<1> QED
  BY <1>5, <1>6, <1>7 DEF DeadlineInv

\* A request that ends holds nothing any more; the others are as they were.
LEMMA FinishKeepsDeadline ==
    ASSUME DeadlineInv, Typed', NEW r \in Request, Finish(r), UNCHANGED storeVars
    PROVE  DeadlineInv'
<1>1. \A q \in Request : ~ Holding(q)' \/ (Holding(q) /\ auth'[q] = auth[q] /\ exp'[q] = exp[q] /\ pc'[q] = pc[q])
  BY DEF Finish, Goto, Holding, DeadlineInv, Typed, TypeOK
<1> QED
  BY <1>1, DeadlineUndisturbed DEF Finish, storeVars

\* Every step keeps DeadlineInv.
LEMMA NextDeadline == DeadlineInv /\ [Next]_vars => DeadlineInv'
<1> SUFFICES ASSUME DeadlineInv, [Next]_vars PROVE DeadlineInv'
  OBVIOUS
<1>0. Typed'
  BY NextTyped DEF DeadlineInv
<1>1. ASSUME NEW r \in Request, NEW u \in User, ValidatePassword(r, u) PROVE DeadlineInv'
  <2>1. \A q \in Request : ~ Holding(q)' \/ (Holding(q) /\ auth'[q] = auth[q] /\ exp'[q] = exp[q] /\ pc'[q] = pc[q])
    BY <1>1 DEF ValidatePassword, Start, Goto, Holding, DeadlineInv, Typed, TypeOK
  <2> QED
    BY <1>0, <1>1, <2>1, DeadlineUndisturbed DEF ValidatePassword, Start, storeVars
<1>2. ASSUME NEW r \in Request, NEW s \in SessionId, CreateEmptyAuth(r, s) PROVE DeadlineInv'
  BY <1>0, <1>2, CreateKeepsDeadline
<1>3. ASSUME NEW r \in Request, NEW t \in tokens, FetchSession(r, t) PROVE DeadlineInv'
  BY <1>0, <1>3, FetchKeepsDeadline
<1>4. ASSUME NEW r \in Request, ReadUser(r) PROVE DeadlineInv'
  <2>1. CASE Finish(r)
    BY <1>0, <1>4, <2>1, FinishKeepsDeadline DEF ReadUser
  <2>2. CASE ~ Finish(r)
    <3>1. \A q \in Request :
            \/ ~ Holding(q)'
            \/ /\ Holding(q) /\ auth'[q] = auth[q] /\ exp'[q] = exp[q]
               /\ pc'[q] \in {"storeExp", "issue"} => pc'[q] = pc[q]
      BY <1>4, <2>2 DEF ReadUser, Goto, Holding, DeadlineInv, Typed, TypeOK
    <3> QED
      BY <1>0, <1>4, <2>2, <3>1, DeadlineUndisturbed DEF ReadUser, storeVars, historyVars
  <2> QED
    BY <2>1, <2>2
<1>5. ASSUME NEW r \in Request, SetExp(r) PROVE DeadlineInv'
  BY <1>0, <1>5, SetExpKeepsDeadline
<1>6. ASSUME NEW r \in Request, StoreExp(r) PROVE DeadlineInv'
  BY <1>0, <1>6, StoreExpKeepsDeadline
<1>7. ASSUME NEW r \in Request, IssueTokens(r) PROVE DeadlineInv'
  BY <1>0, <1>7, IssueKeepsDeadline
<1>8. ASSUME NEW r \in Request, Abort(r) PROVE DeadlineInv'
  BY <1>0, <1>8, FinishKeepsDeadline DEF Abort
<1>9. ASSUME NEW t \in tokens, Logout(t) PROVE DeadlineInv'
  BY <1>0, <1>9, LogoutKeepsDeadline
<1>10. ASSUME UNCHANGED <<sessions, tokens, localVars, historyVars>> PROVE DeadlineInv'
  <2>1. \A q \in Request : ~ Holding(q)' \/ (Holding(q) /\ auth'[q] = auth[q] /\ exp'[q] = exp[q] /\ pc'[q] = pc[q])
    BY <1>10 DEF localVars, Holding
  <2> QED
    BY <1>0, <1>10, <2>1, DeadlineUndisturbed DEF historyVars
<1>11. ASSUME NEW u \in User, DeleteUser(u) PROVE DeadlineInv'
  BY <1>10, <1>11 DEF DeleteUser
<1>12. CASE Tick
  BY <1>10, <1>12 DEF Tick
<1>13. CASE UNCHANGED vars
  BY <1>10, <1>13 DEF vars, storeVars
<1> QED
  BY <1>1, <1>2, <1>3, <1>4, <1>5, <1>6, <1>7, <1>8, <1>9, <1>11, <1>12, <1>13
  DEF Next, Login, Refresh

\* A refresh never prolongs a session: whatever logins, refreshes and logouts do in
\* any order, every refresh token of a session expires when its document says, unless
\* a write of the document was swallowed.
THEOREM RefreshNeverProlongs == Spec => []OneDeadline
<1>1. DeadlineInv => OneDeadline
  BY DEF DeadlineInv, TokenDeadline, OneDeadline
<1> QED
  BY <1>1, InitDeadline, NextDeadline, PTL DEF Spec

-----------------------------------------------------------------------------
(***************************************************************************)
(* Nothing is issued for what was gone when the request started.  What is  *)
(* revoked has no document and never gets one again, so a request that     *)
(* found a document, or made one, holds a session not revoked before it    *)
(* started; what it holds stays the same until it ends.                    *)
(***************************************************************************)
RevokedGone == \A s \in revoked : ~ Live(s) /\ s \in used

LateGone ==
    \A r \in Request : lateAuth[r] \subseteq revoked /\ lateUser[r] \cap accounts = {}

\* The user was looked up: by the password check, or by ReadUser.
UserKnown(r) == pc[r] \in {"createAuth", "setExp", "storeExp", "issue"}

HoldsNothingLate ==
    \A r \in Request :
        /\ Holding(r) => auth[r] \notin lateAuth[r]
        /\ UserKnown(r) => who[r] \notin lateUser[r]

LateInv == Typed /\ RevokedGone /\ LateGone /\ HoldsNothingLate

\* Nothing is revoked in an initial state.
LEMMA InitLate == Init => LateInv
BY InitTyped DEF Init, LateInv, RevokedGone, LateGone, HoldsNothingLate, Holding, UserKnown

\* A request that ends holds nothing, and the others are as they were.
LEMMA FinishKeepsLate ==
    ASSUME LateInv, Typed', NEW r \in Request, Finish(r), UNCHANGED <<accounts, sessions>>
    PROVE  LateInv'
<1>1. RevokedGone'
  BY DEF LateInv, RevokedGone, Finish, Live
<1>2. LateGone' /\ HoldsNothingLate'
  BY DEF LateInv, LateGone, HoldsNothingLate, Holding, UserKnown, Finish, Goto, Typed, TypeOK
<1> QED
  BY <1>1, <1>2 DEF LateInv

\* Every step keeps LateInv.
LEMMA NextLate == LateInv /\ [Next]_vars => LateInv'
<1> SUFFICES ASSUME LateInv, [Next]_vars PROVE LateInv'
  OBVIOUS
<1> USE DEF LateInv, Goto
<1>0. Typed'
  BY NextTyped
<1>1. ASSUME UNCHANGED <<sessions, revoked, used>> PROVE RevokedGone'
  BY <1>1 DEF RevokedGone, Live
<1>2. ASSUME NEW r \in Request, NEW u \in User, ValidatePassword(r, u) PROVE LateInv'
  <2>1. LateGone' /\ HoldsNothingLate'
    BY <1>2
    DEF ValidatePassword, Start, storeVars, LateGone, HoldsNothingLate, Holding, UserKnown, Typed, TypeOK
  <2> QED
    BY <1>0, <1>1, <1>2, <2>1 DEF ValidatePassword, Start, storeVars
<1>3. ASSUME NEW r \in Request, NEW s \in SessionId, CreateEmptyAuth(r, s) PROVE LateInv'
  <2>1. RevokedGone'
    BY <1>3 DEF CreateEmptyAuth, RevokedGone, Live, Typed, TypeOK
  <2>2. s \notin revoked
    BY <1>3 DEF CreateEmptyAuth, RevokedGone
  <2>3. LateGone' /\ HoldsNothingLate'
    BY <1>3, <2>2 DEF CreateEmptyAuth, LateGone, HoldsNothingLate, Holding, UserKnown, Typed, TypeOK
  <2> QED
    BY <1>0, <2>1, <2>3
<1>4. ASSUME NEW r \in Request, NEW t \in tokens, FetchSession(r, t) PROVE LateInv'
  <2>1. t.auth \notin revoked
    BY <1>4 DEF FetchSession, RevokedGone
  <2>2. LateGone' /\ HoldsNothingLate'
    BY <1>4, <2>1
    DEF FetchSession, Start, storeVars, LateGone, HoldsNothingLate, Holding, UserKnown, Typed, TypeOK
  <2> QED
    BY <1>0, <1>1, <1>4, <2>2 DEF FetchSession, Start, storeVars
<1>5. ASSUME NEW r \in Request, ReadUser(r) PROVE LateInv'
  <2>1. CASE Finish(r)
    BY <1>0, <1>5, <2>1, FinishKeepsLate DEF ReadUser, storeVars
  <2>2. CASE ~ Finish(r)
    <3>1. who[r] \notin lateUser[r]
      BY <1>5, <2>2 DEF ReadUser, UserFound, LateGone
    <3>2. LateGone' /\ HoldsNothingLate'
      BY <1>5, <2>2, <3>1
      DEF ReadUser, storeVars, historyVars, LateGone, HoldsNothingLate, Holding, UserKnown, Typed, TypeOK
    <3> QED
      BY <1>0, <1>1, <1>5, <2>2, <3>2 DEF ReadUser, storeVars, historyVars
  <2> QED
    BY <2>1, <2>2
<1>6. ASSUME NEW r \in Request, SetExp(r) PROVE LateInv'
  <2>1. LateGone' /\ HoldsNothingLate'
    BY <1>6 DEF SetExp, storeVars, LateGone, HoldsNothingLate, Holding, UserKnown, Typed, TypeOK
  <2> QED
    BY <1>0, <1>1, <1>6, <2>1 DEF SetExp, storeVars
<1>7. ASSUME NEW r \in Request, StoreExp(r) PROVE LateInv'
  <2>1. Holding(r)
    BY <1>7 DEF StoreExp, Holding
  <2>2. \A v \in SessionId : Live(v)' <=> Live(v)
    BY <1>7, <2>1, UpdatedTyped DEF StoreExp, Live
  <2>3. revoked' = revoked /\ used' = used /\ revoked \subseteq SessionId
    BY <1>7 DEF StoreExp, Typed, TypeOK
  <2>4. RevokedGone'
    BY <2>2, <2>3 DEF RevokedGone
  <2>5. LateGone' /\ HoldsNothingLate'
    BY <1>7 DEF StoreExp, LateGone, HoldsNothingLate, Holding, UserKnown, Typed, TypeOK
  <2> QED
    BY <1>0, <2>4, <2>5
<1>8. ASSUME NEW r \in Request, IssueTokens(r) PROVE LateInv'
  BY <1>0, <1>8, FinishKeepsLate DEF IssueTokens
<1>9. ASSUME NEW r \in Request, Abort(r) PROVE LateInv'
  BY <1>0, <1>9, FinishKeepsLate DEF Abort, storeVars
<1>10. ASSUME NEW t \in tokens, Logout(t) PROVE LateInv'
  <2>1. t.auth \in SessionId /\ t.auth \in used
    BY <1>10 DEF Logout, Typed, TypeOK, Token, LiveInv
  <2>2. RevokedGone'
    BY <1>10, <2>1 DEF Logout, RevokedGone, Live, Typed, TypeOK
  <2>3. LateGone' /\ HoldsNothingLate'
    BY <1>10 DEF Logout, localVars, LateGone, HoldsNothingLate, Holding, UserKnown
  <2> QED
    BY <1>0, <2>2, <2>3
<1>11. ASSUME UNCHANGED <<sessions, localVars, historyVars>>, accounts' \subseteq accounts
       PROVE  LateInv'
  <2>1. LateGone' /\ HoldsNothingLate'
    BY <1>11 DEF localVars, historyVars, LateGone, HoldsNothingLate, Holding, UserKnown
  <2> QED
    BY <1>0, <1>1, <1>11, <2>1 DEF historyVars
<1>12. ASSUME NEW u \in User, DeleteUser(u) PROVE LateInv'
  BY <1>11, <1>12 DEF DeleteUser
<1>13. CASE Tick
  BY <1>11, <1>13 DEF Tick
<1>14. CASE UNCHANGED vars
  BY <1>11, <1>14 DEF vars, storeVars
<1> QED
  BY <1>2, <1>3, <1>4, <1>5, <1>6, <1>7, <1>8, <1>9, <1>10, <1>12, <1>13, <1>14
  DEF Next, Login, Refresh

\* A refresh or login that starts after a logout gets no token of that session, though
\* writes of requests under way still reach the collection.
THEOREM LogoutIsFinal == Spec => NoTokensAfterLogout
<1>1. LateInv /\ [Next]_vars
        => [\A r \in Request : Issues(r) => auth[r] \notin lateAuth[r]]_vars
  BY DEF LateInv, HoldsNothingLate, Issues, Holding
<1> QED
  BY <1>1, InitLate, NextLate, PTL DEF Spec, NoTokensAfterLogout

\* A request that starts after a user was deleted gets no token for that user, though
\* nothing deletes the sessions of the user.
THEOREM DeletionIsFinal == Spec => NoTokensAfterDelete
<1>1. LateInv /\ [Next]_vars
        => [\A r \in Request : Issues(r) => who[r] \notin lateUser[r]]_vars
  BY DEF LateInv, HoldsNothingLate, Issues, UserKnown
<1> QED
  BY <1>1, InitLate, NextLate, PTL DEF Spec, NoTokensAfterDelete

-----------------------------------------------------------------------------
(***************************************************************************)
(* The service implements SessionLifecycle.  Besides DeadlineInv this      *)
(* needs that every expiry is a time the bound of the clock allows, and    *)
(* that a session is only revoked once it has a deadline: the login that   *)
(* opens it holds the only way to it until then.                           *)
(***************************************************************************)
Ends == 0..(MaxTime + RefreshLife)

LifeInv ==
    /\ DeadlineInv
    /\ now <= MaxTime
    /\ \A t \in tokens : t.exp \in Ends
    /\ \A r \in Request : exp[r] \in Ends \cup {NoTime}
    /\ \A s \in SessionId : Live(s) => sessions[s].exp \in Ends \cup {NoTime}
    /\ \A s \in used : ~ Live(s) => deadline[s] # NoTime

LEMMA InitLife == Init => LifeInv
BY InitDeadline, MaxTimeAssumption DEF Init, LifeInv, Live

\* A computed expiry is within the bound.
LEMMA SessionExpEnds ==
    ASSUME LifeInv, NEW r \in Request
    PROVE  SessionExp(r) \in Ends
<1>1. now \in Nat /\ now <= MaxTime
  BY DEF LifeInv, DeadlineInv, Typed, TypeOK
<1>2. now + RefreshLife \in Ends
  BY <1>1, MaxTimeAssumption, RefreshLifeAssumption DEF Ends
<1> QED
  BY <1>2 DEF LifeInv, SessionExp

LEMMA FinishKeepsLife ==
    ASSUME LifeInv, NEW r \in Request, Finish(r)
    PROVE  \A q \in Request : exp'[q] \in Ends \cup {NoTime}
BY DEF LifeInv, DeadlineInv, Typed, TypeOK, Finish

LEMMA StoreExpKeepsLife ==
    ASSUME LifeInv, NEW r \in Request, StoreExp(r)
    PROVE  /\ \A s \in SessionId : Live(s)' <=> Live(s)
           /\ \A s \in SessionId : Live(s)' => sessions'[s].exp \in Ends \cup {NoTime}
<1>1. Typed /\ Holding(r) /\ exp[r] \in Ends \cup {NoTime}
  BY DEF LifeInv, DeadlineInv, StoreExp, Holding
<1>2. CASE sessions' = sessions
  BY <1>2 DEF LifeInv, Live
<1>3. CASE sessions' = Updated(r)
  <2>1. \A s \in SessionId : Live(s)' <=> Live(s)
    BY <1>1, <1>3, UpdatedTyped DEF Live
  <2>2. ASSUME NEW s \in SessionId, Live(s) PROVE sessions'[s].exp \in Ends \cup {NoTime}
    <3>1. CASE s = auth[r]
      BY <1>1, <1>3, <2>2, <3>1, UpdatedTyped
    <3>2. CASE s # auth[r]
      BY <1>1, <1>3, <2>2, <3>2, UpdatedTyped DEF LifeInv
    <3> QED
      BY <3>1, <3>2
  <2> QED
    BY <2>1, <2>2
<1> QED
  BY <1>2, <1>3 DEF StoreExp

LEMMA NextLife == LifeInv /\ [Next]_vars => LifeInv'
<1> SUFFICES ASSUME LifeInv, [Next]_vars PROVE LifeInv'
  OBVIOUS
<1>0. DeadlineInv' /\ Typed /\ TypeOK
  BY NextDeadline DEF LifeInv, DeadlineInv, Typed
<1>1. ASSUME NEW r \in Request, NEW u \in User, ValidatePassword(r, u) PROVE LifeInv'
  BY <1>0, <1>1 DEF LifeInv, ValidatePassword, Start, storeVars, Live
<1>2. ASSUME NEW r \in Request, NEW s \in SessionId, CreateEmptyAuth(r, s) PROVE LifeInv'
  <2>1. /\ UNCHANGED <<now, tokens, exp, deadline>> /\ used' = used \cup {s}
        /\ sessions'[s] = [user |-> who[r], exp |-> NoTime]
        /\ \A i \in SessionId \ {s} : sessions'[i] = sessions[i]
    BY <1>0, <1>2 DEF CreateEmptyAuth, TypeOK
  <2>2. sessions'[s] \in Session
    BY <1>0, <1>2, <2>1 DEF Typed, LocalsInv, CreateEmptyAuth, Session, Expiry
  <2>3. \A i \in SessionId \ {s} : Live(i)' <=> Live(i)
    BY <2>1 DEF Live
  <2>4. Live(s)'
    BY <2>2, NoSessionAssumption DEF Live
  <2>5. \A i \in SessionId : Live(i)' => sessions'[i].exp \in Ends \cup {NoTime}
    BY <2>1, <2>3 DEF LifeInv
  <2>6. used \subseteq SessionId
    BY <1>0 DEF TypeOK
  <2> QED
    BY <1>0, <2>1, <2>3, <2>4, <2>5, <2>6 DEF LifeInv
<1>3. ASSUME NEW r \in Request, NEW t \in tokens, FetchSession(r, t) PROVE LifeInv'
  <2>1. t.auth \in SessionId /\ Live(t.auth)
    BY <1>0, <1>3 DEF TypeOK, Token, FetchSession
  <2>2. \A q \in Request : exp'[q] \in Ends \cup {NoTime}
    BY <1>0, <1>3, <2>1 DEF LifeInv, TypeOK, FetchSession
  <2> QED
    BY <1>0, <1>3, <2>2 DEF LifeInv, FetchSession, Start, storeVars, Live
<1>4. ASSUME NEW r \in Request, ReadUser(r) PROVE LifeInv'
  <2>1. \A q \in Request : exp'[q] \in Ends \cup {NoTime}
    BY <1>4, FinishKeepsLife DEF LifeInv, ReadUser
  <2>2. UNCHANGED <<now, tokens, sessions, used, deadline>>
    BY <1>4 DEF ReadUser, Finish, storeVars, historyVars
  <2> QED
    BY <1>0, <2>1, <2>2 DEF LifeInv, Live
<1>5. ASSUME NEW r \in Request, SetExp(r) PROVE LifeInv'
  <2>1. /\ UNCHANGED <<now, tokens, sessions, used>>
        /\ exp' = [exp EXCEPT ![r] = SessionExp(r)] /\ SessionExp(r) # NoTime
        /\ deadline' = [deadline EXCEPT ![auth[r]] = IF @ = NoTime THEN SessionExp(r) ELSE @]
    BY <1>0, <1>5, SessionExpTyped, NoTimeAssumption DEF SetExp, storeVars
  <2>2. \A q \in Request : exp'[q] \in Ends \cup {NoTime}
    BY <1>0, <2>1, SessionExpEnds DEF LifeInv, TypeOK
  <2>3. \A s \in SessionId : deadline[s] # NoTime => deadline'[s] # NoTime
    BY <1>0, <2>1 DEF TypeOK
  <2>4. used \subseteq SessionId
    BY <1>0 DEF TypeOK
  <2> QED
    BY <1>0, <2>1, <2>2, <2>3, <2>4 DEF LifeInv, Live
<1>6. ASSUME NEW r \in Request, StoreExp(r) PROVE LifeInv'
  <2>1. used \subseteq SessionId /\ UNCHANGED <<now, tokens, exp, used, deadline>>
    BY <1>0, <1>6 DEF TypeOK, StoreExp
  <2> QED
    BY <1>0, <1>6, <2>1, StoreExpKeepsLife DEF LifeInv
<1>7. ASSUME NEW r \in Request, IssueTokens(r) PROVE LifeInv'
  <2>1. UNCHANGED <<now, sessions, used, deadline>>
    BY <1>7 DEF IssueTokens, Finish
  <2>2. \A q \in Request : exp'[q] \in Ends \cup {NoTime}
    BY <1>7, FinishKeepsLife DEF IssueTokens
  <2>3. exp[r] \in Ends
    BY <1>0, <1>7 DEF LifeInv, IssueTokens, Typed, LocalsInv
  <2>4. \A t \in tokens' : t.exp \in Ends
    BY <1>7, <2>3 DEF LifeInv, IssueTokens
  <2> QED
    BY <1>0, <2>1, <2>2, <2>4 DEF LifeInv, Live
<1>8. ASSUME NEW r \in Request, Abort(r) PROVE LifeInv'
  <2>1. \A q \in Request : exp'[q] \in Ends \cup {NoTime}
    BY <1>8, FinishKeepsLife DEF Abort
  <2>2. UNCHANGED <<now, tokens, sessions, used, deadline>>
    BY <1>8 DEF Abort, Finish, storeVars
  <2> QED
    BY <1>0, <2>1, <2>2 DEF LifeInv, Live
<1>9. ASSUME NEW t \in tokens, Logout(t) PROVE LifeInv'
  <2>1. t.auth \in SessionId /\ deadline[t.auth] # NoTime
    BY <1>0, <1>9 DEF TypeOK, Token, LifeInv, DeadlineInv, TokenDeadline
  <2>2. /\ UNCHANGED <<now, tokens, exp, used, deadline>> /\ sessions'[t.auth] = NoSession
        /\ \A i \in SessionId \ {t.auth} : sessions'[i] = sessions[i]
    BY <1>0, <1>9, <2>1 DEF Logout, localVars, TypeOK
  <2>3. used \subseteq SessionId
    BY <1>0 DEF TypeOK
  <2> QED
    BY <1>0, <2>1, <2>2, <2>3 DEF LifeInv, Live
<1>10. ASSUME NEW u \in User, DeleteUser(u) PROVE LifeInv'
  BY <1>0, <1>10 DEF LifeInv, DeleteUser, localVars, historyVars, Live
<1>11. CASE Tick
  BY <1>0, <1>11, MaxTimeAssumption DEF LifeInv, TypeOK, Tick, localVars, historyVars, Live
<1>12. CASE UNCHANGED vars
  BY <1>0, <1>12 DEF LifeInv, vars, storeVars, localVars, historyVars, Live
<1> QED
  BY <1>1, <1>2, <1>3, <1>4, <1>5, <1>6, <1>7, <1>8, <1>9, <1>10, <1>11, <1>12
  DEF Next, Login, Refresh

-----------------------------------------------------------------------------
(* Every step is a step of SessionLifecycle or changes nothing it sees.     *)

Handed == {<<t.auth, t.exp>> : t \in tokens}

\* A step that neither opens nor revokes, fixes, loses or hands anything.
LEMMA Stutters ==
    ASSUME UNCHANGED <<tokens, used, deadline, slipped>>,
           \A s \in SessionId : Live(s)' <=> Live(s)
    PROVE  UNCHANGED Lifecycle!vars
<1>1. Phase' = Phase
  BY DEF Phase
<1> QED
  BY <1>1 DEF Lifecycle!vars

LEMMA InitImplements == Init => Lifecycle!Init
BY DEF Init, Lifecycle!Init, Phase

LEMMA CreateImplements ==
    ASSUME LifeInv, NEW r \in Request, NEW s \in SessionId, CreateEmptyAuth(r, s)
    PROVE  Lifecycle!Open(s)
<1>0. Typed
  BY DEF LifeInv, DeadlineInv
<1>1. /\ UNCHANGED <<tokens, deadline, slipped>> /\ used' = used \cup {s} /\ s \notin used
      /\ sessions'[s] = [user |-> who[r], exp |-> NoTime]
      /\ \A i \in SessionId \ {s} : sessions'[i] = sessions[i]
  BY <1>0 DEF CreateEmptyAuth, Typed, TypeOK
<1>2. sessions'[s] # NoSession
  BY <1>0, <1>1, NoSessionAssumption DEF Typed, LocalsInv, CreateEmptyAuth, Session, Expiry
<1>3. Phase[s] = "unused" /\ Phase' = [Phase EXCEPT ![s] = "open"]
  <2>1. \A i \in SessionId : Phase'[i] = [Phase EXCEPT ![s] = "open"][i]
    BY <1>1, <1>2 DEF Phase, Live
  <2> QED
    BY <1>1, <2>1 DEF Phase
<1> QED
  BY <1>1, <1>3 DEF Lifecycle!Open

LEMMA SetExpImplements ==
    ASSUME LifeInv, NEW r \in Request, SetExp(r)
    PROVE  [Lifecycle!Next]_Lifecycle!vars
<1> DEFINE s == auth[r]
<1>1. /\ UNCHANGED <<sessions, tokens, used, slipped>> /\ s \in SessionId /\ s \in used
      /\ deadline' = [deadline EXCEPT ![s] = IF @ = NoTime THEN SessionExp(r) ELSE @]
  BY NoAuthAssumption DEF SetExp, storeVars, LifeInv, DeadlineInv, Typed, TypeOK, LocalsInv, Holding
<1>2. Phase' = Phase
  BY <1>1 DEF Phase, Live
<1>3. CASE deadline[s] = NoTime
  <2>1. SessionExp(r) \in Ends
    BY SessionExpEnds
  <2>2. Phase[s] = "open"
    BY <1>1, <1>3 DEF LifeInv, Phase
  <2>3. Lifecycle!FixDeadline(s, SessionExp(r))
    BY <1>1, <1>2, <1>3, <2>2 DEF Lifecycle!FixDeadline
  <2> QED
    BY <1>1, <2>1, <2>3 DEF Lifecycle!Next, Ends
<1>4. CASE deadline[s] # NoTime
  <2>1. deadline' = deadline
    BY <1>1, <1>4 DEF LifeInv, DeadlineInv, Typed, TypeOK
  <2> QED
    BY <1>1, <1>2, <2>1 DEF Lifecycle!vars
<1> QED
  BY <1>3, <1>4

LEMMA StoreExpImplements ==
    ASSUME LifeInv, NEW r \in Request, StoreExp(r)
    PROVE  [Lifecycle!Next]_Lifecycle!vars
<1> DEFINE s == auth[r]
<1>1. UNCHANGED <<tokens, used, deadline>> /\ s \in SessionId /\ s \in used
  BY NoAuthAssumption DEF StoreExp, LifeInv, DeadlineInv, Typed, TypeOK, LocalsInv, Holding
<1>2. Phase' = Phase
  BY <1>1, StoreExpKeepsLife DEF Phase
<1>3. CASE slipped' = slipped
  BY <1>1, <1>2, <1>3 DEF Lifecycle!vars
<1>4. CASE slipped' # slipped
  <2>1. slipped' = slipped \cup {s} /\ Live(s)
    BY <1>4 DEF StoreExp, Updated
  <2>2. Phase[s] = "open"
    BY <1>1, <2>1 DEF Phase
  <2>3. Lifecycle!Lose(s)
    BY <1>1, <1>2, <2>1, <2>2 DEF Lifecycle!Lose
  <2> QED
    BY <1>1, <2>3 DEF Lifecycle!Next
<1> QED
  BY <1>3, <1>4

LEMMA IssueImplements ==
    ASSUME LifeInv, NEW r \in Request, IssueTokens(r)
    PROVE  [Lifecycle!Next]_Lifecycle!vars
<1> DEFINE s == auth[r]
           new == [auth |-> auth[r], user |-> who[r], exp |-> exp[r]]
<1>1. /\ UNCHANGED <<sessions, used, deadline, slipped>> /\ tokens' = tokens \cup {new}
      /\ s \in SessionId /\ deadline[s] # NoTime
  BY NoAuthAssumption
  DEF IssueTokens, Finish, LifeInv, DeadlineInv, Typed, TypeOK, LocalsInv, Holding, HeldFixed
<1>2. exp[r] \in Ends /\ (s \notin slipped => exp[r] = deadline[s])
  BY DEF IssueTokens, LifeInv, DeadlineInv, Typed, LocalsInv, HeldDeadline, Holding
<1>3. Phase' = Phase
  BY <1>1 DEF Phase, Live
<1>4. Handed' = Handed \cup {<<s, exp[r]>>}
  <2>1. new.auth = s /\ new.exp = exp[r]
    OBVIOUS
  <2> HIDE DEF new
  <2>2. \A p : p \in Handed' <=> p \in Handed \cup {<<s, exp[r]>>}
    BY <1>1, <2>1 DEF Handed
  <2> QED
    BY <2>2
<1>5. exp[r] \in IF s \in slipped THEN Ends ELSE {deadline[s]}
  BY <1>2
<1>6. ASSUME NEW i \in SessionId, i = s PROVE Lifecycle!Hand(i)
  BY <1>1, <1>3, <1>4, <1>5, <1>6 DEF Lifecycle!Hand, Handed, Ends
<1>7. \E i \in SessionId : Lifecycle!Hand(i)
  BY <1>1, <1>6
<1> QED
  BY <1>7 DEF Lifecycle!Next

LEMMA LogoutImplements ==
    ASSUME LifeInv, NEW t \in tokens, Logout(t)
    PROVE  [Lifecycle!Next]_Lifecycle!vars
<1> DEFINE s == t.auth
<1>1. /\ UNCHANGED <<tokens, used, deadline, slipped>>
      /\ s \in SessionId /\ s \in used /\ Live(s)
      /\ sessions' = [sessions EXCEPT ![s] = NoSession]
  BY DEF Logout, LifeInv, DeadlineInv, Typed, TypeOK, LiveInv, Token
<1>2. Phase[s] = "open" /\ Phase' = [Phase EXCEPT ![s] = "revoked"]
  <2>1. \A i \in SessionId : Phase'[i] = [Phase EXCEPT ![s] = "revoked"][i]
    BY <1>1 DEF Phase, Live, LifeInv, DeadlineInv, Typed, TypeOK
  <2> QED
    BY <1>1, <2>1 DEF Phase
<1>3. Lifecycle!Revoke(s)
  BY <1>1, <1>2 DEF Lifecycle!Revoke
<1> QED
  BY <1>1, <1>3 DEF Lifecycle!Next

LEMMA NextImplements == LifeInv /\ [Next]_vars => [Lifecycle!Next]_Lifecycle!vars
<1> SUFFICES ASSUME LifeInv, [Next]_vars PROVE [Lifecycle!Next]_Lifecycle!vars
  OBVIOUS
<1>1. ASSUME NEW r \in Request, NEW s \in SessionId, CreateEmptyAuth(r, s)
      PROVE  [Lifecycle!Next]_Lifecycle!vars
  BY <1>1, CreateImplements DEF Lifecycle!Next
<1>2. ASSUME NEW r \in Request, (\E u \in User : ValidatePassword(r, u)) \/ Refresh(r) \/ Abort(r)
      PROVE  UNCHANGED <<sessions, tokens, used, deadline, slipped>>
  BY <1>2 DEF ValidatePassword, Start, Refresh, FetchSession, ReadUser, Abort, Finish,
              storeVars, historyVars
<1>3. ASSUME NEW u \in User, DeleteUser(u) PROVE UNCHANGED <<sessions, tokens, used, deadline, slipped>>
  BY <1>3 DEF DeleteUser, historyVars
<1>4. CASE Tick
  BY <1>4, Stutters DEF Tick, historyVars, Live
<1>5. CASE UNCHANGED vars
  BY <1>5, Stutters DEF vars, storeVars, historyVars, Live
<1>6. UNCHANGED <<sessions, tokens, used, deadline, slipped>> => UNCHANGED Lifecycle!vars
  BY Stutters DEF Live
<1> QED
  BY <1>1, <1>2, <1>3, <1>4, <1>5, <1>6, SetExpImplements, StoreExpImplements, IssueImplements,
     LogoutImplements DEF Next, Login

\* AuthService: whatever its requests do beside one another, what clients see of the
\* sessions is what SessionLifecycle promises.
THEOREM Implements == Spec => ImplementsLifecycle
<1>1. LifeInv /\ [Next]_vars => [Lifecycle!Next]_Lifecycle!vars
  BY NextImplements
<1> QED
  BY <1>1, InitLife, NextLife, InitImplements, PTL DEF Spec, ImplementsLifecycle, Lifecycle!Spec
=============================================================================
