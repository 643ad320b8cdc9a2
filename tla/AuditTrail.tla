------------------------------ MODULE AuditTrail ------------------------------
(***************************************************************************)
(* AuditLogMiddleware inside DataPartitionMiddleware, the ContextVars they *)
(* and get_current_user share, and clear_old_logs.                         *)
(*                                                                         *)
(* A BaseHTTPMiddleware runs what it wraps in a task of its own, and a new *)
(* task starts with a copy of the context of the task that made it: what a *)
(* middleware sets is seen further in, never further out.                  *)
(***************************************************************************)
EXTENDS Integers

CONSTANTS
    Request,        \* HTTP requests, concurrent
    Partition,      \* values of x-data-partition-code
    User,
    Unset,          \* no header, no user
    Horizon         \* bounds the clock, in years

ASSUME HorizonAssumption == Horizon \in Nat
ASSUME UnsetAssumption == Unset \notin Partition \cup User

VARIABLES
    now,
    req,            \* each request: where it stands, what it carries, its status
    ctx,            \* the context of each task
    entries         \* the collection audit_logs

vars == <<now, req, ctx, entries>>

NoTime == -1
Task == {"outer", "audit", "handler"} \X Request
Context == [partition : Partition \cup {Unset}, user : User \cup {Unset}]
Empty == [partition |-> Unset, user |-> Unset]

Status == {"ok", "refused", "error"}

At(q, label) == req[q].pc = label
Audited(q) == req[q].authorized /\ ~ req[q].skipped

-----------------------------------------------------------------------------
\* A mutated form: a global of the process instead of a ContextVar.
SetInProcess(t, c) == ctx' = [u \in Task |-> c]
SetIn(t, c) == ctx' = [ctx EXCEPT ![t] = c]

\* DataPartitionMiddleware.dispatch up to call_next; a missing header is set too.
Arrive(q) ==
    /\ At(q, "idle")
    /\ \E p \in Partition \cup {Unset}, a, s \in BOOLEAN :
        /\ req' = [req EXCEPT ![q].pc = "enter", ![q].partition = p,
                              ![q].authorized = a, ![q].skipped = s]
        /\ SetIn(<<"outer", q>>, [ctx[<<"outer", q>>] EXCEPT !.partition = p])
    /\ UNCHANGED <<now, entries>>

Enter(q) ==
    /\ At(q, "enter")
    /\ SetIn(<<"audit", q>>, ctx[<<"outer", q>>])
    /\ req' = [req EXCEPT ![q].pc = "call"]
    /\ UNCHANGED <<now, entries>>

CallNext(q) ==
    /\ At(q, "call")
    /\ SetIn(<<"handler", q>>, ctx[<<"audit", q>>])
    /\ req' = [req EXCEPT ![q].pc = "handle"]
    /\ UNCHANGED <<now, entries>>

\* get_current_user accepted the token.
Authenticate(q) ==
    /\ At(q, "handle")
    /\ req[q].authorized
    /\ req[q].user = Unset
    /\ \E u \in User :
        /\ req' = [req EXCEPT ![q].user = u]
        /\ SetIn(<<"handler", q>>, [ctx[<<"handler", q>>] EXCEPT !.user = u])
    /\ UNCHANGED <<now, entries>>

\* The response of the route, or the exception it raised, which counts as 500.
Handle(q) ==
    /\ At(q, "handle")
    /\ \E s \in Status :
        req' = [req EXCEPT ![q].status = s, ![q].pc = IF Audited(q) THEN "log" ELSE "answer"]
    /\ UNCHANGED <<now, ctx, entries>>

\* A mutated form: the status the variable is initialised with.
LoggedStatusInitial(q) == "error"
LoggedStatus(q) == req[q].status

\* log_action, from the finally of the middleware.
NewEntry(q) ==
    [request |-> q, status |-> LoggedStatus(q), timestamp |-> now, createdAt |-> NoTime,
     partition |-> ctx[<<"audit", q>>].partition, user |-> ctx[<<"audit", q>>].user]

Log(q) ==
    /\ At(q, "log")
    /\ entries' = entries \cup {NewEntry(q)}
    /\ req' = [req EXCEPT ![q].pc = "answer"]
    /\ UNCHANGED <<now, ctx>>

AfterFailedLog(q) == [req EXCEPT ![q].pc = "answer"]

LogFails(q) ==
    /\ At(q, "log")
    /\ req' = AfterFailedLog(q)
    /\ UNCHANGED <<now, ctx, entries>>

Answer(q) ==
    /\ At(q, "answer")
    /\ req' = [req EXCEPT ![q].pc = "done", ![q].answer = req[q].status]
    /\ UNCHANGED <<now, ctx, entries>>

\* The client goes away or the worker dies.
Lose(q) ==
    /\ req[q].pc \notin {"idle", "done", "lost"}
    /\ req' = [req EXCEPT ![q].pc = "lost"]
    /\ UNCHANGED <<now, ctx, entries>>

-----------------------------------------------------------------------------
\* What delete_many matches: a document without the field is not compared.
Expired(e, cutoff) == e.createdAt # NoTime /\ e.createdAt <= cutoff

\* clear_old_logs: 2 years from the Celery beat, 4 from DELETE /audit-log/expired.
ClearOldLogs(years) ==
    /\ entries' = {e \in entries : ~ Expired(e, now - years)}
    /\ UNCHANGED <<now, req, ctx>>

Tick ==
    /\ now < Horizon
    /\ now' = now + 1
    /\ UNCHANGED <<req, ctx, entries>>

Init ==
    /\ now = 0
    /\ req = [q \in Request |->
                [pc |-> "idle", partition |-> Unset, authorized |-> FALSE, skipped |-> FALSE,
                 user |-> Unset, status |-> "none", answer |-> "none"]]
    /\ ctx = [t \in Task |-> Empty]
    /\ entries = {}

Serve(q) ==
    \/ Arrive(q) \/ Enter(q) \/ CallNext(q) \/ Authenticate(q)
    \/ Handle(q) \/ Log(q) \/ LogFails(q) \/ Answer(q)

Next ==
    \/ \E q \in Request : Serve(q) \/ Lose(q)
    \/ \E years \in {2, 4} : ClearOldLogs(years)
    \/ Tick

Spec == Init /\ [][Next]_vars

-----------------------------------------------------------------------------
\* An entry belongs to a request that carried an Authorization header to an audited
\* path, and it is written once the request has a status.
TypeOK ==
    /\ now \in 0..Horizon
    /\ ctx \in [Task -> Context]
    /\ \A q \in Request :
        /\ req[q].pc \in {"idle", "enter", "call", "handle", "log", "answer", "done", "lost"}
        /\ req[q].status \in Status \cup {"none"} /\ req[q].answer \in Status \cup {"none"}
        /\ req[q].partition \in Partition \cup {Unset} /\ req[q].user \in User \cup {Unset}
    /\ \A e \in entries : LET r == req[e.request]
                          IN r.authorized /\ ~ r.skipped /\ e.status \in Status

\* However requests interleave, an entry has the partition of its own request's header
\* and the status its own request ended with, and a request has one entry at most.
EntryIsOfItsRequest ==
    /\ \A e \in entries : LET r == req[e.request]
                          IN e.partition = r.partition /\ e.status = r.status
    /\ \A d, e \in entries : d.request = e.request => d = e

\* A route never sees the partition of another request, nor a user of another.
ContextIsOwn ==
    \A q \in Request : At(q, "handle") =>
        ctx[<<"handler", q>>] = [partition |-> req[q].partition, user |-> req[q].user]
=============================================================================
