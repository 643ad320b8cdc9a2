------------------------------ MODULE Bootstrap ------------------------------
(***************************************************************************)
(* Starting up: seed_initial_admin, then on_application_bootstrap, in each *)
(* of the server's workers at once.  Both create the default administrator *)
(* when it is missing, the first within one SQL transaction, the second in *)
(* a SQL transaction that also writes a flag to MongoDB before it commits. *)
(* Either ends silently when a database call raises.                       *)
(*                                                                         *)
(* One action is one awaited call.  SQL is read committed: a select sees   *)
(* what is committed, an insert that meets an uncommitted row of the same  *)
(* key waits for its transaction and then fails if that was committed.     *)
(* Both administrators have one e-mail address, which is unique, so there  *)
(* is at most one of them.                                                 *)
(***************************************************************************)
EXTENDS Naturals

CONSTANTS
    Worker,         \* the processes gunicorn starts
    SeedName,       \* SERVER_DEFAULT_ADMIN_USERNAME
    DefaultName,    \* DEFAULT_ADMIN_USERNAME, which no setting defines: "admin"
    NoAdmin,
    DocId,          \* the values of `_id` in the Mongo collection settings
    MaxTroubles     \* bound: failed calls, crashes and deletions of the administrator

ASSUME NoAdminAssumption == NoAdmin \notin {SeedName, DefaultName}
ASSUME MaxTroublesAssumption == MaxTroubles \in Nat

VARIABLES
    tables,         \* the SQL tables exist
    admin,          \* committed: the administrator, by name
    role,           \* committed: the role SUPERADMIN exists
    flagDocs,       \* the INIT_DATA documents; each says isAdminCreated
    pc,             \* where each worker stands
    pendingRole,    \* workers with an uncommitted SUPERADMIN
    pendingAdmin,   \* workers with an uncommitted administrator
    troubles        \* counts failed calls, crashes and deletions, for MaxTroubles

sqlVars == <<tables, admin, role>>
txVars == <<pendingRole, pendingAdmin>>
bootVars == <<sqlVars, flagDocs, pc, txVars, troubles>>

SeedPcs == {"checkTables", "makeTables", "selectAdmin", "selectRole", "insertRole", "insertAdmin"}
BootPcs == {"findFlag", "selectDefault", "insertDefault", "matchFlag", "insertFlag", "commit"}

Goto(w, label) == pc' = [pc EXCEPT ![w] = label]

\* The transaction of w ends; its uncommitted rows are gone.
EndTx(w) == pendingRole' = pendingRole \ {w} /\ pendingAdmin' = pendingAdmin \ {w}

\* No other transaction makes an insert of this key wait.
Free(w, pending) == pending \subseteq {w}

-----------------------------------------------------------------------------
(***************************************************************************)
(* seed_initial_admin.                                                     *)
(***************************************************************************)
Start(w) ==
    /\ pc[w] = "down"
    /\ Goto(w, "checkTables")
    /\ UNCHANGED <<sqlVars, flagDocs, txVars, troubles>>

\* create_all looks which tables are missing, then creates them: a worker that was
\* too late fails, and skips the seed.
CreateAll(w) ==
    /\ \/ pc[w] = "checkTables" /\ Goto(w, IF tables THEN "selectAdmin" ELSE "makeTables")
       \/ pc[w] = "makeTables" /\ Goto(w, IF tables THEN "findFlag" ELSE "selectAdmin")
    /\ tables' = (tables \/ pc[w] = "makeTables")
    /\ UNCHANGED <<admin, role, flagDocs, txVars, troubles>>

\* A mutated form: the seed trusts the flag of the bootstrap.
SeedFoundFlagged == admin = SeedName \/ flagDocs # {}
SeedFound == admin = SeedName

SelectAdmin(w) ==
    /\ pc[w] = "selectAdmin"
    /\ Goto(w, IF SeedFound THEN "findFlag" ELSE "selectRole")
    /\ UNCHANGED <<sqlVars, flagDocs, txVars, troubles>>

SelectRole(w) ==
    /\ pc[w] = "selectRole"
    /\ Goto(w, IF role THEN "insertAdmin" ELSE "insertRole")
    /\ UNCHANGED <<sqlVars, flagDocs, txVars, troubles>>

InsertRole(w) ==
    /\ pc[w] = "insertRole"
    /\ Free(w, pendingRole)
    /\ IF role THEN Goto(w, "findFlag") /\ EndTx(w)
       ELSE /\ Goto(w, "insertAdmin")
            /\ pendingRole' = pendingRole \cup {w}
            /\ UNCHANGED pendingAdmin
    /\ UNCHANGED <<sqlVars, flagDocs, troubles>>

\* The commit flushes the insert first; when that fails all of it is rolled back.  Between
\* the two others see nothing of it and wait for the key, so this is one step.  A commit
\* that was carried out and raises leaves the worker where one that returns does: the
\* seed goes on to the bootstrap and the bootstrap to serving.
InsertAdmin(w) ==
    /\ pc[w] = "insertAdmin"
    /\ Free(w, pendingAdmin)
    /\ admin' = IF admin = NoAdmin THEN SeedName ELSE admin
    /\ role' = (role \/ (admin = NoAdmin /\ w \in pendingRole))
    /\ Goto(w, "findFlag")
    /\ EndTx(w)
    /\ UNCHANGED <<tables, flagDocs, troubles>>

-----------------------------------------------------------------------------
(***************************************************************************)
(* on_application_bootstrap, and the commit of lifespan.                   *)
(***************************************************************************)
FindFlag(w) ==
    /\ pc[w] = "findFlag"
    /\ Goto(w, IF flagDocs # {} THEN "serving" ELSE "selectDefault")
    /\ UNCHANGED <<sqlVars, flagDocs, txVars, troubles>>

SelectDefault(w) ==
    /\ pc[w] = "selectDefault"
    /\ Goto(w, IF admin = DefaultName THEN "matchFlag" ELSE "insertDefault")
    /\ UNCHANGED <<sqlVars, flagDocs, txVars, troubles>>

\* When the insert fails the exception leaves the whole bootstrap; lifespan logs it.
InsertDefault(w) ==
    /\ pc[w] = "insertDefault"
    /\ Free(w, pendingAdmin)
    /\ IF admin # NoAdmin THEN Goto(w, "serving") /\ EndTx(w)
       ELSE /\ Goto(w, "matchFlag")
            /\ pendingAdmin' = pendingAdmin \cup {w}
            /\ UNCHANGED pendingRole
    /\ UNCHANGED <<sqlVars, flagDocs, troubles>>

FlagMatched == flagDocs # {}

\* The upsert of the flag, first half: what it matches gets the value it has.
MatchFlag(w) ==
    /\ pc[w] = "matchFlag"
    /\ Goto(w, IF FlagMatched THEN "commit" ELSE "insertFlag")
    /\ UNCHANGED <<sqlVars, flagDocs, txVars, troubles>>

InsertFlag(w) ==
    /\ pc[w] = "insertFlag"
    /\ \E d \in DocId \ flagDocs : flagDocs' = flagDocs \cup {d}
    /\ Goto(w, "commit")
    /\ UNCHANGED <<sqlVars, txVars, troubles>>

\* A mutated form: lifespan closes the session without db.commit().
CommittedNothing(w) == admin
CommittedBy(w) == IF w \in pendingAdmin THEN DefaultName ELSE admin

CommitBoot(w) ==
    /\ pc[w] = "commit"
    /\ admin' = CommittedBy(w)
    /\ Goto(w, "serving")
    /\ EndTx(w)
    /\ UNCHANGED <<tables, role, flagDocs, troubles>>

-----------------------------------------------------------------------------
Trouble == troubles < MaxTroubles /\ troubles' = troubles + 1

\* A database call raises: the seed is left for the bootstrap, the bootstrap for
\* serving, and what was not committed is rolled back.
CallFails(w) ==
    /\ Trouble
    /\ pc[w] \in SeedPcs \cup BootPcs
    /\ Goto(w, IF pc[w] \in SeedPcs THEN "findFlag" ELSE "serving")
    /\ EndTx(w)
    /\ UNCHANGED <<sqlVars, flagDocs>>

Crash(w) ==
    /\ Trouble
    /\ pc[w] # "down"
    /\ Goto(w, "down")
    /\ EndTx(w)
    /\ UNCHANGED <<sqlVars, flagDocs>>

\* delete_user, by a worker that serves.
DeleteAdmin ==
    /\ Trouble
    /\ admin # NoAdmin
    /\ \E w \in Worker : pc[w] = "serving"
    /\ admin' = NoAdmin
    /\ UNCHANGED <<tables, role, flagDocs, pc, txVars>>

BootInit ==
    /\ tables = FALSE
    /\ admin = NoAdmin
    /\ role = FALSE
    /\ flagDocs = {}
    /\ pc = [w \in Worker |-> "down"]
    /\ pendingRole = {}
    /\ pendingAdmin = {}
    /\ troubles = 0

Seed(w) == CreateAll(w) \/ SelectAdmin(w) \/ SelectRole(w) \/ InsertRole(w) \/ InsertAdmin(w)
Boot(w) ==
    \/ FindFlag(w) \/ SelectDefault(w) \/ InsertDefault(w)
    \/ MatchFlag(w) \/ InsertFlag(w) \/ CommitBoot(w)
StartUp(w) == Start(w) \/ Seed(w) \/ Boot(w)

BootNext ==
    \/ \E w \in Worker : StartUp(w) \/ CallFails(w) \/ Crash(w)
    \/ DeleteAdmin

BootSpec == BootInit /\ [][BootNext]_bootVars

\* gunicorn restarts its workers and the container engine restarts gunicorn; an
\* awaited call returns or raises.
Fairness == \A w \in Worker : WF_bootVars(StartUp(w))

FairBootSpec == BootSpec /\ Fairness

-----------------------------------------------------------------------------
\* A transaction is only open at the stages that may hold one.
BootTypeOK ==
    /\ tables \in BOOLEAN
    /\ admin \in {NoAdmin, SeedName, DefaultName}
    /\ role \in BOOLEAN
    /\ flagDocs \in SUBSET DocId
    /\ pc \in [Worker -> SeedPcs \cup BootPcs \cup {"down", "serving"}]
    /\ pendingRole \in SUBSET {w \in Worker : pc[w] = "insertAdmin"}
    /\ pendingAdmin \in SUBSET {w \in Worker : pc[w] \in {"matchFlag", "insertFlag", "commit"}}
    /\ troubles \in 0..MaxTroubles

\* Unless a call fails, a process dies or the administrator is deleted, a worker
\* serves requests only when the administrator is there or in the hands of a worker
\* that only has the commit of it left, whatever conflicts the workers ran into.
ServingHasAdmin ==
    (troubles = 0 /\ \E w \in Worker : pc[w] = "serving")
        => admin # NoAdmin \/ pendingAdmin # {}

\* A start after the last trouble repairs what earlier starts left behind, such as the
\* flag of an administrator that was never committed or was deleted since.
RestartRepairs ==
    \A w \in Worker : (pc[w] = "down" /\ troubles = MaxTroubles) ~> admin # NoAdmin
=============================================================================
