# Verification of the AISoft backend

TLA+ models of `src/app`, a FastAPI server (four gunicorn workers, `Dockerfile`)
over MongoDB, PostgreSQL, Redis and MinIO, with the TLC runs that check them and
the TLAPS proofs about them. `PROJECT.json` maps every definition to the lines it
models, and lists the runs, the mutants that show each property can fail, the
hazards and the finding.

Paths below are relative to `src/app`.

## The system

One request is one coroutine in one worker. Between two `await`s a coroutine runs
alone in its process, but the stores are shared by all workers, so every awaited
call is a point where anything may have changed. There are no locks, no Mongo
transactions, and Mongo has no unique index but `_id`. SQL runs read committed with
the unique columns of `auth/models.py` and `setting/models.py`. Almost every hazard of this
code is therefore a read, an await, and a write that relies on the read.

| Part | State it keeps | Operations | What makes it correct |
|---|---|---|---|
| Generic repository and router (`common/base_framework`) | any Mongo collection; each record's `dataPartitionCode` | CRUD by id, by list, by condition; upsert; import | a request reads and writes what its scope admits, all of it, and reaches what it created |
| Import of rows (`base_import_service.py`, its subclasses) | the same collections | `insert_import` in modes CREATE, UPDATE, UPSERT | keys stay unique, the report says what was stored, a document goes to another partition only where its row says so |
| Partition tree (`modules/data_partition`) | `data_partitions` | `get_subtree`, `get_root_path` and edits | walks are sound, complete and end, whatever is edited meanwhile |
| Partition users (`modules/data_partition`) | `data_partition_users` | `sync_bulk` and the route of the same name on `user/dataPartition` | a full synchronisation that runs alone leaves exactly what it was given; a key is linked once, and never more often than requests were in progress |
| Authentication (`modules/auth`) | `auth_sessions`, SQL `users` | login, refresh, logout, deletion of a user | one deadline per session; nothing is handed out after logout or deletion |
| Users and single sign-on (`modules/user`, `modules/sso`, `modules/auth/dependencies.py`) | SQL `users` with its unique columns, Keycloak's key set in Redis | create, update, delete; the first login of a person; verification of a token | one user for a name and for a person, whoever else is at it; no token is checked against a key set that is long replaced |
| Bootstrap (`core/database.py`, `modules/user/service.py`) | tables, administrator, flag document | the start of each worker | a serving worker has an administrator; a restart repairs |
| Context and audit trail (`core/context.py`, `common/middleware.py`, `modules/audit_log`) | ContextVars, `audit_logs` | the two middlewares, `log_action`, `clear_old_logs` | entries are of their own request; the answer never depends on the trail |
| Survey answers (`modules/khao_sat`) | answers and training score sheets | submitting and saving | no duplicates; the sheet follows the answer, or does so again after the next submission |
| File store (`modules/file`) | `files`, the bucket, the setting | upload, update, read, delete, migration | a file reads as what was last stored |
| Topics (`modules/topic`) | `user_topics` | subscribe, unsubscribe | the limit; one subscription per topic, and no more duplicates than requests in progress |
| Data processing (`modules/data_process`) | every collection and table | `replace-domain` for Mongo and for SQL | nothing left out, no edit lost |
| Code numbers (`modules/quy_tac_ma`) | Redis counters with a time to live | `generate_code`, `get_ma` | a dated code twice only to different partitions or entities, or after its key was set |
| Increments (`modules/increment`) | a counter in Redis, another in Mongo it falls back to | `get_next_increment`, `reset_increment` | a store gives no number twice between two settings; a reset starts anew |
| Cron manager (`modules/cron_manager`) | the leader's key in Redis, records of jobs | `is_cron_leader` | one leader at a time |
| Internal HTTP (`modules/internal_http`) | the cached access token of each worker | `_get_access_token` | a token that is sent still holds when it is sent |
| Settings, notifications, import sessions, consumers | see "Not modelled" | | |

How they interact: the middleware puts the partition header into a ContextVar, which
the repository, the code numbers and the audit trail read; the repository asks the
partition tree for the codes of its scope; deleting a user (SQL) leaves its sessions
(Mongo), which refresh must then refuse; a submitted answer is carried over to a second
collection; the file service reads the setting FILE_STORAGE from MongoDB, while the
settings module writes SQL.

## Modules

Each component has a module with one action per awaited call (the call together with
the code up to the next one), named after the function. The `MC` modules add symmetry and
bounds for TLC, and four of them compose components (below). The two modules with a
liveness property have none: they are run without symmetry. An aborted request (the call raises, the client goes, the worker is
killed) is an action of its own. Variables marked "history" in a
module take no part in any guard, except that a new identifier is one that was never used.

| Module | Models | State and actions against the code |
|---|---|---|
| `PartitionTree` | `data_partition/service.py:17-55` | `partitions` is the collection, a multigraph; a walk is `StartSubtree`/`ExpandLevel` or `StartRootPath`/`ClimbParent`, one query per step; edits come between |
| `ScopedStore` | what the generic router promises of a collection | abstract: an operation takes effect in one step, on the records it asks for in one set of partitions, its reach, and a list or a bulk write one record after the other (`List`, `OperateItem`, `InsertItem`); no tree, no walk, no condition. The reach lies between two bounds that drift apart while a request is under way |
| `PartitionedRepository` | `base_repository.py`, `base_service.py`, `base_controller_factory.py` | extends `PartitionTree`, whose walkers are its requests; `Issue` evaluates the scope, `WalkOn` walks, then one action per operation of the repository; lists come from a cursor and `update_many`, `delete_many` and imports go document by document, so those operations are several steps; `NoItems` is the answer to an empty list |
| `SessionLifecycle` | what a session promises | abstract: opened once, one deadline, revoked for good; a session may lose its deadline, and only then hand out another |
| `AuthSessions` | `auth/service.py`, `models_mongo.py`, the user deletion of `user/router.py` | login and refresh step by step, the clock, swallowed writes |
| `Bootstrap` | `core/database.py`, `user/service.py`, `main.py` | each worker's two creations of the administrator in their transactions |
| `SurveyAnswers` | `khao_sat/service.py:53-164` | check, write, match of the sheet, upsert of the sheet |
| `FileStore` | `file/service.py`, `file/models.py` | documents and bucket; requests read, put, write in separate steps |
| `Topics` | `topic/service.py`, `topic/router.py` | find, find, count, insert |
| `DomainReplacement` | `data_process/service.py` (Mongo) | cursor over each collection, bulk of paths, write |
| `AuditTrail` | `middleware.py`, `context.py`, `audit_log/service.py` | a context per task, copied when a task starts |
| `ImportRows` | `base_import_service.py` and its subclasses | check, find, update or create, row by row; a row has a key column and a `dataPartitionCode`, or not; hooks and the scope of the service's repository are choices of each import |
| `CodeNumbers` | `quy_tac_ma/service.py` | INCR and EXPIRE as two steps, keys that end, requests that are late; what the routes of the increments do to the same keys (`TakenByIncrement`, `SetByIncrement`) |
| `Increments` | `increment/service.py` | `value` of the Redis key and `sequence` of the Mongo document; a call asks Redis and, when that raises, Mongo; a reset sets one store after the other; every call that raises was carried out or not |
| `CronLeader` | `cron_manager/service.py:40` | SET NX EX as one step; the job outlives the key or not |
| `Accounts` | `user/router.py:138-200`, `sso/service.py` (`init_user`), `core/database.py` (`get_db_session`) | one transaction for each request: select, flush (waiting for uncommitted rows with the same unique columns), commit; the answer before or after the commit |
| `UserTable` | what the table `users` promises to those who are told of its rows | abstract: changes take effect at once; an answer before the commit is a promise that holds the user's columns until it is kept or broken |
| `SsoCerts` | `sso/service.py` (`get_certs`) | Redis key with a time to live, fetch and SET in separate steps, rotation in Keycloak |
| `TokenCache` | `internal_http/service.py:109-174` | coroutines of one worker share the token and its expiry; the question, the issue of the token and the reading of the answer are separate |
| `PartitionUsers` | both synchronising routes of `data_partition` | one upsert per key, its search and its insert apart, then the sweep of a full synchronisation |
| `SqlReplacement` | `data_process/service.py` (SQL) | pages by OFFSET over a table whose primary key is `_id`, in one transaction, while others commit |

### Compositions

`PartitionedRepository` extends `PartitionTree` by the requests that walk it: the repository's condition is what the walk returned while
the tree was edited. It instantiates `ScopedStore` (`ImplementsStore`) with the bounds of a request taken from the history of its walk:
at most what an edge ever seen leads to (`MayReach`), at least what edges seen all along lead to (`MustReach`): under
SUBTREE every chain of them, under ROOT_PATH the chain of parents that were each the only one all along. Queries of a walk are
stutters, edits of the tree are `Drift`, and each operation is one atomic step; of a bulk update, a bulk delete and an import
each item is, and of a list each record.
`AuthSessions` instantiates `SessionLifecycle`, `Accounts` instantiates `UserTable` (the promised users are the flushed inserts that are
answered and not committed; a transaction takes effect at its commit and what comes before is a stutter).
Four `MC` modules run components side by side that meet in one part of the server:

| Run | Components | Meeting place |
|---|---|---|
| `CodeNumbers` | `CodeNumbers`, `Increments`, `CronLeader` | Redis |
| `AuditTrail` | `AuditTrail`, `Accounts`, `TokenCache`, `SsoCerts` | one request: its context, its transaction, the token it verifies and the one it sends |
| `DomainReplacement` | `DomainReplacement`, `SqlReplacement` | one call of `replace-domain` on each kind of store |
| `ImportRows` | `ImportRows`, `PartitionUsers` | what is handed over in bulk |

`CodeNumbers` and `Increments` write one Redis key space, `seq:`. A name that codes are numbered by belongs to
`CodeNumbers`, with everything the routes of the increments do to it; the other names belong to `Increments`.

These components share no variable, so what one does cannot depend on how far another is. Each
therefore moves while the others are in one of their initial states: every behaviour of each is a behaviour of the run, and
the product of their state spaces is not built.

## Runs

Each run but the one named "violation" finishes with no error. Every property has a mutant:
the mapped definition replaced by a plausible bug, under which the run must find the property violated.

| Run | Bounds | Shows |
|---|---|---|
| `PartitionTree` | 3 codes, 3 documents, 1 walk, 1 edit | no edit makes a walk unsound or incomplete, and walks end also on cycles; 3 codes allow cycles, chains and second parents, and every collection is an initial state |
| `PartitionedRepository` | 2 codes, 2 partitions, 1 record, 2 requests, 1 edit of the tree | every operation, or item of one, implements the atomic one of `ScopedStore`; scopes are sound and complete, records reach their creator |
| `AuthSessions` | 2 requests, 2 sessions, one user, clock to 2, writes may be swallowed | one deadline, nothing after logout or deletion; implements `SessionLifecycle` |
| `SurveyAnswers` | 2 submissions of two roles, modes and statuses | duplicates need an overlap; a student has one sheet and it follows the answer; where a submission was cut off or crossed another, the next one alone repairs it |
| `SurveyAnswers_duplicate` (violation) | the same | the check of duplicates does not prevent them |
| `Bootstrap` | 3 workers, 2 troubles | a serving worker has an administrator; a start after the last trouble repairs |
| `FileStore` | 3 requests on a file, 2 contents, 2 objects | content is kept unless a document was overwritten from an old copy, downloads are current |
| `Topics` | 3 requests, 2 topics, limit 2 | the limit is overshot by less than the requests in progress; one subscription per topic, after an overlap at most one for each request |
| `DomainReplacement` | 2 runs, 2 collections of 2 documents, 2 edits; 4 rows in pages of 2 | what was left alone is complete, edits survive; no row that stays is skipped by the pages |
| `AuditTrail` | 2 requests, 2 partitions, 2 users; 2 ids of users, 2 requests, 2 names, a person who may be renamed; 2 coroutines, tokens of 3 steps, margin 1, latency 2; 2 verifications, key sets of 2 steps, 2 rotations | entries are of their requests, contexts are not mixed; `Accounts` implements `UserTable`, one user for a person; tokens that are sent hold, key sets are recent |
| `ImportRows` | 2 imports of up to 2 rows, 2 keys, 2 partitions, the scopes NODE and SUBTREE; 2 synchronisations of 3 keys, 1 group | keys and reports, partitions change as rows and header say; exact synchronisations, one link for a key, after an overlap at most one for each request |
| `CodeNumbers` | 2 requests, days of 2 steps, keys of 4 and 3, two days and the first moment of a third, one reset of a day's key; 3 callers of a counter, 2 failures; 3 servers, a lease of 2 | between two settings of its key a partition and entity gets no dated code twice, across midnight and the end of keys; ends of keys that nobody sets stay; numbers of a store are distinct, resets start anew; leaders overlap only after an overrun |

The type invariant of every module is a theorem and no run repeats it. That no list of codes ends up as the partition of a record,
part of the type of `PartitionedRepository`, is checked with `ImplementsStore`: `ScopedStore` creates no such record.

Why the bounds are enough: the hazards are overlaps of two or three requests on one key.
The instances have as many documents as those requests can create and one more where a
correct bound would stop them, so that a wrong one shows. Clocks run past the point where
everything that can expire has.

`PartitionedRepository` is the largest: it has every operation, every scope, every tree
and every collection. Its run looks at the overlaps that can matter (`OverlapsOfInterest`, an action
constraint, in `InstanceSpec`): the tree changes while a request walks or holds the codes of its walk, and a
second request comes while the first holds them. That second request creates, updates or deletes one record
without a header, because what it then does to the record includes what a request with a header could do. The theorems have
no such restriction. Two walks at once need no instance: a walk changes nothing that another one reads. The view forgets
how a request that is over was answered. With one record a bulk operation has one item; that others come between two
items is left to the theorems, and to the refinement, in which each item is a step of its own.

`ImportRows` leaves out choices that make no difference (`ChoicesOfInterest`): a scope without a header, partitions in rows
that are never written. `MCSheets` has a row without a key, and one key twice, the first time with a partition to move to or
without; GLOBAL would do what no header does, and ROOT_PATH what SUBTREE does. In `CodeNumbers` the increments touch the key of the first day only, while a
request of that day is under way, and no more once they have set it (`MeddlingOfInterest`).

Named bounds: `MaxEdits` (edits of the tree), `MaxTime`, `Horizon`, `CronHorizon`, `TokenHorizon`,
`CertsHorizon` (clocks), `MaxTroubles` and `MaxFailures` (failures and restarts), `MaxNumber` and
`MaxSeq` (counters), `MaxSettings` (resets of a key of codes), `MaxAccounts` (ids), `MaxRenamings` and `MaxRotations` (changes in Keycloak).
`PageSize` and `MaxTopicSubscription` are parameters of the code with a small value.

### Fairness

Only the runs `PartitionTree` (`WalkTerminates`) and `Bootstrap` (`RestartRepairs`) use fairness: weak
fairness of the steps of a coroutine that is waiting for a database. It stands for an event loop that
resumes every coroutine whose call is answered, drivers that answer or raise, and workers that
are restarted (`restart: unless-stopped` in `docker-compose.yml`, gunicorn's master).
Edits of the tree, arrivals of requests, failures and the clock are never fair.

## Proofs

TLAPS proves for every value of the constants that satisfies the named assumptions:

* `PartitionTreeProofs`: `TypeCorrect`, `SubtreeIsSound`, `SubtreeIsComplete`,
  `RootPathIsSound`, `RootPathIsComplete`. The properties compare a walk with the
  edges seen ever and seen all along, which alone are not inductive: `WalkInv` adds that what was seen and
  is not in the frontier has had its lasting children added, and that what was
  seen is joined to the root by edges recorded so far. Built on it, about
  `PartitionedRepository`: `RepoTypeCorrect`, `ScopeIsSound`, `ScopeIsComplete`, `CreatorAlwaysReaches`.
  `RequestInv` ties a request whose condition needs a walk to the walk made for its header, so that the codes
  of its condition lie between what stood all along, under ROOT_PATH the climb of sole parents, and what was ever seen (`CodesBetween`);
  `CreatorInv` says that a record nobody moved has the code of its creator's header.
  `RepositoryImplementsStore` is the refinement of `ScopedStore`. `ReachInv` shows that the two bounds of every request keep the
  form the abstract store asks of them and only drift apart under an edit (`ReachKept`); the set of partitions an operation is
  atomic on is what its condition admits (`Admitted`), which `AdmittedReached` places between the bounds, and from there one
  lemma for each operation compares what the code finds and writes with `Hits`, `Picks` and `Effects`.
  `StoreInv` adds what the steps rely on: a request that is not under way asks for nothing, and an item of an import is asked for once.
  `WalksAreBounded`, over finitely many codes: each query ends the walk or leaves fewer codes unseen (`WalkRank`), edits
  and the other requests touch nothing of it, so that no cycle keeps a walk going.
* `AuthSessionsProofs`: `TypeCorrect`, `RefreshNeverProlongs`, `LogoutIsFinal`,
  `DeletionIsFinal`, `Implements`. `DeadlineInv` follows the expiry through the requests that hold it
  between reading the clock and issuing tokens; `LateInv` says that a request which
  started after a logout or deletion can find nothing to hold. `Implements` is the refinement of
  `SessionLifecycle`, with no assumption on how requests overlap; its `LifeInv` ties what a request
  holds to what the abstract session has handed out, and each action is a step of the life cycle or a stutter.
* `TopicsProofs`: `TypeCorrect`, `OvershootCorrect`, `OneSubscriptionCorrect`. `LimitInv`
  counts the requests that have counted and not yet inserted as if they had inserted;
  `AloneInv` says that for a topic no two requests overlapped on there is either a
  subscription or one late request. `FewInv` counts the documents of a topic with the requests that did not
  find one: together they are never more than the requests in progress, because while there is a document every
  newcomer finds it.
* `RedisProofs`: `TypeCorrect`, `DatedCodesCorrect`, `EndCorrect` about `CodeNumbers`, with any counting and setting
  of its keys by others. `ReqInv` places the arrival of a request within the day of its key, `LifeInv` lets no
  dated key end before two days from the start of its day, so a held key is open; `IssuedInv` says that an open key has
  counted all it gave out since it was last set (`Counts`), `PendingInv` that the first number of a setting has
  one taker (`Alone`), and with `PresentInv` `FirstInv` says of a key never set that it has no end until that taker gives it one.
  The assumption is `AgeAssumption`: a request is over within the second day.
  Then `IncTypeCorrect`, `StoreCorrect`, `ResetCorrect` about `Increments`, `CronTypeCorrect`,
  `LeaderCorrect` about `CronLeader`. Numbers given are at most the counter, so the next one is new; every call that raises, carried out or not, is one of
  the cases of `Unheard` (`RaisesUnheard`). `ResetInv` follows a
  reset from its arrival: while it is `alone` no other call is on its key, and after it (`anew`)
  the numbers given are those from its value to each store's counter. `LeaderInv` lets the key live no
  longer than the lease from its setting.
* `CallerProofs`: `TokenTypeCorrect`, `TokenCorrect` (`TokenInv`: the cached end is later than
  the true one by at most the latency, whichever answer wrote it last), `CertsTypeCorrect`, `CertsCorrect`
  (`CertsInv`: a set that was fetched or is stored is as old as its fetch and its key allow),
  `AuditTypeCorrect`, `AuditCorrect`, `ContextCorrect` (`AuditInv`: which of the three contexts of a request
  hold what at each of its stages), and about the accounts `AccountTypeCorrect`, `NameCorrect`, `PersonCorrect`
  (`AccInv`: what is flushed and not committed clashes neither with the table nor with one another, every answer
  names a user that is in the table, about to be, or gone (`Held`), and the pairs of person and user, given and to be
  given, agree (`Claims`)). `AccountsImplementUserTable` is the refinement of `UserTable`: with `FreshInv` (an id an insert holds
  was never anybody's), what is flushed is still unique and unused when it is committed or answered (`FlushedUnique`,
  `FlushedUnused`), so that the change can be made at once on the table as it is then. About `Bootstrap`, for any number of workers: `BootTypeCorrect`, `ServingCorrect`
  (`AdminInv`: until something goes wrong, a worker past the insert of the administrator has a committed one or its own,
  and so has whoever set the flag). For what remains after any troubles: `RestartIsSafe`, where `Repaired` says of a worker
  that started after the last of them that it is still at the tables or an administrator is `Underway` (there, or a
  worker has all it needs to make it: a role another transaction takes away is one it commits with the administrator);
  `StartsAdvance` and `NobodyWaitsInACircle`.
* `SurveyAnswersProofs`: `SurveyTypeCorrect`, `DuplicateCorrect`, `SheetCorrect`. `SurveyInv` has five
  parts beside the type: what a submission carries, which of its checks are still true, that there is one sheet, and
  who wrote an answer last; only with the last is `SheetFollowsAnswer` inductive. A submission that is alone between its
  two writes clears what earlier ones left apart.
* `BulkProofs`: `LinkTypeCorrect`, `OneLinkCorrect`, `SyncCorrect` about `PartitionUsers`, and
  `ImportTypeCorrect`, `UpsertCorrect`, `CreatedCorrect`, `MovesCorrect` about `ImportRows`. For a lone
  synchronisation `Progress` says that the links it has kept are exactly the keys it has been through; `FewInv` counts the links of a key
  with the requests about to insert it, which are at most the requests there are; `KeysInv` says that a
  document found by a key has it until the update, and that a key about to be created is not
  held unless it was crossed; `StoredInv` speaks of the rows an import is past.
* `ContentProofs`: `SqlTypeCorrect`, `SkipCorrect` about `SqlReplacement`: `AheadInv` says that a row left alone and still
  old is on the page or has a rank past the offset, and `PageSizes` that a page of the lowest ranks is what moves the
  offset past it. `ReplaceTypeCorrect`, `EndedCorrect`, `EditsCorrect` about `DomainReplacement`: in a document left
  alone the old domain is only where the run has not been or has an update (`CoveredInv`), and an update
  that is not stale changes nobody's text (`FitInv`). `FileTypeCorrect`, `ContentCorrect`, `DownloadCorrect` about
  `FileStore`: a file is moved to an object once unless it was mixed (`MovedInv`), an object is of one
  file (`NameInv`), and one that is put and not yet named is of one request (`PutInv`), so
  no document names what another request may still overwrite.

Every invariant, action property and refinement of a run is stated by one of these theorems but the one the violation run refutes.
`OneUserPerName` (`NameCorrect`) is proved and no run repeats it: in `UserTable` it is a consequence of the rows being unique.
Liveness (`WalkTerminates`, `RestartRepairs`) is model-checked only: liveness under fairness, `ENABLED` and induction over
recursive data are beyond the prover. What makes the two true is proved: for the walk a rank that each of its queries
lowers (`WalksAreBounded`); for the start a rank that each step without trouble lowers (`StartsAdvance`), a worker
that does not wait as long as one does not serve (`NobodyWaitsInACircle`), and the state all this ends in (`RestartIsSafe`).
What is left to TLC is that fairness takes the steps there are.

## Finding

`SurveyAnswers_duplicate` shows the one divergence recorded as a finding: the docstring of
`user_create_cau_tra_loi_khao_sat` promises that duplicates are prevented, and two submissions that
both check before either writes leave two answers.

### Other divergences met while modelling

They were seen in the code and are described by the modules as the code has them; no run is spent on them.

* `base_repository.py:158`: an upsert under a list condition (SUBTREE, ROOT_PATH) that matches nothing inserts a
  record, and MongoDB takes no field from an `$in` list: the record has no `dataPartitionCode` and its sender cannot
  read it back. `ScopedStore!Created` permits it, so the refinement promises nothing about such a record;
  `CreatorReaches` is about creates and imports.
* `base_import_service.py:97`: the update of a row is a `$set` of all its columns, so an import under one header moves a document
  to the partition its row names (`MovesAsTold` says that this is the only way).
* `quy_tac_ma/service.py:80`: numbers are counted for a partition and an entity, and the code has neither, so two partitions or
  two entities with one prefix get the same code on one day.
* `increment/service.py:41`: `PUT /increment/{key_name}/reset` writes any key under `seq:`, also one that codes are numbered by. Codes of
  the day are then given again, and the key keeps no end.
* `increment/service.py:27`: Redis and Mongo count apart, so a number may be given once by each.
* `topic/router.py:36` unsubscribes by the field `userId`; documents have `user_id`, so nothing is removed
  (`Topics!Unsubscribe` changes nothing).
* `topic/service.py:44`: requests that overlap exceed the limit of 5000 (`OvershootIsBounded` says by how much).
* `file/service.py:261`: under FILE_STORAGE = database the migration writes base64 text back and marks it
  `s3`; the object of that name is not in the bucket (history variable `mixed` of `FileStore`).
  Nothing in the code writes that setting where `file/service.py:367` reads it.
* `data_process/service.py:142`: the SQL replacement skips every table whose primary key is not called `_id`,
  which is all of them. Of a table it would not skip it writes back whole values of columns it selected
  before, over what was committed in between.
* `sso/service.py:90`: a person who is found by user name never gets the `sso_id` stored; once renamed in Keycloak the
  next login makes a second user, and when an old row and a new name both match,
  `scalar_one_or_none` raises and the person is locked out (`Accounts!InitUser`).
* `sso/service.py`: the refresh token of `sso_login` carries no `auth` claim, so `/auth/refresh` refuses it.
  `get_certs` returns None when Keycloak answers anything but 200, and the verification then fails.
* `increment/service.py`: a reset answers True although the SET of Redis was swallowed.
* `cron_manager/service.py:40`: nothing calls `is_cron_leader`, its key has no prefix, and a job longer
  than the lease runs beside the next leader's (`OverlapNeedsOverrun` says it needs that).
* `internal_http/service.py:109`: the life of a token is counted from the reading of the answer, not from its issue.
* `core/database.py`, `get_db_session`: whether the commit precedes the answer depends on the version of
  FastAPI; with the later order a client is told of a user whose commit then fails.
* `data_partition`: links written by `/data-partition-user/sync/bulk` have the fields `user` and
  `dataPartition`; `get_dp_user_by_mode` and `get_many_me` look for others and never find them.
* `common/middleware.py`: the user is set in the task of the handler and read outside of it, so
  entries name no user; `clear_old_logs` compares `createdAt`, entries have `timestamp`.
* `user_import_service.py`, `setting_import_service.py`: rows are wrapped twice and the check refuses each one.
* `base_import_service.py:97`: an UPSERT whose lookup finds a row of another partition stores nothing
  and reports the row as imported.
* `quy_tac_ma/service.py:76`: a code without a date begins again when its counter ends after two days.
* `auth/service.py:84`: when the first write of the expiry was swallowed, a refresh computes a new one.
* `file/service.py:300`: the presigned URLs of a multipart upload are all of the object itself and not of its parts, so
  nothing has been uploaded as a part when `client_complete_multipart_upload` completes it.
* `setting/service.py:36`: `value` is a text column, so a stored value is never a dict and the branch that merges two dicts
  is never taken; the last of several sets of a key wins as a whole.
* `danh_muc/service.py:42` looks for a code in the caller's partition, the column is unique over all of them: a
  code that another partition has is refused by the database and not with the answer 400.
* `khao_sat/sub_routers.py:61` uses `coll`, which is not defined there.

## Abstractions to know of

* `db or get_mongo_db()` and `if self.db` are read as if a database were truthy, as the
  tests' doubles are; the driver itself refuses the test.
* The generic routes may write any document to any collection. They are modelled in
  `PartitionedRepository`; in the other modules only their deletion is, where it matters, and the properties
  of `SurveyAnswers`, `Topics`, `AuditTrail` and `ImportRows` are about documents written
  by their own functions.
* `ImportRows`: an `_id` that a lookup still holds is not given to a new document; Mongo never gives one out twice.
* `Accounts`: of a row only the unique columns are kept. `get_current_user` and `sso_login` are one
  action, since both call `init_user`.
* `TokenCache`, `SsoCerts`: the clock is discrete. That a call takes at most `Latency` or `FetchLimit` is an assumption:
  the timeouts of httpx are for each phase of a call, and `redis.set` has none. The path with a fixed token, when no URL for
  tokens is configured, and a life that differs from token to token are left out.
* `PartitionedRepository`: `get_one`'s own filter is left open (any record in scope or none may be the answer), and the count that
  `get_page` asks for is left out.
* `PartitionTree`: documents of `data_partitions` have the field `ma`; without it the walk raises and the request fails. A level
  of the tree is read in one step.
* `SurveyAnswers`: every submission names its round and its role.
* `Increments`: a counter has no end, and may be reset to any integer; names that codes are numbered by
  are in `CodeNumbers`.
* `Bootstrap`: both names of the administrator are "admin" by default and both have one
  e-mail address, so there is at most one. A user who takes that address is not modelled. Flush and
  commit of the administrator are one step; a commit that raises although it was carried out leaves the worker where one
  that returns does, since the exception is logged and the start goes on.
* `FileStore`: an acknowledged upload can still be lost when `update_by_id` swallows an exception; the
  properties are about what was stored. Multipart, presigned upload, compression and the
  upsert route are left out. A put that raises although it was carried out is, in an update, `WriteObject`; in an
  upload or a migration it leaves an object that no document names.
* `DomainReplacement`: the new domain does not contain the old one; documents inserted
  after the start are not covered by the promise. `skip_tables` is left out: a collection on that list is as one
  that is not there.
* `CodeNumbers`: codes without a date are a kind the proofs cover and the instance leaves out; codes are compared by their parts (prefix, date, number)
  and not as text, in which the parts are joined and the number is padded; Redis keeps its data over a restart (it has a volume); a rule has one sequence; the parts that
  only read data are left out.
* `ImportRows`: a row is its key column and its `dataPartitionCode`; which document an empty filter finds is free, and so is, within
  what holds the header's code, what a walk over the tree admits.
* `AuditTrail`: one task per middleware, as Starlette's `BaseHTTPMiddleware` makes them.

## Not modelled, and the plan

Every component with a protocol of its own is modelled. What is left, in this order:

1. Refinements: the file store as a register for each file, an abstract counter under `CodeNumbers` and `Increments`.
2. `Settings` and `DanhMuc`: a transaction that looks for one unique key and inserts or updates the row, a small case of
   `Accounts`; the updates write whole columns and the last one wins.
3. `FileStore`: presigned and multipart uploads, as a protocol with MinIO, once the URLs are of parts.

Left out for good: import sessions (records of progress written one call at a time), notifications (one insert and
one external call whose failure is logged), the RabbitMQ and gRPC
consumers (they log what they get), the export and template functions, string helpers, configuration, logging and health.
