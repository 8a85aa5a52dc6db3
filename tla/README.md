# TLA+ models of SCQL

SCQL lets several parties run one SQL query over tables that stay with their
owners. In the P2P deployment each party runs a **broker** (Go, `src/pkg/broker`)
with a metadata database and one or more **engines** (C++, `src/engine`). Users
talk to their own broker (`services/intra`), brokers talk to each other
(`services/inter`), a broker starts jobs on its own engine, and the engines of
the parties compute together and report to their own broker. The centralised
deployment (SCDB, `src/pkg/scdb`) replaces the brokers by one server.

This directory models the parts whose correctness depends on the order of
events: rows of the metadata database that several handlers write, brokers that
lose, delay or repeat each other's messages, engines and brokers that crash,
clocks that make locks and sessions expire, threads that share a table under
locks they release too early. Compilers, operators, data sources and numerical
code are not modelled. `PROJECT.json` maps every definition to the lines it
models and lists the components, hazards, runs, mutants and theorems.

## Parts of the system

| Part | Code (under `src/`) | Model |
|---|---|---|
| Life of a job in a broker: submission, execution, Report, cancel, fetch, GC | `pkg/broker/application/app.go`, `pkg/broker/storage/session.go`, `pkg/broker/services/intra/{query,engine}_handler.go`, `pkg/broker/executor/query_runner.go` | `BrokerJob` |
| Job watcher | `pkg/executor/job_watcher.go` | `BrokerJob` |
| Resident engine scheduler, engine client | `pkg/broker/scheduler/naive_scheduler.go`, `pkg/executor` | `BrokerJob` (stop and start of a job; not the choice of an engine) |
| Projects, invitations, members, archiving | `pkg/broker/services/{intra,inter}/project_handler.go`, `pkg/broker/services/inter/svc.go`, `pkg/broker/storage/storage.go`, `pkg/broker/services/intra/status_handler.go` | `BrokerProject` |
| Leader election of broker instances | `pkg/broker/application/worker.go`, `pkg/broker/storage/session.go` | `CronJobWorker` |
| Engine sessions: manager, timeout thread, listeners, the service's threads | `engine/framework/session_manager.cc`, `engine/services/engine_service_impl.cc`, `engine/link/listener.cc` | `EngineSession` |
| Tables and column privileges (CCL) of a project, their replication and repair | `pkg/broker/services/intra/{table,ccl,status}_handler.go`, `pkg/broker/services/inter/svc.go`, `pkg/broker/services/common`, `pkg/broker/storage/storage.go`, `pkg/broker/application/checksum.go` | `BrokerTable`, `TableDirectory` |
| Preparation of a distributed query: compare, ask, store, prepare again | `pkg/broker/services/inter/{query_handler,job_sync_util}.go`, `pkg/broker/services/intra/query_handler.go`, `pkg/broker/executor/query_runner.go`, `pkg/broker/services/common/ask_sync_info.go` | `BrokerQuery` |
| Views; SCDB server; kuscia scheduler; interpreter, CCL inference, graph partitioning; engine operators and tensors | `pkg/broker/services/intra/view_handler.go`, `pkg/scdb`, `pkg/broker/scheduler`, `pkg/interpreter`, `engine/framework`, `engine/operator` | not modelled, see the end |
| Parser, planner, operators, data sources, authentication, configuration, command line tools | `pkg/parser`, `pkg/planner`, `engine/operator`, `engine/datasource`, ... | not modelled: generated or deterministic code, pure I/O, numerics |

The parts meet as follows. The cron leader (`CronJobWorker`) runs storage GC and
the job watcher; `BrokerJob` takes the set `Watchers` of instances that believe
to be leader as a constant, of any size, because the election does not exclude
a second leader while the first is late. `BrokerJob` sees the engine as a broker does (it knows the
job or not, it reports or not); `EngineSession` opens that box. Before a job
runs, `BrokerQuery` brings the brokers' copies of the tables together: it takes
from `BrokerTable` that rows may be stale or missing and may change at any time.
`BrokerTable` takes from `BrokerProject` a project with its members.

## BrokerJob: the life of a job in one broker

*State.* `status`, `expired`, `stale`, `outputs` are the columns of the job's
row in `session_infos` (`expired_at` and `updated_at` only as far as the code
compares them with the clock); `result` is its row in `session_results`.
`runner`, `report`, `cancel`, `watcher` and `fetch` are the positions of the
handlers that work on those rows. `engine`, `engineUp` and `outcome` are what
the broker can see of its engine. `cleared` and `dbfault` are history: a
cancellation was committed, the database refused a result.

*Steps.* Transactions are READ COMMITTED. One that only reads, or that begins
with an UPDATE of the session row, is one step. `App.SetSessionResult` reads the
row without a lock and writes later, so it is two (`ReportRead`/`ReportWrite`,
`WatcherDeadRead`/`WatcherDeadWrite`). Calls to the engine are steps of their
own. The engine may crash, the broker may crash between any two steps of a
handler, a report may be lost or answered too late. A probe may find the engine
unavailable, or fail otherwise; the watcher passes over the latter (`skipped`).

*Properties.* `ResultOnlyWhenOver`, `SettledIsAnswered` (FetchResult has an
answer for a closed job: its result, or that it was canceled or expired; jobs
whose result the database refused, and canceled jobs that the watcher marked
Failed, are excepted), `SecondLookFinds` (FetchResult's second read after
the engine has forgotten the job), `OutputNamesKnown`, `NeverReopened`,
`ResultWrittenOnce`; liveness `RunningJobsEnd` and `ExpiredResultsDeleted`.
`CanceledIsAnswered` and `ReportedJobNotFailed` are violated, see below.

*Fairness.* Handlers, goroutines and engine threads that can step do so, and
every instance's ticker keeps calling `CheckJobs` (gocron runs it for as long as
the process lives). A probe has no deadline (`context.TODO()`), so nothing says
that it returns, and nothing says that its error is one the watcher acts on:
`RunningJobsEnd` excepts a watcher that never gets an answer and a job that is
passed over again and again. Nothing obliges a user to act, a component to fail,
or an unreachable engine to come back. `stale` becomes true in time: the clock
moves.

## BrokerProject: one project, several brokers

*State.* Every broker has its project row (`proj`, and in `conf` which creation
of the project the row stems from; `settings` says what that creation set, and
it may be what an earlier one had), its member rows, its invitations (`sent` at
the creator, `recv` at an invitee). `invite`, `join`, `admit`, `archive`,
`check` are InviteMember, ProcessInvitation, ReplyInvitation, ArchiveProject and
CheckAndUpdateStatus under way. `inviteMsg`, `replyMsg`, `archiveMsg`,
`memberMsg`, `askMsg` are calls that have been sent; the flag `open` in one says
that somebody still waits for the answer. `lost` and `leaked` are history.

*Steps.* A handler calls another broker while its own transaction is open, so
its writes appear only with its commit and the rows stay locked meanwhile
(`RowFree`). A call may time out before or after it is served, and a call nobody
waits for may still be served, also after the project was deleted and created
again. SyncInfo checks the archived flag in one step and writes in another. Rows
and invitations are compared by their settings only (`SameSettings`), as in the
code: a party that kept an earlier project with the same settings passes for one
of the new project.

*Properties.* `JoinedIsMember` (about parties that joined the last creation, by
the number in `conf`, which the code does not have), `MembersSound`, `ArchivedByCreator`,
`MembershipFrozen`, `NeverUnarchived`; liveness `HandlersEnd`.

*Fairness.* The HTTP client's timeout ends every wait, and a handler that does
not wait goes on. Nothing is assumed of calls under way: a call that is never
served is a lost one.

*Abstractions.* One project; at a time one InviteMember per invitee and one
ProcessInvitation per party. Tables and CCL in the status check are left out.

## BrokerTable and TableDirectory: replicated tables and privileges

*State.* `tables` and `privs` are the committed rows of every broker. `create`
is the CreateTable or DropTable handler of a party and a table, `granting` a
GrantCCL or RevokeCCL between its check and its commit, `check` a run of
`checkAndUpdateStatusFor`. `net` holds the SyncInfo calls that nobody has served.
`committed` and `doubtful` are history: the creations their owner committed, and
those with a call that timed out or a handler that died. `used` counts against
the bounds.

*Steps.* CreateTable looks for a table of that name, later inserts the row, tells
every other member while its transaction is open, and commits when all agreed;
otherwise it posts a drop and rolls back (`CreateTable`, `AddTable`, `Answer`,
`CallTimeout`, `CreateCommit`, `CreateUndo`, `CreateRollback`). Requests that have
looked and not yet inserted are in `looked`: under READ COMMITTED another request
may commit in between, and one of the same party then has its table replaced. DropTable, GrantCCL and RevokeCCL start the goroutine that
posts before their deferred commit, so that their calls may be served before it
(`DropCommit`, `GrantWrite`, `RevokeWrite` are the commits). Calls are served in
any order, also after their sender gave up. Whoever inserts a row waits for the
uncommitted row of the same name, and the wait ends with an error. The repair
reads the copies, asks the owner and writes by what it has read before.

*TableDirectory* is what the brokers promise together: one name space in which a
table is created when no other member owns its name, and replaced or dropped by
its owner only. The mapping takes from every broker the tables that it owns itself.

*Properties.* `OneOwner`, `NoPhantom` (a copy is of a table its owner committed,
is creating, or could not settle), `IsDirectory` (the refinement), `RepairHeals`
(a repair whose readings are still true leaves the copy like the owner's table,
ref table and database type included, but for copies whose difference the
checksums do not show: `Leftover` and `Unseen`); liveness `CreatesEnd`.

*Fairness.* A broker serves the calls it gets, where a wait for a lock ends
(`innodb_lock_wait_timeout`), and a handler whose calls are answered goes on.

*Abstractions.* A table has one column as far as privileges go. A broker has one
grant or revocation under way at a time. `checkConflict` and `updateStatus` are
one step, as are the reads of one status. `AddTableWithCheck` (the owners of the
name, the drop of the party's own row, the insert) is one step, in `AddTable` and
in `ServeCreate`, and so is `DropTableWithCheck`. In the code a row of another
party may be committed between these statements. Where there was none, the insert
meets the key of that row and fails, as in `AddTableFails` and `RefuseCreate`.
Where the party's own row was exchanged for it, the drop, which goes by the name
alone, would delete it: this window is not modelled. `Leftover` and `Unseen` are what `GetCCLsChecksum` and `GetTableChecksum`
leave out.

## BrokerQuery: how the parties of a query come to one view

*State.* `store` is what each party stores of each data party's table, `session`
the checksum in its session row, `job` its session and query runner (what it read
in `snap`, what the owners sent in `remote`), `task` the goroutine that deals with
another party, `inbox` the DistributeQuery calls under way. `taken` is history:
the checksums of what each data party has read of its own table for this job.
A table has its columns, a ref table with its type, and the privilege of each
party; its `Checksum` has the columns, and the privileges in the order of the
parties but without them (`InfeedTable`, `InfeedCCLs`).

*Steps.* Prepare reads the tables and asks for those it misses; the issuer
distributes the query, every worker prepares, stores its session, answers, and
compares with the issuer and the other workers (ExchangeJobInfo, with retries
while the other has no session). A party that differs asks the owner, stores the
answer, and prepares again before it compiles. A worker whose comparison failed
logs the error and executes (`unsynced`). Dry runs only compare. A row may change
and a call may fail at any point.

*Properties.* `ViewsTaken` (a party that synchronised executes on tables with the
checksums their owners have read for this job; that the tables agree in what the
checksums leave out is not so, and not claimed); liveness `QueryEnds` and
`StaleRowsRepaired`.

*Fairness.* The brokers' handlers and goroutines keep running; no failure and no
change is ever due.

*Abstractions.* One job; each data party has one table; a checksum is what goes
into the hash. The dry run's exchanges are sequential in the code and in any
order here. The compiler's verdict about the CCLs, parties that only receive the
result, the archived flag and the protocol version are left out.

## CronJobWorker: leader election over a lock row

*State.* `lock` is the committed row (owner, expiry); `role`, `tasks`, `started`
are the fields of the worker; `pc` and `t` are its election round and the time
its statement carries; `held` and `doubt` remember when the last statement
returned ok and whether its commit had failed; `skew` is the fixed deviation of
each clock. Times are relative to the present: `Tick` moves all of them into the
past, and `Horizon` is the age beyond which they are not told apart.

*Steps.* A follower reads the expiry (`Expired`), puts its clock into the UPDATE
(`CallPreempt`), and the UPDATE checks the expiry again (`Preempt`). A leader
renews without asking for the expiry (`Renew`). The lock guard commits in a
deferred call that gets a nil error, so a failed commit is not noticed
(`Granted`). Starting and stopping the tasks may fail; instances stop and crash.
Starting the scheduler and setting the role are one step: nobody else looks at
either, and an instance that dies between them loses both.

*Properties.* `PunctualLeaderOwns`: a leader granted the lock less than
`2 * Ttl - MaxSkew` ago owns it, so two leaders overlap only when one is late.
It excepts a leader whose commit failed unnoticed (`doubt`).
`TasksOnlyOfLeader`; liveness `TasksKeepRunning`, which needs
`2 * Ttl > MaxDelay + 2 * MaxSkew` and excepts `Idling`: a leader whose
Shutdown failed after an error of Renew leads without running the tasks.

*Fairness.* The election scheduler calls its task again and again, time passes.

## EngineSession: the sessions of one engine

*State.* `table` is `id_to_session_`, `state` the state of each session,
`listener` the link layer's listeners by job, `queue` the timeout queue,
`overdue` the sessions older than the timeout. `pc` says where the thread of
each `RunExecutionPlan` request is, `watch` what the timeout thread does, `stop`
how far each StopJob is. A session has its request's name, so that two sessions
of one job are told apart. `stray` is history: the requests that used their
session after it was removed.

*Steps.* What happens under one lock is one step. Sessions and listeners have
different locks (`RemoveSession` then `RemoveListener`), StopJob uses its
iterator after the unlock (`StopFind` then `StopSession`), and a thread keeps
its session pointer while the timeout thread may free the session. A write
through such a pointer is undefined: in the model it hits nothing that matters
or any registered session. `StartNode` stands for the last node of a plan.

*Properties.* `SessionHasListener`, `RegisteredWatched`, `RemovableAtEnd` (a
thread that comes to remove its session finds it SUCCEEDED or FAILED, whenever
StopJob came; only while nobody strays), `StrayOnlyAfterTimeout` (nothing but
the timeout takes a session away under its thread); liveness `SessionsEnd`,
which excepts sessions whose checksum exchange failed.

*Fairness.* Threads that have begun go on: receive timeouts of the link, RPC
timeouts and bounded connection retries end their waits. The pool takes plans in
turn, and the timeout thread loops until the process ends.

## Runs

| Run | Instance | What it shows |
|---|---|---|
| `job_failures` | 1 job, all three modes, 1 watcher, 1 engine crash, 1 broker crash, expiry, failing database, lost reports and probes | the six safety properties of `BrokerJob`, `RunningJobsEnd` |
| `job_gc_backlog` | 2 jobs, GC batch of 1 | `ExpiredResultsDeleted` |
| `job_watcher_race` | 1 job, 1 watcher, no failure | violation of `ReportedJobNotFailed` |
| `job_cancel_race` | 1 job, 1 watcher, no failure | violation of `CanceledIsAnswered` |
| `project_join` | creator and 2 invitees, 2 invitations, 2 replies, 1 archive call, 1 deletion, 1 repair, 1 crash | all safety properties of `BrokerProject` |
| `project_recreated` | creator and 1 invitee, 2 creations with equal or other settings, 2 deletions, 2 calls of each kind, 1 repair | `JoinedIsMember` across creations, `HandlersEnd` |
| `project_delete_orphans` | as `project_join`, 1 archive call | violation of `DeletedWithMembers` |
| `cron_leader` | 2 instances, `Ttl` 2, skew 1, delay 1, horizon 8, 1 error, 1 crash | all properties of `CronJobWorker` |
| `engine_sessions` | 2 requests of 1 job, 1 StopJob, 1 worker | all properties of `EngineSession` |
| `table_create` | 3 members, 2 names, schemas that exclude each other, 2 creations, 1 drop, 1 fault (lost call, timeout or crash) | `TypeOK`, `OneOwner`, `NoPhantom`, `IsDirectory`, `CreatesEnd` |
| `table_repair` | 2 members, 1 name, 3 schemas, two of them with the same columns, 2 creations, 1 grant, 1 repair, and one of a drop, a revocation and a fault (`OneEvent`) | `RepairHeals` |
| `query_prepared` | 3 data parties, run and dry run, one stale or missing row at the issuer or a worker, with and without a difference in its checksum, 1 change or failed call, 2 tries | `TypeOK`, `ViewsTaken`, `QueryEnds`, `StaleRowsRepaired` |

*Why the bounds are enough.* Jobs do not share rows, so one job shows every race
on its rows; the GC batch is what couples jobs, hence two there. A project needs
a creator, a party that joins and a third one that hears of it; two calls of a
kind let a repetition or a late call meet its successor; a second creation
matters only to what survives from the first, for which two parties do. Two
instances are what an election needs, and the units of time are such that a
round can be late by one unit while the clocks differ by two. Sessions of
different jobs share only the worker pool and the timeout queue; two requests of
one job are what the maps keyed by the job id can confuse. Two creations are
what a name conflict takes and a third member is who can be told of both; one
fault makes a late call, and every later fault would make another. For the
repair, the second creation with other columns or another ref table makes the
calls about the first one late, the grant and the revocation can arrive in either
order, and one of them, a drop or a fault at a time is what `OneEvent` allows. A
query
needs an issuer and two workers that exchange with each other; the workers are
alike, so a stale row is put at one of them. The proofs below
remove the bounds for the safety properties. `CHECK_DEADLOCK FALSE` is set
because all calls are bounded: an instance stops when users have made their
last call.

Every property of a passing run has a mutant, an operator next to the definition
it replaces (marked "Mutant"), under which TLC finds the property violated.

### What the violated properties show

- `ReportedJobNotFailed`: `CheckJobs` lists the Running jobs, probes them and
  sets those the engine does not know to Failed without looking again. A job
  that reports in between has its good result and is Failed. The note at
  `engine_service_impl.cc:622-624` means to prevent this by the order of report
  and removal.
- `CanceledIsAnswered`: a job that was listed by `CheckJobs` and then canceled is
  set to Failed. FetchResult knows canceled jobs by their status (the comment at
  `query_handler.go:271`), and now answers NOT_READY until the row expires.
- `DeletedWithMembers`: CheckAndUpdateStatus adds the members it found missing
  without looking at the project row again, and DeleteProject may have removed
  it: member rows stay, and a later invitation to that project cannot be
  accepted.

### Other divergences met while modelling

They are in the models, but no run is about them.

- Jobs: a dry run leaves a session row behind. StopSession aborts RUNNING
  sessions only, so a job canceled while it is queued at the engine runs
  afterwards (`app.go:240` means to release the engine).
- Projects: at a member other than the creator, changes reach an archived
  project (SyncInfo checks the flag before it takes the lock); `UpdateProject`
  skips zero values and so cannot clear the archived flag; a declined invitation
  to a project with other members ends in a panic that leaves a transaction open
  (`leaked`).
- Engine: RunPlanSync sets COMP_FINISHED whatever the state is, so an aborted
  session can succeed, where `session.h:47-48` says that it fails; a session
  whose checksum exchange failed stays INITIALIZED, is never removed, and at the
  head of the timeout queue keeps the timeout thread from the sessions behind
  it; a session constructor that fails after AddListener leaves its listener
  behind.
- Tables: PostSyncInfo means to ignore a timeout but does not recognise the
  wrapped error. The checksum of the CCLs does not cover the party, so a repair
  can miss a privilege that went to another one (`Leftover`), and the checksum of
  a table covers neither ref table nor database type (`Unseen`). Of two requests
  of one party for the same name the second can replace what the first has
  committed. An owner without
  tables is compared with everybody's tables, since an empty list of names means
  all (`CheckedNames`, `GetProjectMeta`): the repair then reports a conflict.
- Queries: a failed AskInfo is only logged, and the update goes on and drops the
  stale row. AskInfo adds CCLs and removes none, and an owner that has granted
  nothing fails the owner check of an empty list, so such rows are not repaired
  (`Repairable` says which are). A worker whose syncWithAll failed executes with
  what it has; the engines' graph checksum is what remains.

## Proofs

TLAPS proves the following for all values of the constants that satisfy the
named assumption of the module (`BrokerJobAssumption`, `BrokerProjectAssumption`,
`WorkerAssumption`, `EngineAssumption`, `TableAssumption`, `QueryAssumption`):
special values are outside of the sets, bounds are natural numbers, the members
that share tables are finitely many and numbered (the checksum sorts the
parties), and the horizon of `CronJobWorker` exceeds
`2 * Ttl + MaxDelay + 2 * MaxSkew`.

- `BrokerJobProofs`: `TypeOK`, `ResultOnlyWhenOver`, `SettledIsAnswered`,
  `SecondLookFinds`, `OutputNamesKnown`, `NeverReopened`, `ResultWrittenOnce`.
  `SettledIsAnswered` is not inductive: the watcher closes jobs that it handled
  several steps ago, and FetchResult relies on what the engine did before it
  forgot the job. `RowInv` says which handlers imply that a row exists;
  `AnswerInv` carries "this job got an answer" through the positions of Report,
  CheckJobs, the engine and FetchResult. `ClosedInv` adds what the rows show:
  a Finished row has its result until it expires, and only GC makes rows Timeout.
- `BrokerProjectLocks`: `TypeOK`; `NeverUnarchived` and `MembershipFrozen` from
  `LockInv` (while ReplyInvitation holds the creator's row the project is open
  and ArchiveProject does not hold it); and `ReplyInv` (who waits for which
  answer).
- `BrokerProjectProofs`: `ArchivedByCreator`, `JoinedIsMember`, `MembersSound`.
  - `ArchivedByCreator`: `FreshInv` says that nothing is under way before the
    project is created, so that its only creation finds a clean slate;
    `ClosingInv` says that as long as the creator is not closing, nobody has been
    told: no other broker has an archived row, the creator's consent to archive,
    a call to archive or a status that reads archived.
  - `JoinedIsMember`: what a creation has set travels from the project row through
    invitations, messages, archive calls and repairs. `ConfInv` bounds every
    place it is stored by the last creation, and `MemberInv` says that whoever
    has, or may still write, a row of the last creation is a member. The
    `Flow...` lemmas say for each place from where a step can have filled it.
  - `MembersSound`: `ListedInv` says the same of every list of members that is
    stored, read or on its way, and that a party with the creator's consent is
    known. The exception for the one under admission is needed only between
    telling the others and the commit (`Admitting`).
- `CronJobWorkerProofs`: `TypeOK`, `PunctualLeaderOwns`, `TasksOnlyOfLeader`.
  `LeaseInv` adds to `PunctualLeaderOwns` the instances that have the lock and
  not yet the role, and why nobody can displace a punctual owner: the row's
  expiry is not before `held + 2 * Ttl`. `RoundInv` ties rounds to roles,
  `TimesOK` bounds the times.
- `EngineSessionProofs`: `TypeOK`, `SessionHasListener`, `RegisteredWatched`,
  `RemovableAtEnd`, `StrayOnlyAfterTimeout`. `ListenerInv` says who may touch a
  job's listener: a connecting request owns it, and whoever is about to remove
  it is alone and finds neither a session nor a new owner. `LostInv` gives the
  reason for every thread that has lost its session: the timeout thread took it,
  or an older thread of the same job did that had lost its own. `EndInv` follows
  the state from the end of the computation to the removal.
- `BrokerTableProofs`: `TypeOK`, `OneOwner`, `IsDirectory`, `NoPhantom`. `OneOwner` is not
  inductive, for two creators wait for each other. `OwnInv` speaks of claims: a
  member claims a name against another one when it owns the table, or when the
  other has agreed to its creation. Two members never have claims against each
  other, because whoever agrees holds neither a table nor an open handler of that
  name; a handler commits only with a claim against everybody. The refinement
  uses the same invariant: CreateCommit is the abstract creation (or replacement
  by the owner, which may have a table of that name), DropCommit the abstract drop, and every other step leaves the owners' tables alone.
  `NoPhantom` follows from `PhantomInv`: a creating call on its way is in doubt
  or its handler waits for it, an undoing handler waits for every member that may
  store its row, and what a repair brings was committed.
- `BrokerTableRepair`: `RepairHeals`. The checksum of a table's privileges is that
  of a list sorted by party, which leaves the parties out. `EqualChecksums` shows
  that it still determines the privileges once the parties of the copy are among
  those of the owner: equal checksums have equal length, so that the parties are
  the same, and a party's place in the list is the number of parties before it.
  Copies with other parties (`Leftover`), or with the same columns and another ref
  table or type (`Unseen`), are excepted.
- `BrokerQueryProofs`: `TypeOK` together with `TaskInv` (every table that
  AskProjectInfoFromParties dropped has a goroutine that writes the answer, and
  nobody deals with a party without tables), and `ViewsTaken`. `ViewInv` follows
  the checksum of what an owner has read of its table through its session row, the
  checksums it sends and the comparisons to the party that executes.

Only model-checked are the liveness properties: liveness under fairness, and
`ENABLED`, are beyond the prover. So are induction over data, that is, what a
recursive definition computes for every input, and anything that reaches a
`RECURSIVE` operator; the models use neither. The three violated properties are
refuted by their runs and have no theorem.

## Not modelled

- Views: CreateView and DropView write their rows and post them like tables do.
  What differs, the analysis of the view's query, is the compiler's.
- SCDB (`pkg/scdb`): one process in front of one database. Its sessions and its
  engine callback have the shape of `BrokerJob` with a single broker, its storage
  is the SQL of the privilege tables.
- Kuscia scheduler: starts engines through Kubernetes jobs; how those fail is
  outside of this repository.
- Interpreter, CCL inference, graph partitioning (`pkg/interpreter`): sequential
  and deterministic. What is to be said about them is about all plans of SQL
  queries, and an instance small enough for TLC is smaller than the unit tests'.
- Engine operators, tensors, data sources: numerics, vendor libraries and I/O
  inside of one plan node.
- Parser, planner, type system: derived from TiDB, generated in part.
- Authentication, configuration, command line tools, audit: no state that several
  actors share.
