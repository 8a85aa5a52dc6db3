------------------------------- MODULE BrokerJob -------------------------------
(***************************************************************************)
(* The life of a query job inside one party's broker.                      *)
(*                                                                         *)
(* The broker keeps one row per job in session_infos (status, expired_at,  *)
(* updated_at, output names) and at most one row in session_results.       *)
(* Five kinds of handlers work on those rows at the same time: the one     *)
(* that submits and executes the job, the engine's Report callback,        *)
(* CancelQuery / CancelQueryJob, the JobWatcher and the storage GC of      *)
(* every instance that believes to be leader; FetchResult reads them.      *)
(*                                                                         *)
(* Every database transaction is READ COMMITTED.  A transaction that only  *)
(* reads, or whose first statement is an UPDATE of the session row, is one *)
(* step.  App.SetSessionResult reads the row without locking it and        *)
(* updates it afterwards, so it is two steps.  Calls to the engine are     *)
(* steps of their own.                                                     *)
(*                                                                         *)
(* The engine appears through what the broker can see of it: whether it    *)
(* answers, whether it knows the job, and the report it sends.             *)
(***************************************************************************)
EXTENDS Naturals, FiniteSets

CONSTANTS
    Jobs,            \* job ids
    NoJob,           \* the absence of a job
    Modes,           \* kinds of submission used: subset of AllModes
    Watchers,        \* broker instances that run the cron tasks
    GcBatch,         \* Limit(100) of ClearExpiredSessions
    MaxEngineCrash,  \* bound: how often the engine process dies
    MaxBrokerCrash,  \* bound: how often the broker process dies
    CanExpire,       \* the clock may pass a session's expired_at
    DbMayFail,       \* writing a result may fail in the database
    ReportMayFail,   \* the engine's Report call may be lost or time out
    NetMayFail       \* a probe of an engine that is up may go unanswered

AllModes == {"async", "sync", "dry"}

ASSUME BrokerJobAssumption ==
    /\ NoJob \notin Jobs
    /\ Modes \subseteq AllModes
    /\ GcBatch \in Nat \ {0}
    /\ MaxEngineCrash \in Nat
    /\ MaxBrokerCrash \in Nat
    /\ CanExpire \in BOOLEAN
    /\ DbMayFail \in BOOLEAN
    /\ ReportMayFail \in BOOLEAN
    /\ NetMayFail \in BOOLEAN

VARIABLES
    status,      \* session_infos.status of each job, "none" without a row
    result,      \* session_results row of each job: "none", "ok" or "error"
    expired,     \* jobs whose expired_at lies in the past
    stale,       \* jobs whose updated_at is older than maxUnavailableTime
    outputs,     \* jobs whose row holds the compiled plan's output names
    mode,        \* how each job was submitted
    runner,      \* where the submitting handler of each job is
    engine,      \* the engine's session of each job
    engineUp,    \* the engine process answers
    report,      \* where the Report handler of each job is
    outcome,     \* what that report carries
    cancel,      \* where the cancel handler of each job is
    watcher,     \* the CheckJobs call of each instance
    fetch,       \* the FetchResult call
    crashes,     \* [engine, broker]: crashes so far
    cleared,     \* history: jobs whose cancellation was committed
    dbfault      \* history: jobs for which a result write failed

dbVars == <<status, result, expired, stale, outputs>>
histVars == <<cleared, dbfault>>
vars == <<status, result, expired, stale, outputs, mode, runner, engine,
          engineUp, report, outcome, cancel, watcher, fetch, crashes,
          cleared, dbfault>>

Open == {"Submitted", "Running"}
Settled == {"Finished", "Canceled", "Timeout", "Failed"}
Statuses == Open \cup Settled
Outcomes == {"ok", "error"}

\* "initialized": accepted, waiting for a worker thread; "orphan": created,
\* but RunExecutionPlan failed afterwards; "lost": gone with its process.
Alive == {"initialized", "running", "aborting", "reporting", "orphan"}
EngineStates == Alive \cup {"none", "removed", "lost"}

RunnerStates == {"idle", "added", "updated", "launched", "waiting",
                 "stopping", "done", "crashed"}
ReportStates == {"idle", "sent", "checked", "write", "retry", "rewrite",
                 "stop", "done", "lost"}
CancelStates == {"idle", "stop", "clear", "done"}
WatcherStates == {"idle", "probe", "touch", "decide", "write", "stop"}
FetchStates == {"idle", "result", "engine", "second"}

IdleWatcher == [pc |-> "idle", todo |-> {}, old |-> {}, alive |-> {},
                unreached |-> {}, skipped |-> {}, dead |-> {}, failed |-> {},
                cur |-> NoJob]
IdleFetch == [pc |-> "idle", job |-> NoJob, gone |-> FALSE]

Init ==
    /\ status = [j \in Jobs |-> "none"]
    /\ result = [j \in Jobs |-> "none"]
    /\ expired = {}
    /\ stale = {}
    /\ outputs = {}
    /\ mode = [j \in Jobs |-> "async"]
    /\ runner = [j \in Jobs |-> "idle"]
    /\ engine = [j \in Jobs |-> "none"]
    /\ engineUp = TRUE
    /\ report = [j \in Jobs |-> "idle"]
    /\ outcome = [j \in Jobs |-> "error"]
    /\ cancel = [j \in Jobs |-> "idle"]
    /\ watcher = [w \in Watchers |-> IdleWatcher]
    /\ fetch = IdleFetch
    /\ crashes = [engine |-> 0, broker |-> 0]
    /\ cleared = {}
    /\ dbfault = {}

--------------------------------------------------------------------------------
(* Pieces shared by the handlers.                                             *)

\* EngineInstance.Stop -> StopJob -> SessionManager::StopSession: only a
\* session that is RUNNING is aborted.
Stop(j) ==
    engine' = IF engineUp /\ engine[j] = "running"
                THEN [engine EXCEPT ![j] = "aborting"]
                ELSE engine

\* What App.SetSessionResult's transaction reads and checks first.
SetSessionResultCheck(j) == status[j] \in Open

\* Mutant: the insert becomes an upsert.
SetSessionResultUpsert(j, out) ==
    /\ status' = [status EXCEPT ![j] = "Finished"]
    /\ result' = [result EXCEPT ![j] = out]
    /\ stale' = stale \ {j}
    /\ UNCHANGED dbfault

\* Mutant: only the result of a successful query is stored.
SetSessionResultOkOnly(j, out) ==
    /\ result[j] = "none"
    /\ status' = [status EXCEPT ![j] = IF out = "ok" THEN "Finished" ELSE "Failed"]
    /\ result' = [result EXCEPT ![j] = IF out = "ok" THEN out ELSE @]
    /\ stale' = stale \ {j}
    /\ UNCHANGED dbfault

\* The rest of that transaction: the status (Failed or Finished by
\* App.SetSessionResult, then Finished by MetaTransaction.SetSessionResult)
\* and the insert of the result, whose key must be new.
SetSessionResultCommit(j, out) ==
    /\ result[j] = "none"
    /\ status' = [status EXCEPT ![j] = "Finished"]
    /\ result' = [result EXCEPT ![j] = out]
    /\ stale' = stale \ {j}
    /\ UNCHANGED dbfault

\* The transaction is rolled back: the result's key exists, or the database
\* refuses the write (a result too large for its column).
SetSessionResultRollback(j) ==
    /\ \/ result[j] # "none" /\ UNCHANGED dbfault
       \/ DbMayFail /\ dbfault' = dbfault \cup {j}
    /\ UNCHANGED <<status, result, stale>>

--------------------------------------------------------------------------------
(* Submission and execution: DoQuery, SubmitQuery, DistributeQuery.           *)

\* NewSession, Prepare and AddSession: the row is inserted as Submitted.
AddSession(j) ==
    /\ runner[j] = "idle"
    /\ status[j] = "none"
    /\ \E m \in Modes : mode' = [mode EXCEPT ![j] = m]
    /\ status' = [status EXCEPT ![j] = "Submitted"]
    /\ runner' = [runner EXCEPT ![j] = "added"]
    /\ UNCHANGED <<result, expired, stale, outputs, engine, engineUp, report,
                   outcome, cancel, watcher, fetch, crashes, cleared, dbfault>>

\* SubmitQuery with a job id that is taken: AddSession violates the primary
\* key, and the deferred cleanup stops the job of that id at the engine.
DuplicateSubmit(j) ==
    /\ status[j] # "none"
    /\ Stop(j)
    /\ UNCHANGED <<dbVars, histVars, mode, runner, engineUp, report, outcome,
                   cancel, watcher, fetch, crashes>>

\* Distributing the query, checking checksums, compiling or building the
\* executor fails, or the query was a dry run, which ends here.
RunnerGiveUp(j) ==
    /\ runner[j] = "added"
    /\ runner' = [runner EXCEPT ![j] = IF mode[j] = "dry" THEN "done"
                                                          ELSE "stopping"]
    /\ UNCHANGED <<dbVars, histVars, mode, engine, engineUp, report, outcome,
                   cancel, watcher, fetch, crashes>>

\* UpdateSession stores the output names.  The zero status (Running) in the
\* struct is skipped by gorm's Updates.
UpdateSession(j) ==
    /\ runner[j] = "added"
    /\ mode[j] # "dry"
    /\ outputs' = outputs \cup {j}
    /\ stale' = stale \ {j}
    /\ runner' = [runner EXCEPT ![j] = "updated"]
    /\ UNCHANGED <<status, result, expired, histVars, mode, engine, engineUp,
                   report, outcome, cancel, watcher, fetch, crashes>>

\* Mutant: the plan is sent to the engine before UpdateSession.
LaunchEarly(j) ==
    /\ runner[j] \in {"added", "updated"}
    /\ engineUp
    /\ engine[j] = "none"
    /\ engine' = [engine EXCEPT ![j] = "initialized"]
    /\ runner' = [runner EXCEPT ![j] = IF mode[j] = "async" THEN "launched"
                                                            ELSE "waiting"]
    /\ UNCHANGED <<dbVars, histVars, mode, engineUp, report, outcome, cancel,
                   watcher, fetch, crashes>>

\* RunExecutionPlan is accepted by the engine.
Launch(j) ==
    /\ runner[j] = "updated"
    /\ engineUp
    /\ engine[j] = "none"
    /\ engine' = [engine EXCEPT ![j] = "initialized"]
    /\ runner' = [runner EXCEPT ![j] = IF mode[j] = "async" THEN "launched"
                                                            ELSE "waiting"]
    /\ UNCHANGED <<dbVars, histVars, mode, engineUp, report, outcome, cancel,
                   watcher, fetch, crashes>>

\* RunExecutionPlan returns an error: the engine is down or refuses, fails
\* after it created the session (graph checksum), or its answer is late.
LaunchFails(j) ==
    /\ runner[j] = "updated"
    /\ \/ UNCHANGED engine
       \/ /\ engineUp
          /\ engine[j] = "none"
          /\ \E e \in {"orphan", "initialized"} :
                engine' = [engine EXCEPT ![j] = e]
    /\ runner' = [runner EXCEPT ![j] = "stopping"]
    /\ UNCHANGED <<dbVars, histVars, mode, engineUp, report, outcome, cancel,
                   watcher, fetch, crashes>>

\* Mutant: the update to Running has no condition on the status.
MarkRunningAlways(j) ==
    /\ runner[j] = "launched"
    /\ status' = [status EXCEPT ![j] = "Running"]
    /\ stale' = stale \ {j}
    /\ runner' = [runner EXCEPT ![j] = "done"]
    /\ UNCHANGED <<result, expired, outputs, histVars, mode, engine, engineUp,
                   report, outcome, cancel, watcher, fetch, crashes>>

\* UpdateSessionInfoStatusWithCondition(Submitted -> Running).
MarkRunning(j) ==
    /\ runner[j] = "launched"
    /\ status' = IF status[j] = "Submitted"
                   THEN [status EXCEPT ![j] = "Running"] ELSE status
    /\ stale' = IF status[j] = "Submitted" THEN stale \ {j} ELSE stale
    /\ runner' = [runner EXCEPT ![j] = "done"]
    /\ UNCHANGED <<result, expired, outputs, histVars, mode, engine, engineUp,
                   report, outcome, cancel, watcher, fetch, crashes>>

\* A synchronous RunExecutionPlan comes back, with the result or an error;
\* DoQuery then stops the engine.
SyncReturn(j) ==
    /\ runner[j] = "waiting"
    /\ engine[j] \notin Alive
    /\ runner' = [runner EXCEPT ![j] = "stopping"]
    /\ UNCHANGED <<dbVars, histVars, mode, engine, engineUp, report, outcome,
                   cancel, watcher, fetch, crashes>>

\* The deferred Engine.Stop of a failed or synchronous query.
RunnerStop(j) ==
    /\ runner[j] = "stopping"
    /\ Stop(j)
    /\ runner' = [runner EXCEPT ![j] = "done"]
    /\ UNCHANGED <<dbVars, histVars, mode, engineUp, report, outcome, cancel,
                   watcher, fetch, crashes>>

--------------------------------------------------------------------------------
(* The engine, as far as the broker sees it.                                  *)

\* A worker thread takes the job: SyncWait, SetState(RUNNING).
EngineBegin(j) ==
    /\ engine[j] = "initialized"
    /\ engine' = [engine EXCEPT ![j] = "running"]
    /\ UNCHANGED <<dbVars, histVars, mode, runner, engineUp, report, outcome,
                   cancel, watcher, fetch, crashes>>

\* RunPlanSync ends.  SetState(COMP_FINISHED) is unconditional, so an abort
\* that comes after the last node leaves the outcome ok.  In asynchronous
\* mode the outcome is sent to the broker, otherwise the session goes.
EngineComplete(j) ==
    /\ engine[j] \in {"running", "aborting"}
    /\ IF mode[j] = "async"
         THEN /\ engine' = [engine EXCEPT ![j] = "reporting"]
              /\ report' = [report EXCEPT ![j] = "sent"]
              /\ \E o \in Outcomes : outcome' = [outcome EXCEPT ![j] = o]
         ELSE /\ engine' = [engine EXCEPT ![j] = "removed"]
              /\ UNCHANGED <<report, outcome>>
    /\ UNCHANGED <<dbVars, histVars, mode, runner, engineUp, cancel, watcher,
                   fetch, crashes>>

\* Mutant: the session is removed before ReportResult has its answer.
EngineRemoveEarly(j) ==
    /\ engine[j] = "reporting"
    /\ engine' = [engine EXCEPT ![j] = "removed"]
    /\ UNCHANGED <<dbVars, histVars, mode, runner, engineUp, report, outcome,
                   cancel, watcher, fetch, crashes>>

\* ReportResult has its answer; the session is removed after it.
EngineRemove(j) ==
    /\ engine[j] = "reporting"
    /\ report[j] = "done"
    /\ engine' = [engine EXCEPT ![j] = "removed"]
    /\ UNCHANGED <<dbVars, histVars, mode, runner, engineUp, report, outcome,
                   cancel, watcher, fetch, crashes>>

\* ReportResult fails: the request never arrives, or its answer is late and
\* the handler goes on alone.  The session becomes FAILED and is removed.
EngineReportFails(j) ==
    /\ ReportMayFail \/ report[j] = "lost"
    /\ engine[j] = "reporting"
    /\ report[j] # "done"
    /\ \/ report[j] = "sent" /\ report' = [report EXCEPT ![j] = "lost"]
       \/ UNCHANGED report
    /\ engine' = [engine EXCEPT ![j] = "lost"]
    /\ UNCHANGED <<dbVars, histVars, mode, runner, engineUp, outcome, cancel,
                   watcher, fetch, crashes>>

\* The engine process dies with all its sessions; requests on their way are
\* either lost or already in the broker's hands.
EngineCrash ==
    /\ engineUp
    /\ crashes.engine < MaxEngineCrash
    /\ engineUp' = FALSE
    /\ crashes' = [crashes EXCEPT !.engine = @ + 1]
    /\ engine' = [j \in Jobs |-> IF engine[j] \in Alive THEN "lost" ELSE engine[j]]
    /\ UNCHANGED <<dbVars, histVars, mode, runner, report, outcome, cancel,
                   watcher, fetch>>

EngineRestart ==
    /\ ~engineUp
    /\ engineUp' = TRUE
    /\ UNCHANGED <<dbVars, histVars, mode, runner, engine, report, outcome,
                   cancel, watcher, fetch, crashes>>

--------------------------------------------------------------------------------
(* The Report handler.                                                        *)

\* The status decides whether the report is ignored, refused or taken.  A
\* success whose columns do not fit the stored output names becomes an error.
ReportCheck(j) ==
    /\ report[j] = "sent"
    /\ report' = [report EXCEPT ![j] = IF status[j] \in Open THEN "checked"
                                                             ELSE "done"]
    /\ \E o \in {outcome[j], "error"} :
          /\ o = "ok" => j \in outputs
          /\ outcome' = [outcome EXCEPT ![j] = o]
    /\ UNCHANGED <<dbVars, histVars, mode, runner, engine, engineUp, cancel,
                   watcher, fetch, crashes>>

\* The deferred SetSessionResult, and its second attempt with an error.
ReportRead(j) ==
    /\ report[j] \in {"checked", "retry"}
    /\ report' = [report EXCEPT ![j] =
          IF SetSessionResultCheck(j)
            THEN IF @ = "checked" THEN "write" ELSE "rewrite"
            ELSE IF @ = "checked" THEN "retry" ELSE "stop"]
    /\ UNCHANGED <<dbVars, histVars, mode, runner, engine, engineUp, outcome,
                   cancel, watcher, fetch, crashes>>

ReportWrite(j) ==
    /\ report[j] \in {"write", "rewrite"}
    /\ \/ /\ SetSessionResultCommit(j, IF report[j] = "write" THEN outcome[j]
                                                              ELSE "error")
          /\ report' = [report EXCEPT ![j] = "stop"]
       \/ /\ SetSessionResultRollback(j)
          /\ report' = [report EXCEPT ![j] = IF @ = "write" THEN "retry"
                                                            ELSE "stop"]
    /\ UNCHANGED <<expired, outputs, cleared, mode, runner, engine, engineUp,
                   outcome, cancel, watcher, fetch, crashes>>

ReportStop(j) ==
    /\ report[j] = "stop"
    /\ Stop(j)
    /\ report' = [report EXCEPT ![j] = "done"]
    /\ UNCHANGED <<dbVars, histVars, mode, runner, engineUp, outcome, cancel,
                   watcher, fetch, crashes>>

--------------------------------------------------------------------------------
(* CancelQuery (from the user) and CancelQueryJob (from another party).       *)

\* A missing row and a job already canceled end the call.  A dry run's row
\* has no engine to parse, so CancelSession fails before it changes anything.
CancelRead(j) ==
    /\ cancel[j] = "idle"
    /\ status[j] \notin {"none", "Canceled"}
    /\ mode[j] # "dry"
    /\ cancel' = [cancel EXCEPT ![j] = "stop"]
    /\ UNCHANGED <<dbVars, histVars, mode, runner, engine, engineUp, report,
                   outcome, watcher, fetch, crashes>>

CancelStop(j) ==
    /\ cancel[j] = "stop"
    /\ Stop(j)
    /\ cancel' = [cancel EXCEPT ![j] = "clear"]
    /\ UNCHANGED <<dbVars, histVars, mode, runner, engineUp, report, outcome,
                   watcher, fetch, crashes>>

\* Mutant: the result stays when the status becomes Canceled.
CancelKeepResult(j) ==
    /\ cancel[j] = "clear"
    /\ status' = [status EXCEPT ![j] = "Canceled"]
    /\ stale' = stale \ {j}
    /\ cleared' = cleared \cup {j}
    /\ cancel' = [cancel EXCEPT ![j] = "done"]
    /\ UNCHANGED <<result, expired, outputs, dbfault, mode, runner, engine,
                   engineUp, report, outcome, watcher, fetch, crashes>>

\* ClearSessionResult: the status, then the result, in one transaction.
CancelClear(j) ==
    /\ cancel[j] = "clear"
    /\ status' = [status EXCEPT ![j] = "Canceled"]
    /\ result' = [result EXCEPT ![j] = "none"]
    /\ stale' = stale \ {j}
    /\ cleared' = cleared \cup {j}
    /\ cancel' = [cancel EXCEPT ![j] = "done"]
    /\ UNCHANGED <<expired, outputs, dbfault, mode, runner, engine, engineUp,
                   report, outcome, watcher, fetch, crashes>>

--------------------------------------------------------------------------------
(* The cron tasks: JobWatcher.CheckJobs and StorageGc.                        *)

\* collectJobs: the Running rows, with their updated_at, are copied.
WatcherCollect(w) ==
    LET jobs == {j \in Jobs : status[j] = "Running"} IN
    /\ watcher[w].pc = "idle"
    /\ jobs # {}
    /\ watcher' = [watcher EXCEPT ![w] =
          [IdleWatcher EXCEPT !.pc = "probe", !.todo = jobs,
                              !.old = stale \cap jobs]]
    /\ UNCHANGED <<dbVars, histVars, mode, runner, engine, engineUp, report,
                   outcome, cancel, fetch, crashes>>

\* Mutant: NOT_FOUND is taken for an answer.
WatcherProbeLenient(w, j) ==
    /\ watcher[w].pc = "probe"
    /\ j \in watcher[w].todo
    /\ LET rest == [watcher[w] EXCEPT !.todo = @ \ {j},
                       !.pc = IF watcher[w].todo = {j} THEN "touch" ELSE "probe"]
       IN \/ /\ engineUp
             /\ watcher' = [watcher EXCEPT ![w] = [rest EXCEPT !.alive = @ \cup {j}]]
          \/ /\ ~engineUp \/ NetMayFail
             /\ watcher' = [watcher EXCEPT ![w] = [rest EXCEPT !.unreached = @ \cup {j}]]
          \/ /\ NetMayFail
             /\ watcher' = [watcher EXCEPT ![w] = [rest EXCEPT !.skipped = @ \cup {j}]]
    /\ UNCHANGED <<dbVars, histVars, mode, runner, engine, engineUp, report,
                   outcome, cancel, fetch, crashes>>

\* IsJobAlive: the engine knows the job, does not know it, or is unavailable
\* (it is down, or the network is).  After any other error, of the call or in
\* the answer, the job is logged and left out of this round.
WatcherProbe(w, j) ==
    /\ watcher[w].pc = "probe"
    /\ j \in watcher[w].todo
    /\ LET rest == [watcher[w] EXCEPT !.todo = @ \ {j},
                       !.pc = IF watcher[w].todo = {j} THEN "touch" ELSE "probe"]
       IN \/ /\ engineUp /\ engine[j] \in Alive
             /\ watcher' = [watcher EXCEPT ![w] = [rest EXCEPT !.alive = @ \cup {j}]]
          \/ /\ engineUp /\ engine[j] \notin Alive
             /\ watcher' = [watcher EXCEPT ![w] = [rest EXCEPT !.dead = @ \cup {j}]]
          \/ /\ ~engineUp \/ NetMayFail
             /\ watcher' = [watcher EXCEPT ![w] = [rest EXCEPT !.unreached = @ \cup {j}]]
          \/ /\ NetMayFail
             /\ watcher' = [watcher EXCEPT ![w] = [rest EXCEPT !.skipped = @ \cup {j}]]
    /\ UNCHANGED <<dbVars, histVars, mode, runner, engine, engineUp, report,
                   outcome, cancel, fetch, crashes>>

\* UpdateSessionUpdatedAt for the jobs that answered; of the unreachable
\* ones, those whose copied updated_at is too old join the dead.
WatcherTouch(w) ==
    /\ watcher[w].pc = "touch"
    /\ stale' = stale \ watcher[w].alive
    /\ watcher' = [watcher EXCEPT ![w].pc = "decide",
          ![w].dead = @ \cup (watcher[w].unreached \cap (watcher[w].old \cup stale))]
    /\ UNCHANGED <<status, result, expired, outputs, histVars, mode, runner,
                   engine, engineUp, report, outcome, cancel, fetch, crashes>>

\* Mutant: the loop forgets which job it handles.
WatcherDeadReadBlind(w, j) ==
    /\ watcher[w].pc = "decide"
    /\ j \in watcher[w].dead
    /\ watcher' = [watcher EXCEPT
          ![w].pc = IF SetSessionResultCheck(j) THEN "write" ELSE "stop"]
    /\ UNCHANGED <<dbVars, histVars, mode, runner, engine, engineUp, report,
                   outcome, cancel, fetch, crashes>>

\* onJobDead: SetSessionResult with an error ...
WatcherDeadRead(w, j) ==
    /\ watcher[w].pc = "decide"
    /\ j \in watcher[w].dead
    /\ watcher' = [watcher EXCEPT ![w].cur = j,
          ![w].pc = IF SetSessionResultCheck(j) THEN "write" ELSE "stop"]
    /\ UNCHANGED <<dbVars, histVars, mode, runner, engine, engineUp, report,
                   outcome, cancel, fetch, crashes>>

WatcherDeadWrite(w) ==
    /\ watcher[w].pc = "write"
    /\ \/ SetSessionResultCommit(watcher[w].cur, "error")
       \/ SetSessionResultRollback(watcher[w].cur)
    /\ watcher' = [watcher EXCEPT ![w].pc = "stop"]
    /\ UNCHANGED <<expired, outputs, cleared, mode, runner, engine, engineUp,
                   report, outcome, cancel, fetch, crashes>>

\* ... and the engine is stopped, whatever became of the result.
WatcherDeadStop(w) ==
    /\ watcher[w].pc = "stop"
    /\ Stop(watcher[w].cur)
    /\ watcher' = [watcher EXCEPT ![w].pc = "decide", ![w].cur = NoJob,
          ![w].dead = @ \ {watcher[w].cur},
          ![w].failed = @ \cup {watcher[w].cur}]
    /\ UNCHANGED <<dbVars, histVars, mode, runner, engineUp, report, outcome,
                   cancel, fetch, crashes>>

\* SetMultipleSessionStatus(failed, Failed), without looking at the rows.
WatcherMark(w) ==
    /\ watcher[w].pc = "decide"
    /\ watcher[w].dead = {}
    /\ status' = [j \in Jobs |-> IF j \in watcher[w].failed THEN "Failed"
                                                            ELSE status[j]]
    /\ stale' = stale \ watcher[w].failed
    /\ watcher' = [watcher EXCEPT ![w] = IdleWatcher]
    /\ UNCHANGED <<result, expired, outputs, histVars, mode, runner, engine,
                   engineUp, report, outcome, cancel, fetch, crashes>>

\* Mutant: only rows that become Timeout now lose their result, so what is
\* beyond the batch is never deleted.
StorageGcOnce ==
    LET old == {j \in expired : result[j] # "none" /\ status[j] # "Timeout"} IN
    /\ \E j \in expired : status[j] # "Timeout"
    /\ \E victims \in SUBSET old :
          /\ \/ victims = old /\ Cardinality(old) <= GcBatch
             \/ Cardinality(victims) = GcBatch
          /\ result' = [j \in Jobs |-> IF j \in victims THEN "none" ELSE result[j]]
    /\ status' = [j \in Jobs |-> IF j \in expired THEN "Timeout" ELSE status[j]]
    /\ stale' = stale \ expired
    /\ UNCHANGED <<expired, outputs, histVars, mode, runner, engine, engineUp,
                   report, outcome, cancel, watcher, fetch, crashes>>

\* ClearExpiredSessions: at most GcBatch expired results are deleted, and
\* every expired row becomes Timeout.
StorageGc ==
    LET old == {j \in expired : result[j] # "none"} IN
    /\ old # {} \/ \E j \in expired : status[j] # "Timeout"
    /\ \E victims \in SUBSET old :
          /\ \/ victims = old /\ Cardinality(old) <= GcBatch
             \/ Cardinality(victims) = GcBatch
          /\ result' = [j \in Jobs |-> IF j \in victims THEN "none" ELSE result[j]]
    /\ status' = [j \in Jobs |-> IF j \in expired THEN "Timeout" ELSE status[j]]
    /\ stale' = stale \ expired
    /\ UNCHANGED <<expired, outputs, histVars, mode, runner, engine, engineUp,
                   report, outcome, cancel, watcher, fetch, crashes>>

--------------------------------------------------------------------------------
(* FetchResult.                                                               *)

\* Read the row: canceled and expired jobs are answered at once.
FetchStart(j) ==
    /\ fetch.pc = "idle"
    /\ status[j] \notin {"none", "Canceled"} /\ j \notin expired
    /\ fetch' = [IdleFetch EXCEPT !.pc = "result", !.job = j]
    /\ UNCHANGED <<dbVars, histVars, mode, runner, engine, engineUp, report,
                   outcome, cancel, watcher, crashes>>

\* getAndCheckSessionResult: a result is returned.
FetchReadResult ==
    /\ fetch.pc = "result"
    /\ fetch' = IF result[fetch.job] # "none" THEN IdleFetch
                                              ELSE [fetch EXCEPT !.pc = "engine"]
    /\ UNCHANGED <<dbVars, histVars, mode, runner, engine, engineUp, report,
                   outcome, cancel, watcher, crashes>>

\* QueryJobStatus: with progress or without an answer, NOT_READY is returned;
\* NOT_FOUND leads to a second look at the result.  "gone" records that the
\* engine had reported and removed the job.
FetchProbe ==
    /\ fetch.pc = "engine"
    /\ \/ fetch' = IdleFetch
       \/ /\ engineUp
          /\ engine[fetch.job] \notin Alive
          /\ fetch' = [fetch EXCEPT !.pc = "second",
                                    !.gone = engine[fetch.job] = "removed"
                                               /\ mode[fetch.job] = "async"]
    /\ UNCHANGED <<dbVars, histVars, mode, runner, engine, engineUp, report,
                   outcome, cancel, watcher, crashes>>

\* The result, or NOT_READY when there is none again.
FetchSecond ==
    /\ fetch.pc = "second"
    /\ fetch' = IdleFetch
    /\ UNCHANGED <<dbVars, histVars, mode, runner, engine, engineUp, report,
                   outcome, cancel, watcher, crashes>>

--------------------------------------------------------------------------------
(* Time and broker crashes.                                                   *)

Expire(j) ==
    /\ CanExpire
    /\ status[j] # "none"
    /\ j \notin expired
    /\ expired' = expired \cup {j}
    /\ UNCHANGED <<status, result, stale, outputs, histVars, mode, runner,
                   engine, engineUp, report, outcome, cancel, watcher, fetch,
                   crashes>>

\* maxUnavailableTime passes since the row was last updated.
Outdate(j) ==
    /\ status[j] = "Running"
    /\ j \notin stale
    /\ stale' = stale \cup {j}
    /\ UNCHANGED <<status, result, expired, outputs, histVars, mode, runner,
                   engine, engineUp, report, outcome, cancel, watcher, fetch,
                   crashes>>

\* The broker dies: handlers and goroutines are gone, transactions that were
\* not committed are rolled back, the rows stay.
BrokerCrash ==
    /\ crashes.broker < MaxBrokerCrash
    /\ crashes' = [crashes EXCEPT !.broker = @ + 1]
    /\ runner' = [j \in Jobs |-> IF runner[j] \in {"idle", "done"} THEN runner[j]
                                                                   ELSE "crashed"]
    /\ report' = [j \in Jobs |-> IF report[j] \in {"idle", "done"} THEN report[j]
                                                                   ELSE "lost"]
    /\ cancel' = [j \in Jobs |-> IF cancel[j] = "done" THEN "done" ELSE "idle"]
    /\ watcher' = [w \in Watchers |-> IdleWatcher]
    /\ fetch' = IdleFetch
    /\ UNCHANGED <<dbVars, histVars, mode, engine, engineUp, outcome>>

--------------------------------------------------------------------------------
RunnerStep(j) == \/ AddSession(j) \/ RunnerGiveUp(j) \/ UpdateSession(j)
                 \/ Launch(j) \/ LaunchFails(j) \/ MarkRunning(j)
                 \/ SyncReturn(j) \/ RunnerStop(j)
EngineStep(j) == \/ EngineBegin(j) \/ EngineComplete(j) \/ EngineRemove(j)
ReportStep(j) == \/ ReportCheck(j) \/ ReportRead(j) \/ ReportWrite(j)
                 \/ ReportStop(j)
CancelStep(j) == \/ CancelRead(j) \/ CancelStop(j) \/ CancelClear(j)
WatcherStep(w) == \/ WatcherCollect(w) \/ WatcherTouch(w)
                  \/ \E j \in Jobs : WatcherProbe(w, j) \/ WatcherDeadRead(w, j)
                  \/ WatcherDeadWrite(w) \/ WatcherDeadStop(w) \/ WatcherMark(w)
FetchStep == (\E j \in Jobs : FetchStart(j)) \/ FetchReadResult \/ FetchProbe
               \/ FetchSecond

Next ==
    \/ \E j \in Jobs : \/ RunnerStep(j) \/ DuplicateSubmit(j)
                       \/ EngineStep(j) \/ EngineReportFails(j)
                       \/ ReportStep(j) \/ CancelStep(j)
                       \/ Expire(j) \/ Outdate(j)
    \/ \E w \in Watchers : WatcherStep(w)
    \/ StorageGc
    \/ FetchStep
    \/ EngineCrash \/ EngineRestart \/ BrokerCrash

Spec == Init /\ [][Next]_vars

(***************************************************************************)
(* Fairness.  Handlers, goroutines and engine threads that can take their  *)
(* next step do; the ticker of every instance keeps starting CheckJobs.    *)
(* Nothing obliges a user to submit, cancel or fetch, a component to fail, *)
(* or an unreachable engine to come back; but the clock moves on.  A probe *)
(* has no deadline (context.TODO()), so nothing obliges it to return.      *)
(***************************************************************************)
RunnerProgress(j) == runner[j] # "idle" /\ RunnerStep(j)
EngineProgress(j) == EngineStep(j) \/ EngineReportFails(j)
CancelProgress(j) == CancelStop(j) \/ CancelClear(j)
WatcherProgress(w) == watcher[w].pc # "probe" /\ WatcherStep(w)

Fairness ==
    /\ \A j \in Jobs : /\ WF_vars(RunnerProgress(j))
                       /\ WF_vars(EngineProgress(j))
                       /\ WF_vars(ReportStep(j))
                       /\ WF_vars(CancelProgress(j))
                       /\ WF_vars(Outdate(j))
    /\ \A w \in Watchers : WF_vars(WatcherProgress(w))

FairSpec == Spec /\ Fairness

--------------------------------------------------------------------------------
(* Properties.                                                                *)

WatcherType ==
    [pc : WatcherStates, todo : SUBSET Jobs, old : SUBSET Jobs,
     alive : SUBSET Jobs, unreached : SUBSET Jobs, skipped : SUBSET Jobs,
     dead : SUBSET Jobs, failed : SUBSET Jobs, cur : Jobs \cup {NoJob}]

\* The rows, the handlers' positions and the engine's sessions have the
\* values the code gives them; a handler that works on a job has one.
TypeOK ==
    /\ status \in [Jobs -> Statuses \cup {"none"}]
    /\ result \in [Jobs -> Outcomes \cup {"none"}]
    /\ expired \in SUBSET Jobs
    /\ stale \in SUBSET Jobs
    /\ outputs \in SUBSET Jobs
    /\ mode \in [Jobs -> AllModes]
    /\ runner \in [Jobs -> RunnerStates]
    /\ engine \in [Jobs -> EngineStates]
    /\ engineUp \in BOOLEAN
    /\ report \in [Jobs -> ReportStates]
    /\ outcome \in [Jobs -> Outcomes]
    /\ cancel \in [Jobs -> CancelStates]
    /\ watcher \in [Watchers -> WatcherType]
    /\ \A w \in Watchers : watcher[w].pc \in {"write", "stop"} => watcher[w].cur \in Jobs
    /\ fetch \in [pc : FetchStates, job : Jobs \cup {NoJob}, gone : BOOLEAN]
    /\ fetch.pc \in {"result", "engine", "second"} => fetch.job \in Jobs
    /\ crashes \in [engine : Nat, broker : Nat]
    /\ cleared \in SUBSET Jobs
    /\ dbfault \in SUBSET Jobs

\* A stored result belongs to a job that is over and was not canceled: no
\* interleaving of Report, the watcher, cancel and GC leaves a result under
\* a row that FetchResult calls canceled or the watcher still watches.
ResultOnlyWhenOver ==
    \A j \in Jobs : result[j] # "none" => status[j] \in {"Finished", "Failed", "Timeout"}

\* The jobs FetchResult tells the user something final about, by the rows as
\* they are: there is a result, the status is Canceled, or they expired.
Answered == {j \in Jobs : result[j] # "none" \/ status[j] = "Canceled"} \cup expired

\* A canceled job that a round of CheckJobs, begun before the cancellation,
\* marked Failed afterwards.
Overtaken == {j \in cleared : status[j] = "Failed"}

\* A job that left Submitted/Running has an answer: SetSessionResult,
\* ClearSessionResult, CheckJobs and GC close no job and leave the user
\* polling NOT_READY, unless the database refused its result or the watcher
\* overtook its cancellation (CanceledIsAnswered).
SettledIsAnswered ==
    \A j \in Jobs : status[j] \in Settled => j \in Answered \cup dbfault \cup Overtaken

\* The jobs that got an answer at some time, or whose result was refused.
Accounted == {j \in Jobs : result[j] # "none"} \cup cleared \cup expired \cup dbfault

\* FetchResult that finds no result, then learns from the engine that the
\* reported job is gone, finds the answer at its second look (the comment at
\* query_handler.go:305): the engine removes a session only after Report.
SecondLookFinds ==
    fetch.pc = "second" /\ fetch.gone => fetch.job \in Accounted

\* A report that is checked against the stored output names finds them:
\* UpdateSession commits before RunExecutionPlan can lead to a Report.
OutputNamesKnown ==
    \A j \in Jobs : report[j] \notin {"idle", "lost"} => j \in outputs

\* A job that is over is never open again, whatever order MarkRunning,
\* UpdateSession, Report, cancel, watcher and GC commit in.
NeverReopened ==
    [][\A j \in Jobs : status[j] \in Settled => status'[j] \in Settled]_vars

\* A stored result is never replaced by another one: two writers that both
\* read an open job (Report and onJobDead, or two instances' onJobDead) do
\* not overwrite each other.
ResultWrittenOnce ==
    [][\A j \in Jobs : result[j] # "none" => result'[j] \in {result[j], "none"}]_vars

\* A job stays Running for ever only if the watcher keeps being unable to
\* judge it (probes that fail, but not as Unavailable, are passed over in
\* every round) or a probe never returns.  Otherwise it ends without the GC's
\* help: the engine reports, or CheckJobs notices that it never will.
RunningJobsEnd ==
    \A j \in Jobs : <>[](status[j] = "Running") =>
        \/ []<>(\E w \in Watchers : j \in watcher[w].skipped)
        \/ \A w \in Watchers : <>[](watcher[w].pc = "probe")

\* The results of expired jobs are all deleted in the end, also when more of
\* them expire than one ClearExpiredSessions deletes.
ExpiredResultsDeleted ==
    \A j \in Jobs : j \in expired ~> [](result[j] = "none" /\ status[j] = "Timeout")

\* The comment at query_handler.go:271: a canceled session stays in the
\* database as such, without its result; FetchResult knows it by its status
\* and tells the user so instead of NOT_READY.
CanceledIsAnswered == cleared \subseteq Answered

\* The NOTE at engine_service_impl.cc:622-624: the session outlives
\* ReportResult so that the job watcher does not take a reported job for a
\* lost one; then a job with a good result is never Failed.
ReportedJobNotFailed ==
    \A j \in Jobs : result[j] = "ok" => status[j] # "Failed"

================================================================================
