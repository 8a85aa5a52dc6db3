---------------------------- MODULE BrokerJobProofs ----------------------------
(***************************************************************************)
(* Proofs about BrokerJob for any set of jobs and instances.               *)
(*                                                                         *)
(* SettledIsAnswered is not inductive: the watcher closes jobs it handled  *)
(* several steps ago, and FetchResult relies on what the engine did before *)
(* it removed the session.  RowInv says which handlers imply that a row    *)
(* exists; AnswerInv carries "this job got an answer" through the          *)
(* positions of Report, CheckJobs, the engine and FetchResult; ClosedInv   *)
(* says which statuses imply that the answer is still there.               *)
(***************************************************************************)
EXTENDS BrokerJob, TLAPS

\* A job that is executed, held by the engine, reported or watched has a row,
\* and a job the engine may see has its output names stored.
RowInv ==
    /\ \A j \in Jobs :
         /\ runner[j] # "idle" => status[j] # "none"
         /\ runner[j] = "updated" => j \in outputs
         /\ engine[j] # "none" => status[j] # "none" /\ j \in outputs
         /\ report[j] # "idle" => engine[j] # "none"
    /\ \A w \in Watchers :
         /\ \A j \in watcher[w].todo \cup watcher[w].unreached \cup watcher[w].dead :
               status[j] # "none"
         /\ watcher[w].cur \in Jobs => status[watcher[w].cur] # "none"

\* Where a handler has passed the point at which the job got its answer.
AnswerInv ==
    /\ \A j \in Jobs :
         /\ status[j] \in Settled => j \in Accounted
         /\ report[j] \in {"stop", "done"} => j \in Accounted
         /\ engine[j] = "removed" /\ mode[j] = "async" => j \in Accounted
    /\ \A w \in Watchers :
         /\ \A j \in watcher[w].failed : j \in Accounted
         /\ watcher[w].pc = "stop" => watcher[w].cur \in Accounted
    /\ fetch.gone => fetch.job \in Accounted

--------------------------------------------------------------------------------
(* Lemmas.                                                                    *)

\* A probe of CheckJobs moves job j from the list to one of the four groups
\* and leaves the rest of the round alone.
LEMMA ProbeRecord ==
    ASSUME TypeOK, NEW w \in Watchers, NEW j \in Jobs, WatcherProbe(w, j)
    PROVE  \E r \in WatcherType :
              /\ watcher' = [watcher EXCEPT ![w] = r]
              /\ r.pc \in {"touch", "probe"}
              /\ r.todo \subseteq watcher[w].todo
              /\ r.unreached \subseteq watcher[w].unreached \cup {j}
              /\ r.dead \subseteq watcher[w].dead \cup {j}
              /\ r.failed = watcher[w].failed
              /\ r.cur = watcher[w].cur
<1> DEFINE rest == [watcher[w] EXCEPT !.todo = @ \ {j},
                      !.pc = IF watcher[w].todo = {j} THEN "touch" ELSE "probe"]
           a == [rest EXCEPT !.alive = @ \cup {j}]
           d == [rest EXCEPT !.dead = @ \cup {j}]
           u == [rest EXCEPT !.unreached = @ \cup {j}]
           s == [rest EXCEPT !.skipped = @ \cup {j}]
<1>1. watcher[w] \in WatcherType
  BY DEF TypeOK
<1>2. /\ rest \in WatcherType
      /\ rest.pc \in {"touch", "probe"}
      /\ rest.todo \subseteq watcher[w].todo
      /\ rest.unreached = watcher[w].unreached
      /\ rest.dead = watcher[w].dead
      /\ rest.failed = watcher[w].failed
      /\ rest.cur = watcher[w].cur
  BY <1>1, Zenon DEF WatcherType, WatcherStates
<1>3. \E r \in {a, d, u, s} : watcher' = [watcher EXCEPT ![w] = r]
  BY DEF WatcherProbe
<1> HIDE DEF rest
<1>4. \A r \in {a, d, u, s} :
         /\ r \in WatcherType
         /\ r.pc = rest.pc /\ r.todo = rest.todo
         /\ r.failed = rest.failed /\ r.cur = rest.cur
         /\ r.unreached \subseteq rest.unreached \cup {j}
         /\ r.dead \subseteq rest.dead \cup {j}
  BY <1>2 DEF WatcherType
<1> QED
  BY <1>2, <1>3, <1>4, ZenonT(30)

\* The records of a watcher and a FetchResult that are not working.
LEMMA IdleRecords ==
    /\ IdleWatcher \in WatcherType
    /\ IdleWatcher.pc = "idle" /\ IdleWatcher.cur \notin Jobs
    /\ IdleWatcher.todo = {} /\ IdleWatcher.unreached = {}
    /\ IdleWatcher.dead = {} /\ IdleWatcher.failed = {}
    /\ IdleFetch \in [pc : FetchStates, job : Jobs \cup {NoJob}, gone : BOOLEAN]
    /\ IdleFetch.pc = "idle" /\ ~IdleFetch.gone
  BY BrokerJobAssumption
    DEF IdleWatcher, IdleFetch, WatcherType, WatcherStates, FetchStates

\* Every step of the broker, the engine and the clock keeps the types.
LEMMA TypeStep == TypeOK /\ [Next]_vars => TypeOK'
<1> SUFFICES ASSUME TypeOK, [Next]_vars PROVE TypeOK'
  OBVIOUS
<1> USE DEF TypeOK, dbVars, histVars
<1>1. ASSUME NEW j \in Jobs, AddSession(j)
      PROVE  TypeOK'
  <2>1. mode' \in [Jobs -> AllModes]
    BY <1>1, BrokerJobAssumption DEF AddSession
  <2> QED
    BY <1>1, <2>1 DEF AddSession, Statuses, Open, RunnerStates
<1>2. ASSUME NEW j \in Jobs, DuplicateSubmit(j)
      PROVE  TypeOK'
  BY <1>2 DEF DuplicateSubmit, Stop, EngineStates, Alive
<1>3. ASSUME NEW j \in Jobs, RunnerGiveUp(j)
      PROVE  TypeOK'
  BY <1>3 DEF RunnerGiveUp, RunnerStates
<1>4. ASSUME NEW j \in Jobs, UpdateSession(j)
      PROVE  TypeOK'
  BY <1>4 DEF UpdateSession, RunnerStates
<1>5. ASSUME NEW j \in Jobs, Launch(j)
      PROVE  TypeOK'
  BY <1>5 DEF Launch, RunnerStates, EngineStates, Alive
<1>6. ASSUME NEW j \in Jobs, LaunchFails(j)
      PROVE  TypeOK'
  BY <1>6 DEF LaunchFails, RunnerStates, EngineStates, Alive
<1>7. ASSUME NEW j \in Jobs, MarkRunning(j)
      PROVE  TypeOK'
  BY <1>7 DEF MarkRunning, RunnerStates, Statuses, Open
<1>8. ASSUME NEW j \in Jobs, SyncReturn(j)
      PROVE  TypeOK'
  BY <1>8 DEF SyncReturn, RunnerStates
<1>9. ASSUME NEW j \in Jobs, RunnerStop(j)
      PROVE  TypeOK'
  BY <1>9 DEF RunnerStop, Stop, EngineStates, Alive, RunnerStates
<1>10. ASSUME NEW j \in Jobs, EngineBegin(j)
      PROVE  TypeOK'
  BY <1>10 DEF EngineBegin, EngineStates, Alive
<1>11. ASSUME NEW j \in Jobs, EngineComplete(j)
      PROVE  TypeOK'
  BY <1>11 DEF EngineComplete, EngineStates, Alive, ReportStates, Outcomes
<1>12. ASSUME NEW j \in Jobs, EngineRemove(j)
      PROVE  TypeOK'
  BY <1>12 DEF EngineRemove, EngineStates
<1>13. ASSUME NEW j \in Jobs, EngineReportFails(j)
      PROVE  TypeOK'
  BY <1>13 DEF EngineReportFails, EngineStates, ReportStates
<1>14. ASSUME NEW j \in Jobs, ReportCheck(j)
      PROVE  TypeOK'
  BY <1>14 DEF ReportCheck, ReportStates, Outcomes
<1>15. ASSUME NEW j \in Jobs, ReportRead(j)
      PROVE  TypeOK'
  BY <1>15 DEF ReportRead, ReportStates, SetSessionResultCheck
<1>16. ASSUME NEW j \in Jobs, ReportWrite(j)
      PROVE  TypeOK'
  BY <1>16 DEF ReportWrite, ReportStates, SetSessionResultCommit,
    SetSessionResultRollback, Statuses, Settled, Outcomes
<1>17. ASSUME NEW j \in Jobs, ReportStop(j)
      PROVE  TypeOK'
  BY <1>17 DEF ReportStop, Stop, EngineStates, Alive, ReportStates
<1>18. ASSUME NEW j \in Jobs, CancelRead(j)
      PROVE  TypeOK'
  BY <1>18 DEF CancelRead, CancelStates
<1>19. ASSUME NEW j \in Jobs, CancelStop(j)
      PROVE  TypeOK'
  BY <1>19 DEF CancelStop, Stop, EngineStates, Alive, CancelStates
<1>20. ASSUME NEW j \in Jobs, CancelClear(j)
      PROVE  TypeOK'
  BY <1>20 DEF CancelClear, CancelStates, Statuses, Settled
<1>21. ASSUME NEW j \in Jobs, Expire(j)
      PROVE  TypeOK'
  BY <1>21 DEF Expire
<1>22. ASSUME NEW j \in Jobs, Outdate(j)
      PROVE  TypeOK'
  BY <1>22 DEF Outdate
<1>23. ASSUME NEW j \in Jobs, FetchStart(j)
      PROVE  TypeOK'
  <2>1. /\ fetch' \in [pc : FetchStates, job : Jobs \cup {NoJob}, gone : BOOLEAN]
        /\ fetch'.pc \in {"result", "engine", "second"} => fetch'.job \in Jobs
    BY <1>23, Zenon DEF FetchStart, IdleFetch, FetchStates
  <2> QED
    BY <1>23, <2>1 DEF FetchStart
<1>24. ASSUME NEW w \in Watchers, WatcherCollect(w)
      PROVE  TypeOK'
  <2>1. watcher' \in [Watchers -> WatcherType]
    BY <1>24, Zenon DEF WatcherCollect, WatcherType, WatcherStates, IdleWatcher
  <2>2. \A v \in Watchers : watcher'[v].pc \in {"write", "stop"} => watcher'[v].cur \in Jobs
    BY <1>24 DEF WatcherCollect, WatcherType, IdleWatcher
  <2> QED
    BY <1>24, <2>1, <2>2 DEF WatcherCollect
<1>25. ASSUME NEW w \in Watchers, WatcherTouch(w)
      PROVE  TypeOK'
  <2>0. watcher[w] \in WatcherType
    OBVIOUS
  <2>1. watcher[w].dead \cup (watcher[w].unreached \cap (watcher[w].old \cup stale))
          \in SUBSET Jobs
    BY <2>0 DEF WatcherType
  <2>2. watcher' \in [Watchers -> WatcherType]
    <3> DEFINE r == [watcher[w] EXCEPT !.pc = "decide",
                       !.dead = @ \cup (watcher[w].unreached
                                           \cap (watcher[w].old \cup stale))]
    <3>1. r \in WatcherType
      BY <2>0, <2>1, Zenon DEF WatcherType, WatcherStates
    <3>2. watcher' = [watcher EXCEPT ![w] = r]
      BY <1>25, Zenon DEF WatcherTouch
    <3> QED
      BY <3>1, <3>2
  <2> QED
    BY <1>25, <2>2 DEF WatcherTouch, WatcherType
<1>26. ASSUME NEW w \in Watchers, WatcherDeadWrite(w)
      PROVE  TypeOK'
  <2>1. watcher[w] \in WatcherType /\ watcher[w].cur \in Jobs
    BY <1>26 DEF WatcherDeadWrite
  <2>2. watcher' \in [Watchers -> WatcherType]
    BY <1>26, <2>1, Zenon DEF WatcherDeadWrite, WatcherType, WatcherStates
  <2>3. \A v \in Watchers : watcher'[v].pc \in {"write", "stop"} => watcher'[v].cur \in Jobs
    BY <1>26, <2>1 DEF WatcherDeadWrite, WatcherType
  <2>4. CASE SetSessionResultCommit(watcher[w].cur, "error")
    BY <1>26, <2>1, <2>2, <2>3, <2>4
      DEF WatcherDeadWrite, SetSessionResultCommit, Statuses, Settled, Outcomes
  <2>5. CASE SetSessionResultRollback(watcher[w].cur)
    BY <1>26, <2>1, <2>2, <2>3, <2>5, SMTT(20)
      DEF WatcherDeadWrite, SetSessionResultRollback
  <2> QED
    BY <1>26, <2>4, <2>5 DEF WatcherDeadWrite
<1>27. ASSUME NEW w \in Watchers, WatcherDeadStop(w)
      PROVE  TypeOK'
  <2>1. watcher[w] \in WatcherType /\ watcher[w].cur \in Jobs
    BY <1>27 DEF WatcherDeadStop
  <2>2. watcher' \in [Watchers -> WatcherType]
    <3> DEFINE r == [watcher[w] EXCEPT !.pc = "decide", !.cur = NoJob,
                       !.dead = @ \ {watcher[w].cur},
                       !.failed = @ \cup {watcher[w].cur}]
    <3>1. r \in WatcherType
      BY <2>1, Zenon DEF WatcherType, WatcherStates
    <3>2. watcher' = [watcher EXCEPT ![w] = r]
      BY <1>27, Zenon DEF WatcherDeadStop
    <3> QED
      BY <3>1, <3>2
  <2>3. \A v \in Watchers : watcher'[v].pc \in {"write", "stop"} => watcher'[v].cur \in Jobs
    BY <1>27, <2>1 DEF WatcherDeadStop, WatcherType
  <2>4. engine' \in [Jobs -> EngineStates]
    BY <1>27, <2>1 DEF WatcherDeadStop, Stop, EngineStates, Alive
  <2> QED
    BY <1>27, <2>2, <2>3, <2>4 DEF WatcherDeadStop, Stop
<1>28. ASSUME NEW w \in Watchers, WatcherMark(w)
      PROVE  TypeOK'
  BY <1>28 DEF WatcherMark, WatcherType, WatcherStates, IdleWatcher, Statuses,
    Settled
<1>29. ASSUME NEW w \in Watchers, NEW j \in Jobs, WatcherProbe(w, j)
      PROVE  TypeOK'
  <2>1. PICK r \in WatcherType : /\ watcher' = [watcher EXCEPT ![w] = r]
                                 /\ r.pc \in {"touch", "probe"}
    BY <1>29, ProbeRecord
  <2>2. watcher' \in [Watchers -> WatcherType]
    BY <2>1
  <2>3. \A v \in Watchers : watcher'[v].pc \in {"write", "stop"} => watcher'[v].cur \in Jobs
    BY <2>1
  <2> QED
    BY <1>29, <2>2, <2>3 DEF WatcherProbe
<1>30. ASSUME NEW w \in Watchers, NEW j \in Jobs, WatcherDeadRead(w, j)
      PROVE  TypeOK'
  BY <1>30 DEF WatcherDeadRead, WatcherType, WatcherStates
<1>31. CASE StorageGc
  BY <1>31 DEF StorageGc, Statuses, Settled
<1>32. CASE FetchReadResult
  BY <1>32, IdleRecords DEF FetchReadResult, FetchStates
<1>33. CASE FetchProbe
  <2>1. /\ fetch' \in [pc : FetchStates, job : Jobs \cup {NoJob}, gone : BOOLEAN]
        /\ fetch'.pc \in {"result", "engine", "second"} => fetch'.job \in Jobs
    <3>1. CASE fetch' = IdleFetch
      BY <3>1, IdleRecords
    <3>2. CASE fetch' = [fetch EXCEPT !.pc = "second",
                          !.gone = engine[fetch.job] = "removed"
                                     /\ mode[fetch.job] = "async"]
      BY <1>33, <3>2, Zenon DEF FetchProbe, FetchStates
    <3> QED
      BY <1>33, <3>1, <3>2 DEF FetchProbe
  <2> QED
    BY <1>33, <2>1 DEF FetchProbe
<1>34. CASE FetchSecond
  BY <1>34, IdleRecords DEF FetchSecond, FetchStates
<1>35. CASE EngineCrash
  <2>1. crashes' \in [engine : Nat, broker : Nat]
    BY <1>35 DEF EngineCrash
  <2> QED
    BY <1>35, <2>1, Zenon DEF EngineCrash, EngineStates
<1>36. CASE EngineRestart
  BY <1>36 DEF EngineRestart
<1>37. CASE BrokerCrash
  <2>1. /\ runner' \in [Jobs -> RunnerStates]
        /\ report' \in [Jobs -> ReportStates]
        /\ cancel' \in [Jobs -> CancelStates]
    BY <1>37 DEF BrokerCrash, RunnerStates, ReportStates, CancelStates
  <2>2. /\ watcher' \in [Watchers -> WatcherType]
        /\ \A w \in Watchers : watcher'[w].pc = "idle"
        /\ fetch' \in [pc : FetchStates, job : Jobs \cup {NoJob}, gone : BOOLEAN]
        /\ fetch'.pc = "idle"
    BY <1>37, IdleRecords DEF BrokerCrash
  <2>3. crashes' \in [engine : Nat, broker : Nat]
    BY <1>37 DEF BrokerCrash
  <2> QED
    BY <1>37, <2>1, <2>2, <2>3 DEF BrokerCrash
<1>38. CASE UNCHANGED vars
  BY <1>38 DEF vars
<1> QED
  BY <1>1, <1>2, <1>3, <1>4, <1>5, <1>6, <1>7, <1>8, <1>9, <1>10, <1>11,
    <1>12, <1>13, <1>14, <1>15, <1>16, <1>17, <1>18, <1>19, <1>20, <1>21,
    <1>22, <1>23, <1>24, <1>25, <1>26, <1>27, <1>28, <1>29, <1>30, <1>31,
    <1>32, <1>33, <1>34, <1>35, <1>36, <1>37, <1>38, Zenon DEF Next, RunnerStep,
    EngineStep, ReportStep, CancelStep, WatcherStep, FetchStep

\* Rows are inserted before anything works on the job and are never deleted.
LEMMA RowStep == TypeOK /\ RowInv /\ [Next]_vars => RowInv'
<1> SUFFICES ASSUME TypeOK, RowInv, [Next]_vars PROVE RowInv'
  OBVIOUS
<1> USE DEF TypeOK, RowInv, dbVars, histVars
<1>1. ASSUME NEW j \in Jobs, AddSession(j)
      PROVE  RowInv'
  BY <1>1 DEF AddSession
<1>2. ASSUME NEW j \in Jobs, DuplicateSubmit(j)
      PROVE  RowInv'
  BY <1>2 DEF DuplicateSubmit, Stop
<1>3. ASSUME NEW j \in Jobs, RunnerGiveUp(j)
      PROVE  RowInv'
  BY <1>3 DEF RunnerGiveUp
<1>4. ASSUME NEW j \in Jobs, UpdateSession(j)
      PROVE  RowInv'
  BY <1>4 DEF UpdateSession
<1>5. ASSUME NEW j \in Jobs, Launch(j)
      PROVE  RowInv'
  BY <1>5 DEF Launch
<1>6. ASSUME NEW j \in Jobs, LaunchFails(j)
      PROVE  RowInv'
  BY <1>6 DEF LaunchFails
<1>7. ASSUME NEW j \in Jobs, MarkRunning(j)
      PROVE  RowInv'
  BY <1>7 DEF MarkRunning
<1>8. ASSUME NEW j \in Jobs, SyncReturn(j)
      PROVE  RowInv'
  BY <1>8 DEF SyncReturn
<1>9. ASSUME NEW j \in Jobs, RunnerStop(j)
      PROVE  RowInv'
  BY <1>9 DEF RunnerStop, Stop
<1>10. ASSUME NEW j \in Jobs, EngineBegin(j)
      PROVE  RowInv'
  BY <1>10 DEF EngineBegin
<1>11. ASSUME NEW j \in Jobs, EngineComplete(j)
      PROVE  RowInv'
  BY <1>11 DEF EngineComplete
<1>12. ASSUME NEW j \in Jobs, EngineRemove(j)
      PROVE  RowInv'
  BY <1>12 DEF EngineRemove
<1>13. ASSUME NEW j \in Jobs, EngineReportFails(j)
      PROVE  RowInv'
  BY <1>13 DEF EngineReportFails
<1>14. ASSUME NEW j \in Jobs, ReportCheck(j)
      PROVE  RowInv'
  BY <1>14 DEF ReportCheck
<1>15. ASSUME NEW j \in Jobs, ReportRead(j)
      PROVE  RowInv'
  BY <1>15 DEF ReportRead
<1>16. ASSUME NEW j \in Jobs, ReportWrite(j)
      PROVE  RowInv'
  <2>1. /\ status[j] # "none"
        /\ \A k \in Jobs : status[k] # "none" => status'[k] # "none"
    BY <1>16 DEF ReportWrite, SetSessionResultCommit, SetSessionResultRollback
  <2>2. \A k \in Jobs : report[k] = "idle" => report'[k] = "idle"
    BY <1>16 DEF ReportWrite
  <2>3. \A k \in Jobs : report'[k] # "idle" => report[k] # "idle"
    BY <1>16 DEF ReportWrite
  <2> QED
    BY <1>16, <2>1, <2>3 DEF ReportWrite, WatcherType
<1>17. ASSUME NEW j \in Jobs, ReportStop(j)
      PROVE  RowInv'
  BY <1>17 DEF ReportStop, Stop
<1>18. ASSUME NEW j \in Jobs, CancelRead(j)
      PROVE  RowInv'
  BY <1>18 DEF CancelRead
<1>19. ASSUME NEW j \in Jobs, CancelStop(j)
      PROVE  RowInv'
  BY <1>19 DEF CancelStop, Stop
<1>20. ASSUME NEW j \in Jobs, CancelClear(j)
      PROVE  RowInv'
  BY <1>20 DEF CancelClear
<1>21. ASSUME NEW j \in Jobs, Expire(j)
      PROVE  RowInv'
  BY <1>21 DEF Expire
<1>22. ASSUME NEW j \in Jobs, Outdate(j)
      PROVE  RowInv'
  BY <1>22 DEF Outdate
<1>23. ASSUME NEW j \in Jobs, FetchStart(j)
      PROVE  RowInv'
  BY <1>23 DEF FetchStart
<1>24. ASSUME NEW w \in Watchers, WatcherCollect(w)
      PROVE  RowInv'
  BY <1>24, BrokerJobAssumption DEF WatcherCollect, WatcherType, IdleWatcher
<1>25. ASSUME NEW w \in Watchers, WatcherTouch(w)
      PROVE  RowInv'
  BY <1>25 DEF WatcherTouch, WatcherType
<1>26. ASSUME NEW w \in Watchers, WatcherDeadWrite(w)
      PROVE  RowInv'
  BY <1>26 DEF WatcherDeadWrite, SetSessionResultCommit,
    SetSessionResultRollback, WatcherType
<1>27. ASSUME NEW w \in Watchers, WatcherDeadStop(w)
      PROVE  RowInv'
  <2>1. watcher[w] \in WatcherType /\ watcher[w].cur \in Jobs
    BY <1>27 DEF WatcherDeadStop
  <2>2. /\ watcher'[w].todo = watcher[w].todo
        /\ watcher'[w].unreached = watcher[w].unreached
        /\ watcher'[w].dead \subseteq watcher[w].dead
        /\ watcher'[w].cur \notin Jobs
    BY <1>27, <2>1, BrokerJobAssumption DEF WatcherDeadStop, WatcherType
  <2>3. \A v \in Watchers \ {w} : watcher'[v] = watcher[v]
    BY <1>27 DEF WatcherDeadStop
  <2>4. \A j \in Jobs : engine'[j] # "none" => engine[j] # "none"
    BY <1>27, <2>1 DEF WatcherDeadStop, Stop
  <2>5. \A j \in Jobs : engine[j] # "none" => engine'[j] # "none"
    BY <1>27, <2>1 DEF WatcherDeadStop, Stop
  <2>6. UNCHANGED <<status, runner, outputs, report>>
    BY <1>27 DEF WatcherDeadStop
  <2>7. \A v \in Watchers :
          /\ \A j \in watcher'[v].todo \cup watcher'[v].unreached \cup watcher'[v].dead :
                status[j] # "none"
          /\ watcher'[v].cur \in Jobs => status[watcher'[v].cur] # "none"
    BY <2>2, <2>3
  <2> QED
    BY <2>4, <2>5, <2>6, <2>7
<1>28. ASSUME NEW w \in Watchers, WatcherMark(w)
      PROVE  RowInv'
  <2>1. watcher'[w] = IdleWatcher /\ \A v \in Watchers \ {w} : watcher'[v] = watcher[v]
    BY <1>28 DEF WatcherMark
  <2>2. \A j \in Jobs : status[j] # "none" => status'[j] # "none"
    BY <1>28 DEF WatcherMark
  <2>3. \A v \in Watchers : watcher[v].todo \cup watcher[v].unreached \cup watcher[v].dead
                            \subseteq Jobs
    BY DEF WatcherType
  <2>4. \A v \in Watchers :
          /\ \A j \in watcher'[v].todo \cup watcher'[v].unreached \cup watcher'[v].dead :
                status'[j] # "none"
          /\ watcher'[v].cur \in Jobs => status'[watcher'[v].cur] # "none"
    BY <2>1, <2>2, <2>3, IdleRecords
  <2>5. UNCHANGED <<runner, outputs, engine, report>>
    BY <1>28 DEF WatcherMark
  <2> QED
    BY <2>2, <2>4, <2>5
<1>29. ASSUME NEW w \in Watchers, NEW j \in Jobs, WatcherProbe(w, j)
      PROVE  RowInv'
  <2>1. PICK r \in WatcherType :
           /\ watcher' = [watcher EXCEPT ![w] = r]
           /\ r.todo \subseteq watcher[w].todo
           /\ r.unreached \subseteq watcher[w].unreached \cup {j}
           /\ r.dead \subseteq watcher[w].dead \cup {j}
           /\ r.cur = watcher[w].cur
    <3> HIDE DEF TypeOK, RowInv
    <3> QED
      BY <1>29, ProbeRecord
  <2>2. status[j] # "none"
    BY <1>29 DEF WatcherProbe
  <2> QED
    BY <1>29, <2>1, <2>2 DEF WatcherProbe
<1>30. ASSUME NEW w \in Watchers, NEW j \in Jobs, WatcherDeadRead(w, j)
      PROVE  RowInv'
  BY <1>30 DEF WatcherDeadRead, WatcherType
<1>31. CASE StorageGc
  <2>1. \A k \in Jobs : status[k] # "none" => status'[k] # "none"
    BY <1>31 DEF StorageGc
  <2> QED
    BY <1>31, <2>1 DEF StorageGc, WatcherType
<1>32. CASE FetchReadResult
  BY <1>32 DEF FetchReadResult
<1>33. CASE FetchProbe
  BY <1>33 DEF FetchProbe
<1>34. CASE FetchSecond
  BY <1>34 DEF FetchSecond
<1>35. CASE EngineCrash
  BY <1>35 DEF EngineCrash, Alive
<1>36. CASE EngineRestart
  BY <1>36 DEF EngineRestart
<1>37. CASE BrokerCrash
  BY <1>37, BrokerJobAssumption DEF BrokerCrash, WatcherType, IdleWatcher
<1>38. CASE UNCHANGED vars
  BY <1>38 DEF vars
<1> QED
  BY <1>1, <1>2, <1>3, <1>4, <1>5, <1>6, <1>7, <1>8, <1>9, <1>10, <1>11,
    <1>12, <1>13, <1>14, <1>15, <1>16, <1>17, <1>18, <1>19, <1>20, <1>21,
    <1>22, <1>23, <1>24, <1>25, <1>26, <1>27, <1>28, <1>29, <1>30, <1>31,
    <1>32, <1>33, <1>34, <1>35, <1>36, <1>37, <1>38, ZenonT(30) DEF Next, RunnerStep,
    EngineStep, ReportStep, CancelStep, WatcherStep, FetchStep

\* The steps that change a job's status, result or history.
Writes ==
    \/ \E j \in Jobs : \/ AddSession(j) \/ MarkRunning(j) \/ ReportWrite(j)
                       \/ CancelClear(j) \/ Expire(j)
    \/ \E w \in Watchers : WatcherDeadWrite(w) \/ WatcherMark(w)
    \/ StorageGc

\* All other steps, of whatever handler, leave them alone.
LEMMA WhoWrites ==
    ASSUME [Next]_vars
    PROVE  Writes \/ UNCHANGED <<status, result, expired, cleared, dbfault>>
<1> USE DEF dbVars, histVars
<1>1. ASSUME NEW j \in Jobs, RunnerStep(j) \/ DuplicateSubmit(j)
      PROVE  Writes \/ UNCHANGED <<status, result, expired, cleared, dbfault>>
  BY <1>1, SMTT(20) DEF Writes, RunnerStep, DuplicateSubmit, RunnerGiveUp, UpdateSession,
    Launch, LaunchFails, SyncReturn, RunnerStop
<1>2. ASSUME NEW j \in Jobs, EngineStep(j) \/ EngineReportFails(j)
      PROVE  UNCHANGED <<status, result, expired, cleared, dbfault>>
  BY <1>2 DEF EngineStep, EngineReportFails, EngineBegin, EngineComplete,
    EngineRemove
<1>3. ASSUME NEW j \in Jobs, ReportStep(j) \/ CancelStep(j)
      PROVE  Writes \/ UNCHANGED <<status, result, expired, cleared, dbfault>>
  BY <1>3 DEF Writes, ReportStep, ReportCheck, ReportRead, ReportStop,
    CancelStep, CancelRead, CancelStop
<1>4. ASSUME NEW j \in Jobs, Expire(j) \/ Outdate(j)
      PROVE  Writes \/ UNCHANGED <<status, result, expired, cleared, dbfault>>
  BY <1>4 DEF Writes, Outdate
<1>5. ASSUME NEW w \in Watchers, WatcherStep(w)
      PROVE  Writes \/ UNCHANGED <<status, result, expired, cleared, dbfault>>
  BY <1>5, Zenon DEF Writes, WatcherStep, WatcherCollect, WatcherProbe, WatcherTouch,
    WatcherDeadRead, WatcherDeadStop
<1>6. ASSUME FetchStep \/ EngineCrash \/ EngineRestart \/ BrokerCrash
      PROVE  UNCHANGED <<status, result, expired, cleared, dbfault>>
  BY <1>6, Zenon DEF FetchStep, FetchStart, FetchReadResult, FetchProbe, FetchSecond,
    EngineCrash, EngineRestart, BrokerCrash
<1>7. CASE UNCHANGED vars
  BY <1>7 DEF vars
<1> QED
  BY <1>1, <1>2, <1>3, <1>4, <1>5, <1>6, <1>7, SMTT(20) DEF Next, Writes

\* An answer stays: results are deleted only by a cancellation or by the GC
\* of expired sessions, which are answers themselves.
LEMMA AccountedStable == ASSUME TypeOK, [Next]_vars PROVE Accounted \subseteq Accounted'
<1> USE DEF TypeOK, Accounted
<1>1. ASSUME NEW j \in Jobs, AddSession(j)
      PROVE  Accounted \subseteq Accounted'
  BY <1>1 DEF AddSession, histVars
<1>2. ASSUME NEW j \in Jobs, MarkRunning(j)
      PROVE  Accounted \subseteq Accounted'
  BY <1>2 DEF MarkRunning, histVars
<1>3. ASSUME NEW j \in Jobs, ReportWrite(j)
      PROVE  Accounted \subseteq Accounted'
  BY <1>3 DEF ReportWrite, SetSessionResultCommit, SetSessionResultRollback,
    Outcomes
<1>4. ASSUME NEW j \in Jobs, CancelClear(j)
      PROVE  Accounted \subseteq Accounted'
  BY <1>4 DEF CancelClear
<1>5. ASSUME NEW j \in Jobs, Expire(j)
      PROVE  Accounted \subseteq Accounted'
  BY <1>5 DEF Expire, histVars
<1>6. ASSUME NEW w \in Watchers, WatcherDeadWrite(w)
      PROVE  Accounted \subseteq Accounted'
  BY <1>6 DEF WatcherDeadWrite, SetSessionResultCommit,
    SetSessionResultRollback, Outcomes
<1>7. ASSUME NEW w \in Watchers, WatcherMark(w)
      PROVE  Accounted \subseteq Accounted'
  BY <1>7 DEF WatcherMark, histVars
<1>8. CASE StorageGc
  BY <1>8 DEF StorageGc, histVars
<1>9. CASE UNCHANGED <<status, result, expired, cleared, dbfault>>
  BY <1>9
<1> QED
  BY <1>1, <1>2, <1>3, <1>4, <1>5, <1>6, <1>7, <1>8, <1>9, WhoWrites DEF
    Writes

\* Report, CheckJobs, cancel and GC close a job only when it has an answer.
LEMMA AnswerStep == TypeOK /\ RowInv /\ AnswerInv /\ [Next]_vars => AnswerInv'
<1> SUFFICES ASSUME TypeOK, RowInv, AnswerInv, [Next]_vars PROVE AnswerInv'
  OBVIOUS
<1>0. Accounted \subseteq Accounted'
  BY AccountedStable, SMTT(20)
<1> USE DEF TypeOK, AnswerInv, dbVars, histVars
<1>1. ASSUME NEW j \in Jobs, AddSession(j)
      PROVE  AnswerInv'
  BY <1>1, <1>0, SMTT(20) DEF AddSession, Settled, RowInv
<1>2. ASSUME NEW j \in Jobs, DuplicateSubmit(j)
      PROVE  AnswerInv'
  BY <1>2, <1>0 DEF DuplicateSubmit, Stop
<1>3. ASSUME NEW j \in Jobs, RunnerGiveUp(j)
      PROVE  AnswerInv'
  BY <1>3, <1>0 DEF RunnerGiveUp
<1>4. ASSUME NEW j \in Jobs, UpdateSession(j)
      PROVE  AnswerInv'
  BY <1>4, <1>0, SMTT(20) DEF UpdateSession
<1>5. ASSUME NEW j \in Jobs, Launch(j)
      PROVE  AnswerInv'
  BY <1>5, <1>0, SMTT(20) DEF Launch
<1>6. ASSUME NEW j \in Jobs, LaunchFails(j)
      PROVE  AnswerInv'
  BY <1>6, <1>0 DEF LaunchFails
<1>7. ASSUME NEW j \in Jobs, MarkRunning(j)
      PROVE  AnswerInv'
  BY <1>7, <1>0 DEF MarkRunning, Settled
<1>8. ASSUME NEW j \in Jobs, SyncReturn(j)
      PROVE  AnswerInv'
  BY <1>8, <1>0 DEF SyncReturn
<1>9. ASSUME NEW j \in Jobs, RunnerStop(j)
      PROVE  AnswerInv'
  BY <1>9, <1>0, SMTT(20) DEF RunnerStop, Stop
<1>10. ASSUME NEW j \in Jobs, EngineBegin(j)
      PROVE  AnswerInv'
  BY <1>10, <1>0, SMTT(20) DEF EngineBegin
<1>11. ASSUME NEW j \in Jobs, EngineComplete(j)
      PROVE  AnswerInv'
  BY <1>11, <1>0, SMTT(20) DEF EngineComplete
<1>12. ASSUME NEW j \in Jobs, EngineRemove(j)
      PROVE  AnswerInv'
  BY <1>12, <1>0, SMTT(20) DEF EngineRemove
<1>13. ASSUME NEW j \in Jobs, EngineReportFails(j)
      PROVE  AnswerInv'
  BY <1>13, <1>0, SMTT(20) DEF EngineReportFails
<1>14. ASSUME NEW j \in Jobs, ReportCheck(j)
      PROVE  AnswerInv'
  BY <1>14, <1>0, SMTT(20) DEF ReportCheck, Statuses, RowInv
<1>15. ASSUME NEW j \in Jobs, ReportRead(j)
      PROVE  AnswerInv'
  BY <1>15, <1>0, SMTT(20) DEF ReportRead, SetSessionResultCheck, Statuses, RowInv
<1>16. ASSUME NEW j \in Jobs, ReportWrite(j)
      PROVE  AnswerInv'
  <2>1. j \in Accounted' \/ report'[j] = "retry"
    <3>1. CASE SetSessionResultCommit(j, IF report[j] = "write" THEN outcome[j] ELSE "error")
      <4>0. (IF report[j] = "write" THEN outcome[j] ELSE "error") # "none"
        BY DEF TypeOK, Outcomes
      <4>1. j \in DOMAIN result
        BY DEF TypeOK
      <4>2. result'[j] # "none"
        BY <3>1, <4>0, <4>1 DEF SetSessionResultCommit
      <4> HIDE DEF TypeOK, AnswerInv
      <4> QED
        BY <4>2 DEF Accounted
    <3>2. CASE /\ SetSessionResultRollback(j)
               /\ report' = [report EXCEPT ![j] = IF @ = "write" THEN "retry" ELSE "stop"]
      <4>1. result' = result /\ (result[j] # "none" \/ j \in dbfault')
        BY <3>2 DEF SetSessionResultRollback
      <4> QED
        BY <4>1 DEF Accounted
    <3> QED
      BY <1>16, <3>1, <3>2 DEF ReportWrite
  <2>2. \A k \in Jobs : /\ status'[k] = status[k] \/ (k = j /\ j \in Accounted')
                        /\ report'[k] = report[k] \/ k = j
    <3>1. UNCHANGED status \/ j \in Accounted'
      BY <1>16, SMTT(20) DEF ReportWrite, SetSessionResultCommit, SetSessionResultRollback,
        Outcomes, Accounted
    <3>2. \A k \in Jobs \ {j} : status'[k] = status[k] /\ report'[k] = report[k]
      BY <1>16 DEF ReportWrite, SetSessionResultCommit, SetSessionResultRollback
    <3>3. status' = status \/ j \in Accounted'
      BY <3>1, SMTT(20)
    <3> HIDE DEF TypeOK, AnswerInv
    <3> QED
      BY <3>2, <3>3, SMTT(20)
  <2> QED
    BY <1>0, <1>16, <2>1, <2>2, SMTT(20) DEF ReportWrite
<1>17. ASSUME NEW j \in Jobs, ReportStop(j)
      PROVE  AnswerInv'
  BY <1>17, <1>0 DEF ReportStop, Stop
<1>18. ASSUME NEW j \in Jobs, CancelRead(j)
      PROVE  AnswerInv'
  BY <1>18, <1>0 DEF CancelRead
<1>19. ASSUME NEW j \in Jobs, CancelStop(j)
      PROVE  AnswerInv'
  BY <1>19, <1>0, SMTT(20) DEF CancelStop, Stop
<1>20. ASSUME NEW j \in Jobs, CancelClear(j)
      PROVE  AnswerInv'
  BY <1>20, <1>0, SMTT(20) DEF CancelClear, Accounted
<1>21. ASSUME NEW j \in Jobs, Expire(j)
      PROVE  AnswerInv'
  BY <1>21, <1>0, SMTT(20) DEF Expire
<1>22. ASSUME NEW j \in Jobs, Outdate(j)
      PROVE  AnswerInv'
  BY <1>22, <1>0 DEF Outdate
<1>23. ASSUME NEW j \in Jobs, FetchStart(j)
      PROVE  AnswerInv'
  BY <1>23, <1>0 DEF FetchStart, IdleFetch
<1>24. ASSUME NEW w \in Watchers, WatcherCollect(w)
      PROVE  AnswerInv'
  BY <1>24, <1>0 DEF WatcherCollect, WatcherType, IdleWatcher
<1>25. ASSUME NEW w \in Watchers, WatcherTouch(w)
      PROVE  AnswerInv'
  BY <1>25, <1>0 DEF WatcherTouch, WatcherType
<1>26. ASSUME NEW w \in Watchers, WatcherDeadWrite(w)
      PROVE  AnswerInv'
  BY <1>26, <1>0 DEF WatcherDeadWrite, SetSessionResultCommit,
    SetSessionResultRollback, WatcherType, Outcomes, Accounted, Settled
<1>27. ASSUME NEW w \in Watchers, WatcherDeadStop(w)
      PROVE  AnswerInv'
  BY <1>27, <1>0 DEF WatcherDeadStop, Stop, WatcherType
<1>28. ASSUME NEW w \in Watchers, WatcherMark(w)
      PROVE  AnswerInv'
  BY <1>28, <1>0, Zenon DEF WatcherMark, WatcherType, IdleWatcher
<1>29. ASSUME NEW w \in Watchers, NEW j \in Jobs, WatcherProbe(w, j)
      PROVE  AnswerInv'
  <2>1. PICK r \in WatcherType : /\ watcher' = [watcher EXCEPT ![w] = r]
                                 /\ r.pc \in {"touch", "probe"}
                                 /\ r.failed = watcher[w].failed
    BY <1>29, ProbeRecord, Zenon
  <2> QED
    BY <1>29, <1>0, <2>1 DEF WatcherProbe
<1>30. ASSUME NEW w \in Watchers, NEW j \in Jobs, WatcherDeadRead(w, j)
      PROVE  AnswerInv'
  BY <1>30, <1>0, SMTT(20) DEF WatcherDeadRead, WatcherType, SetSessionResultCheck,
    Statuses, RowInv
<1>31. CASE StorageGc
  BY <1>31, <1>0 DEF StorageGc, Accounted
<1>32. CASE FetchReadResult
  BY <1>32, <1>0, IdleRecords DEF FetchReadResult
<1>33. CASE FetchProbe
  <2>1. CASE fetch' = IdleFetch
    BY <1>33, <1>0, <2>1, IdleRecords DEF FetchProbe
  <2>2. CASE fetch' = [fetch EXCEPT !.pc = "second",
                          !.gone = engine[fetch.job] = "removed"
                                     /\ mode[fetch.job] = "async"]
    <3>1. fetch'.job = fetch.job /\ fetch.job \in Jobs
      BY <1>33, <2>2 DEF FetchProbe
    <3>2. fetch'.gone => engine[fetch.job] = "removed" /\ mode[fetch.job] = "async"
      BY <2>2, Zenon
    <3>3. fetch'.gone => fetch'.job \in Accounted
      BY <3>1, <3>2
    <3> QED
      BY <1>33, <1>0, <3>3 DEF FetchProbe
  <2> QED
    BY <1>33, <2>1, <2>2 DEF FetchProbe
<1>34. CASE FetchSecond
  BY <1>34, <1>0, IdleRecords DEF FetchSecond
<1>35. CASE EngineCrash
  BY <1>35, <1>0, SMTT(20) DEF EngineCrash, Alive
<1>36. CASE EngineRestart
  BY <1>36, <1>0 DEF EngineRestart
<1>37. CASE BrokerCrash
  BY <1>37, <1>0, SMTT(20) DEF BrokerCrash, IdleWatcher, IdleFetch
<1>38. CASE UNCHANGED vars
  BY <1>38, <1>0 DEF vars
<1> QED
  BY <1>1, <1>2, <1>3, <1>4, <1>5, <1>6, <1>7, <1>8, <1>9, <1>10, <1>11,
    <1>12, <1>13, <1>14, <1>15, <1>16, <1>17, <1>18, <1>19, <1>20, <1>21,
    <1>22, <1>23, <1>24, <1>25, <1>26, <1>27, <1>28, <1>29, <1>30, <1>31,
    <1>32, <1>33, <1>34, <1>35, <1>36, <1>37, <1>38, ZenonT(30) DEF Next, RunnerStep,
    EngineStep, ReportStep, CancelStep, WatcherStep, FetchStep

\* The invariants hold together in every reachable state.
LEMMA Invariants == Spec => [](TypeOK /\ RowInv /\ AnswerInv)
<1>1. Init => TypeOK
  <2> SUFFICES ASSUME Init PROVE TypeOK
    OBVIOUS
  <2>1. /\ watcher \in [Watchers -> WatcherType]
        /\ \A w \in Watchers : watcher[w].pc = "idle"
        /\ fetch \in [pc : FetchStates, job : Jobs \cup {NoJob}, gone : BOOLEAN]
        /\ fetch.pc = "idle"
    BY IdleRecords DEF Init
  <2>2. crashes \in [engine : Nat, broker : Nat]
    BY DEF Init
  <2> QED
    BY <2>1, <2>2
      DEF Init, TypeOK, AllModes, Outcomes, RunnerStates, EngineStates,
          ReportStates, CancelStates
<1>2. Init => RowInv
  BY BrokerJobAssumption DEF Init, RowInv, IdleWatcher
<1>3. Init => AnswerInv
  BY DEF Init, AnswerInv, IdleWatcher, IdleFetch, Settled
<1> QED
  BY <1>1, <1>2, <1>3, TypeStep, RowStep, AnswerStep, PTL DEF Spec

\* Finished rows have their result until they expire, and GC alone makes rows
\* Timeout.
ClosedInv ==
    \A j \in Jobs : /\ status[j] = "Finished" => result[j] # "none" \/ j \in expired
                    /\ status[j] = "Timeout" => j \in expired

\* SetSessionResult writes status and result together; CancelClear deletes
\* the result of a row that it makes Canceled; GC touches expired rows only.
LEMMA ClosedHolds == Spec => []ClosedInv
<1>1. Init => ClosedInv
  BY DEF Init, ClosedInv
<1>2. TypeOK /\ ClosedInv /\ [Next]_vars => ClosedInv'
  <2> SUFFICES ASSUME TypeOK, ClosedInv, [Next]_vars
               PROVE  ClosedInv'
    OBVIOUS
  <2> USE DEF TypeOK, ClosedInv
  <2>1. ASSUME NEW j \in Jobs, AddSession(j)
        PROVE  ClosedInv'
    BY <2>1 DEF AddSession, histVars
  <2>2. ASSUME NEW j \in Jobs, MarkRunning(j)
        PROVE  ClosedInv'
    BY <2>2 DEF MarkRunning, histVars
  <2>3. ASSUME NEW j \in Jobs, ReportWrite(j)
        PROVE  ClosedInv'
    <3>1. CASE SetSessionResultCommit(j, IF report[j] = "write" THEN outcome[j] ELSE "error")
      <4>1. (IF report[j] = "write" THEN outcome[j] ELSE "error") # "none"
        BY DEF Outcomes
      <4> QED
        BY <2>3, <3>1, <4>1 DEF ReportWrite, SetSessionResultCommit
    <3>2. CASE SetSessionResultRollback(j)
      BY <2>3, <3>2 DEF ReportWrite, SetSessionResultRollback
    <3> QED
      BY <2>3, <3>1, <3>2 DEF ReportWrite
  <2>4. ASSUME NEW j \in Jobs, CancelClear(j)
        PROVE  ClosedInv'
    BY <2>4 DEF CancelClear
  <2>5. ASSUME NEW j \in Jobs, Expire(j)
        PROVE  ClosedInv'
    BY <2>5 DEF Expire, histVars
  <2>6. ASSUME NEW w \in Watchers, WatcherDeadWrite(w)
        PROVE  ClosedInv'
    BY <2>6, SMTT(20) DEF WatcherDeadWrite, SetSessionResultCommit,
      SetSessionResultRollback
  <2>7. ASSUME NEW w \in Watchers, WatcherMark(w)
        PROVE  ClosedInv'
    BY <2>7 DEF WatcherMark, histVars
  <2>8. CASE StorageGc
    BY <2>8 DEF StorageGc, histVars
  <2>9. CASE UNCHANGED <<status, result, expired, cleared, dbfault>>
    BY <2>9
  <2> QED
    BY <2>1, <2>2, <2>3, <2>4, <2>5, <2>6, <2>7, <2>8, <2>9, WhoWrites DEF
      Writes
<1> QED
  BY <1>1, <1>2, Invariants, PTL DEF Spec

--------------------------------------------------------------------------------
(* The results.                                                               *)

\* Types are right for any number of jobs and instances.
THEOREM TypeCorrect == Spec => []TypeOK
  BY Invariants, PTL

\* No job is closed by Report, CheckJobs, cancel or GC without an answer for
\* FetchResult, but for canceled jobs that the watcher marked Failed.
THEOREM SettledAreAnswered == Spec => []SettledIsAnswered
<1>1. AnswerInv /\ ClosedInv => SettledIsAnswered
  BY DEF AnswerInv, ClosedInv, SettledIsAnswered, Accounted, Answered, Overtaken, Settled
<1> QED
  BY <1>1, Invariants, ClosedHolds, PTL

\* FetchResult's second look finds what the engine reported before it
\* removed the session.
THEOREM SecondLookAlwaysFinds == Spec => []SecondLookFinds
<1>1. AnswerInv => SecondLookFinds
  BY DEF AnswerInv, SecondLookFinds
<1> QED
  BY <1>1, Invariants, PTL

\* Report is never checked against output names that are not stored yet.
THEOREM OutputNamesAlwaysKnown == Spec => []OutputNamesKnown
<1>1. RowInv => OutputNamesKnown
  BY DEF RowInv, OutputNamesKnown
<1> QED
  BY <1>1, Invariants, PTL

\* Results lie only under rows that are over and not canceled.
THEOREM ResultsOnlyWhenOver == Spec => []ResultOnlyWhenOver
<1>1. Init => ResultOnlyWhenOver
  BY DEF Init, ResultOnlyWhenOver
<1>2. TypeOK /\ ResultOnlyWhenOver /\ [Next]_vars => ResultOnlyWhenOver'
  <2> SUFFICES ASSUME TypeOK, ResultOnlyWhenOver, [Next]_vars
               PROVE  ResultOnlyWhenOver'
    OBVIOUS
  <2> USE DEF TypeOK, ResultOnlyWhenOver
  <2>1. ASSUME NEW j \in Jobs, AddSession(j)
        PROVE  ResultOnlyWhenOver'
    BY <2>1 DEF AddSession, histVars
  <2>2. ASSUME NEW j \in Jobs, MarkRunning(j)
        PROVE  ResultOnlyWhenOver'
    BY <2>2 DEF MarkRunning, histVars
  <2>3. ASSUME NEW j \in Jobs, ReportWrite(j)
        PROVE  ResultOnlyWhenOver'
    BY <2>3 DEF ReportWrite, SetSessionResultCommit, SetSessionResultRollback
  <2>4. ASSUME NEW j \in Jobs, CancelClear(j)
        PROVE  ResultOnlyWhenOver'
    BY <2>4 DEF CancelClear
  <2>5. ASSUME NEW j \in Jobs, Expire(j)
        PROVE  ResultOnlyWhenOver'
    BY <2>5 DEF Expire, histVars
  <2>6. ASSUME NEW w \in Watchers, WatcherDeadWrite(w)
        PROVE  ResultOnlyWhenOver'
    BY <2>6, SMTT(20) DEF WatcherDeadWrite, SetSessionResultCommit,
      SetSessionResultRollback
  <2>7. ASSUME NEW w \in Watchers, WatcherMark(w)
        PROVE  ResultOnlyWhenOver'
    BY <2>7 DEF WatcherMark, histVars
  <2>8. CASE StorageGc
    BY <2>8 DEF StorageGc, histVars
  <2>9. CASE UNCHANGED <<status, result, expired, cleared, dbfault>>
    BY <2>9
  <2> QED
    BY <2>1, <2>2, <2>3, <2>4, <2>5, <2>6, <2>7, <2>8, <2>9, WhoWrites DEF
      Writes
<1> QED
  BY <1>1, <1>2, TypeCorrect, PTL DEF Spec

\* A closed job is never open again: the update to Running is conditional
\* and UpdateSession skips the zero status.
THEOREM JobsNeverReopen == Spec => NeverReopened
<1>1. ASSUME TypeOK, [Next]_vars
      PROVE  \A j \in Jobs : status[j] \in Settled => status'[j] \in Settled
  <2> USE DEF TypeOK, Settled
  <2>1. ASSUME NEW j \in Jobs, AddSession(j)
        PROVE  \A k \in Jobs : status[k] \in Settled => status'[k] \in Settled
    BY <1>1, <2>1 DEF AddSession, histVars
  <2>2. ASSUME NEW j \in Jobs, MarkRunning(j)
        PROVE  \A k \in Jobs : status[k] \in Settled => status'[k] \in Settled
    BY <1>1, <2>2 DEF MarkRunning, histVars
  <2>3. ASSUME NEW j \in Jobs, ReportWrite(j)
        PROVE  \A k \in Jobs : status[k] \in Settled => status'[k] \in Settled
    BY <1>1, <2>3 DEF ReportWrite, SetSessionResultCommit,
      SetSessionResultRollback
  <2>4. ASSUME NEW j \in Jobs, CancelClear(j)
        PROVE  \A k \in Jobs : status[k] \in Settled => status'[k] \in Settled
    BY <1>1, <2>4 DEF CancelClear
  <2>5. ASSUME NEW j \in Jobs, Expire(j)
        PROVE  \A k \in Jobs : status[k] \in Settled => status'[k] \in Settled
    BY <1>1, <2>5 DEF Expire, histVars
  <2>6. ASSUME NEW w \in Watchers, WatcherDeadWrite(w)
        PROVE  \A k \in Jobs : status[k] \in Settled => status'[k] \in Settled
    BY <1>1, <2>6, SMTT(20) DEF WatcherDeadWrite, SetSessionResultCommit,
      SetSessionResultRollback
  <2>7. ASSUME NEW w \in Watchers, WatcherMark(w)
        PROVE  \A k \in Jobs : status[k] \in Settled => status'[k] \in Settled
    BY <1>1, <2>7 DEF WatcherMark, histVars
  <2>8. CASE StorageGc
    BY <1>1, <2>8 DEF StorageGc, histVars
  <2>9. CASE UNCHANGED <<status, result, expired, cleared, dbfault>>
    BY <2>9, <1>1
  <2> QED
    BY <1>1, <2>1, <2>2, <2>3, <2>4, <2>5, <2>6, <2>7, <2>8, <2>9, WhoWrites
      DEF Writes
<1>2. TypeOK /\ [Next]_vars =>
         [\A j \in Jobs : status[j] \in Settled => status'[j] \in Settled]_vars
  BY <1>1
<1> QED
  BY <1>2, TypeCorrect, PTL DEF Spec, NeverReopened

\* A stored result is never replaced by another one.
THEOREM ResultsWrittenOnce == Spec => ResultWrittenOnce
<1>1. ASSUME TypeOK, [Next]_vars
      PROVE  \A j \in Jobs : result[j] # "none" => result'[j] \in {result[j], "none"}
  <2> USE DEF TypeOK
  <2>1. ASSUME NEW j \in Jobs, AddSession(j)
        PROVE  \A k \in Jobs : result[k] # "none" => result'[k] \in {result[k], "none"}
    BY <1>1, <2>1 DEF AddSession, histVars
  <2>2. ASSUME NEW j \in Jobs, MarkRunning(j)
        PROVE  \A k \in Jobs : result[k] # "none" => result'[k] \in {result[k], "none"}
    BY <1>1, <2>2 DEF MarkRunning, histVars
  <2>3. ASSUME NEW j \in Jobs, ReportWrite(j)
        PROVE  \A k \in Jobs : result[k] # "none" => result'[k] \in {result[k], "none"}
    BY <1>1, <2>3 DEF ReportWrite, SetSessionResultCommit,
      SetSessionResultRollback
  <2>4. ASSUME NEW j \in Jobs, CancelClear(j)
        PROVE  \A k \in Jobs : result[k] # "none" => result'[k] \in {result[k], "none"}
    BY <1>1, <2>4 DEF CancelClear
  <2>5. ASSUME NEW j \in Jobs, Expire(j)
        PROVE  \A k \in Jobs : result[k] # "none" => result'[k] \in {result[k], "none"}
    BY <1>1, <2>5 DEF Expire, histVars
  <2>6. ASSUME NEW w \in Watchers, WatcherDeadWrite(w)
        PROVE  \A k \in Jobs : result[k] # "none" => result'[k] \in {result[k], "none"}
    BY <1>1, <2>6, SMTT(20) DEF WatcherDeadWrite, SetSessionResultCommit,
      SetSessionResultRollback
  <2>7. ASSUME NEW w \in Watchers, WatcherMark(w)
        PROVE  \A k \in Jobs : result[k] # "none" => result'[k] \in {result[k], "none"}
    BY <1>1, <2>7 DEF WatcherMark, histVars
  <2>8. CASE StorageGc
    BY <1>1, <2>8 DEF StorageGc, histVars
  <2>9. CASE UNCHANGED <<status, result, expired, cleared, dbfault>>
    BY <2>9, <1>1
  <2> QED
    BY <1>1, <2>1, <2>2, <2>3, <2>4, <2>5, <2>6, <2>7, <2>8, <2>9, WhoWrites
      DEF Writes
<1>2. TypeOK /\ [Next]_vars =>
         [\A j \in Jobs : result[j] # "none" => result'[j] \in {result[j], "none"}]_vars
  BY <1>1
<1> QED
  BY <1>2, TypeCorrect, PTL DEF Spec, ResultWrittenOnce

================================================================================
