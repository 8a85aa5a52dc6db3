--------------------------- MODULE BrokerQueryProofs ---------------------------
(***************************************************************************)
(* Proofs about a query's job, for any parties, tables, CCLs and storages, *)
(* any number of retries, and any number of changes and failed calls.      *)
(*                                                                         *)
(* TypeOK needs TaskInv: AskProjectInfoFromParties writes an answer for    *)
(* every table it dropped.  ViewsTaken needs ViewInv, which follows what   *)
(* an owner has read of its table through the session rows, the checksums  *)
(* that are sent and the comparisons, up to the party that executes.       *)
(***************************************************************************)
EXTENDS BrokerQuery, TLAPS

StoreOK == store \in [Work -> [Data -> View]]

SessionOK == session \in [Work -> Sums \cup {NoSession}]

JobOK == job \in [Work -> Jobs]

TaskOK == /\ task \in [Work -> [Work -> Tasks]]
          /\ \A q \in Work : task[q][q] = NoTask

RestOK == /\ inbox \subseteq Work \ {Issuer} /\ mode \in {"run", "dry"}
          /\ taken \in [Data -> SUBSET Sums]
          /\ used \in [changes : 0..MaxEvents, faults : 0..MaxEvents]

\* Nobody deals with a party that owns no table ...
OwnersOnly == \A q \in Work, p \in Work \ Data : task[q][p] = NoTask

\* ... and every table that is asked for has a goroutine.
AskedInv ==
    \A q \in Work : job[q].pc = "ask" =>
        \A p \in job[q].asked \ {q} : task[q][p].st \in {"ask", "write"}

TaskInv == OwnersOnly /\ AskedInv

\* TypeOK, part by part.
LEMMA TypeParts == TypeOK <=> StoreOK /\ SessionOK /\ JobOK /\ TaskOK /\ RestOK
BY DEF TypeOK, StoreOK, SessionOK, JobOK, TaskOK, RestOK

\* The same of the next state.
LEMMA TypePartsNext == TypeOK' <=> StoreOK' /\ SessionOK' /\ JobOK' /\ TaskOK' /\ RestOK'
BY DEF TypeOK, StoreOK, SessionOK, JobOK, TaskOK, RestOK

\* Everybody but the issuer owns a table.
LEMMA Workers ==
    /\ Data \subseteq Work /\ Issuer \in Work
    /\ \A q \in Work : q # Issuer => q \in Data
BY DEF Work

\* The fields of a task.
LEMMA TaskFields ==
    ASSUME NEW x \in Tasks
    PROVE  /\ x.st \in {"none", "call", "done", "err", "exchange", "ask", "write"}
           /\ x.st = "exchange" => x.tries \in 0..RetryTimes
           /\ x.st \in {"ask", "write"} => x.kind \in {"all", "table", "ccl"}
           /\ x.st = "write" => x.ans \in View
           /\ NoTask.st = "none"
BY DEF Tasks, NoTask

\* What is granted are CCLs.
LEMMA GrantedType ==
    ASSUME NEW f \in CCLs, NEW g \in CCLs
    PROVE  Granted(f, g) \in CCLs
BY DEF Granted, CCLs

\* A checksum of a table, or of none.
LEMMA SumsOf ==
    /\ \A v \in View : Checksum(v) \in Sums
    /\ NoTable \in Sums /\ Checksum(NoTable) = NoTable
<1>1. NoTable \in View /\ Checksum(NoTable) = NoTable
  BY DEF View, Checksum
<1>2. \A v \in View : Checksum(v) \in Sums
  BY Zenon DEF Sums
<1> QED
  BY <1>1, <1>2

\* The task after a comparison.
LEMMA ComparedType ==
    ASSUME NEW c, NEW d
    PROVE  /\ Compared(CompareWith(c, d)) \in Tasks
           /\ Compared(CompareWith(c, d)).st \in {"done", "ask"}
           /\ Compared(CompareWith(c, d)).st = "done" <=> c = d
<1>1. CompareWith(c, d) \in {"equal", "ccl", "table"} /\ (CompareWith(c, d) = "equal" <=> c = d)
  <2>1. CASE c = d
    BY <2>1 DEF CompareWith
  <2>2. CASE c # d
    BY <2>2 DEF CompareWith
  <2> QED
    BY <2>1, <2>2
<1>2. \A r \in {"equal", "ccl", "table"} :
        /\ Compared(r) \in Tasks /\ Compared(r).st \in {"done", "ask"}
        /\ Compared(r).st = "done" <=> r = "equal"
  BY DEF Compared, Tasks
<1> QED
  BY <1>1, <1>2

\* The steps that change what is stored.
LEMMA WhoStores ==
    ASSUME [Next]_vars
    PROVE  \/ store' = store
           \/ \E q \in Work : AskAllWrite(q)
           \/ \E q, p \in Work : AskWrite(q, p)
           \/ \E q \in Work, d \in Data, v \in Changes : Change(q, d, v)
<1>1. ASSUME NEW q \in Work,
             \/ Prepare(q) \/ PrepareAsked(q)
             \/ AddSession(q) \/ DistributeQuery(q) \/ Answer(q) \/ AnswerError(q)
             \/ SyncEnds(q) \/ Execute(q) \/ ExecuteAgain(q) \/ DryRun(q) \/ Run(q)
             \/ DistributeFails(q)
      PROVE  store' = store
  BY <1>1, Zenon DEF Prepare, PrepareAsked, AddSession, DistributeQuery, Answer, AnswerError,
    SyncEnds, Execute, ExecuteAgain, DryRun, Run, DistributeFails
<1>2. ASSUME NEW q \in Work, NEW p \in Work,
             \/ AskInfo(q, p) \/ ExchangeNotFound(q, p) \/ ExchangeJobInfo(q, p)
             \/ AskInfoFails(q, p) \/ ExchangeFails(q, p)
      PROVE  store' = store
  BY <1>2 DEF AskInfo, ExchangeNotFound, ExchangeJobInfo, AskInfoFails, ExchangeFails
<1>3. CASE UNCHANGED vars
  BY <1>3 DEF vars
<1> QED
  BY <1>1, <1>2, <1>3, Zenon DEF Next, Step, Environment

\* What is stored stays a table or none.
LEMMA StoreStep == TypeOK /\ TaskInv /\ [Next]_vars => StoreOK'
<1> SUFFICES ASSUME TypeOK, TaskInv, [Next]_vars PROVE StoreOK'
  OBVIOUS
<1>0. /\ store \in [Work -> [Data -> View]] /\ \A q \in Work : job[q] \in Jobs
      /\ \A q, p \in Work : task[q][p] \in Tasks
  BY DEF TypeOK
<1>1. ASSUME NEW q \in Work, AskAllWrite(q) PROVE StoreOK'
  <2>1. \A d \in job[q].asked \ {q} : task[q][d].ans \in View
    <3> SUFFICES ASSUME NEW d \in job[q].asked \ {q} PROVE task[q][d].ans \in View
      OBVIOUS
    <3>1. d \in Data /\ d \in Work
      BY <1>0, Workers DEF Jobs
    <3>2. task[q][d].st = "write"
      BY <1>1, <3>1 DEF AskAllWrite, TaskInv, AskedInv
    <3> QED
      BY <1>0, <3>1, <3>2, TaskFields
  <2>2. NoTable \in View
    BY DEF View
  <2> DEFINE row(d) == CASE d \notin job[q].asked -> store[q][d]
                         [] d = q /\ q \in job[q].asked -> NoTable
                         [] OTHER -> task[q][d].ans
  <2>3. \A d \in Data : row(d) \in View
    BY <1>0, <2>1, <2>2
  <2>4. store' = [store EXCEPT ![q] = [d \in Data |-> row(d)]]
    BY <1>1, Zenon DEF AskAllWrite
  <2> HIDE DEF row
  <2> QED
    BY <1>0, <2>3, <2>4 DEF StoreOK
<1>2. ASSUME NEW q \in Work, NEW p \in Work, AskWrite(q, p) PROVE StoreOK'
  <2>1. task[q][p].ans \in View /\ p \in Data
    BY <1>0, <1>2, TaskFields DEF AskWrite, TaskInv, OwnersOnly
  <2>2. UpdatedRow(store[q][p], task[q][p].kind, task[q][p].ans) \in View
    <3>1. store[q][p] \in View
      BY <1>0, <2>1
    <3>2. AnsweredCCL(task[q][p].ans) \in CCLs
      BY <2>1, QueryAssumption DEF AnsweredCCL, View, Meta, NoCCL, CCLs
    <3> QED
      BY <2>1, <3>1, <3>2, GrantedType DEF UpdatedRow, View, Meta
  <2>3. \/ store' = store
        \/ store' = [store EXCEPT ![q][p] =
                       UpdatedRow(store[q][p], task[q][p].kind, task[q][p].ans)]
    BY <1>2, Zenon DEF AskWrite
  <2> QED
    BY <1>0, <2>1, <2>2, <2>3 DEF StoreOK
<1>3. ASSUME NEW q \in Work, NEW d \in Data, NEW v \in Changes, Change(q, d, v)
      PROVE  StoreOK'
  BY <1>0, <1>3, QueryAssumption DEF Change, StoreOK
<1> QED
  BY <1>0, <1>1, <1>2, <1>3, WhoStores DEF StoreOK

\* The session row of a party holds the checksum of its table.
LEMMA SessionStep == TypeOK /\ [Next]_vars => SessionOK'
<1> SUFFICES ASSUME TypeOK, [Next]_vars PROVE SessionOK'
  OBVIOUS
<1>0. session \in [Work -> Sums \cup {NoSession}] /\ \A q \in Work : job[q] \in Jobs
  BY DEF TypeOK
<1>1. \A q \in Work : Own(q, job[q].snap) \in Sums
  BY <1>0, SumsOf DEF Own, Jobs
<1>2. ASSUME NEW q \in Work, AddSession(q) \/ Run(q) PROVE SessionOK'
  <2>1. session' = session \/ session' = [session EXCEPT ![q] = Own(q, job[q].snap)]
    BY <1>2, Zenon DEF AddSession, Run
  <2> QED
    BY <1>0, <1>1, <2>1 DEF SessionOK
<1>3. ASSUME NEW q \in Work,
             \/ Prepare(q) \/ AskAllWrite(q) \/ PrepareAsked(q)
             \/ DistributeQuery(q) \/ Answer(q) \/ AnswerError(q)
             \/ SyncEnds(q) \/ Execute(q) \/ ExecuteAgain(q) \/ DryRun(q) \/ DistributeFails(q)
      PROVE  session' = session
  BY <1>3, Zenon DEF Prepare, AskAllWrite, PrepareAsked, DistributeQuery, Answer, AnswerError,
    SyncEnds, Execute, ExecuteAgain, DryRun, DistributeFails
<1>4. ASSUME NEW q \in Work, NEW p \in Work,
             \/ AskInfo(q, p) \/ AskWrite(q, p) \/ ExchangeNotFound(q, p)
             \/ ExchangeJobInfo(q, p) \/ AskInfoFails(q, p) \/ ExchangeFails(q, p)
      PROVE  session' = session
  BY <1>4 DEF AskInfo, AskWrite, ExchangeNotFound, ExchangeJobInfo, AskInfoFails, ExchangeFails
<1>5. ASSUME NEW q \in Work, NEW d \in Data, NEW v \in Changes, Change(q, d, v)
      PROVE  session' = session
  BY <1>5 DEF Change
<1>6. CASE UNCHANGED vars
  BY <1>0, <1>6 DEF vars, SessionOK
<1>7. session' = session => SessionOK'
  BY <1>0 DEF SessionOK
<1> QED
  BY <1>2, <1>3, <1>4, <1>5, <1>6, <1>7, Zenon DEF Next, Step, Environment

\* The stages of a job.
Stages == {"idle", "prepare", "ask", "asked", "prepared", "sync", "execute", "compile",
           "ran", "failed"}

\* A job keeps its form when fields of it are replaced.
LEMMA JobFields ==
    ASSUME NEW j \in Jobs
    PROVE  /\ \A pc \in Stages : [j EXCEPT !.pc = pc] \in Jobs
           /\ \A pc \in Stages, s \in [Data -> View] : [j EXCEPT !.pc = pc, !.snap = s] \in Jobs
           /\ \A pc \in Stages, s \in SUBSET Data : [j EXCEPT !.pc = pc, !.asked = s] \in Jobs
           /\ \A r \in [Data -> Sums \cup {Unknown}], e \in SUBSET Work :
                /\ [j EXCEPT !.remote = r, !.ends = e] \in Jobs
                /\ \A pc \in Stages : [j EXCEPT !.pc = pc, !.remote = r, !.ends = e] \in Jobs
           /\ \A e \in SUBSET Work : /\ [j EXCEPT !.ends = e] \in Jobs
                                     /\ [j EXCEPT !.ends = e, !.again = TRUE] \in Jobs
           /\ \A pc \in Stages : [j EXCEPT !.pc = pc, !.again = FALSE, !.unsynced = TRUE] \in Jobs
<1>1. \A pc \in Stages : [j EXCEPT !.pc = pc] \in Jobs
  BY Zenon DEF Jobs, Stages
<1>2. \A pc \in Stages, s \in [Data -> View] : [j EXCEPT !.pc = pc, !.snap = s] \in Jobs
  BY Zenon DEF Jobs, Stages
<1>3. \A pc \in Stages, s \in SUBSET Data : [j EXCEPT !.pc = pc, !.asked = s] \in Jobs
  BY Zenon DEF Jobs, Stages
<1>4. \A r \in [Data -> Sums \cup {Unknown}], e \in SUBSET Work :
         [j EXCEPT !.remote = r, !.ends = e] \in Jobs
  BY Zenon DEF Jobs
<1>5. \A r \in [Data -> Sums \cup {Unknown}], e \in SUBSET Work, pc \in Stages :
         [j EXCEPT !.pc = pc, !.remote = r, !.ends = e] \in Jobs
  BY Zenon DEF Jobs, Stages
<1>6. \A e \in SUBSET Work : [j EXCEPT !.ends = e] \in Jobs
  BY Zenon DEF Jobs
<1>7. \A e \in SUBSET Work : [j EXCEPT !.ends = e, !.again = TRUE] \in Jobs
  BY Zenon DEF Jobs
<1>8. \A pc \in Stages : [j EXCEPT !.pc = pc, !.again = FALSE, !.unsynced = TRUE] \in Jobs
  BY Zenon DEF Jobs, Stages
<1> QED
  BY <1>1, <1>2, <1>3, <1>4, <1>5, <1>6, <1>7, <1>8, Zenon

\* The steps that change a job, and what of it each of them replaces.
LEMMA JobEffect ==
    ASSUME TypeOK, NEW q \in Work, NEW p \in Work
    PROVE  /\ Prepare(q) \/ PrepareAsked(q) =>
                \/ job' = [job EXCEPT ![q] = [@ EXCEPT !.pc = "prepared", !.snap = store[q]]]
                \/ /\ job' = [job EXCEPT ![q] = [@ EXCEPT !.pc = "ask", !.asked = Missing(q)]]
                   /\ Prepare(q)
                \/ job' = [job EXCEPT ![q] = [@ EXCEPT !.pc = "failed"]]
           /\ AskAllWrite(q) => job' = [job EXCEPT ![q] = [@ EXCEPT !.pc = "asked", !.asked = {}]]
           /\ AddSession(q) => job' = [job EXCEPT ![q] = [@ EXCEPT !.pc = "sync"]]
           /\ DistributeQuery(q) =>
                job' = [job EXCEPT ![q] = [@ EXCEPT !.pc = "prepare", !.remote =
                          [d \in Data |-> IF d = Issuer THEN Checksum(job[Issuer].snap[d]) ELSE Unknown],
                          !.ends = {Issuer}]]
           /\ Answer(q) =>
                job' = [job EXCEPT ![Issuer] =
                          [job[Issuer] EXCEPT
                             !.remote = [job[Issuer].remote EXCEPT ![q] = Checksum(job[q].snap[q])],
                             !.ends = job[Issuer].ends \cup {q}]]
           /\ AskWrite(q, p) =>
                \/ job' = [job EXCEPT ![q] = [job[q] EXCEPT !.ends = job[q].ends \cup {p},
                                                              !.again = TRUE]]
                \/ job' = [job EXCEPT ![q] = [job[q] EXCEPT !.ends = job[q].ends \cup {p}]]
           /\ ExchangeJobInfo(q, p) =>
                \E e \in {job[q].ends, job[q].ends \cup {p}} :
                   job' = [job EXCEPT ![q] =
                             [job[q] EXCEPT !.remote = [job[q].remote EXCEPT ![p] = session[p]],
                                             !.ends = e]]
           /\ SyncEnds(q) =>
                \/ job' = [job EXCEPT ![q] = [@ EXCEPT !.pc = "execute"]] /\ ~SyncFailed(q)
                \/ job' = [job EXCEPT ![q] = [@ EXCEPT !.pc = "failed"]]
                \/ job' = [job EXCEPT ![q] = [@ EXCEPT !.pc = "execute", !.again = FALSE,
                                                       !.unsynced = TRUE]]
           /\ Execute(q) => job' = [job EXCEPT ![q] = [@ EXCEPT !.pc = "compile"]]
           /\ ExecuteAgain(q) =>
                job' = [job EXCEPT ![q] = [@ EXCEPT !.pc =
                          IF CheckChecksum(q, store[q]) THEN "compile" ELSE "failed",
                          !.snap = store[q]]]
           /\ DryRun(q) => job' = [job EXCEPT ![q] = [@ EXCEPT !.pc =
                             IF CheckChecksum(q, job[q].snap) THEN "ran" ELSE "failed"]]
           /\ Run(q) => \/ job' = [job EXCEPT ![q] = [@ EXCEPT !.pc = "ran"]]
                        \/ job' = [job EXCEPT ![q] = [@ EXCEPT !.pc = "failed"]]
<1>0. job \in [Work -> Jobs]
  BY DEF TypeOK
<1>1. ASSUME Prepare(q) \/ PrepareAsked(q)
      PROVE  \/ job' = [job EXCEPT ![q] = [@ EXCEPT !.pc = "prepared", !.snap = store[q]]]
             \/ /\ job' = [job EXCEPT ![q] = [@ EXCEPT !.pc = "ask", !.asked = Missing(q)]]
                /\ Prepare(q)
             \/ job' = [job EXCEPT ![q] = [@ EXCEPT !.pc = "failed"]]
  BY <1>0, <1>1, Zenon DEF Prepare, PrepareAsked
<1>2. AskAllWrite(q) => job' = [job EXCEPT ![q] = [@ EXCEPT !.pc = "asked", !.asked = {}]]
  BY <1>0, Zenon DEF AskAllWrite
<1>3. AddSession(q) => job' = [job EXCEPT ![q] = [@ EXCEPT !.pc = "sync"]]
  BY <1>0, Zenon DEF AddSession
<1>4. DistributeQuery(q) =>
        job' = [job EXCEPT ![q] = [@ EXCEPT !.pc = "prepare", !.remote =
                  [d \in Data |-> IF d = Issuer THEN Checksum(job[Issuer].snap[d]) ELSE Unknown],
                  !.ends = {Issuer}]]
  BY <1>0, Zenon DEF DistributeQuery
<1>5. Answer(q) =>
        job' = [job EXCEPT ![Issuer] =
                  [job[Issuer] EXCEPT
                     !.remote = [job[Issuer].remote EXCEPT ![q] = Checksum(job[q].snap[q])],
                     !.ends = job[Issuer].ends \cup {q}]]
  <2>1. Answer(q) => job' = [job EXCEPT ![Issuer].remote[q] = Checksum(job[q].snap[q]),
                                        ![Issuer].ends = @ \cup {q}]
    BY Zenon DEF Answer
  <2> QED
    BY <1>0, <2>1, Workers, Zenon
<1>6. AskWrite(q, p) =>
        \/ job' = [job EXCEPT ![q] = [job[q] EXCEPT !.ends = job[q].ends \cup {p},
                                                              !.again = TRUE]]
        \/ job' = [job EXCEPT ![q] = [job[q] EXCEPT !.ends = job[q].ends \cup {p}]]
  <2>1. AskWrite(q, p) => \/ job' = [job EXCEPT ![q].ends = @ \cup {p}, ![q].again = TRUE]
                          \/ job' = [job EXCEPT ![q].ends = @ \cup {p}]
    BY Zenon DEF AskWrite
  <2> QED
    BY <1>0, <2>1, Zenon
<1>7. ExchangeJobInfo(q, p) =>
        \E e \in {job[q].ends, job[q].ends \cup {p}} :
           job' = [job EXCEPT ![q] =
                     [job[q] EXCEPT !.remote = [job[q].remote EXCEPT ![p] = session[p]],
                                             !.ends = e]]
  <2> SUFFICES ASSUME ExchangeJobInfo(q, p)
               PROVE  \E e \in {job[q].ends, job[q].ends \cup {p}} :
                        job' = [job EXCEPT ![q] =
                          [job[q] EXCEPT !.remote = [job[q].remote EXCEPT ![p] = session[p]],
                                         !.ends = e]]
    BY Zenon
  <2> DEFINE next == IF mode = "dry" THEN [st |-> "done"]
                     ELSE Compared(CompareWith(session[p], Checksum(job[q].snap[p])))
             e == IF mode = "run" /\ next.st = "done" THEN job[q].ends \cup {p} ELSE job[q].ends
  <2>1. job' = [job EXCEPT ![q].remote[p] = session[p], ![q].ends = e]
    BY <1>0, Zenon DEF ExchangeJobInfo
  <2>2. e \in {job[q].ends, job[q].ends \cup {p}}
    OBVIOUS
  <2> HIDE DEF e
  <2>3. job' = [job EXCEPT ![q] =
                  [job[q] EXCEPT !.remote = [job[q].remote EXCEPT ![p] = session[p]],
                                 !.ends = e]]
    BY <1>0, <2>1, Zenon
  <2> QED
    BY <2>2, <2>3, Zenon
<1>8. SyncEnds(q) =>
        \/ job' = [job EXCEPT ![q] = [@ EXCEPT !.pc = "execute"]] /\ ~SyncFailed(q)
        \/ job' = [job EXCEPT ![q] = [@ EXCEPT !.pc = "failed"]]
        \/ job' = [job EXCEPT ![q] = [@ EXCEPT !.pc = "execute", !.again = FALSE,
                                               !.unsynced = TRUE]]
  BY <1>0, Zenon DEF SyncEnds
<1>9. Execute(q) => job' = [job EXCEPT ![q] = [@ EXCEPT !.pc = "compile"]]
  BY <1>0, Zenon DEF Execute
<1>10. ExecuteAgain(q) =>
         job' = [job EXCEPT ![q] = [@ EXCEPT !.pc =
                   IF CheckChecksum(q, store[q]) THEN "compile" ELSE "failed",
                   !.snap = store[q]]]
  BY <1>0, Zenon DEF ExecuteAgain
<1>11. DryRun(q) => job' = [job EXCEPT ![q] = [@ EXCEPT !.pc =
                      IF CheckChecksum(q, job[q].snap) THEN "ran" ELSE "failed"]]
  BY <1>0, Zenon DEF DryRun
<1>12. Run(q) => \/ job' = [job EXCEPT ![q] = [@ EXCEPT !.pc = "ran"]]
                 \/ job' = [job EXCEPT ![q] = [@ EXCEPT !.pc = "failed"]]
  BY <1>0, Zenon DEF Run
<1> QED
  BY <1>1, <1>2, <1>3, <1>4, <1>5, <1>6, <1>7, <1>8, <1>9, <1>10, <1>11, <1>12, Zenon

\* The steps that leave the jobs alone.
LEMMA WhoWorks ==
    ASSUME [Next]_vars
    PROVE  \/ job' = job
           \/ \E q \in Work : \/ Prepare(q) \/ PrepareAsked(q) \/ AskAllWrite(q) \/ AddSession(q)
                              \/ DistributeQuery(q) \/ Answer(q) \/ SyncEnds(q) \/ Execute(q)
                              \/ ExecuteAgain(q) \/ DryRun(q) \/ Run(q)
           \/ \E q, p \in Work : AskWrite(q, p) \/ ExchangeJobInfo(q, p)
<1>1. ASSUME NEW q \in Work, AnswerError(q) \/ DistributeFails(q) PROVE job' = job
  BY <1>1 DEF AnswerError, DistributeFails
<1>2. ASSUME NEW q \in Work, NEW p \in Work,
             \/ AskInfo(q, p) \/ ExchangeNotFound(q, p)
             \/ AskInfoFails(q, p) \/ ExchangeFails(q, p)
      PROVE  job' = job
  BY <1>2 DEF AskInfo, ExchangeNotFound, AskInfoFails, ExchangeFails
<1>3. ASSUME NEW q \in Work, NEW d \in Data, NEW v \in Changes, Change(q, d, v)
      PROVE  job' = job
  BY <1>3 DEF Change
<1>4. UNCHANGED vars => job' = job
  BY DEF vars
<1> QED
  BY <1>1, <1>2, <1>3, <1>4, Zenon DEF Next, Step, Environment

\* One job is replaced.
LEMMA JobChange ==
    ASSUME JobOK, NEW q \in Work, NEW x \in Jobs, job' = [job EXCEPT ![q] = x]
    PROVE  JobOK' /\ job'[q] = x /\ \A y \in Work : y # q => job'[y] = job[y]
BY DEF JobOK

\* Every step keeps the form of the jobs.
LEMMA JobStep == TypeOK /\ TaskInv /\ [Next]_vars => JobOK'
<1> SUFFICES ASSUME TypeOK, TaskInv, [Next]_vars PROVE JobOK'
  OBVIOUS
<1>0. /\ JobOK /\ \A q \in Work : job[q] \in Jobs
      /\ \A q \in Work : store[q] \in [Data -> View]
      /\ \A q \in Work : session[q] \in Sums \cup {NoSession}
      /\ \A q \in Work : task[q][q] = NoTask
  BY DEF TypeOK, JobOK
<1>n. NoTask.st = "none"
  BY DEF NoTask
<1>f. \A q \in Work : /\ job[q].snap \in [Data -> View] /\ job[q].ends \in SUBSET Work
                      /\ job[q].remote \in [Data -> Sums \cup {Unknown}]
  BY <1>0, Zenon DEF Jobs
<1> HIDE DEF TypeOK
<1>s. Stages = {"idle", "prepare", "ask", "asked", "prepared", "sync", "execute", "compile",
                "ran", "failed"}
  BY DEF Stages
<1>1. ASSUME NEW q \in Work, Prepare(q) \/ PrepareAsked(q) PROVE JobOK'
  <2>1. Missing(q) \in SUBSET Data
    BY DEF Missing
  <2>2. /\ [job[q] EXCEPT !.pc = "prepared", !.snap = store[q]] \in Jobs
        /\ [job[q] EXCEPT !.pc = "ask", !.asked = Missing(q)] \in Jobs
        /\ [job[q] EXCEPT !.pc = "failed"] \in Jobs
    BY <1>0, <1>s, <2>1, JobFields, Zenon
  <2>3. \/ job' = [job EXCEPT ![q] = [job[q] EXCEPT !.pc = "prepared", !.snap = store[q]]]
        \/ job' = [job EXCEPT ![q] = [job[q] EXCEPT !.pc = "ask", !.asked = Missing(q)]]
        \/ job' = [job EXCEPT ![q] = [job[q] EXCEPT !.pc = "failed"]]
    BY <1>1, JobEffect, Zenon
  <2> QED
    BY <1>0, <2>2, <2>3, JobChange, Zenon
<1>2. ASSUME NEW q \in Work,
             \/ AskAllWrite(q) \/ AddSession(q) \/ SyncEnds(q) \/ Execute(q) \/ DryRun(q) \/ Run(q)
      PROVE JobOK'
  <2>1. /\ [job[q] EXCEPT !.pc = "asked", !.asked = {}] \in Jobs
        /\ \A pc \in Stages : [job[q] EXCEPT !.pc = pc] \in Jobs
        /\ [job[q] EXCEPT !.pc = "execute", !.again = FALSE, !.unsynced = TRUE] \in Jobs
    <3>1. {} \in SUBSET Data
      OBVIOUS
    <3> QED
      BY <1>0, <1>s, <3>1, JobFields, Zenon
  <2>2. \/ job' = [job EXCEPT ![q] = [job[q] EXCEPT !.pc = "asked", !.asked = {}]]
        \/ \E pc \in Stages : job' = [job EXCEPT ![q] = [job[q] EXCEPT !.pc = pc]]
        \/ job' = [job EXCEPT ![q] = [job[q] EXCEPT !.pc = "execute", !.again = FALSE,
                                                    !.unsynced = TRUE]]
    <3>1. ASSUME AskAllWrite(q) \/ AddSession(q) \/ Execute(q)
          PROVE  \/ job' = [job EXCEPT ![q] = [job[q] EXCEPT !.pc = "asked", !.asked = {}]]
                 \/ \E pc \in Stages : job' = [job EXCEPT ![q] = [job[q] EXCEPT !.pc = pc]]
      BY <1>s, <3>1, JobEffect, Zenon
    <3>2. ASSUME DryRun(q) \/ Run(q)
          PROVE  \E pc \in Stages : job' = [job EXCEPT ![q] = [job[q] EXCEPT !.pc = pc]]
      <4>1. "ran" \in Stages /\ "failed" \in Stages
              /\ (IF CheckChecksum(q, job[q].snap) THEN "ran" ELSE "failed") \in Stages
        BY <1>s
      <4> QED
        BY <3>2, <4>1, JobEffect, Zenon
    <3>3. ASSUME SyncEnds(q)
          PROVE  \/ \E pc \in Stages : job' = [job EXCEPT ![q] = [job[q] EXCEPT !.pc = pc]]
                 \/ job' = [job EXCEPT ![q] = [job[q] EXCEPT !.pc = "execute", !.again = FALSE,
                                                             !.unsynced = TRUE]]
      BY <1>s, <3>3, JobEffect, Zenon
    <3> QED
      BY <1>2, <3>1, <3>2, <3>3, Zenon
  <2> QED
    BY <1>0, <2>1, <2>2, JobChange, Zenon
<1>3. ASSUME NEW q \in Work, DistributeQuery(q) PROVE JobOK'
  <2> DEFINE r == [d \in Data |-> IF d = Issuer THEN Checksum(job[Issuer].snap[d]) ELSE Unknown]
  <2>1. r \in [Data -> Sums \cup {Unknown}] /\ {Issuer} \in SUBSET Work
    BY <1>f, Workers, SumsOf
  <2>2. job' = [job EXCEPT ![q] = [job[q] EXCEPT !.pc = "prepare", !.remote = r,
                                                 !.ends = {Issuer}]]
    BY <1>3, JobEffect, Zenon
  <2> HIDE DEF r
  <2>3. [job[q] EXCEPT !.pc = "prepare", !.remote = r, !.ends = {Issuer}] \in Jobs
    BY <1>0, <1>s, <2>1, JobFields, Zenon
  <2> QED
    BY <1>0, <2>2, <2>3, JobChange, Zenon
<1>4. ASSUME NEW q \in Work, Answer(q) PROVE JobOK'
  <2>1. q \in Data
    BY <1>0, <1>n, <1>4, Workers DEF Answer
  <2> DEFINE r == [job[Issuer].remote EXCEPT ![q] = Checksum(job[q].snap[q])]
             e == job[Issuer].ends \cup {q}
  <2>2. r \in [Data -> Sums \cup {Unknown}] /\ e \in SUBSET Work
    BY <1>f, <2>1, Workers, SumsOf
  <2>3. job' = [job EXCEPT ![Issuer] = [job[Issuer] EXCEPT !.remote = r, !.ends = e]]
    BY <1>4, JobEffect, Zenon
  <2> HIDE DEF r, e
  <2>4. [job[Issuer] EXCEPT !.remote = r, !.ends = e] \in Jobs
    BY <1>0, <2>2, JobFields, Workers, Zenon
  <2> QED
    BY <1>0, <2>3, <2>4, JobChange, Workers, Zenon
<1>5. ASSUME NEW q \in Work, NEW p \in Work, AskWrite(q, p) PROVE JobOK'
  <2> DEFINE e == job[q].ends \cup {p}
  <2>1. e \in SUBSET Work
    BY <1>f
  <2>2. \/ job' = [job EXCEPT ![q] = [job[q] EXCEPT !.ends = e, !.again = TRUE]]
        \/ job' = [job EXCEPT ![q] = [job[q] EXCEPT !.ends = e]]
    BY <1>5, JobEffect, Zenon
  <2> HIDE DEF e
  <2>3. \E x \in Jobs : job' = [job EXCEPT ![q] = x]
    BY <1>0, <2>1, <2>2, JobFields, Zenon
  <2> QED
    BY <1>0, <2>3, JobChange, Zenon
<1>6. ASSUME NEW q \in Work, NEW p \in Work, ExchangeJobInfo(q, p) PROVE JobOK'
  <2>1. p \in Data
    BY <1>n, <1>6 DEF ExchangeJobInfo, TaskInv, OwnersOnly
  <2> DEFINE r == [job[q].remote EXCEPT ![p] = session[p]]
  <2>2. r \in [Data -> Sums \cup {Unknown}]
    BY <1>0, <1>f, <1>6, <2>1 DEF ExchangeJobInfo
  <2>3. PICK e \in {job[q].ends, job[q].ends \cup {p}} :
          job' = [job EXCEPT ![q] = [job[q] EXCEPT !.remote = r, !.ends = e]]
    BY <1>6, JobEffect, Zenon
  <2>4. e \in SUBSET Work
    BY <1>f, <2>3
  <2> HIDE DEF r
  <2>5. [job[q] EXCEPT !.remote = r, !.ends = e] \in Jobs
    BY <1>0, <2>2, <2>4, JobFields, Zenon
  <2> QED
    BY <1>0, <2>3, <2>5, JobChange, Zenon
<1>7. ASSUME NEW q \in Work, ExecuteAgain(q) PROVE JobOK'
  <2> DEFINE pc == IF CheckChecksum(q, store[q]) THEN "compile" ELSE "failed"
  <2>1. pc \in Stages
    BY <1>s
  <2>2. job' = [job EXCEPT ![q] = [job[q] EXCEPT !.pc = pc, !.snap = store[q]]]
    BY <1>7, JobEffect, Zenon
  <2> HIDE DEF pc
  <2>3. [job[q] EXCEPT !.pc = pc, !.snap = store[q]] \in Jobs
    BY <1>0, <2>1, JobFields, Zenon
  <2> QED
    BY <1>0, <2>2, <2>3, JobChange, Zenon
<1>8. job' = job => JobOK'
  BY <1>0 DEF JobOK
<1> QED
  BY <1>1, <1>2, <1>3, <1>4, <1>5, <1>6, <1>7, <1>8, WhoWorks, Zenon

\* Goroutine p of q goes on with x.
Moves(q, p, x) ==
    /\ task' = [task EXCEPT ![q][p] = x]
    /\ \/ task[q][p].st \in {"call", "exchange"}
       \/ task[q][p].st = "ask" /\ x.st = "write"
       \/ task[q][p].st = "write" /\ job[q].pc = "sync"

\* A party starts its goroutines anew.
LEMMA TaskRow ==
    ASSUME TaskOK, OwnersOnly, NEW q \in Work, NEW f \in [Work -> Tasks],
           \A p \in Work : p \notin Data \ {q} => f[p] = NoTask,
           task' = [task EXCEPT ![q] = f]
    PROVE  /\ TaskOK' /\ OwnersOnly' /\ task'[q] = f
           /\ \A a \in Work : a # q => task'[a] = task[a]
<1>1. \A a \in Work : task'[a] = IF a = q THEN f ELSE task[a]
  BY DEF TaskOK
<1>2. task' \in [Work -> [Work -> Tasks]]
  BY DEF TaskOK
<1> QED
  BY <1>1, <1>2 DEF TaskOK, OwnersOnly

\* The forms of a task.
LEMMA TaskForms ==
    /\ NoTask \in Tasks /\ NoTask.st = "none"
    /\ \A s \in {"call", "done", "err"} : [st |-> s] \in Tasks
    /\ \A k \in {"all", "table", "ccl"} : /\ [st |-> "ask", kind |-> k] \in Tasks
                                          /\ \A v \in View : [st |-> "write", kind |-> k, ans |-> v] \in Tasks
    /\ \A n \in 0..RetryTimes : [st |-> "exchange", tries |-> n] \in Tasks
BY DEF Tasks, NoTask

\* The goroutines that Prepare and AddSession start.
LEMMA TaskRows ==
    ASSUME TypeOK, NEW q \in Work
    PROVE  /\ [p \in Work |-> IF p \in Missing(q) \ {q} THEN [st |-> "ask", kind |-> "all"]
                                                      ELSE NoTask] \in [Work -> Tasks]
           /\ DistributeTasks \in [Work -> Tasks] /\ SyncTasks(q) \in [Work -> Tasks]
           /\ \A p \in Work : p \notin Data \ {q} => SyncTasks(q)[p] = NoTask
           /\ \A p \in Work : p \notin Data \ {Issuer} => DistributeTasks[p] = NoTask
<1>1. [p \in Work |-> IF p \in Missing(q) \ {q} THEN [st |-> "ask", kind |-> "all"]
                                               ELSE NoTask] \in [Work -> Tasks]
  BY TaskForms
<1>2. /\ DistributeTasks \in [Work -> Tasks]
      /\ \A p \in Work : p \notin Data \ {Issuer} => DistributeTasks[p] = NoTask
  BY TaskForms, Workers DEF DistributeTasks
<1>3. SyncTasks(q) \in [Work -> Tasks]
  <2>1. 0 \in 0..RetryTimes
    BY QueryAssumption
  <2>2. [st |-> "exchange", tries |-> 0] \in Tasks /\ NoTask \in Tasks
    BY <2>1, TaskForms
  <2>3. \A p \in Work : Compared(CompareWith(Checksum(job[q].snap[p]), job[q].remote[p])) \in Tasks
    BY ComparedType
  <2> QED
    BY <2>2, <2>3 DEF SyncTasks
<1>4. \A p \in Work : p \notin Data \ {q} => SyncTasks(q)[p] = NoTask
  BY DEF SyncTasks
<1> QED
  BY <1>1, <1>2, <1>3, <1>4

\* What the steps do with the goroutines.
LEMMA TaskMoves ==
    ASSUME TypeOK, TaskInv, [Next]_vars
    PROVE  \/ task' = task
           \/ \E q \in Work : Prepare(q) \/ AskAllWrite(q) \/ AddSession(q)
           \/ \E q, p \in Work, x \in Tasks : Moves(q, p, x)
<1>0. /\ \A q, p \in Work : task[q][p] \in Tasks
      /\ \A q \in Data : store[q][q] \in View
      /\ NoTable \in View
  BY Workers DEF TypeOK, View
<1>w. Issuer \in Work
  BY Workers
<1> HIDE DEF TypeOK
<1>e. [st |-> "err"] \in Tasks /\ [st |-> "done"] \in Tasks
  BY TaskForms
<1>1. ASSUME NEW q \in Work,
             \/ PrepareAsked(q) \/ DistributeQuery(q) \/ SyncEnds(q) \/ Execute(q)
             \/ ExecuteAgain(q) \/ DryRun(q) \/ Run(q)
      PROVE  task' = task
  BY <1>1, Zenon DEF PrepareAsked, DistributeQuery, SyncEnds, Execute, ExecuteAgain, DryRun, Run
<1>2. ASSUME NEW q \in Work, Answer(q)
      PROVE  \E x \in Tasks : Moves(Issuer, q, x)
  <2> DEFINE x == Compared(CompareWith(Checksum(job[q].snap[q]), Checksum(job[Issuer].snap[q])))
  <2>1. task' = [task EXCEPT ![Issuer][q] = x] /\ task[Issuer][q].st = "call"
    BY <1>2, Zenon DEF Answer
  <2>2. x \in Tasks
    BY ComparedType
  <2> HIDE DEF x
  <2> QED
    BY <2>1, <2>2, Zenon DEF Moves
<1>3. ASSUME NEW q \in Work, AnswerError(q) \/ DistributeFails(q)
      PROVE  \E x \in Tasks : Moves(Issuer, q, x)
  BY <1>3, <1>e DEF AnswerError, DistributeFails, Moves
<1>4. ASSUME NEW q \in Work, NEW p \in Work, AskInfo(q, p) \/ AskInfoFails(q, p)
      PROVE  \E x \in Tasks : Moves(q, p, x)
  <2>1. task[q][p].st = "ask" /\ task[q][p].kind \in {"all", "table", "ccl"}
    BY <1>0, <1>4, TaskFields DEF AskInfo, AskInfoFails
  <2>2. store[p][p] \in View
    <3>1. p \in Data
      BY <2>1, TaskForms DEF TaskInv, OwnersOnly
    <3> QED
      BY <1>0, <3>1
  <2>3. \E v \in View : task' = [task EXCEPT ![q][p] =
                                  [st |-> "write", kind |-> task[q][p].kind, ans |-> v]]
    BY <1>0, <1>4, <2>2 DEF AskInfo, AskInfoFails
  <2>4. \A v \in View : /\ [st |-> "write", kind |-> task[q][p].kind, ans |-> v] \in Tasks
                        /\ [st |-> "write", kind |-> task[q][p].kind, ans |-> v].st = "write"
    BY <2>1, TaskForms
  <2> QED
    BY <2>1, <2>3, <2>4, Zenon DEF Moves
<1>5. ASSUME NEW q \in Work, NEW p \in Work, AskWrite(q, p)
      PROVE  \E x \in Tasks : Moves(q, p, x)
  <2>1. /\ job[q].pc = "sync" /\ task[q][p].st = "write"
        /\ \/ task' = [task EXCEPT ![q][p] = [st |-> "done"]]
           \/ task' = [task EXCEPT ![q][p] = [st |-> "err"]]
    BY <1>5, Zenon DEF AskWrite
  <2> QED
    BY <1>e, <2>1, Zenon DEF Moves
<1>6. ASSUME NEW q \in Work, NEW p \in Work, ExchangeNotFound(q, p) \/ ExchangeFails(q, p)
      PROVE  \E x \in Tasks : Moves(q, p, x)
  <2>1. task[q][p].st = "exchange" /\ task[q][p].tries \in 0..RetryTimes
    BY <1>0, <1>6, TaskFields DEF ExchangeNotFound, ExchangeFails
  <2>2. task[q][p].tries + 1 < RetryTimes => task[q][p].tries + 1 \in 0..RetryTimes
    BY <2>1, QueryAssumption
  <2>3. task[q][p].tries + 1 < RetryTimes =>
          [st |-> "exchange", tries |-> task[q][p].tries + 1] \in Tasks
    BY <2>2, TaskForms
  <2>4. \/ task' = [task EXCEPT ![q][p] = [st |-> "err"]]
        \/ /\ task[q][p].tries + 1 < RetryTimes
           /\ task' = [task EXCEPT ![q][p] =
                         [st |-> "exchange", tries |-> task[q][p].tries + 1]]
    BY <1>6 DEF ExchangeNotFound, ExchangeFails
  <2> QED
    BY <1>e, <2>1, <2>3, <2>4 DEF Moves
<1>7. ASSUME NEW q \in Work, NEW p \in Work, ExchangeJobInfo(q, p)
      PROVE  \E x \in Tasks : Moves(q, p, x)
  <2> DEFINE x == IF mode = "dry" THEN [st |-> "done"]
                  ELSE Compared(CompareWith(session[p], Checksum(job[q].snap[p])))
  <2>1. task' = [task EXCEPT ![q][p] = x] /\ task[q][p].st = "exchange"
    BY <1>7, Zenon DEF ExchangeJobInfo
  <2>2. x \in Tasks
    BY <1>e, ComparedType
  <2> HIDE DEF x
  <2> QED
    BY <2>1, <2>2, Zenon DEF Moves
<1>8. ASSUME NEW q \in Work, NEW d \in Data, NEW v \in Changes, Change(q, d, v)
      PROVE  task' = task
  BY <1>8 DEF Change
<1>9. UNCHANGED vars => task' = task
  BY DEF vars
<1> QED
  BY <1>w, <1>1, <1>2, <1>3, <1>4, <1>5, <1>6, <1>7, <1>8, <1>9, Zenon DEF Next, Step, Environment

\* What a step keeps of the jobs: those of the other parties, and of q's own
\* the tables, the flags or the stage.
Frame(q) == \A y \in Work : y # q => job'[y] = job[y]
SameTables(q) == job'[q].snap = job[q].snap /\ job'[q].remote = job[q].remote
SameFlags(q) == job'[q].again = job[q].again /\ job'[q].unsynced = job[q].unsynced
SameStage(q) == job'[q].pc = job[q].pc /\ job'[q].asked = job[q].asked

\* What the steps of one party do with its job.
LEMMA OwnSteps ==
    ASSUME TypeOK, NEW q \in Work
    PROVE  /\ Prepare(q) \/ PrepareAsked(q) =>
                /\ Frame(q) /\ SameFlags(q) /\ job'[q].remote = job[q].remote
                /\ \/ job'[q].pc = "prepared" /\ job'[q].snap = store[q]
                   \/ /\ Prepare(q) /\ job'[q].pc = "ask" /\ job'[q].asked = Missing(q)
                      /\ job'[q].snap = job[q].snap
                   \/ job'[q].pc = "failed" /\ job'[q].snap = job[q].snap
           /\ AskAllWrite(q) =>
                Frame(q) /\ SameFlags(q) /\ SameTables(q) /\ job'[q].pc = "asked"
           /\ AddSession(q) =>
                Frame(q) /\ SameFlags(q) /\ SameTables(q) /\ job'[q].pc = "sync"
           /\ SyncEnds(q) =>
                /\ Frame(q) /\ SameTables(q)
                /\ \/ job'[q].pc = "execute" /\ ~SyncFailed(q) /\ SameFlags(q)
                   \/ job'[q].pc = "failed" /\ SameFlags(q)
                   \/ job'[q].pc = "execute" /\ job'[q].unsynced
           /\ Execute(q) =>
                Frame(q) /\ SameFlags(q) /\ SameTables(q) /\ job'[q].pc = "compile"
           /\ ExecuteAgain(q) =>
                /\ Frame(q) /\ SameFlags(q)
                /\ job'[q].snap = store[q] /\ job'[q].remote = job[q].remote
                /\ job'[q].pc = IF CheckChecksum(q, store[q]) THEN "compile" ELSE "failed"
           /\ DryRun(q) =>
                /\ Frame(q) /\ SameFlags(q) /\ SameTables(q)
                /\ job'[q].pc = IF CheckChecksum(q, job[q].snap) THEN "ran" ELSE "failed"
           /\ Run(q) =>
                Frame(q) /\ SameFlags(q) /\ SameTables(q) /\ job'[q].pc \in {"ran", "failed"}
<1>0. job \in [Work -> Jobs] /\ job[q] \in Jobs
  BY DEF TypeOK
<1>c. ASSUME NEW x, job' = [job EXCEPT ![q] = x]
      PROVE  Frame(q) /\ job'[q] = x
  BY <1>0, <1>c, Zenon DEF Frame
<1>s. ASSUME NEW pc, job' = [job EXCEPT ![q] = [job[q] EXCEPT !.pc = pc]]
      PROVE  Frame(q) /\ SameFlags(q) /\ SameTables(q) /\ job'[q].pc = pc
  <2>1. ASSUME NEW x, x = [job[q] EXCEPT !.pc = pc]
        PROVE  /\ x.pc = pc /\ x.snap = job[q].snap /\ x.remote = job[q].remote
               /\ x.again = job[q].again /\ x.unsynced = job[q].unsynced
    BY <1>0, <2>1, Zenon DEF Jobs
  <2> QED
    BY <1>c, <1>s, <2>1, Zenon DEF SameFlags, SameTables
<1>1. ASSUME Prepare(q) \/ PrepareAsked(q)
      PROVE  /\ Frame(q) /\ SameFlags(q) /\ job'[q].remote = job[q].remote
             /\ \/ job'[q].pc = "prepared" /\ job'[q].snap = store[q]
                \/ /\ Prepare(q) /\ job'[q].pc = "ask" /\ job'[q].asked = Missing(q)
                   /\ job'[q].snap = job[q].snap
                \/ job'[q].pc = "failed" /\ job'[q].snap = job[q].snap
  <2>1. \/ job' = [job EXCEPT ![q] = [job[q] EXCEPT !.pc = "prepared", !.snap = store[q]]]
        \/ /\ job' = [job EXCEPT ![q] = [job[q] EXCEPT !.pc = "ask", !.asked = Missing(q)]]
           /\ Prepare(q)
        \/ job' = [job EXCEPT ![q] = [job[q] EXCEPT !.pc = "failed"]]
    BY <1>1, JobEffect, Zenon
  <2>2. ASSUME NEW x, x = [job[q] EXCEPT !.pc = "prepared", !.snap = store[q]]
        PROVE  /\ x.pc = "prepared" /\ x.snap = store[q] /\ x.remote = job[q].remote
               /\ x.again = job[q].again /\ x.unsynced = job[q].unsynced
    BY <1>0, <2>2, Zenon DEF Jobs
  <2>3. ASSUME NEW x, x = [job[q] EXCEPT !.pc = "ask", !.asked = Missing(q)]
        PROVE  /\ x.pc = "ask" /\ x.snap = job[q].snap /\ x.remote = job[q].remote
               /\ x.again = job[q].again /\ x.unsynced = job[q].unsynced
               /\ x.asked = Missing(q)
    BY <1>0, <2>3, Zenon DEF Jobs
  <2> QED
    BY <1>c, <1>s, <2>1, <2>2, <2>3, Zenon DEF SameFlags, SameTables
<1>2. ASSUME AskAllWrite(q)
      PROVE  Frame(q) /\ SameFlags(q) /\ SameTables(q) /\ job'[q].pc = "asked"
  <2>1. job' = [job EXCEPT ![q] = [job[q] EXCEPT !.pc = "asked", !.asked = {}]]
    BY <1>2, JobEffect, Zenon
  <2>2. ASSUME NEW x, x = [job[q] EXCEPT !.pc = "asked", !.asked = {}]
        PROVE  /\ x.pc = "asked" /\ x.snap = job[q].snap /\ x.remote = job[q].remote
               /\ x.again = job[q].again /\ x.unsynced = job[q].unsynced
    BY <1>0, <2>2, Zenon DEF Jobs
  <2> QED
    BY <1>c, <2>1, <2>2, Zenon DEF SameFlags, SameTables
<1>3. ASSUME AddSession(q)
      PROVE  Frame(q) /\ SameFlags(q) /\ SameTables(q) /\ job'[q].pc = "sync"
  BY <1>s, <1>3, JobEffect, Zenon
<1>4. ASSUME SyncEnds(q)
      PROVE  /\ Frame(q) /\ SameTables(q)
             /\ \/ job'[q].pc = "execute" /\ ~SyncFailed(q) /\ SameFlags(q)
                \/ job'[q].pc = "failed" /\ SameFlags(q)
                \/ job'[q].pc = "execute" /\ job'[q].unsynced
  <2>1. \/ job' = [job EXCEPT ![q] = [job[q] EXCEPT !.pc = "execute"]] /\ ~SyncFailed(q)
        \/ job' = [job EXCEPT ![q] = [job[q] EXCEPT !.pc = "failed"]]
        \/ job' = [job EXCEPT ![q] = [job[q] EXCEPT !.pc = "execute", !.again = FALSE,
                                                    !.unsynced = TRUE]]
    BY <1>4, JobEffect, Zenon
  <2>2. ASSUME job' = [job EXCEPT ![q] = [job[q] EXCEPT !.pc = "execute", !.again = FALSE,
                                                        !.unsynced = TRUE]]
        PROVE  Frame(q) /\ SameTables(q) /\ job'[q].pc = "execute" /\ job'[q].unsynced
    <3>1. ASSUME NEW x, x = [job[q] EXCEPT !.pc = "execute", !.again = FALSE, !.unsynced = TRUE]
          PROVE  /\ x.pc = "execute" /\ x.snap = job[q].snap /\ x.remote = job[q].remote
                 /\ x.unsynced = TRUE
      BY <1>0, <3>1, Zenon DEF Jobs
    <3> QED
      BY <1>c, <2>2, <3>1, Zenon DEF SameTables
  <2> QED
    BY <1>s, <2>1, <2>2, Zenon
<1>5. ASSUME Execute(q)
      PROVE  Frame(q) /\ SameFlags(q) /\ SameTables(q) /\ job'[q].pc = "compile"
  BY <1>s, <1>5, JobEffect, Zenon
<1>6. ASSUME ExecuteAgain(q)
      PROVE  /\ Frame(q) /\ SameFlags(q)
             /\ job'[q].snap = store[q] /\ job'[q].remote = job[q].remote
             /\ job'[q].pc = IF CheckChecksum(q, store[q]) THEN "compile" ELSE "failed"
  <2> DEFINE pc == IF CheckChecksum(q, store[q]) THEN "compile" ELSE "failed"
  <2>1. job' = [job EXCEPT ![q] = [job[q] EXCEPT !.pc = pc, !.snap = store[q]]]
    BY <1>6, JobEffect, Zenon
  <2> HIDE DEF pc
  <2>2. /\ Frame(q) /\ SameFlags(q) /\ job'[q].pc = pc
        /\ job'[q].snap = store[q] /\ job'[q].remote = job[q].remote
    <3>1. ASSUME NEW x, x = [job[q] EXCEPT !.pc = pc, !.snap = store[q]]
          PROVE  /\ x.pc = pc /\ x.snap = store[q] /\ x.remote = job[q].remote
                 /\ x.again = job[q].again /\ x.unsynced = job[q].unsynced
      BY <1>0, <3>1, Zenon DEF Jobs
    <3> QED
      BY <1>c, <2>1, <3>1, Zenon DEF SameFlags
  <2> QED
    BY <2>2, Zenon DEF pc
<1>7. ASSUME DryRun(q)
      PROVE  /\ Frame(q) /\ SameFlags(q) /\ SameTables(q)
             /\ job'[q].pc = IF CheckChecksum(q, job[q].snap) THEN "ran" ELSE "failed"
  <2> DEFINE pc == IF CheckChecksum(q, job[q].snap) THEN "ran" ELSE "failed"
  <2>1. job' = [job EXCEPT ![q] = [job[q] EXCEPT !.pc = pc]]
    BY <1>7, JobEffect, Zenon
  <2> HIDE DEF pc
  <2>2. Frame(q) /\ SameFlags(q) /\ SameTables(q) /\ job'[q].pc = pc
    BY <1>s, <2>1, Zenon
  <2> QED
    BY <2>2 DEF pc
<1>8. ASSUME Run(q)
      PROVE  Frame(q) /\ SameFlags(q) /\ SameTables(q) /\ job'[q].pc \in {"ran", "failed"}
  <2>1. \/ job' = [job EXCEPT ![q] = [job[q] EXCEPT !.pc = "ran"]]
        \/ job' = [job EXCEPT ![q] = [job[q] EXCEPT !.pc = "failed"]]
    BY <1>8, JobEffect, Zenon
  <2>2. /\ Frame(q) /\ SameFlags(q) /\ SameTables(q)
        /\ job'[q].pc = "ran" \/ job'[q].pc = "failed"
    BY <1>s, <2>1, Zenon
  <2> QED
    BY <2>2
<1> QED
  BY <1>1, <1>2, <1>3, <1>4, <1>5, <1>6, <1>7, <1>8, Zenon

\* What the calls between two parties do with the jobs.
LEMMA CallSteps ==
    ASSUME TypeOK, TaskInv, NEW q \in Work, NEW p \in Work
    PROVE  /\ DistributeQuery(q) =>
                /\ Frame(q) /\ SameFlags(q) /\ job'[q].pc = "prepare"
                /\ job'[q].snap = job[q].snap
                /\ job'[q].remote =
                     [d \in Data |-> IF d = Issuer THEN Checksum(job[Issuer].snap[d]) ELSE Unknown]
           /\ Answer(q) =>
                /\ Frame(Issuer) /\ SameFlags(Issuer) /\ SameStage(Issuer)
                /\ job'[Issuer].snap = job[Issuer].snap
                /\ job'[Issuer].remote = [job[Issuer].remote EXCEPT ![q] = Checksum(job[q].snap[q])]
           /\ AskWrite(q, p) =>
                /\ Frame(q) /\ SameTables(q) /\ SameStage(q)
                /\ job'[q].unsynced = job[q].unsynced
                /\ job'[q].again \/ job'[q].again = job[q].again
           /\ ExchangeJobInfo(q, p) =>
                /\ Frame(q) /\ SameFlags(q) /\ SameStage(q)
                /\ job'[q].snap = job[q].snap
                /\ job'[q].remote = [job[q].remote EXCEPT ![p] = session[p]]
<1>0. job \in [Work -> Jobs] /\ Issuer \in Work /\ \A x \in Work : job[x] \in Jobs
  BY Workers DEF TypeOK
<1>c. ASSUME NEW w \in Work, NEW x, job' = [job EXCEPT ![w] = x]
      PROVE  Frame(w) /\ job'[w] = x
  BY <1>0, <1>c, Zenon DEF Frame
<1>1. ASSUME DistributeQuery(q)
      PROVE  /\ Frame(q) /\ SameFlags(q) /\ job'[q].pc = "prepare"
             /\ job'[q].snap = job[q].snap
             /\ job'[q].remote =
                  [d \in Data |-> IF d = Issuer THEN Checksum(job[Issuer].snap[d]) ELSE Unknown]
  <2> DEFINE r == [d \in Data |-> IF d = Issuer THEN Checksum(job[Issuer].snap[d]) ELSE Unknown]
  <2>1. job' = [job EXCEPT ![q] = [job[q] EXCEPT !.pc = "prepare", !.remote = r,
                                                 !.ends = {Issuer}]]
    BY <1>1, JobEffect, Zenon
  <2> HIDE DEF r
  <2>2. ASSUME NEW x, x = [job[q] EXCEPT !.pc = "prepare", !.remote = r, !.ends = {Issuer}]
        PROVE  /\ x.pc = "prepare" /\ x.snap = job[q].snap /\ x.remote = r
               /\ x.again = job[q].again /\ x.unsynced = job[q].unsynced
    BY <1>0, <2>2, Zenon DEF Jobs
  <2>3. /\ Frame(q) /\ SameFlags(q) /\ job'[q].pc = "prepare"
        /\ job'[q].snap = job[q].snap /\ job'[q].remote = r
    BY <1>c, <2>1, <2>2, Zenon DEF SameFlags
  <2> QED
    BY <2>3, Zenon DEF r
<1>2. ASSUME Answer(q)
      PROVE  /\ Frame(Issuer) /\ SameFlags(Issuer) /\ SameStage(Issuer)
             /\ job'[Issuer].snap = job[Issuer].snap
             /\ job'[Issuer].remote = [job[Issuer].remote EXCEPT ![q] = Checksum(job[q].snap[q])]
  <2> DEFINE r == [job[Issuer].remote EXCEPT ![q] = Checksum(job[q].snap[q])]
             e == job[Issuer].ends \cup {q}
             x == [job[Issuer] EXCEPT !.remote = r, !.ends = e]
  <2>1. job' = [job EXCEPT ![Issuer] = x]
    BY <1>2, JobEffect, Zenon
  <2>2. /\ x.pc = job[Issuer].pc /\ x.snap = job[Issuer].snap /\ x.remote = r
        /\ x.again = job[Issuer].again /\ x.unsynced = job[Issuer].unsynced
        /\ x.asked = job[Issuer].asked
    <3> HIDE DEF r, e
    <3>1. job[Issuer] \in Jobs
      BY <1>0
    <3> QED
      BY <3>1, Zenon DEF Jobs
  <2> HIDE DEF x
  <2> QED
    BY <1>0, <1>c, <2>1, <2>2, Zenon DEF SameFlags, SameStage
<1>3. ASSUME AskWrite(q, p)
      PROVE  /\ Frame(q) /\ SameTables(q) /\ SameStage(q)
             /\ job'[q].unsynced = job[q].unsynced
             /\ job'[q].again \/ job'[q].again = job[q].again
  <2> DEFINE e == job[q].ends \cup {p}
  <2>1. \/ job' = [job EXCEPT ![q] = [job[q] EXCEPT !.ends = e, !.again = TRUE]]
        \/ job' = [job EXCEPT ![q] = [job[q] EXCEPT !.ends = e]]
    BY <1>3, JobEffect, Zenon
  <2> HIDE DEF e
  <2>2. ASSUME NEW x, x = [job[q] EXCEPT !.ends = e, !.again = TRUE]
        PROVE  /\ x.pc = job[q].pc /\ x.snap = job[q].snap /\ x.remote = job[q].remote
               /\ x.again = TRUE /\ x.unsynced = job[q].unsynced /\ x.asked = job[q].asked
    BY <1>0, <2>2, Zenon DEF Jobs
  <2>3. ASSUME NEW x, x = [job[q] EXCEPT !.ends = e]
        PROVE  /\ x.pc = job[q].pc /\ x.snap = job[q].snap /\ x.remote = job[q].remote
               /\ x.again = job[q].again /\ x.unsynced = job[q].unsynced
               /\ x.asked = job[q].asked
    BY <1>0, <2>3, Zenon DEF Jobs
  <2> QED
    BY <1>c, <2>1, <2>2, <2>3, Zenon DEF SameTables, SameStage
<1>4. ASSUME ExchangeJobInfo(q, p)
      PROVE  /\ Frame(q) /\ SameFlags(q) /\ SameStage(q)
             /\ job'[q].snap = job[q].snap
             /\ job'[q].remote = [job[q].remote EXCEPT ![p] = session[p]]
  <2> DEFINE r == [job[q].remote EXCEPT ![p] = session[p]]
  <2>1. PICK e \in {job[q].ends, job[q].ends \cup {p}} :
          job' = [job EXCEPT ![q] = [job[q] EXCEPT !.remote = r, !.ends = e]]
    BY <1>4, JobEffect, Zenon
  <2> DEFINE x == [job[q] EXCEPT !.remote = r, !.ends = e]
  <2>2. /\ x.pc = job[q].pc /\ x.snap = job[q].snap /\ x.remote = r
        /\ x.again = job[q].again /\ x.unsynced = job[q].unsynced
        /\ x.asked = job[q].asked
    <3> HIDE DEF r
    <3> QED
      BY <1>0, Zenon DEF Jobs
  <2> HIDE DEF x
  <2>3. job' = [job EXCEPT ![q] = x]
    BY <2>1 DEF x
  <2> QED
    BY <1>0, <1>c, <2>2, <2>3, Zenon DEF SameFlags, SameStage
<1> QED
  BY <1>1, <1>2, <1>3, <1>4, Zenon

\* A party that asks for tables began to in this step or asks for the same.
LEMMA AskFlow ==
    ASSUME TypeOK, TaskInv, [Next]_vars, NEW q \in Work, job'[q].pc = "ask"
    PROVE  \/ Prepare(q) /\ job'[q].asked = Missing(q)
           \/ job[q].pc = "ask" /\ job'[q].asked = job[q].asked /\ ~AskAllWrite(q)
<1> HIDE DEF TypeOK
<1>1. ASSUME NEW x \in Work, Prepare(x) \/ PrepareAsked(x)
      PROVE  \/ Prepare(q) /\ job'[q].asked = Missing(q)
             \/ job'[q] = job[q]
  BY <1>1, OwnSteps, Zenon DEF Frame
<1>2. ASSUME NEW x \in Work, AskAllWrite(x) \/ AddSession(x) \/ Execute(x)
      PROVE  job'[q] = job[q]
  BY <1>2, OwnSteps DEF Frame
<1>3. ASSUME NEW x \in Work, SyncEnds(x) \/ ExecuteAgain(x) \/ DryRun(x) \/ Run(x)
      PROVE  job'[q] = job[q]
  BY <1>3, OwnSteps DEF Frame
<1>4. ASSUME NEW x \in Work, DistributeQuery(x)
      PROVE  job'[q] = job[q]
  BY <1>4, CallSteps, Zenon DEF Frame
<1>5. ASSUME NEW x \in Work, Answer(x)
      PROVE  job'[q].pc = job[q].pc /\ job'[q].asked = job[q].asked
  BY <1>5, CallSteps, Zenon DEF Frame, SameStage
<1>6. ASSUME NEW x \in Work, NEW p \in Work, AskWrite(x, p) \/ ExchangeJobInfo(x, p)
      PROVE  job'[q].pc = job[q].pc /\ job'[q].asked = job[q].asked
  BY <1>6, CallSteps, Zenon DEF Frame, SameStage
<1>7. ~AskAllWrite(q)
  BY OwnSteps
<1> QED
  BY <1>1, <1>2, <1>3, <1>4, <1>5, <1>6, <1>7, WhoWorks, Zenon

\* Every step keeps the form of the goroutines, and what is asked for.
LEMMA TaskStep == TypeOK /\ TaskInv /\ [Next]_vars => TaskOK' /\ TaskInv'
<1> SUFFICES ASSUME TypeOK, TaskInv, [Next]_vars PROVE TaskOK' /\ OwnersOnly' /\ AskedInv'
  BY DEF TaskInv
<1>0. TaskOK /\ OwnersOnly /\ \A q, p \in Work : task[q][p] \in Tasks
  BY DEF TypeOK, TaskOK, TaskInv
<1>a. \A q \in Work : job[q].asked \subseteq Data /\ Missing(q) \subseteq Data
  BY DEF TypeOK, Jobs, Missing
<1> HIDE DEF TypeOK
<1>b. \A q \in Work : job[q].pc = "ask" =>
        \A p \in job[q].asked \ {q} : p \in Work /\ task[q][p].st \in {"ask", "write"}
  BY <1>a, Workers DEF TaskInv, AskedInv
<1> DEFINE Asks(q) == [p \in Work |-> IF p \in Missing(q) \ {q} THEN [st |-> "ask", kind |-> "all"]
                                                               ELSE NoTask]
<1>p. ASSUME NEW q \in Work, Prepare(q), job'[q].pc = "ask"
      PROVE  task' = [task EXCEPT ![q] = Asks(q)]
  <2>1. CASE Missing(q) = {}
    <3>1. job' = [job EXCEPT ![q].pc = "prepared", ![q].snap = store[q]]
      BY <1>p, <2>1 DEF Prepare
    <3>2. job'[q].pc = "prepared"
      BY <3>1 DEF TypeOK, Jobs
    <3> QED
      BY <1>p, <3>2
  <2>2. CASE Missing(q) # {}
    BY <1>p, <2>2, Zenon DEF Prepare
  <2> QED
    BY <2>1, <2>2
<1>r. \A q \in Work : /\ Asks(q) \in [Work -> Tasks]
                      /\ \A p \in Work : p \notin Data \ {q} => Asks(q)[p] = NoTask
                      /\ \A p \in Missing(q) \ {q} : Asks(q)[p].st = "ask"
  <2>1. \A q \in Work : Asks(q) \in [Work -> Tasks]
    BY TaskRows
  <2> QED
    BY <1>a, <2>1, Workers
<1> HIDE DEF Asks
\* A party that begins to ask.
<1>s. ASSUME NEW q \in Work, Prepare(q), job'[q].pc = "ask"
      PROVE  /\ TaskOK' /\ OwnersOnly'
             /\ \A p \in Missing(q) \ {q} : task'[q][p].st = "ask"
             /\ \A y \in Work : y # q => task'[y] = task[y]
  <2>1. task' = [task EXCEPT ![q] = Asks(q)]
    BY <1>p, <1>s
  <2>2. /\ TaskOK' /\ OwnersOnly' /\ task'[q] = Asks(q)
        /\ \A y \in Work : y # q => task'[y] = task[y]
    BY <1>0, <1>r, <2>1, TaskRow, Zenon
  <2> QED
    BY <1>r, <2>2, Zenon
\* AskedInv for a party that was asking already.
<1>k. ASSUME \A q, p \in Work :
               (job[q].pc = "ask" /\ ~AskAllWrite(q) /\ task[q][p].st \in {"ask", "write"})
                 => task'[q][p].st \in {"ask", "write"}
      PROVE  AskedInv'
  <2> SUFFICES ASSUME NEW q \in Work, job'[q].pc = "ask", NEW p \in job'[q].asked \ {q}
               PROVE  task'[q][p].st \in {"ask", "write"}
    BY DEF AskedInv
  <2>1. CASE Prepare(q) /\ job'[q].asked = Missing(q)
    BY <1>s, <2>1
  <2>2. CASE job[q].pc = "ask" /\ job'[q].asked = job[q].asked /\ ~AskAllWrite(q)
    BY <1>b, <1>k, <2>2
  <2> QED
    BY <2>1, <2>2, AskFlow
<1>1. CASE task' = task
  BY <1>0, <1>1, <1>k DEF TaskOK, OwnersOnly
<1>2. ASSUME NEW q \in Work, Prepare(q)
      PROVE  TaskOK' /\ OwnersOnly' /\ AskedInv'
  <2>1. CASE job'[q].pc = "ask"
    <3>1. \A y, p \in Work : job[y].pc = "ask" => task'[y][p] = task[y][p]
      BY <1>2, <1>s, <2>1 DEF Prepare
    <3> QED
      BY <1>2, <1>k, <1>s, <2>1, <3>1
  <2>2. CASE job'[q].pc # "ask"
    <3>1. task' = task
      <4>1. CASE Missing(q) = {}
        BY <1>2, <4>1 DEF Prepare
      <4>2. CASE Missing(q) # {}
        <5>1. job' = [job EXCEPT ![q].pc = "ask", ![q].asked = Missing(q)]
          BY <1>2, <4>2, Zenon DEF Prepare
        <5>2. job'[q].pc = "ask"
          BY <5>1 DEF TypeOK, Jobs
        <5> QED
          BY <2>2, <5>2
      <4> QED
        BY <4>1, <4>2
    <3> QED
      BY <1>1, <3>1
  <2> QED
    BY <2>1, <2>2
<1>3. ASSUME NEW q \in Work, AskAllWrite(q) \/ AddSession(q)
      PROVE  TaskOK' /\ OwnersOnly' /\ AskedInv'
  <2>1. PICK f \in [Work -> Tasks] : /\ task' = [task EXCEPT ![q] = f]
                                     /\ \A p \in Work : p \notin Data \ {q} => f[p] = NoTask
    <3>1. CASE AskAllWrite(q)
      <4> DEFINE g == [p \in Work |-> NoTask]
      <4>1. g \in [Work -> Tasks] /\ \A p \in Work : g[p] = NoTask
        BY TaskForms
      <4>2. task' = [task EXCEPT ![q] = g]
        BY <3>1, Zenon DEF AskAllWrite
      <4> HIDE DEF g
      <4> QED
        BY <4>1, <4>2, Zenon
    <3>2. CASE AddSession(q)
      BY <3>2, TaskRows, Zenon DEF AddSession
    <3> QED
      BY <1>3, <3>1, <3>2
  <2>2. TaskOK' /\ OwnersOnly' /\ \A y \in Work : y # q => task'[y] = task[y]
    BY <1>0, <2>1, TaskRow, Zenon
  <2>3. AddSession(q) => job[q].pc # "ask"
    BY DEF AddSession
  <2> QED
    BY <1>k, <1>3, <2>2, <2>3
<1>4. ASSUME NEW q \in Work, NEW p \in Work, NEW x \in Tasks, Moves(q, p, x)
      PROVE  TaskOK' /\ OwnersOnly' /\ AskedInv'
  <2>2. /\ TaskOK' /\ OwnersOnly' /\ task'[q][p] = x
        /\ \A a, b \in Work : ~(a = q /\ b = p) => task'[a][b] = task[a][b]
    <3>1. task[q][p] # NoTask /\ task' = [task EXCEPT ![q][p] = x]
      BY <1>4 DEF Moves, NoTask
    <3>2. p \in Data /\ p # q
      BY <1>0, <3>1 DEF TaskOK, OwnersOnly
    <3>3. \A a, b \in Work : task'[a][b] = IF a = q /\ b = p THEN x ELSE task[a][b]
      BY <1>0, <3>1 DEF TaskOK
    <3>4. task' \in [Work -> [Work -> Tasks]]
      BY <1>0, <3>1 DEF TaskOK
    <3> QED
      BY <1>0, <3>2, <3>3, <3>4 DEF TaskOK, OwnersOnly
  <2>3. (job[q].pc = "ask" /\ task[q][p].st \in {"ask", "write"}) => x.st \in {"ask", "write"}
    BY <1>4 DEF Moves
  <2> QED
    BY <1>k, <2>2, <2>3
<1> QED
  BY <1>1, <1>2, <1>3, <1>4, TaskMoves, Zenon

\* The other variables keep their types.
LEMMA RestStep == TypeOK /\ [Next]_vars => RestOK'
<1> SUFFICES ASSUME TypeOK, [Next]_vars PROVE RestOK'
  OBVIOUS
<1>0. /\ RestOK /\ \A q \in Work : store[q] \in [Data -> View]
      /\ taken \in [Data -> SUBSET Sums]
  BY DEF TypeOK, RestOK
<1> HIDE DEF TypeOK
<1>e. \A k \in {"changes", "faults"} :
        Event(k) => used' \in [changes : 0..MaxEvents, faults : 0..MaxEvents]
  BY <1>0, QueryAssumption DEF Event, RestOK
<1>t. ASSUME NEW q \in Work, Took(q)
      PROVE  taken' \in [Data -> SUBSET Sums]
  <2> DEFINE Add(d) == IF d = q THEN {Checksum(store[q][q])} ELSE {}
  <2>1. \A d \in Data : Add(d) \subseteq Sums
    BY <1>0, <1>t, SumsOf
  <2>2. taken' = [d \in Data |-> taken[d] \cup Add(d)]
    BY <1>t DEF Took
  <2> HIDE DEF Add
  <2>3. \A d \in Data : taken[d] \cup Add(d) \in SUBSET Sums
    BY <1>0, <2>1
  <2> QED
    BY <2>2, <2>3
<1>1. ASSUME NEW q \in Work, Prepare(q) \/ PrepareAsked(q) \/ ExecuteAgain(q)
      PROVE  RestOK'
  <2>1. UNCHANGED <<inbox, mode, used>> /\ (Took(q) \/ taken' = taken)
    BY <1>1, Zenon DEF Prepare, PrepareAsked, ExecuteAgain
  <2> QED
    BY <1>0, <1>t, <2>1 DEF RestOK
<1>2. ASSUME NEW q \in Work, AddSession(q) \/ DistributeQuery(q)
      PROVE  RestOK'
  <2>1. UNCHANGED <<mode, taken, used>>
    BY <1>2, Zenon DEF AddSession, DistributeQuery
  <2>2. inbox' = Work \ {Issuer} \/ inbox' = inbox \/ inbox' = inbox \ {q}
    BY <1>2, Zenon DEF AddSession, DistributeQuery
  <2> QED
    BY <1>0, <2>1, <2>2 DEF RestOK
<1>3. ASSUME NEW q \in Work,
             \/ AskAllWrite(q) \/ Answer(q) \/ AnswerError(q) \/ SyncEnds(q) \/ Execute(q)
             \/ DryRun(q) \/ Run(q)
      PROVE  UNCHANGED <<inbox, mode, taken, used>>
  BY <1>3, Zenon DEF AskAllWrite, Answer, AnswerError, SyncEnds, Execute, DryRun, Run
<1>4. ASSUME NEW q \in Work, NEW p \in Work,
             \/ AskInfo(q, p) \/ AskWrite(q, p) \/ ExchangeNotFound(q, p) \/ ExchangeJobInfo(q, p)
      PROVE  UNCHANGED <<inbox, mode, taken, used>>
  BY <1>4, Zenon DEF AskInfo, AskWrite, ExchangeNotFound, ExchangeJobInfo
<1>5. ASSUME NEW q \in Work, NEW p \in Work,
             AskInfoFails(q, p) \/ ExchangeFails(q, p) \/ DistributeFails(q)
      PROVE  UNCHANGED <<inbox, mode, taken>> /\ Event("faults")
  BY <1>5, Zenon DEF AskInfoFails, ExchangeFails, DistributeFails, Fault
<1>6. ASSUME NEW q \in Work, NEW d \in Data, NEW v \in Changes, Change(q, d, v)
      PROVE  UNCHANGED <<inbox, mode, taken>> /\ Event("changes")
  BY <1>6 DEF Change
<1>7. CASE UNCHANGED vars
  BY <1>0, <1>7 DEF vars, RestOK
<1>8. UNCHANGED <<inbox, mode, taken, used>> => RestOK'
  BY <1>0 DEF RestOK
<1>9. ASSUME UNCHANGED <<inbox, mode, taken>>, Event("faults") \/ Event("changes")
      PROVE  RestOK'
  BY <1>0, <1>e, <1>9 DEF RestOK
<1> QED
  BY <1>1, <1>2, <1>3, <1>4, <1>5, <1>6, <1>7, <1>8, <1>9, Zenon DEF Next, Step, Environment

\* The first state.
LEMMA TypeInit == Init => TypeOK /\ TaskInv
<1> SUFFICES ASSUME Init PROVE TypeOK /\ TaskInv
  OBVIOUS
<1>0. /\ store \in [Work -> [Data -> View]] /\ mode \in {"run", "dry"}
      /\ NoTable \in View /\ NoTask \in Tasks
  BY QueryAssumption, TaskForms DEF Init, View
<1>1. \A pc \in Stages : Begun(pc) \in Jobs
  BY <1>0, Zenon DEF Begun, Jobs, Stages
<1>2. job \in [Work -> Jobs] /\ \A q \in Work : job[q].pc # "ask"
  <2>1. "prepare" \in Stages /\ "idle" \in Stages
    BY DEF Stages
  <2>2. \A pc : Begun(pc).pc = pc
    BY DEF Begun
  <2> HIDE DEF Begun
  <2> QED
    BY <1>1, <2>1, <2>2 DEF Init
<1>3. /\ task \in [Work -> [Work -> Tasks]]
      /\ \A q, p \in Work : task[q][p] = NoTask
  BY <1>0 DEF Init
<1>4. session \in [Work -> Sums \cup {NoSession}] /\ RestOK
  BY <1>0, QueryAssumption DEF Init, RestOK
<1> QED
  BY <1>0, <1>2, <1>3, <1>4 DEF TypeOK, RestOK, TaskInv, OwnersOnly, AskedInv

\* Every step keeps the types.
LEMMA TypeStep == TypeOK /\ TaskInv /\ [Next]_vars => (TypeOK /\ TaskInv)'
BY StoreStep, SessionStep, JobStep, TaskStep, RestStep, TypePartsNext

\* Every variable has its type in every state, for any parties, storages and
\* number of faults; in particular the tables that AskProjectInfoFromParties
\* dropped are all replaced by what was answered or by nothing.
THEOREM TypeInvariant == Spec => [](TypeOK /\ TaskInv)
BY TypeInit, TypeStep, PTL DEF Spec

--------------------------------------------------------------------------------
(* The views of those who execute.                                           *)

\* q's tables of the others are what their owners have read.
Same(q) == \A d \in Data \ {q} : Checksum(job[q].snap[d]) \in taken[d]

\* A checksum that was received is one of what its owner has read ...
RemoteTaken == \A q \in Work, d \in Data : job[q].remote[d] # Unknown => job[q].remote[d] \in taken[d]

\* ... and so is the one in the owner's session row ...
SessionTaken == \A d \in Data : session[d] # NoSession => session[d] \in taken[d]

\* ... and what it has prepared the query from.
OwnTaken ==
    \A q \in Data :
        session[q] # NoSession \/ job[q].pc \in {"prepared", "sync", "execute", "compile"}
            => Checksum(job[q].snap[q]) \in taken[q]

\* The query is distributed once the issuer's session is stored.
InboxInv == inbox # {} => session[Issuer] # NoSession

\* A goroutine that has ended without storing anything has found equal checksums.
SyncTaken ==
    \A q \in Work : job[q].pc = "sync" /\ mode = "run" /\ ~job[q].again =>
        \A d \in Data \ {q} : task[q][d].st \in {"none", "done"} => Checksum(job[q].snap[d]) \in taken[d]

\* Execute without a second Prepare, and what is compiled and run.
ExecuteTaken ==
    \A q \in Work :
        job[q].pc = "execute" /\ mode = "run" /\ ~job[q].again /\ ~job[q].unsynced => Same(q)

CompiledTaken ==
    \A q \in Work : job[q].pc \in {"compile", "ran"} /\ ~job[q].unsynced => Same(q)

ViewInv ==
    /\ RemoteTaken /\ SessionTaken /\ OwnTaken /\ InboxInv
    /\ SyncTaken /\ ExecuteTaken /\ CompiledTaken

\* What a party has read is not forgotten, and the mode stays.
LEMMA TakenGrows ==
    ASSUME TypeOK, [Next]_vars
    PROVE  mode' = mode /\ \A d \in Data : taken[d] \subseteq taken'[d]
<1>1. ASSUME NEW q \in Work, Prepare(q) \/ PrepareAsked(q) \/ ExecuteAgain(q)
      PROVE  mode' = mode /\ \A d \in Data : taken[d] \subseteq taken'[d]
  <2>1. mode' = mode /\ (Took(q) \/ taken' = taken)
    BY <1>1, Zenon DEF Prepare, PrepareAsked, ExecuteAgain
  <2>2. Took(q) => \A d \in Data : taken[d] \subseteq taken'[d]
    BY Zenon DEF Took
  <2> QED
    BY <2>1, <2>2, Zenon
<1>2. ASSUME NEW q \in Work,
             \/ AskAllWrite(q) \/ Answer(q) \/ AnswerError(q) \/ SyncEnds(q) \/ Execute(q)
             \/ DryRun(q) \/ Run(q) \/ AddSession(q) \/ DistributeQuery(q) \/ DistributeFails(q)
      PROVE  UNCHANGED <<mode, taken>>
  BY <1>2, Zenon DEF AskAllWrite, Answer, AnswerError, SyncEnds, Execute, DryRun, Run, AddSession,
    DistributeQuery, DistributeFails
<1>3. ASSUME NEW q \in Work, NEW p \in Work,
             \/ AskInfo(q, p) \/ AskWrite(q, p) \/ ExchangeNotFound(q, p) \/ ExchangeJobInfo(q, p)
             \/ AskInfoFails(q, p) \/ ExchangeFails(q, p)
      PROVE  UNCHANGED <<mode, taken>>
  BY <1>3, Zenon DEF AskInfo, AskWrite, ExchangeNotFound, ExchangeJobInfo, AskInfoFails,
    ExchangeFails
<1>4. ASSUME NEW q \in Work, NEW d \in Data, NEW v \in Changes, Change(q, d, v)
      PROVE  UNCHANGED <<mode, taken>>
  BY <1>4 DEF Change
<1>5. UNCHANGED vars => UNCHANGED <<mode, taken>>
  BY DEF vars
<1>6. UNCHANGED <<mode, taken>> => mode' = mode /\ \A d \in Data : taken[d] \subseteq taken'[d]
  OBVIOUS
<1> QED
  BY <1>1, <1>2, <1>3, <1>4, <1>5, <1>6, Zenon DEF Next, Step, Environment

\* q's job goes on from where it is, or is only told about the others.
Calm(q) ==
    /\ job'[q].pc = job[q].pc /\ job'[q].snap = job[q].snap
    /\ job'[q].unsynced = job[q].unsynced
    /\ job'[q].again \/ job'[q].again = job[q].again

\* The steps that change the stage or the tables of q's job.
LEMMA JobFlow ==
    ASSUME TypeOK, TaskInv, [Next]_vars, NEW q \in Work
    PROVE  \/ Calm(q)
           \/ Prepare(q) \/ PrepareAsked(q) \/ AskAllWrite(q) \/ AddSession(q)
           \/ DistributeQuery(q) \/ SyncEnds(q) \/ Execute(q) \/ ExecuteAgain(q)
           \/ DryRun(q) \/ Run(q)
<1> HIDE DEF TypeOK
<1>1. job'[q] = job[q] => Calm(q)
  BY Zenon DEF Calm
<1>2. ASSUME NEW x \in Work, x # q,
             \/ Prepare(x) \/ PrepareAsked(x) \/ AskAllWrite(x) \/ AddSession(x)
             \/ SyncEnds(x) \/ Execute(x) \/ ExecuteAgain(x) \/ DryRun(x) \/ Run(x)
      PROVE  job'[q] = job[q]
  BY <1>2, OwnSteps, Zenon DEF Frame
<1>3. ASSUME NEW x \in Work, x # q, DistributeQuery(x) PROVE job'[q] = job[q]
  BY <1>3, CallSteps, Zenon DEF Frame
<1>4. ASSUME NEW x \in Work, Answer(x) PROVE Calm(q)
  BY <1>1, <1>4, CallSteps, Zenon DEF Frame, SameStage, SameFlags, Calm
<1>5. ASSUME NEW x \in Work, NEW p \in Work, AskWrite(x, p) PROVE Calm(q)
  BY <1>1, <1>5, CallSteps, Zenon DEF Frame, SameStage, SameTables, Calm
<1>6. ASSUME NEW x \in Work, NEW p \in Work, ExchangeJobInfo(x, p) PROVE Calm(q)
  BY <1>1, <1>6, CallSteps, Zenon DEF Frame, SameStage, SameFlags, Calm
<1> QED
  BY <1>1, <1>2, <1>3, <1>4, <1>5, <1>6, WhoWorks, Zenon

\* Where a checksum that q holds comes from.
LEMMA RemoteFlow ==
    ASSUME TypeOK, TaskInv, [Next]_vars, NEW q \in Work, NEW d \in Data
    PROVE  \/ job'[q].remote[d] \in {job[q].remote[d], Unknown}
           \/ inbox # {} /\ d = Issuer /\ job'[q].remote[d] = Checksum(job[d].snap[d])
           \/ session[d] # NoSession /\ job'[q].remote[d] \in {session[d], Checksum(job[d].snap[d])}
<1>0. \A x \in Work : job[x].remote \in [Data -> Sums \cup {Unknown}]
  BY Zenon DEF TypeOK, Jobs
<1> HIDE DEF TypeOK
<1> DEFINE Goal == \/ job'[q].remote[d] \in {job[q].remote[d], Unknown}
                   \/ inbox # {} /\ d = Issuer /\ job'[q].remote[d] = Checksum(job[d].snap[d])
                   \/ /\ session[d] # NoSession
                      /\ job'[q].remote[d] \in {session[d], Checksum(job[d].snap[d])}
<1>1. job'[q].remote = job[q].remote => Goal
  OBVIOUS
<1>2. ASSUME NEW x \in Work,
             \/ Prepare(x) \/ PrepareAsked(x) \/ AskAllWrite(x) \/ AddSession(x)
             \/ SyncEnds(x) \/ Execute(x) \/ ExecuteAgain(x) \/ DryRun(x) \/ Run(x)
      PROVE  job'[q].remote = job[q].remote
  BY <1>2, OwnSteps, Zenon DEF Frame, SameTables
<1>3. ASSUME NEW x \in Work, DistributeQuery(x) PROVE Goal
  <2>1. CASE x # q
    BY <1>1, <1>3, <2>1, CallSteps, Zenon DEF Frame
  <2>2. CASE x = q
    <3>1. job'[q].remote =
            [e \in Data |-> IF e = Issuer THEN Checksum(job[Issuer].snap[e]) ELSE Unknown]
      BY <1>3, <2>2, CallSteps, Zenon
    <3>2. inbox # {}
      BY <1>3, Zenon DEF DistributeQuery
    <3>3. job'[q].remote[d] = IF d = Issuer THEN Checksum(job[Issuer].snap[d]) ELSE Unknown
      BY <3>1
    <3>4. d = Issuer => job'[q].remote[d] = Checksum(job[d].snap[d])
      BY <3>3
    <3> QED
      BY <3>2, <3>3, <3>4
  <2> QED
    BY <2>1, <2>2
<1>4. ASSUME NEW x \in Work, Answer(x) PROVE Goal
  <2>1. CASE q # Issuer
    BY <1>1, <1>4, <2>1, CallSteps, Zenon DEF Frame
  <2>2. CASE q = Issuer
    <3>1. job'[q].remote = [job[q].remote EXCEPT ![x] = Checksum(job[x].snap[x])]
      BY <1>4, <2>2, CallSteps, Zenon
    <3>2. session[x] # NoSession
      BY <1>4 DEF Answer
    <3>3. job'[q].remote[d] = IF d = x THEN Checksum(job[x].snap[x]) ELSE job[q].remote[d]
      BY <1>0, <3>1
    <3> QED
      BY <3>2, <3>3
  <2> QED
    BY <2>1, <2>2
<1>5. ASSUME NEW x \in Work, NEW p \in Work, AskWrite(x, p) PROVE Goal
  BY <1>1, <1>5, CallSteps, Zenon DEF Frame, SameTables
<1>6. ASSUME NEW x \in Work, NEW p \in Work, ExchangeJobInfo(x, p) PROVE Goal
  <2>1. CASE q # x
    BY <1>1, <1>6, <2>1, CallSteps, Zenon DEF Frame
  <2>2. CASE q = x
    <3>1. job'[q].remote = [job[q].remote EXCEPT ![p] = session[p]]
      BY <1>6, <2>2, CallSteps, Zenon
    <3>2. session[p] # NoSession
      BY <1>6 DEF ExchangeJobInfo
    <3>3. job'[q].remote[d] = IF d = p THEN session[p] ELSE job[q].remote[d]
      BY <1>0, <3>1
    <3> QED
      BY <3>2, <3>3
  <2> QED
    BY <2>1, <2>2
<1>7. job' = job => job'[q].remote = job[q].remote
  OBVIOUS
<1> HIDE DEF Goal
<1>8. Goal
  BY <1>1, <1>2, <1>3, <1>4, <1>5, <1>6, <1>7, WhoWorks, Zenon
<1> QED
  BY <1>8 DEF Goal

\* Who stores a session row, and who distributes the query.
LEMMA SessionFlow ==
    ASSUME TypeOK, [Next]_vars, NEW q \in Work
    PROVE  /\ \/ session'[q] = session[q]
              \/ (AddSession(q) \/ Run(q)) /\ session'[q] = Own(q, job[q].snap)
           /\ \/ inbox' \subseteq inbox
              \/ AddSession(Issuer)
<1>0. session \in [Work -> Sums \cup {NoSession}]
  BY DEF TypeOK
<1> HIDE DEF TypeOK
<1> DEFINE Goal == /\ \/ session'[q] = session[q]
                      \/ (AddSession(q) \/ Run(q)) /\ session'[q] = Own(q, job[q].snap)
                   /\ \/ inbox' \subseteq inbox
                      \/ AddSession(Issuer)
<1>1. ASSUME NEW x \in Work,
             \/ Prepare(x) \/ PrepareAsked(x) \/ AskAllWrite(x) \/ Answer(x) \/ AnswerError(x)
             \/ SyncEnds(x) \/ Execute(x) \/ ExecuteAgain(x) \/ DryRun(x) \/ DistributeFails(x)
      PROVE  UNCHANGED <<session, inbox>>
  BY <1>1, Zenon DEF Prepare, PrepareAsked, AskAllWrite, Answer, AnswerError, SyncEnds, Execute,
    ExecuteAgain, DryRun, DistributeFails
<1>2. ASSUME NEW x \in Work, NEW p \in Work,
             \/ AskInfo(x, p) \/ AskWrite(x, p) \/ ExchangeNotFound(x, p) \/ ExchangeJobInfo(x, p)
             \/ AskInfoFails(x, p) \/ ExchangeFails(x, p)
      PROVE  UNCHANGED <<session, inbox>>
  BY <1>2, Zenon DEF AskInfo, AskWrite, ExchangeNotFound, ExchangeJobInfo, AskInfoFails,
    ExchangeFails
<1>3. ASSUME NEW x \in Work, NEW d \in Data, NEW v \in Changes, Change(x, d, v)
      PROVE  UNCHANGED <<session, inbox>>
  BY <1>3 DEF Change
<1>4. UNCHANGED vars => UNCHANGED <<session, inbox>>
  BY DEF vars
<1>5. UNCHANGED <<session, inbox>> => Goal
  OBVIOUS
<1>6. ASSUME NEW x \in Work, DistributeQuery(x) PROVE Goal
  <2>1. session' = session /\ inbox' = inbox \ {x}
    BY <1>6, Zenon DEF DistributeQuery
  <2> QED
    BY <2>1
<1>7. ASSUME NEW x \in Work, AddSession(x) PROVE Goal
  <2>1. session' = [session EXCEPT ![x] = Own(x, job[x].snap)]
    BY <1>7 DEF AddSession
  <2>2. x = Issuer \/ inbox' = inbox
    BY <1>7 DEF AddSession
  <2> QED
    BY <1>0, <1>7, <2>1, <2>2
<1>8. ASSUME NEW x \in Work, Run(x) PROVE Goal
  <2>1. session' = [session EXCEPT ![x] = Own(x, job[x].snap)] \/ session' = session
    BY <1>8 DEF Run
  <2>2. inbox' = inbox
    BY <1>8 DEF Run
  <2> QED
    BY <1>0, <1>8, <2>1, <2>2
<1> HIDE DEF Goal
<1>9. Goal
  BY <1>1, <1>2, <1>3, <1>4, <1>5, <1>6, <1>7, <1>8, Zenon DEF Next, Step, Environment
<1> QED
  BY <1>9 DEF Goal

\* How a goroutine of a party that synchronises with the others ends.
LEMMA SyncFlow ==
    ASSUME TypeOK, TaskInv, [Next]_vars, mode = "run",
           NEW q \in Work, NEW d \in Work, job[q].pc = "sync",
           task'[q][d].st \in {"none", "done"}
    PROVE  \/ task'[q][d] = task[q][d]
           \/ job'[q].again
           \/ /\ session[d] # NoSession /\ task[q][d].st # "none"
              /\ Checksum(job[q].snap[d]) \in {session[d], Checksum(job[d].snap[d])}
<1>0. /\ task \in [Work -> [Work -> Tasks]] /\ job \in [Work -> Jobs] /\ job[q] \in Jobs
      /\ Issuer \in Work
  BY Workers DEF TypeOK
<1> HIDE DEF TypeOK
<1> DEFINE Goal == \/ task'[q][d] = task[q][d]
                   \/ job'[q].again
                   \/ /\ session[d] # NoSession /\ task[q][d].st # "none"
                      /\ Checksum(job[q].snap[d]) \in {session[d], Checksum(job[d].snap[d])}
<1>g. task' = task => Goal
  OBVIOUS
<1>m. ASSUME NEW x \in Work, NEW p \in Work, NEW v, task' = [task EXCEPT ![x][p] = v]
      PROVE  task'[q][d] = IF x = q /\ p = d THEN v ELSE task[q][d]
  BY <1>0, <1>m
<1>1. ASSUME NEW x \in Work,
             \/ PrepareAsked(x) \/ DistributeQuery(x) \/ SyncEnds(x) \/ Execute(x)
             \/ ExecuteAgain(x) \/ DryRun(x) \/ Run(x)
      PROVE  task' = task
  BY <1>1, Zenon DEF PrepareAsked, DistributeQuery, SyncEnds, Execute, ExecuteAgain, DryRun, Run
<1>2. ASSUME NEW x \in Work, Prepare(x) \/ AskAllWrite(x) \/ AddSession(x) PROVE Goal
  <2>1. x # q
    BY <1>2 DEF Prepare, AskAllWrite, AddSession
  <2>2. task' = task \/ \E f : task' = [task EXCEPT ![x] = f]
    BY <1>2, Zenon DEF Prepare, AskAllWrite, AddSession
  <2>3. task'[q] = task[q]
    BY <1>0, <2>1, <2>2
  <2> QED
    BY <2>3
<1>3. ASSUME NEW x \in Work, NEW p \in Work,
             AskInfo(x, p) \/ AskInfoFails(x, p) \/ ExchangeNotFound(x, p) \/ ExchangeFails(x, p)
      PROVE  Goal
  <2>1. \E v : v.st \notin {"none", "done"} /\ task' = [task EXCEPT ![x][p] = v]
    <3>1. CASE AskInfo(x, p) \/ AskInfoFails(x, p)
      BY <3>1 DEF AskInfo, AskInfoFails
    <3>2. CASE ExchangeNotFound(x, p) \/ ExchangeFails(x, p)
      BY <3>2 DEF ExchangeNotFound, ExchangeFails
    <3> QED
      BY <1>3, <3>1, <3>2
  <2> QED
    BY <1>m, <2>1
<1>4. ASSUME NEW x \in Work, AnswerError(x) \/ DistributeFails(x) PROVE Goal
  <2>1. task' = [task EXCEPT ![Issuer][x] = [st |-> "err"]]
    BY <1>4 DEF AnswerError, DistributeFails
  <2> QED
    BY <1>0, <1>m, <2>1
<1>5. ASSUME NEW x \in Work, NEW p \in Work, AskWrite(x, p) PROVE Goal
  <2>1. \/ task' = [task EXCEPT ![x][p] = [st |-> "err"]]
        \/ /\ task' = [task EXCEPT ![x][p] = [st |-> "done"]]
           /\ job' = [job EXCEPT ![x].ends = @ \cup {p}, ![x].again = TRUE]
    BY <1>5, Zenon DEF AskWrite
  <2>2. CASE task' = [task EXCEPT ![x][p] = [st |-> "err"]]
    BY <1>m, <2>2
  <2>3. CASE /\ task' = [task EXCEPT ![x][p] = [st |-> "done"]]
             /\ job' = [job EXCEPT ![x].ends = @ \cup {p}, ![x].again = TRUE]
    <3>1. x = q => job'[q].again
      BY <1>0, <2>3, Zenon DEF Jobs
    <3>2. x # q => task'[q][d] = task[q][d]
      BY <1>0, <2>3
    <3> QED
      BY <3>1, <3>2
  <2> QED
    BY <2>1, <2>2, <2>3
<1>6. ASSUME NEW x \in Work, Answer(x) PROVE Goal
  <2> DEFINE v == Compared(CompareWith(Checksum(job[x].snap[x]), Checksum(job[Issuer].snap[x])))
  <2>1. /\ task' = [task EXCEPT ![Issuer][x] = v] /\ session[x] # NoSession
        /\ task[Issuer][x].st = "call"
    BY <1>6, Zenon DEF Answer
  <2>2. v.st \in {"none", "done"} => Checksum(job[x].snap[x]) = Checksum(job[Issuer].snap[x])
    BY ComparedType
  <2> HIDE DEF v
  <2> QED
    BY <1>0, <1>m, <2>1, <2>2
<1>7. ASSUME NEW x \in Work, NEW p \in Work, ExchangeJobInfo(x, p) PROVE Goal
  <2> DEFINE v == Compared(CompareWith(session[p], Checksum(job[x].snap[p])))
  <2>1. /\ task' = [task EXCEPT ![x][p] = v] /\ session[p] # NoSession
        /\ task[x][p].st = "exchange"
    BY <1>7 DEF ExchangeJobInfo
  <2>2. v.st \in {"none", "done"} => session[p] = Checksum(job[x].snap[p])
    BY ComparedType
  <2> HIDE DEF v
  <2> QED
    BY <1>m, <2>1, <2>2
<1>8. ASSUME NEW x \in Work, NEW e \in Data, NEW v \in Changes, Change(x, e, v)
      PROVE  task' = task
  BY <1>8 DEF Change
<1>9. UNCHANGED vars => task' = task
  BY DEF vars
<1> HIDE DEF Goal
<1>10. Goal
  BY <1>g, <1>1, <1>2, <1>3, <1>4, <1>5, <1>6, <1>7, <1>8, <1>9, Zenon DEF Next, Step, Environment
<1> QED
  BY <1>10 DEF Goal

\* What q reads is taken.
LEMMA ReadTaken ==
    ASSUME TypeOK, NEW q \in Data, Prepare(q) \/ PrepareAsked(q) \/ ExecuteAgain(q)
    PROVE  job'[q].pc \in {"ask", "failed"} \/ Checksum(store[q][q]) \in taken'[q]
<1>0. q \in Work /\ job \in [Work -> Jobs] /\ job[q] \in Jobs
  BY Workers DEF TypeOK
<1>1. Took(q) => Checksum(store[q][q]) \in taken'[q]
  BY DEF Took
<1>2. ASSUME NEW x, job' = [job EXCEPT ![q] = x] PROVE job'[q] = x
  BY <1>0, <1>2
<1>3. CASE ExecuteAgain(q)
  BY <1>1, <1>3, Zenon DEF ExecuteAgain
<1>4. CASE Prepare(q)
  <2>1. Took(q) \/ job' = [job EXCEPT ![q].pc = "ask", ![q].asked = Missing(q)]
    BY <1>4, Zenon DEF Prepare
  <2>2. job' = [job EXCEPT ![q].pc = "ask", ![q].asked = Missing(q)] => job'[q].pc = "ask"
    BY <1>0, Zenon DEF Jobs
  <2> QED
    BY <1>1, <2>1, <2>2
<1>5. CASE PrepareAsked(q)
  <2>1. Took(q) \/ job' = [job EXCEPT ![q].pc = "failed"]
    BY <1>5, Zenon DEF PrepareAsked
  <2>2. job' = [job EXCEPT ![q].pc = "failed"] => job'[q].pc = "failed"
    BY <1>0, Zenon DEF Jobs
  <2> QED
    BY <1>1, <2>1, <2>2
<1> QED
  BY <1>3, <1>4, <1>5

\* The checksums that are sent and stored.
LEMMA SumsStep ==
    TypeOK /\ TaskInv /\ ViewInv /\ [Next]_vars => RemoteTaken' /\ SessionTaken' /\ InboxInv'
<1> SUFFICES ASSUME TypeOK, TaskInv, ViewInv, [Next]_vars
             PROVE  RemoteTaken' /\ SessionTaken' /\ InboxInv'
  OBVIOUS
<1>0. \A d \in Data : taken[d] \subseteq taken'[d]
  BY TakenGrows
<1>a. \A q \in Work : Own(q, job[q].snap) \in Sums /\ Own(q, job[q].snap) # NoSession
  BY QueryAssumption, SumsOf DEF TypeOK, Jobs, Own
<1>t. session \in [Work -> Sums \cup {NoSession}]
  BY DEF TypeOK
<1>o. \A d \in Data : session[d] # NoSession => /\ Checksum(job[d].snap[d]) \in taken[d]
                                                /\ session[d] \in taken[d]
  BY DEF ViewInv, OwnTaken, SessionTaken
<1> HIDE DEF TypeOK
<1>1. RemoteTaken'
  <2> SUFFICES ASSUME NEW q \in Work, NEW d \in Data, job'[q].remote[d] # Unknown
               PROVE  job'[q].remote[d] \in taken'[d]
    BY DEF RemoteTaken
  <2>1. CASE job'[q].remote[d] = job[q].remote[d]
    BY <1>0, <2>1 DEF ViewInv, RemoteTaken
  <2>2. CASE inbox # {} /\ d = Issuer /\ job'[q].remote[d] = Checksum(job[d].snap[d])
    BY <1>0, <1>o, <2>2 DEF ViewInv, InboxInv
  <2>3. CASE session[d] # NoSession /\ job'[q].remote[d] \in {session[d], Checksum(job[d].snap[d])}
    BY <1>0, <1>o, <2>3
  <2> QED
    BY <2>1, <2>2, <2>3, RemoteFlow
<1>2. SessionTaken'
  <2> SUFFICES ASSUME NEW d \in Data, session'[d] # NoSession
               PROVE  session'[d] \in taken'[d]
    BY DEF SessionTaken
  <2>0. d \in Work
    BY Workers
  <2>1. CASE session'[d] = session[d]
    BY <1>0, <1>o, <2>1
  <2>2. CASE (AddSession(d) \/ Run(d)) /\ session'[d] = Own(d, job[d].snap)
    <3>1. job[d].pc \in {"prepared", "compile"}
      BY <2>2, Zenon DEF AddSession, Run
    <3>2. Checksum(job[d].snap[d]) \in taken[d]
      BY <3>1 DEF ViewInv, OwnTaken
    <3>3. session'[d] = Checksum(job[d].snap[d])
      BY <2>2 DEF Own
    <3> QED
      BY <1>0, <3>2, <3>3
  <2> QED
    BY <2>0, <2>1, <2>2, SessionFlow
<1>3. InboxInv'
  <2> SUFFICES ASSUME inbox' # {} PROVE session'[Issuer] # NoSession
    BY DEF InboxInv
  <2>0. Issuer \in Work
    BY Workers
  <2>1. CASE inbox' \subseteq inbox
    <3>1. session[Issuer] # NoSession
      BY <2>1 DEF ViewInv, InboxInv
    <3>2. session'[Issuer] = session[Issuer] \/ session'[Issuer] = Own(Issuer, job[Issuer].snap)
      BY <2>0, SessionFlow
    <3> QED
      BY <1>a, <2>0, <3>1, <3>2
  <2>2. CASE AddSession(Issuer)
    <3>1. session' = [session EXCEPT ![Issuer] = Own(Issuer, job[Issuer].snap)]
      BY <2>2, Zenon DEF AddSession
    <3> QED
      BY <1>a, <1>t, <2>0, <3>1
  <2> QED
    BY <2>0, <2>1, <2>2, SessionFlow
<1> QED
  BY <1>1, <1>2, <1>3

\* What a party has prepared the query from.
LEMMA OwnTakenStep == TypeOK /\ TaskInv /\ ViewInv /\ [Next]_vars => OwnTaken'
<1> SUFFICES ASSUME TypeOK, TaskInv, ViewInv, [Next]_vars, NEW q \in Data,
                    \/ session'[q] # NoSession
                    \/ job'[q].pc \in {"prepared", "sync", "execute", "compile"}
             PROVE  Checksum(job'[q].snap[q]) \in taken'[q]
  BY DEF OwnTaken
<1>0. q \in Work /\ taken[q] \subseteq taken'[q]
  BY Workers, TakenGrows
<1> HIDE DEF TypeOK
<1> DEFINE Read == session[q] # NoSession \/ job[q].pc \in {"prepared", "sync", "execute", "compile"}
<1>1. Read => Checksum(job[q].snap[q]) \in taken[q]
  BY DEF ViewInv, OwnTaken
<1>2. session'[q] # NoSession => Read
  <2>1. AddSession(q) \/ Run(q) => job[q].pc \in {"prepared", "compile"}
    BY Zenon DEF AddSession, Run
  <2> QED
    BY <1>0, <2>1, SessionFlow
<1>3. job'[q].snap = job[q].snap /\ Read => Checksum(job'[q].snap[q]) \in taken'[q]
  BY <1>0, <1>1
<1>4. CASE Calm(q)
  BY <1>2, <1>3, <1>4 DEF Calm
<1>5. CASE Prepare(q) \/ PrepareAsked(q)
  <2>1. \/ job'[q].pc = "prepared" /\ job'[q].snap = store[q]
        \/ job'[q].pc \in {"ask", "failed"} /\ job'[q].snap = job[q].snap
    <3>1. \/ job'[q].pc = "prepared" /\ job'[q].snap = store[q]
          \/ (job'[q].pc = "ask" \/ job'[q].pc = "failed") /\ job'[q].snap = job[q].snap
      BY <1>0, <1>5, OwnSteps, Zenon
    <3> QED
      BY <3>1
  <2>2. job'[q].pc \in {"ask", "failed"} \/ Checksum(store[q][q]) \in taken'[q]
    BY <1>5, ReadTaken
  <2> QED
    BY <1>2, <1>3, <2>1, <2>2
<1>6. CASE ExecuteAgain(q)
  <2>1. job'[q].snap = store[q] /\ job[q].pc = "execute"
    BY <1>0, <1>6, OwnSteps, Zenon DEF ExecuteAgain
  <2>2. Checksum(store[q][q]) \in taken'[q]
    BY <1>6, Zenon DEF ExecuteAgain, Took
  <2> QED
    BY <2>1, <2>2
<1>7. CASE AskAllWrite(q)
  <2>1. job'[q].pc = "asked" /\ job'[q].snap = job[q].snap
    BY <1>0, <1>7, OwnSteps, Zenon DEF SameTables
  <2> QED
    BY <1>2, <1>3, <2>1
<1>8. CASE DistributeQuery(q)
  <2>1. job'[q].pc = "prepare" /\ job'[q].snap = job[q].snap
    BY <1>0, <1>8, CallSteps, Zenon
  <2> QED
    BY <1>2, <1>3, <2>1
<1>9. CASE AddSession(q) \/ SyncEnds(q) \/ Execute(q) \/ DryRun(q) \/ Run(q)
  <2>1. job'[q].snap = job[q].snap
    BY <1>0, <1>9, OwnSteps, Zenon DEF SameTables
  <2>2. job[q].pc \in {"prepared", "sync", "execute", "compile"}
    BY <1>9, Zenon DEF AddSession, SyncEnds, Execute, DryRun, Run
  <2> QED
    BY <1>3, <2>1, <2>2
<1> QED
  BY <1>0, <1>4, <1>5, <1>6, <1>7, <1>8, <1>9, JobFlow, Zenon

\* The goroutines of a party that has just stored its session.
LEMMA SyncBegins ==
    ASSUME TypeOK, NEW q \in Work, AddSession(q), mode = "run", NEW d \in Data \ {q},
           task'[q][d].st \in {"none", "done"}
    PROVE  job[q].remote[d] = Checksum(job[q].snap[d])
<1>0. task \in [Work -> [Work -> Tasks]] /\ d \in Work
  BY Workers DEF TypeOK
<1>1. task'[q] = IF q = Issuer THEN DistributeTasks ELSE SyncTasks(q)
  <2>1. task' = [task EXCEPT ![q] = IF q = Issuer THEN DistributeTasks ELSE SyncTasks(q)]
    BY DEF AddSession
  <2> HIDE DEF DistributeTasks, SyncTasks
  <2> QED
    BY <1>0, <2>1
<1>2. q = Issuer => DistributeTasks[d].st = "call"
  BY <1>0 DEF DistributeTasks
<1>3. ASSUME q # Issuer PROVE job[q].remote[d] = Checksum(job[q].snap[d])
  <2> DEFINE v == Compared(CompareWith(Checksum(job[q].snap[d]), job[q].remote[d]))
  <2>1. v.st = "done" => job[q].remote[d] = Checksum(job[q].snap[d])
    BY ComparedType
  <2>2. v.st \in {"done", "ask"}
    BY ComparedType
  <2>3. SyncTasks(q)[d] = IF d # Issuer THEN [st |-> "exchange", tries |-> 0] ELSE v
    BY <1>0 DEF SyncTasks
  <2> HIDE DEF v
  <2>4. SyncTasks(q)[d].st \in {"none", "done"}
    BY <1>1, <1>3
  <2> QED
    BY <2>1, <2>2, <2>3, <2>4
<1> QED
  BY <1>1, <1>2, <1>3

\* The goroutines that have ended, and those who execute.
LEMMA SameStep ==
    TypeOK /\ TaskInv /\ ViewInv /\ [Next]_vars => SyncTaken' /\ ExecuteTaken' /\ CompiledTaken'
<1> SUFFICES ASSUME TypeOK, TaskInv, ViewInv, [Next]_vars
             PROVE  SyncTaken' /\ ExecuteTaken' /\ CompiledTaken'
  OBVIOUS
<1>0. mode' = mode /\ \A d \in Data : d \in Work /\ taken[d] \subseteq taken'[d]
  BY Workers, TakenGrows
<1>t. \A q \in Work, d \in Data : /\ Checksum(job[q].snap[d]) # Unknown
                                  /\ Checksum(store[q][d]) # Unknown
  BY QueryAssumption, SumsOf DEF TypeOK, Jobs
<1>o. \A d \in Data : session[d] # NoSession => /\ Checksum(job[d].snap[d]) \in taken[d]
                                                /\ session[d] \in taken[d]
  BY DEF ViewInv, OwnTaken, SessionTaken
<1>r. \A q \in Work, d \in Data : job[q].remote[d] # Unknown => job[q].remote[d] \in taken'[d]
  BY <1>0 DEF ViewInv, RemoteTaken
<1> HIDE DEF TypeOK
\* What q had and keeps.
<1>s. \A q \in Work : job'[q].snap = job[q].snap /\ Same(q) => Same(q)'
  BY <1>0 DEF Same
<1>1. ASSUME NEW q \in Work, job'[q].pc = "sync", mode' = "run", ~job'[q].again,
             NEW d \in Data \ {q}, task'[q][d].st \in {"none", "done"}
      PROVE  Checksum(job'[q].snap[d]) \in taken'[d]
  <2>0. mode = "run" /\ d \in Work /\ d \in Data
    BY <1>0, <1>1
  <2>1. CASE Calm(q)
    <3>1. job[q].pc = "sync" /\ ~job[q].again /\ job'[q].snap = job[q].snap
      BY <1>1, <2>1 DEF Calm
    <3>2. CASE task'[q][d] = task[q][d]
      BY <1>0, <1>1, <2>0, <3>1, <3>2 DEF ViewInv, SyncTaken
    <3>3. CASE session[d] # NoSession /\ Checksum(job[q].snap[d]) \in {session[d], Checksum(job[d].snap[d])}
      BY <1>0, <1>o, <2>0, <3>1, <3>3
    <3> QED
      BY <1>1, <2>0, <3>1, <3>2, <3>3, SyncFlow
  <2>2. CASE AddSession(q)
    <3>1. job'[q].snap = job[q].snap
      BY <2>2, OwnSteps, Zenon DEF SameTables
    <3>2. job[q].remote[d] = Checksum(job[q].snap[d])
      BY <1>1, <2>0, <2>2, SyncBegins
    <3> QED
      BY <1>r, <1>t, <2>0, <3>1, <3>2
  <2>3. CASE \/ Prepare(q) \/ PrepareAsked(q) \/ AskAllWrite(q) \/ SyncEnds(q) \/ Execute(q)
             \/ ExecuteAgain(q) \/ DryRun(q) \/ Run(q)
    <3>1. \/ job'[q].pc = "prepared" \/ job'[q].pc = "ask" \/ job'[q].pc = "failed"
          \/ job'[q].pc = "asked" \/ job'[q].pc = "execute" \/ job'[q].pc = "compile"
          \/ job'[q].pc = "ran" \/ job'[q].pc \in {"ran", "failed"}
      BY <2>3, OwnSteps, Zenon
    <3> QED
      BY <1>1, <3>1
  <2>4. CASE DistributeQuery(q)
    <3>1. job'[q].pc = "prepare"
      BY <2>4, CallSteps, Zenon
    <3> QED
      BY <1>1, <3>1
  <2> QED
    BY <2>1, <2>2, <2>3, <2>4, JobFlow, Zenon
<1>2. ASSUME NEW q \in Work, job'[q].pc = "execute", mode' = "run", ~job'[q].again,
             ~job'[q].unsynced
      PROVE  Same(q)'
  <2>0. mode = "run"
    BY <1>0, <1>2
  <2>1. CASE Calm(q)
    <3>1. /\ job[q].pc = "execute" /\ ~job[q].again /\ ~job[q].unsynced
          /\ job'[q].snap = job[q].snap
      BY <1>2, <2>1 DEF Calm
    <3> QED
      BY <1>s, <2>0, <3>1 DEF ViewInv, ExecuteTaken
  <2>2. CASE SyncEnds(q)
    <3>1. ~SyncFailed(q) /\ ~job[q].again /\ job'[q].snap = job[q].snap
      <4>1. job'[q].snap = job[q].snap
        BY <2>2, OwnSteps, Zenon DEF SameTables
      <4>2. job'[q].pc = "failed" \/ job'[q].unsynced \/ (~SyncFailed(q) /\ SameFlags(q))
        BY <2>2, OwnSteps, Zenon
      <4> QED
        BY <1>2, <4>1, <4>2 DEF SameFlags
    <3>2. job[q].pc = "sync" /\ SyncOver(q)
      BY <2>2, Zenon DEF SyncEnds
    <3>3. \A d \in Data \ {q} : task[q][d].st \in {"none", "done"}
      BY <1>0, <3>1, <3>2 DEF SyncOver, SyncFailed
    <3>4. Same(q)
      BY <2>0, <3>1, <3>2, <3>3 DEF ViewInv, SyncTaken, Same
    <3> QED
      BY <1>s, <3>1, <3>4
  <2>3. CASE \/ Prepare(q) \/ PrepareAsked(q) \/ AskAllWrite(q) \/ AddSession(q) \/ Execute(q)
             \/ ExecuteAgain(q) \/ DryRun(q) \/ Run(q)
    <3>1. \/ job'[q].pc = "prepared" \/ job'[q].pc = "ask" \/ job'[q].pc = "failed"
          \/ job'[q].pc = "asked" \/ job'[q].pc = "sync" \/ job'[q].pc = "compile"
          \/ job'[q].pc = "ran" \/ job'[q].pc \in {"ran", "failed"}
      BY <2>3, OwnSteps, Zenon
    <3> QED
      BY <1>2, <3>1
  <2>4. CASE DistributeQuery(q)
    <3>1. job'[q].pc = "prepare"
      BY <2>4, CallSteps, Zenon
    <3> QED
      BY <1>2, <3>1
  <2> QED
    BY <2>1, <2>2, <2>3, <2>4, JobFlow, Zenon
<1>3. ASSUME NEW q \in Work, job'[q].pc \in {"compile", "ran"}, ~job'[q].unsynced
      PROVE  Same(q)'
  <2>1. CASE Calm(q)
    <3>1. /\ job[q].pc \in {"compile", "ran"} /\ ~job[q].unsynced
          /\ job'[q].snap = job[q].snap
      BY <1>3, <2>1 DEF Calm
    <3> QED
      BY <1>s, <3>1 DEF ViewInv, CompiledTaken
  <2>2. CASE Execute(q) \/ Run(q)
    <3>1. job'[q].snap = job[q].snap /\ ~job[q].unsynced
      BY <1>3, <2>2, OwnSteps, Zenon DEF SameTables, SameFlags
    <3>2. \/ job[q].pc = "execute" /\ mode = "run" /\ ~job[q].again
          \/ job[q].pc = "compile"
      BY <2>2, Zenon DEF Execute, Run
    <3>3. Same(q)
      BY <3>1, <3>2 DEF ViewInv, ExecuteTaken, CompiledTaken
    <3> QED
      BY <1>s, <3>1, <3>3
  <2>3. CASE ExecuteAgain(q) \/ DryRun(q)
    <3>1. PICK snap \in {store[q], job[q].snap} :
            /\ job'[q].snap = snap
            /\ job'[q].pc = "failed" \/ CheckChecksum(q, snap)
      <4>1. CASE ExecuteAgain(q)
        <5>1. /\ job'[q].snap = store[q]
              /\ job'[q].pc = IF CheckChecksum(q, store[q]) THEN "compile" ELSE "failed"
          BY <4>1, OwnSteps, Zenon
        <5> QED
          BY <5>1
      <4>2. CASE DryRun(q)
        <5>1. /\ job'[q].snap = job[q].snap
              /\ job'[q].pc = IF CheckChecksum(q, job[q].snap) THEN "ran" ELSE "failed"
          BY <4>2, OwnSteps, Zenon DEF SameTables
        <5> QED
          BY <5>1
      <4> QED
        BY <2>3, <4>1, <4>2
    <3>2. \A d \in Data \ {q} : /\ job[q].remote[d] = Checksum(snap[d])
                                /\ Checksum(snap[d]) # Unknown
      BY <1>3, <1>t, <3>1 DEF CheckChecksum
    <3> QED
      BY <1>3, <1>r, <3>1, <3>2 DEF Same
  <2>4. CASE Prepare(q) \/ PrepareAsked(q) \/ AskAllWrite(q) \/ AddSession(q) \/ SyncEnds(q)
    <3>1. \/ job'[q].pc = "prepared" \/ job'[q].pc = "ask" \/ job'[q].pc = "failed"
          \/ job'[q].pc = "asked" \/ job'[q].pc = "sync" \/ job'[q].pc = "execute"
      BY <2>4, OwnSteps, Zenon
    <3> QED
      BY <1>3, <3>1
  <2>5. CASE DistributeQuery(q)
    <3>1. job'[q].pc = "prepare"
      BY <2>5, CallSteps, Zenon
    <3> QED
      BY <1>3, <3>1
  <2> QED
    BY <2>1, <2>2, <2>3, <2>4, <2>5, JobFlow, Zenon
<1>4. SyncTaken'
  BY <1>1 DEF SyncTaken
<1>5. ExecuteTaken'
  BY <1>2 DEF ExecuteTaken
<1>6. CompiledTaken'
  BY <1>3 DEF CompiledTaken
<1> QED
  BY <1>4, <1>5, <1>6

\* Every step keeps ViewInv.
LEMMA ViewStep == TypeOK /\ TaskInv /\ ViewInv /\ [Next]_vars => ViewInv'
BY SumsStep, OwnTakenStep, SameStep DEF ViewInv

\* Nothing is prepared at first.
LEMMA ViewInit == Init => ViewInv
<1> SUFFICES ASSUME Init PROVE ViewInv
  OBVIOUS
<1>1. /\ session = [q \in Work |-> NoSession] /\ inbox = {}
      /\ job = [q \in Work |-> Begun(IF q = Issuer THEN "prepare" ELSE "idle")]
  BY DEF Init
<1>2. \A pc : Begun(pc).pc = pc /\ \A d \in Data : Begun(pc).remote[d] = Unknown
  BY DEF Begun
<1>3. \A q \in Work : /\ session[q] = NoSession
                      /\ job[q].pc = "prepare" \/ job[q].pc = "idle"
                      /\ \A d \in Data : job[q].remote[d] = Unknown
  <2> HIDE DEF Begun
  <2> QED
    BY <1>1, <1>2
<1>4. RemoteTaken /\ InboxInv
  BY <1>1, <1>3 DEF RemoteTaken, InboxInv
<1>5. SessionTaken /\ OwnTaken
  BY <1>3, Workers DEF SessionTaken, OwnTaken
<1>6. SyncTaken /\ ExecuteTaken /\ CompiledTaken
  BY <1>3 DEF SyncTaken, ExecuteTaken, CompiledTaken
<1> QED
  BY <1>4, <1>5, <1>6 DEF ViewInv

\* Whoever executes the query uses for every other data party what this party
\* itself has read for the job, whatever changes and fails meanwhile: what was
\* stored after a comparison is read again, and Execute's CheckChecksum compares
\* it with the checksum that the owner sent.
THEOREM ExecutedFromTaken == Spec => []ViewsTaken
<1>1. TypeOK /\ TaskInv /\ ViewInv /\ [Next]_vars => (TypeOK /\ TaskInv /\ ViewInv)'
  BY TypeStep, ViewStep
<1>2. ViewInv => ViewsTaken
  BY DEF ViewInv, CompiledTaken, ViewsTaken, Same
<1> QED
  BY <1>1, <1>2, TypeInit, ViewInit, PTL DEF Spec

================================================================================
