-------------------------- MODULE EngineSessionProofs --------------------------
(***************************************************************************)
(* Proofs about the engine's sessions, for any number of jobs, requests,   *)
(* stops and worker threads.                                               *)
(*                                                                         *)
(* SessionHasListener is not inductive: id_to_session_ and listeners_ are  *)
(* changed in different steps.  ListenerInv adds who may touch a job's     *)
(* listener: a request that connects owns it, and whoever is about to      *)
(* remove it is alone and finds neither a session nor a new listener.      *)
(* StrayOnlyAfterTimeout follows from LostInv: a thread has lost its       *)
(* session only through the timeout thread, or through an older thread of  *)
(* the same job that had lost its own.                                     *)
(***************************************************************************)
EXTENDS EngineSession, TLAPS

\* The request steps that change neither maps nor queue.
QuietStep(r) ==
    \/ Refuse(r) \/ ConnectFails(r) \/ ChecksumFails(r) \/ ChecksumPasses(r)
    \/ RunPlanSync(r) \/ ReportResult(r) \/ ReportResultFails(r) \/ CompareAndSetState(r)

Early == {"none", "connect"}

\* Writing a state through a pointer, live or stale, keeps the states' type.
LEMMA SetStateType ==
    ASSUME TypeOK, NEW r \in Requests, NEW s \in States, SetState(r, s)
    PROVE  state' \in [Requests -> States]
BY DEF TypeOK, SetState, Registered

\* A use of the pointer adds at most a request.
LEMMA UseType ==
    ASSUME TypeOK, NEW r \in Requests, Use(r)
    PROVE  stray' \subseteq Requests
BY DEF TypeOK, Use

\* A request goes from one place to another.
LEMMA GotoType ==
    ASSUME TypeOK, NEW r \in Requests, NEW p \in Places, Goto(r, p)
    PROVE  pc' \in [Requests -> Places]
BY DEF TypeOK, Goto

\* What the quiet steps of a request leave alone, and where they lead.
LEMMA QuietEffect ==
    ASSUME TypeOK, NEW r \in Requests, QuietStep(r)
    PROVE  /\ UNCHANGED <<job, async, table, listener, queue, overdue, watch, stop>>
           /\ \E p \in Places \ {"none", "connect", "unlisten"} : Goto(r, p)
           /\ pc[r] \notin {"unlisten", "done", "unchecked", "remove"}
BY SMTT(30) DEF QuietStep, Refuse, ConnectFails, ChecksumFails, ChecksumPasses, RunPlanSync,
    Begin, StartNode, RunPlanCore, RunPlanThrows, Finished, LinkTaskFinished,
    ReportErrorToPeers, MergePeerErrors, ReportResult, ReportResultFails,
    CompareAndSetState, Places

\* The quiet steps keep the types of states and of the stray requests.
LEMMA QuietType ==
    ASSUME TypeOK, NEW r \in Requests, QuietStep(r)
    PROVE  state' \in [Requests -> States] /\ stray' \subseteq Requests
<1>1. CASE Refuse(r) \/ ConnectFails(r) \/ ChecksumFails(r) \/ ChecksumPasses(r)
           \/ RunPlanCore(r) \/ ReportErrorToPeers(r) \/ ReportResult(r)
  BY <1>1 DEF Refuse, ConnectFails, ChecksumFails, ChecksumPasses, RunPlanCore,
       ReportErrorToPeers, ReportResult, TypeOK
<1>2. CASE Begin(r) \/ RunPlanThrows(r) \/ Finished(r) \/ ReportResultFails(r)
  <2>1. \E s \in States : SetState(r, s)
    BY <1>2 DEF Begin, RunPlanThrows, Finished, ReportResultFails, States
  <2>2. Use(r)
    BY <1>2 DEF Begin, RunPlanThrows, Finished, ReportResultFails
  <2> QED
    BY <2>1, <2>2, SetStateType, UseType
<1>3. CASE StartNode(r) \/ LinkTaskFinished(r) \/ MergePeerErrors(r)
  BY <1>3, UseType DEF StartNode, LinkTaskFinished, MergePeerErrors, TypeOK
<1>4. CASE CompareAndSetState(r)
  BY <1>4 DEF CompareAndSetState, TypeOK, States
<1> QED
  BY <1>1, <1>2, <1>3, <1>4 DEF QuietStep, RunPlanSync

\* The timeout thread keeps the types: what is left of the queue holds jobs.
LEMMA WatchType ==
    ASSUME TypeOK, GetTimeoutSession
    PROVE  /\ queue' \in Seq(Jobs)
           /\ watch' \in [at : {"idle", "remove", "unlisten"}, job : Jobs \cup {NoSession}]
<1>1. PICK n \in 0 .. Len(queue) :
         /\ queue' = SubSeq(queue, n + 1, Len(queue))
         /\ watch' = IF n < Len(queue) /\ table[queue[n + 1]] \in overdue
                     THEN [at |-> "remove", job |-> queue[n + 1]] ELSE watch
  BY Zenon DEF GetTimeoutSession
<1>2. queue \in Seq(Jobs) /\ Len(queue) \in Nat
  BY DEF TypeOK
<1>3. queue' \in Seq(Jobs)
  BY <1>1, <1>2
<1>4. n < Len(queue) => queue[n + 1] \in Jobs
  BY <1>1, <1>2
<1> QED
  BY <1>1, <1>3, <1>4 DEF TypeOK

\* Every step keeps the types.
LEMMA TypeStep == TypeOK /\ [Next]_vars => TypeOK'
<1> SUFFICES ASSUME TypeOK, [Next]_vars PROVE TypeOK'
  OBVIOUS
<1>1. ASSUME NEW r \in Requests, QuietStep(r) PROVE TypeOK'
  <2>1. UNCHANGED <<job, async, table, listener, queue, overdue, watch, stop>>
    BY <1>1, QuietEffect
  <2>2. pc' \in [Requests -> Places]
    BY <1>1, QuietEffect, GotoType
  <2>3. state' \in [Requests -> States] /\ stray' \subseteq Requests
    BY <1>1, QuietType
  <2> QED
    BY <2>1, <2>2, <2>3 DEF TypeOK
<1>2. ASSUME NEW r \in Requests, CreateContext(r) PROVE TypeOK'
  BY <1>2 DEF CreateContext, Goto, TypeOK, Places
<1>3. ASSUME NEW r \in Requests, CreateSession(r) PROVE TypeOK'
  <2>1. \E p \in Places : Goto(r, p)
    BY <1>3 DEF CreateSession, Places
  <2>2. pc' \in [Requests -> Places]
    BY <2>1, GotoType
  <2>3. table' \in [Jobs -> Requests \cup {NoSession}]
    BY <1>3 DEF CreateSession, TypeOK
  <2>4. queue \in Seq(Jobs) /\ job[r] \in Jobs /\ queue' \in {queue, Append(queue, job[r])}
    BY <1>3 DEF CreateSession, TypeOK
  <2>5. queue' \in Seq(Jobs)
    BY <2>4
  <2> QED
    BY <1>3, <2>2, <2>3, <2>5 DEF CreateSession, TypeOK
<1>4. ASSUME NEW r \in Requests, RemoveSession(r) PROVE TypeOK'
  <2>1. \E p \in Places : Goto(r, p)
    BY <1>4 DEF RemoveSession, Places
  <2>2. pc' \in [Requests -> Places]
    BY <2>1, GotoType
  <2>3. table' \in [Jobs -> Requests \cup {NoSession}]
    BY <1>4 DEF RemoveSession, TypeOK
  <2> QED
    BY <1>4, <2>2, <2>3 DEF RemoveSession, TypeOK
<1>5. ASSUME NEW r \in Requests, RemoveListener(r) PROVE TypeOK'
  BY <1>5 DEF RemoveListener, Goto, TypeOK, Places
<1>6. ASSUME NEW r \in Requests, TimeOut(r) PROVE TypeOK'
  BY <1>6 DEF TimeOut, TypeOK
<1>7. CASE GetTimeoutSession
  <2>1. UNCHANGED <<job, async, pc, table, state, listener, overdue, stop, stray>>
    BY <1>7 DEF GetTimeoutSession
  <2> QED
    BY <1>7, <2>1, WatchType DEF TypeOK
<1>8. CASE WatchRemove
  BY <1>8, SMTT(20) DEF WatchRemove, TypeOK
<1>9. CASE WatchRemoveListener
  BY <1>9, Zenon DEF WatchRemoveListener, TypeOK
<1>10. ASSUME NEW s \in Stops, StopFind(s) PROVE TypeOK'
  BY <1>10 DEF StopFind, TypeOK
<1>11. ASSUME NEW s \in Stops, StopSession(s) PROVE TypeOK'
  <2>1. PICK q : state' = [state EXCEPT ![q] = IF @ = "RUNNING" THEN "ABORTING" ELSE @]
    BY <1>11, Zenon DEF StopSession
  <2>2. state' \in [Requests -> States]
    BY <2>1, Zenon DEF TypeOK, States
  <2>3. stop' \in [Stops -> [at : {"none", "found", "done"}, found : Requests \cup {NoSession}]]
    BY <1>11 DEF StopSession, TypeOK
  <2> QED
    BY <1>11, <2>2, <2>3 DEF StopSession, TypeOK
<1>12. CASE UNCHANGED vars
  BY <1>12 DEF vars, TypeOK
<1> QED
  BY <1>1, <1>2, <1>3, <1>4, <1>5, <1>6, <1>7, <1>8, <1>9, <1>10, <1>11, <1>12
     DEF Next, Create, Conclude, Watch, QuietStep

--------------------------------------------------------------------------------
(* Sessions and listeners.                                                   *)

\* Nobody but its owner, and nobody who is connecting, has job j's listener.
Unlistening(j) ==
    /\ table[j] = NoSession
    /\ listener[j] \in Requests
    /\ pc[listener[j]] \notin Early

\* A registered session belongs to its job, has the job's listener, and its
\* request has created it.
TableInv ==
    \A j \in Jobs : table[j] # NoSession =>
        job[table[j]] = j /\ listener[j] = table[j] /\ pc[table[j]] \notin Early

\* The owner of a listener is a request of that job that has begun.
OwnerInv ==
    \A j \in Jobs : listener[j] # NoSession =>
        job[listener[j]] = j /\ pc[listener[j]] # "none"

\* A request that connects has its listener.
ConnectInv == \A r \in Requests : pc[r] = "connect" => listener[job[r]] = r

\* Whoever is about to remove a listener is alone with it.
RemoverInv ==
    /\ \A r \in Requests : pc[r] = "unlisten" => Unlistening(job[r])
    /\ watch.at # "idle" => watch.job \in Jobs
    /\ watch.at = "unlisten" => Unlistening(watch.job)
    /\ watch.at = "unlisten" => \A r \in Requests : pc[r] = "unlisten" => job[r] # watch.job
    /\ \A r, q \in Requests : pc[r] = "unlisten" /\ pc[q] = "unlisten" /\ job[r] = job[q] => r = q

ListenerInv == TableInv /\ OwnerInv /\ ConnectInv /\ RemoverInv

\* A quiet step moves one request, never back to its beginning and never to
\* the removal of its listener.
LEMMA QuietMoves ==
    ASSUME TypeOK, NEW r \in Requests, QuietStep(r)
    PROVE  /\ pc'[r] \notin {"none", "connect", "unlisten"} /\ pc[r] # "unlisten"
           /\ \A q \in Requests \ {r} : pc'[q] = pc[q]
<1>1. PICK p \in Places \ {"none", "connect", "unlisten"} : Goto(r, p)
  BY QuietEffect
<1> QED
  BY <1>1, QuietEffect DEF Goto, TypeOK

\* A quiet step does not disturb the listeners.
LEMMA QuietListener ==
    ASSUME TypeOK, ListenerInv, NEW r \in Requests, QuietStep(r)
    PROVE  ListenerInv'
<1>1. UNCHANGED <<job, table, listener, watch>>
  BY QuietEffect
<1>2. /\ pc'[r] \notin {"none", "connect", "unlisten"} /\ pc[r] # "unlisten"
      /\ \A q \in Requests \ {r} : pc'[q] = pc[q]
  BY QuietMoves
<1>3. TableInv'
  BY <1>1, <1>2 DEF ListenerInv, TableInv, Early, TypeOK
<1>4. OwnerInv'
  BY <1>1, <1>2 DEF ListenerInv, OwnerInv, TypeOK
<1>5. ConnectInv'
  BY <1>1, <1>2 DEF ListenerInv, ConnectInv, TypeOK
<1>6. \A j \in Jobs : Unlistening(j) => Unlistening(j)'
  BY <1>1, <1>2 DEF Unlistening, Early
<1>7. RemoverInv'
  BY <1>1, <1>2, <1>6 DEF ListenerInv, RemoverInv, TypeOK
<1> QED
  BY <1>3, <1>4, <1>5, <1>7 DEF ListenerInv

\* Every step keeps sessions and listeners together.
LEMMA ListenerStep == TypeOK /\ ListenerInv /\ [Next]_vars => ListenerInv'
<1> SUFFICES ASSUME TypeOK, ListenerInv, [Next]_vars PROVE ListenerInv'
  OBVIOUS
<1>0. NoSession \notin Requests /\ NoSession \notin Jobs
  BY EngineAssumption
<1>1. ASSUME NEW r \in Requests, QuietStep(r) PROVE ListenerInv'
  BY <1>1, QuietListener
<1>2. ASSUME NEW r \in Requests, CreateContext(r) PROVE ListenerInv'
  <2> USE DEF CreateContext, Goto
  <2>1. TableInv'
    BY <1>0, <1>2 DEF ListenerInv, TableInv, Early, TypeOK
  <2>2. OwnerInv'
    BY <1>0, <1>2 DEF ListenerInv, OwnerInv, TypeOK
  <2>3. ConnectInv'
    BY <1>0, <1>2 DEF ListenerInv, ConnectInv, TypeOK
  <2>4. \A j \in Jobs : Unlistening(j) => Unlistening(j)'
    BY <1>0, <1>2 DEF Unlistening, Early, TypeOK
  <2>5. RemoverInv'
    BY <1>0, <1>2, <2>4 DEF ListenerInv, RemoverInv, TypeOK
  <2> QED
    BY <2>1, <2>2, <2>3, <2>5 DEF ListenerInv
<1>3. ASSUME NEW r \in Requests, CreateSession(r) PROVE ListenerInv'
  <2> USE DEF CreateSession, Goto
  <2>0. listener[job[r]] = r /\ job[r] \in Jobs /\ pc[r] = "connect"
    BY <1>3 DEF ListenerInv, ConnectInv, TypeOK
  <2>1. TableInv'
    BY <1>0, <1>3, <2>0 DEF ListenerInv, TableInv, Early, TypeOK
  <2>2. OwnerInv'
    BY <1>0, <1>3 DEF ListenerInv, OwnerInv, TypeOK
  <2>3. ConnectInv'
    BY <1>0, <1>3 DEF ListenerInv, ConnectInv, TypeOK
  <2>4. \A j \in Jobs : Unlistening(j) => Unlistening(j)'
    BY <1>0, <1>3, <2>0 DEF Unlistening, Early, TypeOK
  <2>5. RemoverInv'
    <3>1. /\ UNCHANGED <<job, watch>>
          /\ \A q \in Requests : pc'[q] = "unlisten" <=> pc[q] = "unlisten"
      BY <1>3 DEF TypeOK
    <3>2. \A q \in Requests : job[q] \in Jobs
      BY DEF TypeOK
    <3> QED
      BY <3>1, <3>2, <2>4 DEF ListenerInv, RemoverInv
  <2> QED
    BY <2>1, <2>2, <2>3, <2>5 DEF ListenerInv
<1>4. ASSUME NEW r \in Requests, RemoveSession(r) PROVE ListenerInv'
  <2> USE DEF RemoveSession, Goto
  <2>0. job[r] \in Jobs /\ pc[r] = "remove"
    BY <1>4 DEF TypeOK
  <2>1. TableInv'
    BY <1>0, <1>4 DEF ListenerInv, TableInv, Early, TypeOK
  <2>2. OwnerInv'
    BY <1>0, <1>4 DEF ListenerInv, OwnerInv, TypeOK
  <2>3. ConnectInv'
    BY <1>0, <1>4 DEF ListenerInv, ConnectInv, TypeOK
  <2>4. \A j \in Jobs : Unlistening(j) => Unlistening(j)'
    BY <1>0, <1>4, <2>0 DEF Unlistening, Early, TypeOK
  <2>5. CanRemove(job[r]) => Unlistening(job[r])' /\ ~Unlistening(job[r])
    BY <1>0, <1>4, <2>0 DEF CanRemove, Unlistening, ListenerInv, TableInv, Early, TypeOK
  <2>6. RemoverInv'
    <3>1. /\ UNCHANGED <<job, watch>>
          /\ \A q \in Requests \ {r} : pc'[q] = pc[q]
          /\ pc'[r] = "unlisten" => CanRemove(job[r])
      BY <1>4 DEF TypeOK
    <3>2. \A q \in Requests : job[q] \in Jobs
      BY DEF TypeOK
    <3> QED
      BY <3>1, <3>2, <2>4, <2>5 DEF ListenerInv, RemoverInv
  <2> QED
    BY <2>1, <2>2, <2>3, <2>6 DEF ListenerInv
<1>5. ASSUME NEW r \in Requests, RemoveListener(r) PROVE ListenerInv'
  <2> USE DEF RemoveListener, Goto
  <2>0. job[r] \in Jobs /\ pc[r] = "unlisten" /\ Unlistening(job[r])
    BY <1>5 DEF TypeOK, ListenerInv, RemoverInv
  <2>1. TableInv'
    BY <1>0, <1>5, <2>0 DEF Unlistening, ListenerInv, TableInv, Early, TypeOK
  <2>2. OwnerInv'
    BY <1>0, <1>5 DEF ListenerInv, OwnerInv, TypeOK
  <2>3. ConnectInv'
    BY <1>0, <1>5, <2>0 DEF Unlistening, ListenerInv, ConnectInv, Early, TypeOK
  <2>4. \A j \in Jobs \ {job[r]} : Unlistening(j) => Unlistening(j)'
    BY <1>0, <1>5, <2>0 DEF Unlistening, Early, TypeOK
  <2>5. RemoverInv'
    BY <1>0, <1>5, <2>0, <2>4 DEF ListenerInv, RemoverInv, TypeOK
  <2> QED
    BY <2>1, <2>2, <2>3, <2>5 DEF ListenerInv
<1>6. CASE UNCHANGED <<job, pc, table, listener, watch>>
  BY <1>6 DEF ListenerInv, TableInv, OwnerInv, ConnectInv, RemoverInv, Unlistening
<1>7. CASE GetTimeoutSession
  <2>1. UNCHANGED <<job, pc, table, listener>>
    BY <1>7 DEF GetTimeoutSession
  <2>2. TableInv' /\ OwnerInv' /\ ConnectInv'
    BY <2>1 DEF ListenerInv, TableInv, OwnerInv, ConnectInv
  <2>3. watch.at = "idle" /\ watch'.at # "unlisten" /\ (watch'.at # "idle" => watch'.job \in Jobs)
    <3>1. PICK n \in 0 .. Len(queue) :
             watch' = IF n < Len(queue) /\ table[queue[n + 1]] \in overdue
                      THEN [at |-> "remove", job |-> queue[n + 1]] ELSE watch
      BY <1>7, Zenon DEF GetTimeoutSession
    <3>2. n < Len(queue) => queue[n + 1] \in Jobs
      BY <3>1 DEF TypeOK
    <3> QED
      BY <1>7, <3>1, <3>2 DEF GetTimeoutSession
  <2>4. RemoverInv'
    BY <2>1, <2>3 DEF ListenerInv, RemoverInv, Unlistening
  <2> QED
    BY <2>2, <2>4 DEF ListenerInv
<1>8. CASE WatchRemove
  <2> USE DEF WatchRemove
  <2>0. watch.job \in Jobs /\ watch.at = "remove"
    BY <1>8 DEF ListenerInv, RemoverInv
  <2>1. TableInv'
    BY <1>0, <1>8 DEF ListenerInv, TableInv, Early, TypeOK
  <2>2. OwnerInv' /\ ConnectInv'
    BY <1>0, <1>8 DEF ListenerInv, OwnerInv, ConnectInv, TypeOK
  <2>3. \A j \in Jobs : Unlistening(j) => Unlistening(j)'
    BY <1>0, <1>8, <2>0 DEF Unlistening, Early, TypeOK
  <2>4. CanRemove(watch.job) => Unlistening(watch.job)' /\ ~Unlistening(watch.job)
    BY <1>0, <1>8, <2>0 DEF CanRemove, Unlistening, ListenerInv, TableInv, Early, TypeOK
  <2>5. RemoverInv'
    BY <1>0, <1>8, <2>0, <2>3, <2>4 DEF ListenerInv, RemoverInv, TypeOK
  <2> QED
    BY <2>1, <2>2, <2>5 DEF ListenerInv
<1>9. CASE WatchRemoveListener
  <2> USE DEF WatchRemoveListener
  <2>0. watch.job \in Jobs /\ watch.at = "unlisten" /\ Unlistening(watch.job)
    BY <1>9 DEF ListenerInv, RemoverInv
  <2>1. TableInv'
    BY <1>0, <1>9, <2>0 DEF Unlistening, ListenerInv, TableInv, Early, TypeOK
  <2>2. OwnerInv'
    BY <1>0, <1>9, <2>0 DEF ListenerInv, OwnerInv, TypeOK
  <2>3. ConnectInv'
    BY <1>0, <1>9, <2>0 DEF Unlistening, ListenerInv, ConnectInv, Early, TypeOK
  <2>4. \A j \in Jobs \ {watch.job} : Unlistening(j) => Unlistening(j)'
    BY <1>0, <1>9, <2>0 DEF Unlistening, Early, TypeOK
  <2>5. RemoverInv'
    BY <1>0, <1>9, <2>0, <2>4 DEF ListenerInv, RemoverInv, TypeOK
  <2> QED
    BY <2>1, <2>2, <2>3, <2>5 DEF ListenerInv
<1>10. ASSUME NEW r \in Requests, TimeOut(r) PROVE UNCHANGED <<job, pc, table, listener, watch>>
  BY <1>10 DEF TimeOut
<1>11. ASSUME NEW s \in Stops, StopFind(s) \/ StopSession(s)
       PROVE  UNCHANGED <<job, pc, table, listener, watch>>
  BY <1>11 DEF StopFind, StopSession
<1> QED
  BY <1>1, <1>2, <1>3, <1>4, <1>5, <1>6, <1>7, <1>8, <1>9, <1>10, <1>11
     DEF Next, Create, Conclude, Watch, QuietStep, vars

--------------------------------------------------------------------------------
(* The timeout queue.                                                        *)

\* Every step keeps the registered sessions in the timeout queue.
LEMMA WatchedStep == TypeOK /\ RegisteredWatched /\ [Next]_vars => RegisteredWatched'
<1> SUFFICES ASSUME TypeOK, RegisteredWatched, [Next]_vars PROVE RegisteredWatched'
  OBVIOUS
<1>1. ASSUME NEW r \in Requests, CreateSession(r) PROVE RegisteredWatched'
  <2>1. CASE table[job[r]] # NoSession
    BY <1>1, <2>1 DEF CreateSession, RegisteredWatched
  <2>2. CASE table[job[r]] = NoSession
    <3>1. /\ table' = [table EXCEPT ![job[r]] = r]
          /\ queue' = Append(queue, job[r])
      BY <1>1, <2>2 DEF CreateSession
    <3>2. queue \in Seq(Jobs) /\ job[r] \in Jobs
      BY DEF TypeOK
    <3>3. /\ Len(queue') = Len(queue) + 1 /\ Len(queue) \in Nat
          /\ queue'[Len(queue) + 1] = job[r]
          /\ \A k \in 1 .. Len(queue) : queue'[k] = queue[k]
      BY <3>1, <3>2
    <3>4. ASSUME NEW j \in Jobs, table'[j] # NoSession
          PROVE  \E k \in 1 .. Len(queue') : queue'[k] = j
      <4>1. CASE j = job[r]
        BY <3>3, <4>1
      <4>2. CASE j # job[r]
        <5>1. table[j] # NoSession
          BY <3>1, <3>4, <4>2 DEF TypeOK
        <5>2. PICK k \in 1 .. Len(queue) : queue[k] = j
          BY <5>1 DEF RegisteredWatched
        <5> QED
          BY <3>3, <5>2
      <4> QED
        BY <4>1, <4>2
    <3> QED
      BY <3>4 DEF RegisteredWatched
  <2> QED
    BY <2>1, <2>2
<1>2. ASSUME NEW r \in Requests, RemoveSession(r) PROVE RegisteredWatched'
  BY <1>2, SMTT(20) DEF RemoveSession, RegisteredWatched, TypeOK
<1>3. CASE WatchRemove
  BY <1>3 DEF WatchRemove, RegisteredWatched, TypeOK
<1>4. CASE GetTimeoutSession
  <2>1. PICK n \in 0 .. Len(queue) : Unqueued(n) /\ queue' = SubSeq(queue, n + 1, Len(queue))
    BY <1>4 DEF GetTimeoutSession
  <2>2. queue \in Seq(Jobs) /\ Len(queue) \in Nat
    BY DEF TypeOK
  <2>3. /\ Len(queue') = Len(queue) - n
        /\ \A k \in 1 .. Len(queue) - n : queue'[k] = queue[k + n]
    BY <2>1, <2>2
  <2>4. ASSUME NEW j \in Jobs, table[j] # NoSession
        PROVE  \E k \in 1 .. Len(queue') : queue'[k] = j
    <3>1. PICK k \in 1 .. Len(queue) : queue[k] = j
      BY <2>4 DEF RegisteredWatched
    <3>2. k \notin 1 .. n
      BY <2>1, <2>4, <3>1 DEF Unqueued
    <3>3. k - n \in 1 .. Len(queue) - n
      BY <2>1, <2>2, <3>1, <3>2
    <3>4. queue'[k - n] = j
      BY <2>1, <2>2, <2>3, <3>1, <3>3
    <3> QED
      BY <2>3, <3>3, <3>4
  <2>5. table' = table
    BY <1>4 DEF GetTimeoutSession
  <2> QED
    BY <2>4, <2>5 DEF RegisteredWatched
<1>5. CASE UNCHANGED <<table, queue>>
  BY <1>5 DEF RegisteredWatched
<1>6. ASSUME NEW r \in Requests, QuietStep(r) \/ CreateContext(r) \/ RemoveListener(r) \/ TimeOut(r)
      PROVE  UNCHANGED <<table, queue>>
  BY <1>6, QuietEffect DEF CreateContext, RemoveListener, TimeOut
<1>7. ASSUME NEW s \in Stops, StopFind(s) \/ StopSession(s) PROVE UNCHANGED <<table, queue>>
  BY <1>7 DEF StopFind, StopSession
<1>8. CASE WatchRemoveListener
  BY <1>5, <1>8, SMTT(20) DEF WatchRemoveListener
<1> QED
  BY <1>1, <1>2, <1>3, <1>4, <1>5, <1>6, <1>7, <1>8
     DEF Next, Create, Conclude, Watch, QuietStep, vars

--------------------------------------------------------------------------------
(* Threads that have lost their session.                                     *)

\* The places of a request that has created a session and not yet removed it.
Held == {"checksum", "queued", "begin", "run", "node", "computed", "wait", "peers",
         "merge", "report", "settle", "remove"}

\* Some session of job j is overdue.
Excused(j) == \E q \in overdue : job[q] = j

\* Only requests of jobs with an overdue session have lost theirs.
LostInv ==
    /\ \A r \in Requests \ Registered : pc[r] \in Held => Excused(job[r])
    /\ watch.at = "remove" => Excused(watch.job)
    /\ \A r \in stray : Excused(job[r])

\* A quiet step uses the pointer only at a place where the session is held,
\* and does not enter those places.
LEMMA QuietHeld ==
    ASSUME TypeOK, NEW r \in Requests, QuietStep(r)
    PROVE  /\ pc'[r] \in Held => pc[r] \in Held
           /\ stray' = stray \/ (pc[r] \in Held /\ Use(r))
<1>1. CASE Refuse(r) \/ ConnectFails(r) \/ ChecksumFails(r)
  BY <1>1 DEF Refuse, ConnectFails, ChecksumFails, Goto, Held, TypeOK
<1>2. CASE ChecksumPasses(r) \/ RunPlanCore(r) \/ ReportErrorToPeers(r) \/ ReportResult(r)
           \/ CompareAndSetState(r)
  BY <1>2 DEF ChecksumPasses, RunPlanCore, ReportErrorToPeers, ReportResult, CompareAndSetState, Held
<1>3. CASE Begin(r) \/ StartNode(r) \/ RunPlanThrows(r) \/ Finished(r) \/ LinkTaskFinished(r)
           \/ MergePeerErrors(r) \/ ReportResultFails(r)
  BY <1>3 DEF Begin, StartNode, RunPlanThrows, Finished, LinkTaskFinished, MergePeerErrors,
       ReportResultFails, Held
<1> QED
  BY <1>1, <1>2, <1>3 DEF QuietStep, RunPlanSync

\* Every step keeps the reason why a session was lost.
LEMMA LostStep == TypeOK /\ ListenerInv /\ LostInv /\ [Next]_vars => LostInv'
<1> SUFFICES ASSUME TypeOK, ListenerInv, LostInv, [Next]_vars PROVE LostInv'
  OBVIOUS
<1>0. NoSession \notin Requests
  BY EngineAssumption
<1>1. ASSUME NEW r \in Requests, QuietStep(r) PROVE LostInv'
  <2>1. UNCHANGED <<job, table, overdue, watch>>
    BY <1>1, QuietEffect
  <2>2. Registered' = Registered /\ \A j : Excused(j)' <=> Excused(j)
    BY <2>1 DEF Registered, Excused
  <2>3. /\ \A q \in Requests : pc'[q] \in Held => pc[q] \in Held
        /\ \A q \in stray' : q \in stray \/ (q = r /\ pc[r] \in Held /\ r \notin Registered)
    BY <1>1, QuietMoves, QuietHeld DEF Use
  <2> QED
    BY <2>1, <2>2, <2>3 DEF LostInv
<1>2. ASSUME NEW r \in Requests, CreateContext(r) \/ RemoveListener(r) PROVE LostInv'
  <2>1. UNCHANGED <<job, table, overdue, watch, stray>>
    BY <1>2 DEF CreateContext, RemoveListener
  <2>2. Registered' = Registered /\ \A j : Excused(j)' <=> Excused(j)
    BY <2>1 DEF Registered, Excused
  <2>3. \A q \in Requests : pc'[q] \in Held => pc[q] \in Held
    BY <1>2 DEF CreateContext, RemoveListener, Goto, Held, TypeOK
  <2> QED
    BY <2>1, <2>2, <2>3 DEF LostInv
<1>3. ASSUME NEW r \in Requests, CreateSession(r) PROVE LostInv'
  <2>1. UNCHANGED <<job, overdue, watch, stray>>
    BY <1>3 DEF CreateSession
  <2>2. \A j : Excused(j)' <=> Excused(j)
    BY <2>1 DEF Excused
  <2>3. Registered \subseteq Registered'
    BY <1>0, <1>3 DEF CreateSession, Registered, TypeOK
  <2>4. \A q \in Requests \ {r} : pc'[q] = pc[q]
    BY <1>3 DEF CreateSession, Goto, TypeOK
  <2>5. pc'[r] \in Held => r \in Registered'
    BY <1>3 DEF CreateSession, Goto, Registered, Held, TypeOK
  <2> QED
    BY <2>1, <2>2, <2>3, <2>4, <2>5 DEF LostInv
<1>4. ASSUME NEW r \in Requests, RemoveSession(r) PROVE LostInv'
  <2>1. UNCHANGED <<job, overdue, watch, stray>>
    BY <1>4 DEF RemoveSession
  <2>2. \A j : Excused(j)' <=> Excused(j)
    BY <2>1 DEF Excused
  <2>3. /\ \A q \in Requests \ {r} : pc'[q] = pc[q]
        /\ pc[r] \in Held /\ pc'[r] \notin Held
    BY <1>4 DEF RemoveSession, Goto, Held, TypeOK
  <2>4. \A q \in Registered \ Registered' : job[q] = job[r] /\ table[job[r]] = q
    BY <1>4 DEF RemoveSession, Registered, TypeOK
  <2>5. ASSUME NEW q \in Requests \ Registered', q # r, pc'[q] \in Held
        PROVE  Excused(job[q])
    <3>1. CASE q \notin Registered
      BY <2>3, <2>5, <3>1 DEF LostInv
    <3>2. CASE q \in Registered
      <4>1. job[q] = job[r] /\ r \notin Registered
        BY <2>4, <2>5, <3>2 DEF Registered
      <4> QED
        BY <2>3, <4>1 DEF LostInv
    <3> QED
      BY <3>1, <3>2
  <2> QED
    BY <2>1, <2>2, <2>3, <2>5 DEF LostInv
<1>5. ASSUME NEW r \in Requests, TimeOut(r) PROVE LostInv'
  <2>1. UNCHANGED <<job, pc, table, watch, stray>> /\ overdue \subseteq overdue'
    BY <1>5 DEF TimeOut
  <2>2. Registered' = Registered /\ \A j : Excused(j) => Excused(j)'
    BY <2>1 DEF Registered, Excused
  <2> QED
    BY <2>1, <2>2 DEF LostInv
<1>6. CASE GetTimeoutSession
  <2>1. UNCHANGED <<job, pc, table, overdue, stray>>
    BY <1>6 DEF GetTimeoutSession
  <2>2. Registered' = Registered /\ \A j : Excused(j)' <=> Excused(j)
    BY <2>1 DEF Registered, Excused
  <2>3. watch'.at = "remove" => Excused(watch'.job)
    <3>1. PICK n \in 0 .. Len(queue) :
             watch' = IF n < Len(queue) /\ table[queue[n + 1]] \in overdue
                      THEN [at |-> "remove", job |-> queue[n + 1]] ELSE watch
      BY <1>6, Zenon DEF GetTimeoutSession
    <3>2. n < Len(queue) => queue[n + 1] \in Jobs
      BY <3>1 DEF TypeOK
    <3>3. \A j \in Jobs : table[j] \in overdue => job[table[j]] = j
      BY <1>0 DEF ListenerInv, TableInv, TypeOK
    <3> QED
      BY <1>6, <3>1, <3>2, <3>3 DEF GetTimeoutSession, Excused
  <2> QED
    BY <2>1, <2>2, <2>3 DEF LostInv
<1>7. CASE WatchRemove
  <2>1. UNCHANGED <<job, pc, overdue, stray>> /\ watch'.at # "remove"
    BY <1>7 DEF WatchRemove, TypeOK
  <2>2. \A j : Excused(j)' <=> Excused(j)
    BY <2>1 DEF Excused
  <2>3. \A q \in Registered \ Registered' : job[q] = watch.job
    BY <1>7 DEF WatchRemove, Registered, TypeOK
  <2>4. watch.at = "remove"
    BY <1>7 DEF WatchRemove
  <2> QED
    BY <2>1, <2>2, <2>3, <2>4 DEF LostInv
<1>8. CASE WatchRemoveListener
  <2>1. UNCHANGED <<job, pc, table, overdue, stray>> /\ watch'.at # "remove"
    BY <1>8 DEF WatchRemoveListener
  <2> QED
    BY <2>1 DEF LostInv, Registered, Excused
<1>9. ASSUME NEW s \in Stops, StopFind(s) \/ StopSession(s) PROVE LostInv'
  <2>1. UNCHANGED <<job, pc, table, overdue, watch, stray>>
    BY <1>9, SMTT(20) DEF StopFind, StopSession
  <2> QED
    BY <2>1 DEF LostInv, Registered, Excused
<1>10. CASE UNCHANGED vars
  BY <1>10 DEF vars, LostInv, Registered, Excused
<1> QED
  BY <1>1, <1>2, <1>3, <1>4, <1>5, <1>6, <1>7, <1>8, <1>9, <1>10
     DEF Next, Create, Conclude, Watch, QuietStep

--------------------------------------------------------------------------------
(* The end of a session.                                                     *)

\* The places between the end of the computation and the removal.
Settling == {"wait", "peers", "merge", "report", "settle"}

\* The state of request r's own session is final, or CompareAndSetState is
\* about to make it final.
Ended(r) ==
    /\ pc[r] \in Settling => state[r] \in {"COMP_FINISHED", "FAILED", "SUCCEEDED"}
    /\ pc[r] = "remove" => state[r] \in Removable

EndInv == stray = {} => \A r \in Registered : Ended(r)

\* Through the pointer of a registered session only that session is written.
LEMMA OwnState ==
    ASSUME TypeOK, NEW r \in Requests, NEW s \in States, SetState(r, s), Use(r), stray' = {}
    PROVE  state' = [state EXCEPT ![r] = s] /\ r \in Registered
BY Zenon DEF SetState, Use

\* A quiet step ends its own session properly.
LEMMA QuietOwnEnd ==
    ASSUME TypeOK, NEW r \in Requests, QuietStep(r), stray' = {}, r \in Registered, Ended(r)
    PROVE  Ended(r)'
<1>1. CASE Refuse(r) \/ ConnectFails(r) \/ ChecksumFails(r) \/ ChecksumPasses(r)
           \/ StartNode(r) \/ RunPlanCore(r)
  BY <1>1 DEF Refuse, ConnectFails, ChecksumFails, ChecksumPasses, StartNode, RunPlanCore,
       Goto, Ended, Settling, TypeOK
<1>2. CASE LinkTaskFinished(r) \/ ReportErrorToPeers(r) \/ MergePeerErrors(r) \/ ReportResult(r)
  BY <1>2 DEF LinkTaskFinished, ReportErrorToPeers, MergePeerErrors, ReportResult,
       Goto, Ended, Settling, TypeOK
<1>3. CASE Begin(r)
  BY <1>3 DEF Begin, Goto, Ended, Settling, TypeOK
<1>4. CASE RunPlanThrows(r) \/ ReportResultFails(r)
  <2>1. state' = [state EXCEPT ![r] = "FAILED"]
    BY <1>4, OwnState DEF RunPlanThrows, ReportResultFails, States
  <2> QED
    BY <2>1 DEF Ended, Removable, TypeOK
<1>5. CASE Finished(r)
  <2>1. state' = [state EXCEPT ![r] = "COMP_FINISHED"]
    BY <1>5, OwnState DEF Finished, States
  <2> QED
    BY <1>5, <2>1 DEF Finished, Goto, Ended, TypeOK
<1>6. CASE CompareAndSetState(r)
  BY <1>6, SMTT(20) DEF CompareAndSetState, Goto, Ended, Settling, Removable, Registered, TypeOK
<1> QED
  BY <1>1, <1>2, <1>3, <1>4, <1>5, <1>6 DEF QuietStep, RunPlanSync

\* To the sessions of others it does what CompareAndSetState does, or nothing.
LEMMA QuietOtherState ==
    ASSUME TypeOK, NEW r \in Requests, QuietStep(r), stray' = {}, NEW q \in Requests, q # r
    PROVE  state'[q] = state[q] \/ (state[q] = "COMP_FINISHED" /\ state'[q] = "SUCCEEDED")
<1>1. CASE Begin(r) \/ RunPlanThrows(r) \/ Finished(r) \/ ReportResultFails(r)
  <2>1. PICK s \in States : SetState(r, s)
    BY <1>1 DEF Begin, RunPlanThrows, Finished, ReportResultFails, States
  <2>2. Use(r)
    BY <1>1 DEF Begin, RunPlanThrows, Finished, ReportResultFails
  <2> QED
    BY <2>1, <2>2, OwnState DEF TypeOK
<1>2. CASE CompareAndSetState(r)
  BY <1>2 DEF CompareAndSetState, TypeOK
<1>3. CASE UNCHANGED state
  BY <1>3
<1> QED
  BY <1>1, <1>2, <1>3 DEF QuietStep, RunPlanSync, Refuse, ConnectFails, ChecksumFails,
     ChecksumPasses, StartNode, RunPlanCore, LinkTaskFinished, ReportErrorToPeers,
     MergePeerErrors, ReportResult

\* Every step keeps the states of the sessions that are being settled.
LEMMA EndStep == TypeOK /\ EndInv /\ [Next]_vars => EndInv'
<1> SUFFICES ASSUME TypeOK, EndInv, [Next]_vars, stray' = {}, NEW q \in Registered'
             PROVE  Ended(q)'
  BY DEF EndInv
<1>0. q \in Requests
  BY DEF Registered
<1>1. ASSUME NEW r \in Requests, QuietStep(r) PROVE Ended(q)'
  <2>1. stray = {} /\ q \in Registered
    BY <1>1, QuietEffect, QuietHeld DEF Use, Registered
  <2>2. Ended(q)
    BY <2>1 DEF EndInv
  <2>3. CASE q = r
    BY <1>1, <2>1, <2>2, <2>3, QuietOwnEnd
  <2>4. CASE q # r
    <3>1. pc'[q] = pc[q]
      BY <1>0, <1>1, <2>4, QuietMoves
    <3> QED
      BY <1>0, <1>1, <2>2, <2>4, <3>1, QuietOtherState DEF Ended, Removable
  <2> QED
    BY <2>3, <2>4, SMTT(20)
<1>2. ASSUME NEW r \in Requests, CreateSession(r) PROVE Ended(q)'
  <2>1. CASE pc'[q] # pc[q]
    BY <1>0, <1>2, <2>1 DEF CreateSession, Goto, Ended, Settling, TypeOK
  <2>2. CASE pc'[q] = pc[q]
    <3>1. q = r \/ q \in Registered
      BY <1>0, <1>2 DEF CreateSession, Registered, TypeOK
    <3>2. pc[r] = "connect" /\ state' = state /\ stray = {}
      BY <1>2 DEF CreateSession
    <3> QED
      BY <2>2, <3>1, <3>2 DEF EndInv, Ended, Settling
  <2> QED
    BY <2>1, <2>2
<1>3. ASSUME NEW r \in Requests, CreateContext(r) \/ RemoveListener(r) PROVE Ended(q)'
  <2>1. UNCHANGED <<job, table, state, stray>>
    BY <1>3 DEF CreateContext, RemoveListener
  <2>2. q \in Registered
    BY <2>1 DEF Registered
  <2>3. pc'[q] = pc[q] \/ pc'[q] \in {"connect", "done"}
    BY <1>0, <1>3 DEF CreateContext, RemoveListener, Goto, TypeOK
  <2> QED
    BY <2>1, <2>2, <2>3 DEF EndInv, Ended, Settling
<1>4. ASSUME NEW r \in Requests, RemoveSession(r) PROVE Ended(q)'
  <2>1. UNCHANGED <<job, state, stray>>
    BY <1>4 DEF RemoveSession
  <2>2. q \in Registered
    BY <1>0, <1>4, EngineAssumption DEF RemoveSession, Registered, TypeOK
  <2>3. pc'[q] = pc[q] \/ pc'[q] \in {"unlisten", "done"}
    BY <1>0, <1>4 DEF RemoveSession, Goto, TypeOK
  <2> QED
    BY <2>1, <2>2, <2>3, SMTT(20) DEF EndInv, Ended, Settling
<1>5. CASE Watch \/ (\E r \in Requests : TimeOut(r)) \/ (\E s \in Stops : StopFind(s)) \/ UNCHANGED vars
  <2>1. UNCHANGED <<job, pc, state, stray>>
    BY <1>5, SMTT(20) DEF Watch, GetTimeoutSession, WatchRemove, WatchRemoveListener, TimeOut, StopFind, vars
  <2>2. q \in Registered
    <3>1. CASE WatchRemove
      BY <1>0, <3>1, EngineAssumption DEF WatchRemove, Registered, TypeOK
    <3>2. CASE UNCHANGED <<job, table>>
      BY <3>2 DEF Registered
    <3> QED
      BY <1>5, <3>1, <3>2 DEF Watch, GetTimeoutSession, WatchRemoveListener, TimeOut, StopFind, vars
  <2> QED
    BY <2>1, <2>2 DEF EndInv, Ended
<1>6. ASSUME NEW s \in Stops, StopSession(s) PROVE Ended(q)'
  <2>1. UNCHANGED <<job, pc, table, stray>>
    BY <1>6 DEF StopSession
  <2>2. q \in Registered
    BY <2>1 DEF Registered
  <2>3. state'[q] = state[q] \/ (state[q] = "RUNNING" /\ state'[q] = "ABORTING")
    BY <1>0, <1>6 DEF StopSession, TypeOK
  <2> QED
    BY <2>1, <2>2, <2>3 DEF EndInv, Ended, Removable
<1> QED
  BY <1>1, <1>2, <1>3, <1>4, <1>5, <1>6 DEF Next, Create, Conclude, QuietStep

--------------------------------------------------------------------------------
\* The initial states satisfy all of it.
LEMMA InitInv == Init => TypeOK /\ ListenerInv /\ RegisteredWatched /\ LostInv /\ EndInv
<1> SUFFICES ASSUME Init PROVE TypeOK /\ ListenerInv /\ RegisteredWatched /\ LostInv /\ EndInv
  OBVIOUS
<1>1. TypeOK
  BY DEF Init, TypeOK, Places, States
<1>2. ListenerInv
  BY DEF Init, ListenerInv, TableInv, OwnerInv, ConnectInv, RemoverInv
<1>3. RegisteredWatched
  BY DEF Init, RegisteredWatched
<1>4. LostInv
  BY DEF Init, LostInv, Held
<1>5. EndInv
  BY EngineAssumption DEF Init, EndInv, Registered
<1> QED
  BY <1>1, <1>2, <1>3, <1>4, <1>5

\* The session manager, the listeners and the threads keep their types for
\* any number of jobs, requests and StopJob calls.
THEOREM TypeCorrect == Spec => []TypeOK
<1>1. Init => TypeOK
  BY InitInv
<1> QED
  BY <1>1, TypeStep, PTL DEF Spec

\* A registered session has the listener of its link id, although CreateSession
\* and RemoveSession change the two maps under different locks.
THEOREM SessionsHaveListeners == Spec => []SessionHasListener
<1>1. Init => TypeOK /\ ListenerInv
  BY InitInv
<1>2. ListenerInv => SessionHasListener
  BY DEF ListenerInv, TableInv, SessionHasListener
<1> QED
  BY <1>1, <1>2, TypeStep, ListenerStep, PTL DEF Spec

\* The timeout thread never loses a session that it failed to remove.
THEOREM RegisteredAreWatched == Spec => []RegisteredWatched
<1>1. Init => TypeOK /\ RegisteredWatched
  BY InitInv
<1> QED
  BY <1>1, TypeStep, WatchedStep, PTL DEF Spec

\* RemoveSession of the session's own thread does not throw for its state.
THEOREM OwnRemovalSucceeds == Spec => []RemovableAtEnd
<1>1. Init => TypeOK /\ EndInv
  BY InitInv
<1>2. EndInv => RemovableAtEnd
  BY DEF EndInv, Ended, RemovableAtEnd
<1> QED
  BY <1>1, <1>2, TypeStep, EndStep, PTL DEF Spec

\* Only the timeout takes a session away from the thread that uses it.
THEOREM LostOnlyToTimeout == Spec => []StrayOnlyAfterTimeout
<1>1. Init => TypeOK /\ ListenerInv /\ LostInv
  BY InitInv
<1>2. LostInv => StrayOnlyAfterTimeout
  BY DEF LostInv, Excused, StrayOnlyAfterTimeout
<1> QED
  BY <1>1, <1>2, TypeStep, ListenerStep, LostStep, PTL DEF Spec

================================================================================
