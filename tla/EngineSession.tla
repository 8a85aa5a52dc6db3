----------------------------- MODULE EngineSession -----------------------------
(***************************************************************************)
(* The sessions of one engine: the session manager with its timeout thread *)
(* (engine/framework/session_manager.cc), the listeners of the link layer  *)
(* (engine/link) and the threads of the engine service that create, run,   *)
(* stop and remove sessions (engine/services/engine_service_impl.cc).      *)
(*                                                                         *)
(* A request is one call of RunExecutionPlan; the session it creates has   *)
(* the request's name, so that a later session of the same job is another  *)
(* one.  A session that has left id_to_session_ is freed: its request may  *)
(* still hold the pointer, and a write through it changes nothing that     *)
(* matters or hits a session that got the memory.                          *)
(***************************************************************************)
EXTENDS Naturals, Sequences, FiniteSets

CONSTANTS
    Jobs,        \* job ids
    Requests,    \* calls of RunExecutionPlan
    Stops,       \* calls of StopJob
    NoSession,   \* no session, listener or job
    Workers      \* threads of worker_pool_

ASSUME EngineAssumption ==
    /\ NoSession \notin Requests /\ NoSession \notin Jobs
    /\ Workers \in Nat \ {0}

VARIABLES
    job, async,  \* the parameters of each request
    pc,          \* where the thread of each request is
    table,       \* id_to_session_
    state,       \* Session::state_
    listener,    \* listeners_ of the ListenerManager, by link (job) id
    queue,       \* session_timeout_queue_
    overdue,     \* sessions whose start time is more than the timeout ago
    watch,       \* the timeout thread: what it does to which job
    stop,        \* the StopJob calls: their progress and what they found
    stray        \* requests that have used their session after its removal

vars == <<job, async, pc, table, state, listener, queue, overdue, watch, stop, stray>>

States == {"INITIALIZED", "RUNNING", "COMP_FINISHED", "ABORTING", "SUCCEEDED", "FAILED"}
Removable == {"SUCCEEDED", "FAILED"}

Places == {"none", "connect", "checksum", "queued", "begin", "run", "node",
           "computed", "wait", "peers", "merge", "report", "settle",
           "remove", "unlisten", "done", "unchecked"}

\* The places of a request whose thread is one of worker_pool_.
Working == {"run", "node", "computed", "wait", "peers", "merge",
            "report", "settle", "remove", "unlisten"}

Init ==
    /\ job \in [Requests -> Jobs]
    /\ async \in [Requests -> BOOLEAN]
    /\ pc = [r \in Requests |-> "none"]
    /\ table = [j \in Jobs |-> NoSession]
    /\ state = [r \in Requests |-> "INITIALIZED"]
    /\ listener = [j \in Jobs |-> NoSession]
    /\ queue = <<>>
    /\ overdue = {}
    /\ watch = [at |-> "idle", job |-> NoSession]
    /\ stop = [s \in Stops |-> [at |-> "none", found |-> NoSession]]
    /\ stray = {}

Registered == {q \in Requests : table[job[q]] = q}

Goto(r, place) == pc' = [pc EXCEPT ![r] = place]

\* SetState through the pointer of request r.
SetState(r, s) ==
    \E q \in IF r \in Registered THEN {r} ELSE Registered \cup {r} :
        state' = [state EXCEPT ![q] = s]

\* The request dereferences its pointer.
Use(r) == stray' = IF r \in Registered THEN stray ELSE stray \cup {r}

--------------------------------------------------------------------------------
(* Creating a session.                                                       *)

\* The request is refused before a session is built: no credential, no
\* callback URL, a public key that does not match, or a peer's channel fails.
Refuse(r) ==
    /\ pc[r] = "none"
    /\ Goto(r, "done")
    /\ UNCHANGED <<job, async, table, state, listener, queue, overdue, watch,
                   stop, stray>>

\* The Session constructor reaches AddListener, which throws when the link id
\* is taken: then the request is answered with an error.
CreateContext(r) ==
    /\ pc[r] = "none"
    /\ IF listener[job[r]] = NoSession
       THEN /\ listener' = [listener EXCEPT ![job[r]] = r]
            /\ Goto(r, "connect")
       ELSE /\ Goto(r, "done")
            /\ UNCHANGED listener
    /\ UNCHANGED <<job, async, table, state, queue, overdue, watch, stop, stray>>

\* ConnectToMesh or the SPU context throws after AddListener: the session is
\* not built and its listener stays.
ConnectFails(r) ==
    /\ pc[r] = "connect"
    /\ Goto(r, "done")
    /\ UNCHANGED <<job, async, table, state, listener, queue, overdue, watch,
                   stop, stray>>

\* Mutant of CreateSession: the wrong id goes into the timeout queue.
CreateSessionQueuesSelf(r) ==
    /\ pc[r] = "connect"
    /\ IF table[job[r]] = NoSession
       THEN /\ table' = [table EXCEPT ![job[r]] = r]
            /\ queue' = Append(queue, r)
            /\ Goto(r, "checksum")
       ELSE /\ Goto(r, "done")
            /\ UNCHANGED <<table, queue>>
    /\ UNCHANGED <<job, async, state, listener, overdue, watch, stop, stray>>

\* CreateSession under mutex_.
CreateSession(r) ==
    /\ pc[r] = "connect"
    /\ IF table[job[r]] = NoSession
       THEN /\ table' = [table EXCEPT ![job[r]] = r]
            /\ queue' = Append(queue, job[r])
            /\ Goto(r, "checksum")
       ELSE /\ Goto(r, "done")
            /\ UNCHANGED <<table, queue>>
    /\ UNCHANGED <<job, async, state, listener, overdue, watch, stop, stray>>

\* CheckGraphChecksum throws: the error is answered, the session stays.
ChecksumFails(r) ==
    /\ pc[r] = "checksum"
    /\ Goto(r, "unchecked")
    /\ UNCHANGED <<job, async, table, state, listener, queue, overdue, watch,
                   stop, stray>>

\* The checksums agree; the plan is submitted to the pool or run at once.
ChecksumPasses(r) ==
    /\ pc[r] = "checksum"
    /\ Goto(r, IF async[r] THEN "queued" ELSE "begin")
    /\ UNCHANGED <<job, async, table, state, listener, queue, overdue, watch,
                   stop, stray>>

--------------------------------------------------------------------------------
(* RunPlanSync.                                                              *)

\* A thread of the pool is free for a queued plan.
WorkerFree == Cardinality({r \in Requests : async[r] /\ pc[r] \in Working}) < Workers

Begin(r) ==
    /\ \/ pc[r] = "queued" /\ WorkerFree
       \/ pc[r] = "begin"
    /\ SetState(r, "RUNNING")
    /\ Use(r)
    /\ Goto(r, "run")
    /\ UNCHANGED <<job, async, table, listener, queue, overdue, watch, stop>>

\* RunPlanCore looks at the state before a node and throws unless it is
\* RUNNING.  The step stands for the last node; those before it are alike.
StartNode(r) ==
    /\ pc[r] = "run"
    /\ state[r] = "RUNNING"
    /\ Use(r)
    /\ Goto(r, "node")
    /\ UNCHANGED <<job, async, table, state, listener, queue, overdue, watch,
                   stop>>

\* The node is executed and SyncWait has heard of all peers.
RunPlanCore(r) ==
    /\ pc[r] = "node"
    /\ Goto(r, "computed")
    /\ UNCHANGED <<job, async, table, state, listener, queue, overdue, watch,
                   stop, stray>>

\* The state is not RUNNING, or a node, a peer or the (aborted) link throws;
\* so may WaitLinkTaskFinish.  The exception's handler tells the peers next.
RunPlanThrows(r) ==
    /\ pc[r] \in {"run", "node", "wait"}
    /\ SetState(r, "FAILED")
    /\ Use(r)
    /\ Goto(r, "peers")
    /\ UNCHANGED <<job, async, table, listener, queue, overdue, watch, stop>>

\* Mutant of Finished: only a RUNNING session becomes COMP_FINISHED.
FinishedCAS(r) ==
    /\ pc[r] = "computed"
    /\ state' = [state EXCEPT ![r] = IF @ = "RUNNING" THEN "COMP_FINISHED" ELSE @]
    /\ Use(r)
    /\ Goto(r, "wait")
    /\ UNCHANGED <<job, async, table, listener, queue, overdue, watch, stop>>

\* SetState(COMP_FINISHED), whatever the state is.
Finished(r) ==
    /\ pc[r] = "computed"
    /\ SetState(r, "COMP_FINISHED")
    /\ Use(r)
    /\ Goto(r, "wait")
    /\ UNCHANGED <<job, async, table, listener, queue, overdue, watch, stop>>

\* WaitLinkTaskFinish returns.
LinkTaskFinished(r) ==
    /\ pc[r] = "wait"
    /\ Use(r)
    /\ Goto(r, "merge")
    /\ UNCHANGED <<job, async, table, state, listener, queue, overdue, watch,
                   stop>>

\* ReportErrorToPeers is over, one call after the other.
ReportErrorToPeers(r) ==
    /\ pc[r] = "peers"
    /\ Goto(r, "merge")
    /\ UNCHANGED <<job, async, table, state, listener, queue, overdue, watch,
                   stop, stray>>

\* MergePeerErrors reads the session; then the result is reported (async) or
\* the response is ready.
MergePeerErrors(r) ==
    /\ pc[r] = "merge"
    /\ Use(r)
    /\ Goto(r, IF async[r] THEN "report" ELSE "settle")
    /\ UNCHANGED <<job, async, table, state, listener, queue, overdue, watch,
                   stop>>

--------------------------------------------------------------------------------
(* RunPlanAsync and RunExecutionPlan after the plan has run.                 *)

\* The driver has answered the callback.
ReportResult(r) ==
    /\ pc[r] = "report"
    /\ Goto(r, "settle")
    /\ UNCHANGED <<job, async, table, state, listener, queue, overdue, watch,
                   stop, stray>>

\* The callback fails.
ReportResultFails(r) ==
    /\ pc[r] = "report"
    /\ SetState(r, "FAILED")
    /\ Use(r)
    /\ Goto(r, "settle")
    /\ UNCHANGED <<job, async, table, listener, queue, overdue, watch, stop>>

\* CompareAndSetState looks the session up by its job id.
CompareAndSetState(r) ==
    /\ pc[r] = "settle"
    /\ state' = [q \in Requests |->
                    IF q = table[job[r]] /\ state[q] = "COMP_FINISHED"
                    THEN "SUCCEEDED" ELSE state[q]]
    /\ Goto(r, "remove")
    /\ UNCHANGED <<job, async, table, listener, queue, overdue, watch, stop, stray>>

\* What RemoveSession finds under mutex_.
CanRemove(j) == table[j] # NoSession /\ state[table[j]] \in Removable

\* Mutant of RemoveSession: the listener of an unknown session is removed too.
RemoveSessionAlways(r) ==
    /\ pc[r] = "remove"
    /\ \/ /\ CanRemove(job[r])
          /\ table' = [table EXCEPT ![job[r]] = NoSession]
          /\ Goto(r, "unlisten")
       \/ /\ ~CanRemove(job[r])
          /\ Goto(r, IF table[job[r]] = NoSession THEN "unlisten" ELSE "done")
          /\ UNCHANGED table
    /\ UNCHANGED <<job, async, state, listener, queue, overdue, watch, stop, stray>>

\* Mutant of RemoveSession: a failed session is left to the timeout thread.
RemoveSessionSucceeded(r) ==
    /\ pc[r] = "remove"
    /\ \/ /\ CanRemove(job[r]) /\ state[table[job[r]]] = "SUCCEEDED"
          /\ table' = [table EXCEPT ![job[r]] = NoSession]
          /\ Goto(r, "unlisten")
       \/ /\ ~(CanRemove(job[r]) /\ state[table[job[r]]] = "SUCCEEDED")
          /\ Goto(r, "done")
          /\ UNCHANGED table
    /\ UNCHANGED <<job, async, state, listener, queue, overdue, watch, stop, stray>>

\* RemoveSession by the request's thread: the session is taken out and freed;
\* when there is none, or it is not over, nothing is done.
RemoveSession(r) ==
    /\ pc[r] = "remove"
    /\ \/ /\ CanRemove(job[r])
          /\ table' = [table EXCEPT ![job[r]] = NoSession]
          /\ Goto(r, "unlisten")
       \/ /\ ~CanRemove(job[r])
          /\ Goto(r, "done")
          /\ UNCHANGED table
    /\ UNCHANGED <<job, async, state, listener, queue, overdue, watch, stop, stray>>

\* RemoveListener, after mutex_ was released.
RemoveListener(r) ==
    /\ pc[r] = "unlisten"
    /\ listener' = [listener EXCEPT ![job[r]] = NoSession]
    /\ Goto(r, "done")
    /\ UNCHANGED <<job, async, table, state, queue, overdue, watch, stop, stray>>

--------------------------------------------------------------------------------
(* WatchSessionTimeoutThread.                                                *)

\* The clock: the timeout of a registered session has passed.
TimeOut(r) ==
    /\ r \in Registered \ overdue
    /\ overdue' = overdue \cup {r}
    /\ UNCHANGED <<job, async, pc, table, state, listener, queue, watch, stop, stray>>

\* The queue without the leading jobs that have no session.
Unqueued(n) ==
    /\ n \in 0 .. Len(queue)
    /\ \A k \in 1 .. n : table[queue[k]] = NoSession
    /\ n < Len(queue) => table[queue[n + 1]] # NoSession

\* Mutant of GetTimeoutSession: the job it returns leaves the queue.
GetTimeoutSessionPop ==
    /\ watch.at = "idle"
    /\ \E n \in 0 .. Len(queue) :
          /\ Unqueued(n)
          /\ LET due == n < Len(queue) /\ table[queue[n + 1]] \in overdue IN
             /\ queue' = SubSeq(queue, (IF due THEN n + 2 ELSE n + 1), Len(queue))
             /\ watch' = IF due THEN [at |-> "remove", job |-> queue[n + 1]] ELSE watch
             /\ queue' # queue \/ watch' # watch
    /\ UNCHANGED <<job, async, pc, table, state, listener, overdue, stop, stray>>

\* Mutant of GetTimeoutSession: the first session is taken, overdue or not.
GetTimeoutSessionAny ==
    /\ watch.at = "idle"
    /\ \E n \in 0 .. Len(queue) :
          /\ Unqueued(n)
          /\ queue' = SubSeq(queue, n + 1, Len(queue))
          /\ watch' = IF n < Len(queue)
                      THEN [at |-> "remove", job |-> queue[n + 1]] ELSE watch
          /\ n > 0 \/ watch' # watch
    /\ UNCHANGED <<job, async, pc, table, state, listener, overdue, stop, stray>>

\* NextCheckTime and GetTimeoutSession drop the jobs without a session from
\* the front of the queue; the next one is chosen if it is overdue.
GetTimeoutSession ==
    /\ watch.at = "idle"
    /\ \E n \in 0 .. Len(queue) :
          /\ Unqueued(n)
          /\ queue' = SubSeq(queue, n + 1, Len(queue))
          /\ watch' = IF n < Len(queue) /\ table[queue[n + 1]] \in overdue
                      THEN [at |-> "remove", job |-> queue[n + 1]] ELSE watch
          /\ n > 0 \/ watch' # watch
    /\ UNCHANGED <<job, async, pc, table, state, listener, overdue, stop, stray>>

\* RemoveSession by the timeout thread; it tries again after a failure.
WatchRemove ==
    /\ watch.at = "remove"
    /\ IF CanRemove(watch.job)
       THEN /\ table' = [table EXCEPT ![watch.job] = NoSession]
            /\ watch' = [watch EXCEPT !.at = "unlisten"]
       ELSE /\ watch' = [at |-> "idle", job |-> NoSession]
            /\ UNCHANGED table
    /\ UNCHANGED <<job, async, pc, state, listener, queue, overdue, stop, stray>>

WatchRemoveListener ==
    /\ watch.at = "unlisten"
    /\ listener' = [listener EXCEPT ![watch.job] = NoSession]
    /\ watch' = [at |-> "idle", job |-> NoSession]
    /\ UNCHANGED <<job, async, pc, table, state, queue, overdue, stop, stray>>

--------------------------------------------------------------------------------
(* StopJob.                                                                  *)

\* StopSession looks the session up under mutex_, which it then releases.
StopFind(s) ==
    /\ stop[s].at = "none"
    /\ \E j \in Jobs :
          stop' = [stop EXCEPT ![s] =
                      IF table[j] = NoSession THEN [at |-> "done", found |-> NoSession]
                      ELSE [at |-> "found", found |-> table[j]]]
    /\ UNCHANGED <<job, async, pc, table, state, listener, queue, overdue, watch, stray>>

\* A RUNNING session becomes ABORTING and its link is aborted.  The iterator
\* may be that of a session which has been removed.
StopSession(s) ==
    /\ stop[s].at = "found"
    /\ stop' = [stop EXCEPT ![s] = [at |-> "done", found |-> NoSession]]
    /\ \E q \in IF stop[s].found \in Registered THEN {stop[s].found}
                ELSE Registered \cup {stop[s].found} :
          state' = [state EXCEPT ![q] = IF @ = "RUNNING" THEN "ABORTING" ELSE @]
    /\ UNCHANGED <<job, async, pc, table, listener, queue, overdue, watch, stray>>

--------------------------------------------------------------------------------
Create(r) ==
    \/ Refuse(r) \/ CreateContext(r) \/ ConnectFails(r) \/ CreateSession(r)
    \/ ChecksumFails(r) \/ ChecksumPasses(r)

RunPlanSync(r) ==
    \/ Begin(r) \/ StartNode(r) \/ RunPlanCore(r) \/ RunPlanThrows(r)
    \/ Finished(r) \/ LinkTaskFinished(r)
    \/ ReportErrorToPeers(r) \/ MergePeerErrors(r)

Conclude(r) ==
    \/ ReportResult(r) \/ ReportResultFails(r) \/ CompareAndSetState(r)
    \/ RemoveSession(r) \/ RemoveListener(r)

Watch == GetTimeoutSession \/ WatchRemove \/ WatchRemoveListener

Next ==
    \/ \E r \in Requests : Create(r) \/ RunPlanSync(r) \/ Conclude(r) \/ TimeOut(r)
    \/ Watch
    \/ \E s \in Stops : StopFind(s) \/ StopSession(s)

Spec == Init /\ [][Next]_vars

\* Every thread of a request that has begun goes on: the link's receive
\* timeout, the RPC timeouts and the connection retries end all waits.  The
\* pool takes its plans in turn.  The timeout thread runs for ever.
FairSpec ==
    /\ Spec
    /\ \A r \in Requests :
         WF_vars((pc[r] # "none" /\ Create(r)) \/ RunPlanSync(r) \/ Conclude(r))
    /\ WF_vars(Watch)

--------------------------------------------------------------------------------
(* Properties.                                                               *)

\* The maps of the session manager and of the listener manager, the timeout
\* queue and the threads have the types the code gives them.
TypeOK ==
    /\ job \in [Requests -> Jobs]
    /\ async \in [Requests -> BOOLEAN]
    /\ pc \in [Requests -> Places]
    /\ table \in [Jobs -> Requests \cup {NoSession}]
    /\ state \in [Requests -> States]
    /\ listener \in [Jobs -> Requests \cup {NoSession}]
    /\ queue \in Seq(Jobs)
    /\ overdue \subseteq Requests
    /\ watch \in [at : {"idle", "remove", "unlisten"}, job : Jobs \cup {NoSession}]
    /\ stop \in [Stops -> [at : {"none", "found", "done"}, found : Requests \cup {NoSession}]]
    /\ stray \subseteq Requests

\* A registered session receives its messages: the listener under its link id
\* is its own, although sessions and listeners are kept under two locks and a
\* removal by the timeout thread or by an older request of the same job may be
\* between the two.
SessionHasListener ==
    \A j \in Jobs : table[j] # NoSession => listener[j] = table[j]

\* A registered session is in the timeout queue until it is removed, also when
\* an attempt of the timeout thread to remove it failed.
RegisteredWatched ==
    \A j \in Jobs : table[j] # NoSession => \E k \in 1 .. Len(queue) : queue[k] = j

\* When a request comes to remove its own session, the session is over and
\* RemoveSession does not throw, whenever a StopJob came (as long as no thread
\* has written through the pointer of a freed session).
RemovableAtEnd ==
    stray = {} => \A r \in Registered : pc[r] = "remove" => state[r] \in Removable

\* A request uses its session after the removal only if a session of that job
\* is overdue: nothing but the timeout takes a session away under its thread.
StrayOnlyAfterTimeout ==
    \A r \in stray : \E q \in overdue : job[q] = job[r]

\* A session leaves id_to_session_ in the end, unless the checksum exchange of
\* its request failed: that request returns and nobody ends its session.
SessionsEnd ==
    \A r \in Requests :
        (r \in Registered) ~> (r \notin Registered \/ pc[r] = "unchecked")

================================================================================
