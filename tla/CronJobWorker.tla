----------------------------- MODULE CronJobWorker -----------------------------
(***************************************************************************)
(* Leader election among the instances of one party's broker               *)
(* (pkg/broker/application/worker.go) over one row of the lock table       *)
(* (pkg/broker/storage/session.go).  The leader runs the cron tasks:       *)
(* storage GC and the job watcher.                                         *)
(*                                                                         *)
(* Times are relative to the present: now is 0, and Tick moves every time  *)
(* that is recorded one step into the past.  The clock of instance i shows *)
(* skew[i].  Times older than Horizon are not told apart.                  *)
(***************************************************************************)
EXTENDS Integers, FiniteSets

CONSTANTS
    Instances,   \* broker instances that share the metadata database
    Nobody,      \* the owner before the first election, and dead instances
    Ttl,         \* w.interval: the period of the election task
    MaxSkew,     \* bound on the difference of a clock to the true time
    MaxDelay,    \* bound on the time from time.Now() to the end of a round
    Horizon,     \* how far into the past times are told apart
    MaxFaults,   \* bound on database and scheduler errors
    MaxCrashes   \* bound on restarts of an instance

ASSUME WorkerAssumption ==
    /\ Nobody \notin Instances
    /\ Ttl \in Nat /\ MaxSkew \in Nat /\ MaxDelay \in Nat /\ Horizon \in Nat
    /\ MaxFaults \in Nat /\ MaxCrashes \in Nat
    /\ Horizon > 2 * Ttl + MaxDelay + 2 * MaxSkew

VARIABLES
    lock,     \* the row: owner and expired_at, as committed
    role,     \* w.role
    tasks,    \* whether w.taskScheduler is running
    started,  \* w.started: the election task is scheduled
    pc,       \* where the election round is; "idle" between rounds
    t,        \* the time.Now() that the statement under way carries
    held,     \* the time of the last Preempt or Renew that returned ok
    doubt,    \* whether the commit of that statement failed
    skew,     \* the deviation of each clock
    used      \* errors and crashes so far

vars == <<lock, role, tasks, started, pc, t, held, doubt, skew, used>>

Rounds == {"idle", "expired", "preempt", "start", "renew", "stop"}

\* Mutant of Init: the role keeps the zero value of the atomic.
InitNoRole ==
    /\ lock = [owner |-> Nobody, expiredAt |-> -Horizon]
    /\ role = [i \in Instances |-> "none"]
    /\ tasks = [i \in Instances |-> FALSE]
    /\ started = [i \in Instances |-> TRUE]
    /\ pc = [i \in Instances |-> "idle"]
    /\ t = [i \in Instances |-> -Horizon]
    /\ held = [i \in Instances |-> -Horizon]
    /\ doubt = [i \in Instances |-> FALSE]
    /\ skew \in [Instances -> -MaxSkew .. MaxSkew]
    /\ used = [fault |-> 0, crash |-> 0]

\* NewCronJobWorker: the row is created expired since 24 hours.
Init ==
    /\ lock = [owner |-> Nobody, expiredAt |-> -Horizon]
    /\ role = [i \in Instances |-> "Worker"]
    /\ tasks = [i \in Instances |-> FALSE]
    /\ started = [i \in Instances |-> TRUE]
    /\ pc = [i \in Instances |-> "idle"]
    /\ t = [i \in Instances |-> -Horizon]
    /\ held = [i \in Instances |-> -Horizon]
    /\ doubt = [i \in Instances |-> FALSE]
    /\ skew \in [Instances -> -MaxSkew .. MaxSkew]
    /\ used = [fault |-> 0, crash |-> 0]

\* The round is over; the time it carried is forgotten.
EndRound(i) ==
    /\ pc' = [pc EXCEPT ![i] = "idle"]
    /\ t' = [t EXCEPT ![i] = -Horizon]

Fault ==
    /\ used.fault < MaxFaults
    /\ used' = [used EXCEPT !.fault = @ + 1]

--------------------------------------------------------------------------------
(* A round of a follower.                                                    *)

\* DistributedLockExpired returned true; otherwise the round is over.
Expired(i) ==
    /\ pc[i] = "idle" /\ started[i] /\ role[i] # "Leader"
    /\ lock.expiredAt < skew[i]
    /\ pc' = [pc EXCEPT ![i] = "expired"]
    /\ UNCHANGED <<lock, role, tasks, started, t, held, doubt, skew, used>>

\* PreemptDistributedLock puts the time into the statement and sends it.
CallPreempt(i) ==
    /\ pc[i] = "expired"
    /\ pc' = [pc EXCEPT ![i] = "preempt"]
    /\ t' = [t EXCEPT ![i] = skew[i]]
    /\ UNCHANGED <<lock, role, tasks, started, held, doubt, skew, used>>

\* The statement updated the row.  The guard's deferred Finish gets the nil
\* error of the time of the defer: it commits, and a failed commit is logged
\* and not returned.
Granted(i) ==
    /\ held' = [held EXCEPT ![i] = t[i]]
    /\ \/ /\ lock' = [owner |-> i, expiredAt |-> t[i] + 2 * Ttl]
          /\ doubt' = [doubt EXCEPT ![i] = FALSE]
          /\ used' = used
       \/ /\ Fault
          /\ lock' = lock
          /\ doubt' = [doubt EXCEPT ![i] = TRUE]

\* Mutant of Preempt: it relies on the answer of DistributedLockExpired.
PreemptUnchecked(i) ==
    /\ pc[i] = "preempt"
    /\ Granted(i)
    /\ pc' = [pc EXCEPT ![i] = "start"]
    /\ UNCHANGED <<role, tasks, started, t, skew>>

\* One UPDATE that checks the expiry again and takes the lock.
Preempt(i) ==
    /\ pc[i] = "preempt"
    /\ lock.expiredAt < t[i]
    /\ Granted(i)
    /\ pc' = [pc EXCEPT ![i] = "start"]
    /\ UNCHANGED <<role, tasks, started, t, skew>>

\* No row was updated, or the database returned an error.
PreemptFails(i) ==
    /\ pc[i] = "preempt"
    /\ \/ ~(lock.expiredAt < t[i]) /\ used' = used
       \/ Fault
    /\ EndRound(i)
    /\ UNCHANGED <<lock, role, tasks, started, held, doubt, skew>>

\* The tasks are scheduled, then the role is set.
StartTasks(i) ==
    /\ pc[i] = "start"
    /\ tasks' = [tasks EXCEPT ![i] = TRUE]
    /\ role' = [role EXCEPT ![i] = "Leader"]
    /\ EndRound(i)
    /\ UNCHANGED <<lock, started, held, doubt, skew, used>>

\* The lock is kept until it expires, the instance stays a follower.
StartTasksFails(i) ==
    /\ pc[i] = "start"
    /\ Fault
    /\ EndRound(i)
    /\ UNCHANGED <<lock, role, tasks, started, held, doubt, skew>>

--------------------------------------------------------------------------------
(* A round of the leader.                                                    *)

\* RenewDistributedLock puts the time into the statement and sends it.
CallRenew(i) ==
    /\ pc[i] = "idle" /\ started[i] /\ role[i] = "Leader"
    /\ pc' = [pc EXCEPT ![i] = "renew"]
    /\ t' = [t EXCEPT ![i] = skew[i]]
    /\ UNCHANGED <<lock, role, tasks, started, held, doubt, skew, used>>

\* RenewDistributedLock asks for the owner, not for the expiry.
Renew(i) ==
    /\ pc[i] = "renew"
    /\ lock.owner = i
    /\ Granted(i)
    /\ EndRound(i)
    /\ UNCHANGED <<role, tasks, started, skew>>

\* Mutant of RenewFails: the round ends, the tasks and the role are kept.
RenewFailsIgnored(i) ==
    /\ pc[i] = "renew"
    /\ \/ lock.owner # i /\ used' = used
       \/ Fault
    /\ EndRound(i)
    /\ UNCHANGED <<lock, role, tasks, started, held, doubt, skew>>

\* The row has another owner, or the database returned an error.
RenewFails(i) ==
    /\ pc[i] = "renew"
    /\ \/ lock.owner # i /\ used' = used
       \/ Fault
    /\ pc' = [pc EXCEPT ![i] = "stop"]
    /\ UNCHANGED <<lock, role, tasks, started, t, held, doubt, skew>>

\* Mutant of StopTasks: the role is reset and the scheduler keeps running.
StopTasksNot(i) ==
    /\ pc[i] = "stop"
    /\ role' = [role EXCEPT ![i] = "Worker"]
    /\ EndRound(i)
    /\ UNCHANGED <<lock, tasks, started, held, doubt, skew, used>>

StopTasks(i) ==
    /\ pc[i] = "stop"
    /\ tasks' = [tasks EXCEPT ![i] = FALSE]
    /\ role' = [role EXCEPT ![i] = "Worker"]
    /\ EndRound(i)
    /\ UNCHANGED <<lock, started, held, doubt, skew, used>>

\* Shutdown cancels the scheduler and then waits for running tasks; when they
\* take too long it returns an error, and the instance stays Leader.
StopTasksFails(i) ==
    /\ pc[i] = "stop"
    /\ Fault
    /\ tasks' = [tasks EXCEPT ![i] = FALSE]
    /\ EndRound(i)
    /\ UNCHANGED <<lock, role, started, held, doubt, skew>>

--------------------------------------------------------------------------------
\* stop(): both schedulers end; neither the lock nor the role is given up.
\* The shutdown of the election scheduler waits for a round under way.
Stop(i) ==
    /\ pc[i] = "idle" /\ started[i]
    /\ started' = [started EXCEPT ![i] = FALSE]
    /\ tasks' = [tasks EXCEPT ![i] = IF role[i] = "Leader" THEN FALSE ELSE @]
    /\ UNCHANGED <<lock, role, pc, t, held, doubt, skew, used>>

\* The process dies and comes back.  Its id has a random part: the lock it
\* may hold is not its own any more.
Crash(i) ==
    /\ used.crash < MaxCrashes
    /\ used' = [used EXCEPT !.crash = @ + 1]
    /\ lock' = [lock EXCEPT !.owner = IF @ = i THEN Nobody ELSE @]
    /\ role' = [role EXCEPT ![i] = "Worker"]
    /\ tasks' = [tasks EXCEPT ![i] = FALSE]
    /\ started' = [started EXCEPT ![i] = TRUE]
    /\ EndRound(i)
    /\ UNCHANGED <<held, doubt, skew>>

Older(x) == IF x > -Horizon THEN x - 1 ELSE x

\* Time passes.  A round that has read the clock ends within MaxDelay.
Tick ==
    /\ \A i \in Instances :
          pc[i] \in {"preempt", "start", "renew", "stop"} => t[i] > skew[i] - MaxDelay
    /\ lock' = [lock EXCEPT !.expiredAt = Older(@)]
    /\ t' = [i \in Instances |-> Older(t[i])]
    /\ held' = [i \in Instances |-> Older(held[i])]
    /\ UNCHANGED <<role, tasks, started, pc, doubt, skew, used>>

Round(i) ==
    \/ Expired(i) \/ CallPreempt(i) \/ Preempt(i) \/ PreemptFails(i)
    \/ StartTasks(i) \/ StartTasksFails(i)
    \/ CallRenew(i) \/ Renew(i) \/ RenewFails(i)
    \/ StopTasks(i) \/ StopTasksFails(i)

Next ==
    \/ \E i \in Instances : Round(i) \/ Stop(i) \/ Crash(i)
    \/ Tick

Spec == Init /\ [][Next]_vars

\* The election scheduler calls its task again and again, and time passes.
FairSpec == Spec /\ WF_vars(Tick) /\ \A i \in Instances : WF_vars(Round(i))

--------------------------------------------------------------------------------
(* Properties.                                                               *)

\* The row, the rounds and the recorded times have the values the code gives
\* them; the clocks stay within MaxSkew.
TypeOK ==
    /\ lock \in [owner : Instances \cup {Nobody}, expiredAt : Int]
    /\ role \in [Instances -> {"Leader", "Worker"}]
    /\ tasks \in [Instances -> BOOLEAN]
    /\ started \in [Instances -> BOOLEAN]
    /\ pc \in [Instances -> Rounds]
    /\ t \in [Instances -> Int]
    /\ held \in [Instances -> Int]
    /\ doubt \in [Instances -> BOOLEAN]
    /\ skew \in [Instances -> -MaxSkew .. MaxSkew]
    /\ used \in [fault : 0 .. MaxFaults, crash : 0 .. MaxCrashes]

\* A leader that was granted the lock less than 2 * Ttl - MaxSkew ago owns it,
\* so that there is at most one such leader: two instances run the tasks only
\* while one of them has missed its renewal (or the grant was not committed).
PunctualLeaderOwns ==
    \A i \in Instances :
        (role[i] = "Leader" /\ ~doubt[i] /\ held[i] + 2 * Ttl >= MaxSkew)
            => lock.owner = i

\* Only a leader has a task scheduler, and an election does not start a second
\* one over it.
TasksOnlyOfLeader ==
    \A i \in Instances : tasks[i] => role[i] = "Leader" /\ pc[i] # "start"

Led == \E i \in Instances :
          started[i] /\ role[i] = "Leader" /\ lock.owner = i /\ tasks[i]

\* A leader whose Shutdown failed after an error of Renew, and which renewed
\* the lock the next time: it leads without running the tasks.
Idling(i) == started[i] /\ role[i] = "Leader" /\ pc[i] = "idle" /\ ~tasks[i]

\* Again and again some instance owns the lock and runs the tasks, whatever
\* errors and crashes there were, unless all are stopped or one is idling.
TasksKeepRunning ==
    \/ []<>Led
    \/ <>[](\A i \in Instances : ~started[i])
    \/ <>(\E i \in Instances : Idling(i))

================================================================================
