-------------------------- MODULE CronJobWorkerProofs --------------------------
(***************************************************************************)
(* Proofs about the leader election, for any number of instances, any      *)
(* lease, clock deviation and delay, and any number of errors and crashes. *)
(*                                                                         *)
(* PunctualLeaderOwns is not inductive: it says nothing of an instance     *)
(* that has taken the lock and not yet set its role, nor why a punctual    *)
(* owner cannot be displaced.  LeaseInv adds both: whoever leads or is     *)
(* about to, and was granted the lock at time h, either still owns it with *)
(* an expiry no earlier than h + 2 * Ttl, or h is long ago.                *)
(***************************************************************************)
EXTENDS CronJobWorker, TLAPS

\* The times on record lie in the past, within the horizon.
TimesOK ==
    /\ lock.expiredAt >= -Horizon
    /\ \A i \in Instances : /\ t[i] >= -Horizon /\ t[i] <= skew[i]
                            /\ held[i] >= -Horizon

\* Who leads, or is about to.
Elected(i) == role[i] = "Leader" \/ pc[i] = "start"

Covered(i) ==
    \/ /\ lock.owner = i
       /\ held[i] + 2 * Ttl <= lock.expiredAt \/ held[i] = -Horizon
    \/ held[i] + 2 * Ttl < MaxSkew

LeaseInv == \A i \in Instances : Elected(i) /\ ~doubt[i] => Covered(i)

\* A follower's round is run by a follower, a leader's round by a leader.
RoundInv ==
    \A i \in Instances :
        /\ pc[i] \in {"expired", "preempt", "start"} => role[i] = "Worker"
        /\ pc[i] \in {"renew", "stop"} => role[i] = "Leader"
        /\ tasks[i] => role[i] = "Leader"

--------------------------------------------------------------------------------
\* Every step preserves the types.
LEMMA TypeStep == TypeOK /\ [Next]_vars => TypeOK'
<1> SUFFICES ASSUME TypeOK, [Next]_vars PROVE TypeOK'
  OBVIOUS
<1> USE WorkerAssumption DEF TypeOK, Rounds
<1>1. ASSUME NEW i \in Instances, Expired(i) \/ CallPreempt(i) \/ CallRenew(i)
      PROVE  TypeOK'
  BY <1>1 DEF Expired, CallPreempt, CallRenew
<1>2. ASSUME NEW i \in Instances, Preempt(i) \/ Renew(i) PROVE TypeOK'
  <2>1. lock' \in [owner : Instances \cup {Nobody}, expiredAt : Int]
    BY <1>2 DEF Preempt, Renew, Granted
  <2>2. used' \in [fault : 0 .. MaxFaults, crash : 0 .. MaxCrashes]
    BY <1>2 DEF Preempt, Renew, Granted, Fault
  <2>3. held' \in [Instances -> Int]
    BY <1>2 DEF Preempt, Renew, Granted
  <2>5. \E b \in BOOLEAN : doubt' = [doubt EXCEPT ![i] = b]
    BY <1>2, Zenon DEF Preempt, Renew, Granted
  <2>6. doubt' \in [Instances -> BOOLEAN]
    BY <2>5, Zenon
  <2>4. pc' \in [Instances -> Rounds] /\ t' \in [Instances -> Int]
    BY <1>2 DEF Preempt, Renew, EndRound
  <2> QED BY <1>2, <2>1, <2>2, <2>3, <2>4, <2>6 DEF Preempt, Renew
<1>3. ASSUME NEW i \in Instances, PreemptFails(i) \/ RenewFails(i) PROVE TypeOK'
  <2>1. used' \in [fault : 0 .. MaxFaults, crash : 0 .. MaxCrashes]
    BY <1>3 DEF PreemptFails, RenewFails, Fault
  <2> QED BY <1>3, <2>1 DEF PreemptFails, RenewFails, EndRound
<1>4. ASSUME NEW i \in Instances, StartTasks(i) \/ StopTasks(i) PROVE TypeOK'
  <2>1. tasks' \in [Instances -> BOOLEAN]
    BY <1>4, Zenon DEF StartTasks, StopTasks
  <2>2. role' \in [Instances -> {"Leader", "Worker"}]
    BY <1>4 DEF StartTasks, StopTasks
  <2> QED BY <1>4, <2>1, <2>2 DEF StartTasks, StopTasks, EndRound
<1>5. ASSUME NEW i \in Instances, StartTasksFails(i) \/ StopTasksFails(i) PROVE TypeOK'
  <2>1. used' \in [fault : 0 .. MaxFaults, crash : 0 .. MaxCrashes]
    BY <1>5 DEF StartTasksFails, StopTasksFails, Fault
  <2>2. tasks' \in [Instances -> BOOLEAN]
    BY <1>5, Zenon DEF StartTasksFails, StopTasksFails
  <2> QED BY <1>5, <2>1, <2>2 DEF StartTasksFails, StopTasksFails, EndRound
<1>6. ASSUME NEW i \in Instances, Stop(i) PROVE TypeOK'
  BY <1>6, Zenon DEF Stop
<1>7. ASSUME NEW i \in Instances, Crash(i) PROVE TypeOK'
  <2>1. lock' \in [owner : Instances \cup {Nobody}, expiredAt : Int]
    BY <1>7 DEF Crash
  <2>2. used' \in [fault : 0 .. MaxFaults, crash : 0 .. MaxCrashes]
    BY <1>7 DEF Crash
  <2> QED BY <1>7, <2>1, <2>2 DEF Crash, EndRound
<1>8. CASE Tick
  <2>1. \A x \in Int : Older(x) \in Int
    BY DEF Older
  <2>2. lock' \in [owner : Instances \cup {Nobody}, expiredAt : Int]
    BY <1>8, <2>1 DEF Tick
  <2>3. t' \in [Instances -> Int] /\ held' \in [Instances -> Int]
    BY <1>8, <2>1 DEF Tick
  <2> QED BY <1>8, <2>2, <2>3 DEF Tick
<1>9. CASE UNCHANGED vars
  BY <1>9 DEF vars
<1> QED
  BY <1>1, <1>2, <1>3, <1>4, <1>5, <1>6, <1>7, <1>8, <1>9 DEF Next, Round

\* The initial state has the types and satisfies the invariants.
LEMMA InitOK == Init => TypeOK /\ TimesOK /\ LeaseInv /\ RoundInv
<1> SUFFICES ASSUME Init PROVE TypeOK /\ TimesOK /\ LeaseInv /\ RoundInv
  OBVIOUS
<1> USE WorkerAssumption DEF Init
<1>1. TypeOK
  BY DEF TypeOK, Rounds
<1>2. TimesOK
  BY DEF TimesOK
<1>3. LeaseInv
  BY DEF LeaseInv, Elected
<1>4. RoundInv
  BY DEF RoundInv
<1> QED BY <1>1, <1>2, <1>3, <1>4

\* The times on record stay in the past and within the horizon.
LEMMA TimesStep == TypeOK /\ TimesOK /\ [Next]_vars => TimesOK'
<1> SUFFICES ASSUME TypeOK, TimesOK, [Next]_vars PROVE TimesOK'
  OBVIOUS
<1> USE WorkerAssumption DEF TypeOK, TimesOK
<1>1. ASSUME NEW i \in Instances, Expired(i) \/ CallPreempt(i) \/ CallRenew(i)
      PROVE  TimesOK'
  BY <1>1 DEF Expired, CallPreempt, CallRenew
<1>2. ASSUME NEW i \in Instances, Preempt(i) \/ Renew(i) PROVE TimesOK'
  <2>1. lock'.expiredAt >= -Horizon
    BY <1>2 DEF Preempt, Renew, Granted
  <2>2. \A k \in Instances : held'[k] >= -Horizon
    BY <1>2 DEF Preempt, Renew, Granted
  <2>3. \A k \in Instances : t'[k] >= -Horizon /\ t'[k] <= skew'[k]
    BY <1>2 DEF Preempt, Renew, EndRound
  <2> QED BY <2>1, <2>2, <2>3
<1>3. ASSUME NEW i \in Instances,
             \/ PreemptFails(i) \/ RenewFails(i) \/ StartTasks(i) \/ StartTasksFails(i)
             \/ StopTasks(i) \/ StopTasksFails(i)
      PROVE  TimesOK'
  <2>1. UNCHANGED <<lock, held, skew>>
    BY <1>3 DEF PreemptFails, RenewFails, StartTasks, StartTasksFails, StopTasks,
                StopTasksFails
  <2>2. t' = t \/ t' = [t EXCEPT ![i] = -Horizon]
    BY <1>3 DEF PreemptFails, RenewFails, StartTasks, StartTasksFails, StopTasks,
                StopTasksFails, EndRound
  <2> QED BY <2>1, <2>2
<1>4. ASSUME NEW i \in Instances, Stop(i) \/ Crash(i) PROVE TimesOK'
  <2>1. lock'.expiredAt = lock.expiredAt
    BY <1>4, Zenon DEF Stop, Crash
  <2>2. t' = t \/ t' = [t EXCEPT ![i] = -Horizon]
    BY <1>4, Zenon DEF Stop, Crash, EndRound
  <2>3. UNCHANGED <<held, skew>>
    BY <1>4, Zenon DEF Stop, Crash
  <2> QED BY <2>1, <2>2, <2>3
<1>5. CASE Tick
  BY <1>5 DEF Tick, Older
<1>6. CASE UNCHANGED vars
  BY <1>6 DEF vars
<1> QED
  BY <1>1, <1>2, <1>3, <1>4, <1>5, <1>6 DEF Next, Round

\* Rounds fit the role of the instance that runs them.
LEMMA RoundStep == TypeOK /\ RoundInv /\ [Next]_vars => RoundInv'
<1> SUFFICES ASSUME TypeOK, RoundInv, [Next]_vars PROVE RoundInv'
  OBVIOUS
<1> USE DEF TypeOK, RoundInv
<1>1. ASSUME NEW i \in Instances, Expired(i) \/ CallPreempt(i) \/ CallRenew(i)
      PROVE  RoundInv'
  BY <1>1 DEF Expired, CallPreempt, CallRenew
<1>2. ASSUME NEW i \in Instances, Preempt(i) \/ Renew(i) PROVE RoundInv'
  BY <1>2 DEF Preempt, Renew, EndRound
<1>3. ASSUME NEW i \in Instances, PreemptFails(i) \/ RenewFails(i) \/ StartTasksFails(i)
      PROVE  RoundInv'
  BY <1>3 DEF PreemptFails, RenewFails, StartTasksFails, EndRound
<1>4. ASSUME NEW i \in Instances, StartTasks(i) \/ StopTasks(i) \/ StopTasksFails(i)
      PROVE  RoundInv'
  <2>1. CASE StartTasks(i)
    BY <2>1 DEF StartTasks, EndRound
  <2>2. CASE StopTasks(i)
    BY <2>2 DEF StopTasks, EndRound
  <2>3. CASE StopTasksFails(i)
    BY <2>3 DEF StopTasksFails, EndRound
  <2> QED BY <1>4, <2>1, <2>2, <2>3
<1>5. ASSUME NEW i \in Instances, Stop(i) \/ Crash(i) PROVE RoundInv'
  <2>1. CASE Stop(i)
    <3>1. \A k \in Instances : tasks'[k] => tasks[k]
      BY <2>1, Zenon DEF Stop
    <3> QED BY <2>1, <3>1 DEF Stop
  <2>2. CASE Crash(i)
    <3>1. ~tasks'[i] /\ \A k \in Instances : k # i => tasks'[k] = tasks[k]
      BY <2>2, Zenon DEF Crash
    <3> QED BY <2>2, <3>1 DEF Crash, EndRound
  <2> QED BY <1>5, <2>1, <2>2
<1>6. CASE Tick
  BY <1>6 DEF Tick
<1>7. CASE UNCHANGED vars
  BY <1>7 DEF vars
<1> QED
  BY <1>1, <1>2, <1>3, <1>4, <1>5, <1>6, <1>7 DEF Next, Round

--------------------------------------------------------------------------------
\* A grant that takes effect covers the instance, and whoever loses the lock to
\* it has not renewed it for long.
LEMMA GrantStep ==
  ASSUME TypeOK, TimesOK, LeaseInv, NEW i \in Instances, Granted(i),
         lock.owner = i \/ lock.expiredAt < t[i], NEW k \in Instances,
         k # i => Elected(k), ~doubt'[k]
  PROVE  Covered(k)'
<1> USE WorkerAssumption DEF TypeOK, TimesOK
<1>1. CASE lock' = lock /\ doubt' = [doubt EXCEPT ![i] = TRUE]
  <2>1. k # i /\ doubt'[k] = doubt[k]
    BY <1>1, Zenon
  <2>2. held'[k] = held[k]
    BY <2>1 DEF Granted
  <2> QED BY <1>1, <2>1, <2>2 DEF LeaseInv, Covered
<1>2. CASE lock' = [owner |-> i, expiredAt |-> t[i] + 2 * Ttl]
  <2>1. CASE k = i
    BY <1>2, <2>1 DEF Granted, Covered
  <2>2. CASE k # i
    <3>0. ~doubt[k]
      BY <1>2, <2>2, Zenon DEF Granted
    <3>1. held'[k] = held[k] /\ ~doubt[k]
      BY <2>2, <3>0 DEF Granted
    <3>2. Covered(k)
      BY <2>2, <3>1 DEF LeaseInv
    <3>3. held[k] + 2 * Ttl < MaxSkew
      BY <2>2, <3>2 DEF Covered
    <3> QED BY <3>1, <3>3 DEF Covered
  <2> QED BY <2>1, <2>2
<1> QED BY <1>1, <1>2 DEF Granted

\* Time does not uncover an instance.
LEMMA TickStep ==
  ASSUME TypeOK, TimesOK, Tick, NEW k \in Instances, Covered(k)
  PROVE  Covered(k)'
BY WorkerAssumption DEF TypeOK, TimesOK, Tick, Covered, Older

\* Leases are respected by every step.
LEMMA LeaseStep == TypeOK /\ TimesOK /\ RoundInv /\ LeaseInv /\ [Next]_vars => LeaseInv'
<1> SUFFICES ASSUME TypeOK, TimesOK, RoundInv, LeaseInv, [Next]_vars,
                    NEW k \in Instances, Elected(k)', ~doubt'[k]
             PROVE  Covered(k)'
  BY DEF LeaseInv
<1>1. ASSUME NEW i \in Instances, Expired(i) \/ CallPreempt(i) \/ CallRenew(i)
      PROVE  Covered(k)'
  BY <1>1 DEF Expired, CallPreempt, CallRenew, LeaseInv, Elected, Covered, TypeOK
<1>2. ASSUME NEW i \in Instances, Preempt(i) PROVE Covered(k)'
  <2>1. k # i => Elected(k)
    BY <1>2 DEF Preempt, Elected, TypeOK
  <2> QED BY <1>2, <2>1, GrantStep DEF Preempt
<1>3. ASSUME NEW i \in Instances, Renew(i) PROVE Covered(k)'
  <2>1. k # i => Elected(k)
    BY <1>3 DEF Renew, EndRound, Elected, TypeOK
  <2> QED BY <1>3, <2>1, GrantStep DEF Renew
<1>4. ASSUME NEW i \in Instances, PreemptFails(i) \/ RenewFails(i) \/ StartTasksFails(i)
      PROVE  Covered(k)'
  BY <1>4 DEF PreemptFails, RenewFails, StartTasksFails, EndRound, LeaseInv, Elected,
              Covered, TypeOK
<1>5. ASSUME NEW i \in Instances, StartTasks(i) \/ StopTasks(i) \/ StopTasksFails(i)
      PROVE  Covered(k)'
  BY <1>5 DEF StartTasks, StopTasks, StopTasksFails, EndRound, LeaseInv, Elected,
              Covered, TypeOK
<1>6. ASSUME NEW i \in Instances, Stop(i) PROVE Covered(k)'
  BY <1>6 DEF Stop, LeaseInv, Elected, Covered, TypeOK
<1>7. ASSUME NEW i \in Instances, Crash(i) PROVE Covered(k)'
  <2>1. k # i /\ Elected(k) /\ ~doubt[k] /\ held'[k] = held[k]
    BY <1>7 DEF Crash, EndRound, Elected, TypeOK
  <2>2. Covered(k)
    BY <2>1 DEF LeaseInv
  <2>3. lock'.expiredAt = lock.expiredAt /\ (lock.owner = k => lock'.owner = k)
    BY <1>7, <2>1 DEF Crash, TypeOK
  <2> QED BY <2>1, <2>2, <2>3 DEF Covered
<1>8. CASE Tick
  <2>1. Elected(k) /\ ~doubt[k]
    BY <1>8 DEF Tick, Elected
  <2> QED BY <1>8, <2>1, TickStep DEF LeaseInv
<1>9. CASE UNCHANGED vars
  BY <1>9 DEF vars, LeaseInv, Elected, Covered
<1> QED
  BY <1>1, <1>2, <1>3, <1>4, <1>5, <1>6, <1>7, <1>8, <1>9 DEF Next, Round

--------------------------------------------------------------------------------
\* The row, the roles and the rounds keep their types.
THEOREM TypeCorrect == Spec => []TypeOK
BY InitOK, TypeStep, PTL DEF Spec

\* The invariants hold in every reachable state.
LEMMA Invariants == Spec => [](TypeOK /\ TimesOK /\ RoundInv /\ LeaseInv)
<1>1. Init => TypeOK /\ TimesOK /\ RoundInv /\ LeaseInv
  BY InitOK
<1>2. TypeOK /\ TimesOK /\ RoundInv /\ LeaseInv /\ [Next]_vars
        => (TypeOK /\ TimesOK /\ RoundInv /\ LeaseInv)'
  BY TypeStep, TimesStep, RoundStep, LeaseStep
<1> QED BY <1>1, <1>2, PTL DEF Spec

\* A leader that was granted the lock less than 2 * Ttl - MaxSkew ago owns the
\* row: PreemptDistributedLock compares the expiry in the same statement that
\* takes the lock, and RenewDistributedLock names the owner.
THEOREM PunctualLeadersOwn == Spec => []PunctualLeaderOwns
<1>1. TypeOK /\ LeaseInv => PunctualLeaderOwns
  BY WorkerAssumption DEF TypeOK, LeaseInv, Elected, Covered, PunctualLeaderOwns
<1> QED BY <1>1, Invariants, PTL

\* startTasks and stopTasks are called in turn: no scheduler is lost, and none
\* runs at a follower.
THEOREM TasksOnlyOfLeaders == Spec => []TasksOnlyOfLeader
<1>1. TypeOK /\ RoundInv => TasksOnlyOfLeader
  BY DEF TypeOK, RoundInv, TasksOnlyOfLeader
<1> QED BY <1>1, Invariants, PTL

================================================================================
