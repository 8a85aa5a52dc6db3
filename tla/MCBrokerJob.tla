------------------------------ MODULE MCBrokerJob ------------------------------
(* Instances of BrokerJob for TLC.                                           *)
EXTENDS BrokerJob, TLC

(***************************************************************************)
(* Storage GC with a backlog: jobs are submitted, reported and expire; no  *)
(* cancel, watcher, fetch or failure.  The cron ticker keeps calling GC.   *)
(***************************************************************************)
GcNext == \/ \E j \in Jobs : \/ RunnerStep(j) \/ EngineStep(j) \/ ReportStep(j)
                             \/ Expire(j)
          \/ StorageGc

GcSpec == /\ Init /\ [][GcNext]_vars
          /\ WF_vars(StorageGc)
          /\ \A j \in Jobs : WF_vars(ReportStep(j))
================================================================================
