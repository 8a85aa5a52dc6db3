---------------------------- MODULE MCCronJobWorker ----------------------------
(* CronJobWorker for TLC.                                                     *)
EXTENDS CronJobWorker
================================================================================
