---------------------------- MODULE MCCronService ----------------------------
(* Small instances of CronService for TLC.                                 *)
EXTENDS CronService

MCSchedule ==
  {[kind |-> "at", t |-> 2, once |-> TRUE],
   [kind |-> "at", t |-> 3, once |-> FALSE],
   [kind |-> "every", t |-> 2, once |-> FALSE],
   [kind |-> "cron", t |-> 2, once |-> FALSE]}
=============================================================================
