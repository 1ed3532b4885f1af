------------------------------- MODULE MCCron -------------------------------
(* Small instances of Cron. *)
EXTENDS Cron

(* Every second unit of time. *)
Regular == {2 * i : i \in 1..MaxTime}
=============================================================================
