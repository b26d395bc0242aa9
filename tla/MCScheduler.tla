---------------------------- MODULE MCScheduler ----------------------------
(***************************************************************************)
(* A small instance of Scheduler.                                          *)
(***************************************************************************)
EXTENDS Scheduler

TwoRecipients == <<"r1", "r2">>
=============================================================================
