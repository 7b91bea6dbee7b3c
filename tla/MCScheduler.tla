---------------------------- MODULE MCScheduler ----------------------------
(* Scheduler with two stack slots besides those of the first two threads,   *)
(* and one or two wait queues.                                              *)
EXTENDS Scheduler

CONSTANTS Slots

=============================================================================
