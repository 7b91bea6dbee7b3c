------------------------------ MODULE MCTimers ------------------------------
(* Timers with a pool of two, for the startup thread and two that it may    *)
(* create: all of them sleep at once only if the pool runs dry.             *)
EXTENDS Timers
=============================================================================
