---------------------------- MODULE MCScheduler -----------------------------
(* Scheduler for TLC: one task has a priority of its own.                  *)
EXTENDS Scheduler

MCPriority(t) == IF t = Main THEN 2 ELSE 1
=============================================================================
