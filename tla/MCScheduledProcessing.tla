------------------------ MODULE MCScheduledProcessing ------------------------
(* ScheduledProcessing for TLC: one or two schedules, a few instants.       *)
EXTENDS ScheduledProcessing, TLC

(* Schedules and processes are interchangeable. *)
Symmetry == Permutations(Schedules) \cup Permutations(Processes)
===============================================================================
