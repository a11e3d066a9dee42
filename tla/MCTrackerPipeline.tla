-------------------------- MODULE MCTrackerPipeline --------------------------
(* TrackerPipeline for TLC: one or two trackers, every tracker of the first *)
(* user unless a run says otherwise, and bounds on what may pile up.        *)
EXTENDS TrackerPipeline, TLC

CONSTANTS u1, t1, t2

OneOwner == [t \in Trackers |-> u1]

(* Bound: the two flags only sweeps read stay as they are. *)
FlagsKept == \A t \in Trackers : tracker[t].active /\ ~tracker[t].deleted

(* Bound: a tracker that is gone is not gone on with after a fault; it is   *)
(* gone for good, and only its logs, which the fault excuses, are left.     *)
GoneLeft == faults > 0 => \A t \in Trackers : tracker[t].row # "gone"

(* Bound: the owner is in the guild, and its trackers are processed. *)
GuildKept == \A g \in Guilds : processing[g] /\ \A u \in Users : g \in member[u]

(* Processes, slots, requests and sweeps are interchangeable. *)
Symmetry == Permutations(Workers) \cup Permutations(Jobs)
              \cup Permutations(Requests) \cup Permutations(Sweepers)
===============================================================================
