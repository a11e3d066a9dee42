--------------------------- MODULE ScheduledProcessing ---------------------------
(***************************************************************************)
(* Tracker processing scheduled for a guild: ScheduledTrackerProcessing-    *)
(* Service.  A schedule is a row, and a cron timer in the memory of the     *)
(* process that created it or that found it when it started.  The cron      *)
(* expression of a timer names the second of a year, not the year.          *)
(***************************************************************************)
EXTENDS Naturals, FiniteSets

CONSTANTS
  Schedules,
  Processes,   \* the API processes; two of them overlap during a deployment
  Year,        \* instants in a year
  Ahead,       \* how far ahead a schedule may lie (the code sets no limit)
  Horizon,     \* bound of this model on the time
  MaxFaults,   \* bound of this model on failed calls
  MaxCrashes   \* bound of this model on crashes and shutdowns

ASSUME ScheduledAssumption ==
  /\ Year \in Nat \ {0} /\ IsFiniteSet(Processes)
  /\ {Ahead, Horizon, MaxFaults, MaxCrashes} \subseteq Nat

VARIABLES
  now,
  row,         \* row[s]: status and scheduledAt
  state,       \* state[p]: "up", "stopping" or "down"
  armed,       \* armed[p]: scheduledJobs, the timers of p
  stage,       \* stage[p][s]: how far the creation of the schedule, or the
               \* callback of its timer, has come
  cancelling,  \* cancelling[p][s]: what a cancelSchedule call does next
  queued,      \* history: when the guild's trackers were enqueued for s
  held,        \* history: schedules cancelled while nothing was under way
  faults, crashes

vars == <<now, row, state, armed, stage, cancelling, queued, held, faults, crashes>>

-------------------------------------------------------------------------------
ScheduledProcessingStatus == {"PENDING", "COMPLETED", "CANCELLED", "FAILED"}

Row == [status: ScheduledProcessingStatus \cup {"none"}, at: 0..Horizon]

(* "arm" is what a creation has left to do, the others are the callback's.  *)
Stages == {"none", "arm", "mark", "enqueue", "complete", "fail"}

(* A cancellation has to stop the timer and to write the row: "late" if a   *)
(* creation or a callback was under way when it stopped the timer.          *)
Cancellation == {"none", "stop", "write", "late"}

(* Every variable keeps its type, and a process that is down has neither a  *)
(* timer nor a call under way.                                              *)
TypeOK ==
  /\ now \in 0..Horizon
  /\ row \in [Schedules -> Row]
  /\ state \in [Processes -> {"up", "stopping", "down"}]
  /\ armed \in [Processes -> SUBSET Schedules]
  /\ stage \in [Processes -> [Schedules -> Stages]]
  /\ cancelling \in [Processes -> [Schedules -> Cancellation]]
  /\ queued \in [Schedules -> SUBSET (Processes \X (0..Horizon))]
  /\ held \subseteq Schedules
  /\ faults \in 0..MaxFaults /\ crashes \in 0..MaxCrashes
  /\ \A p \in Processes : state[p] = "down" =>
       armed[p] = {} /\ \A s \in Schedules : stage[p][s] = "none" /\ cancelling[p][s] = "none"

Init ==
  /\ now = 0
  /\ row = [s \in Schedules |-> [status |-> "none", at |-> 0]]
  /\ state = [p \in Processes |-> "up"]
  /\ armed = [p \in Processes |-> {}]
  /\ stage = [p \in Processes |-> [s \in Schedules |-> "none"]]
  /\ cancelling = [p \in Processes |-> [s \in Schedules |-> "none"]]
  /\ queued = [s \in Schedules |-> {}]
  /\ held = {}
  /\ faults = 0 /\ crashes = 0

-------------------------------------------------------------------------------
Stage(p, s, to) == stage' = [stage EXCEPT ![p] = [@ EXCEPT ![s] = to]]
Cancelling(p, s, to) == cancelling' = [cancelling EXCEPT ![p] = [@ EXCEPT ![s] = to]]
WriteStatus(s, status) == row' = [row EXCEPT ![s] = [status |-> status, at |-> @.at]]
Disarm(p, s) == armed' = [armed EXCEPT ![p] = @ \ {s}]

Fault == faults < MaxFaults /\ faults' = faults + 1

(* createSchedule: the date is in the future, and the row is there before   *)
(* its timer is: whoever lists the schedules may cancel it meanwhile ...     *)
Create(p, s) ==
  /\ state[p] = "up" /\ row[s].status = "none"
  /\ \E at \in (now + 1 .. now + Ahead) \cap (0..Horizon) :
       row' = [row EXCEPT ![s] = [status |-> "PENDING", at |-> at]]
  /\ Stage(p, s, "arm")
  /\ UNCHANGED <<now, state, armed, cancelling, queued, held, faults, crashes>>

(* ... and the timer is armed whatever the row says by then, even if its    *)
(* time has passed; not, if the insert was not seen to succeed.             *)
Arm(p, s) ==
  /\ stage[p][s] = "arm" /\ Stage(p, s, "none")
  /\ \/ armed' = [armed EXCEPT ![p] = @ \cup {s}] /\ UNCHANGED faults
     \/ Fault /\ UNCHANGED armed
  /\ UNCHANGED <<now, row, state, cancelling, queued, held, crashes>>

(* Mutant: the day and the month are left out of the expression as well. *)
Due_EveryInstant(s) == row[s].status # "none"

(* dateToCronExpression *)
Due(s) == now % Year = row[s].at % Year

(* An armed timer whose instant has come, and whose callback is not running. *)
Ripe(p, s) == s \in armed[p] /\ Due(s) /\ stage[p][s] = "none"

(* The timer fires; its callback runs to its first await. *)
Fire(p, s) ==
  /\ Ripe(p, s)
  /\ Stage(p, s, "mark")
  /\ UNCHANGED <<now, row, state, armed, cancelling, queued, held, faults, crashes>>

(* The row is kept PENDING until the execution completes. *)
Mark(p, s) ==
  /\ stage[p][s] = "mark"
  /\ \/ WriteStatus(s, "PENDING") /\ Stage(p, s, "enqueue") /\ UNCHANGED faults
     \/ Fault /\ Stage(p, s, "fail") /\ UNCHANGED row
  /\ UNCHANGED <<now, state, armed, cancelling, queued, held, crashes>>

(* processPendingTrackersForGuild, which does not look at the toggle; when  *)
(* it throws, the batch may have been enqueued in part.                     *)
Enqueue(p, s) ==
  LET done == [queued EXCEPT ![s] = @ \cup {<<p, now>>}] IN
    /\ stage[p][s] = "enqueue"
    /\ \/ queued' = done /\ Stage(p, s, "complete") /\ UNCHANGED faults
       \/ Fault /\ Stage(p, s, "fail") /\ queued' \in {queued, done}
    /\ UNCHANGED <<now, row, state, armed, cancelling, held, crashes>>

(* COMPLETED is written and the finally block disarms the timer. *)
Complete(p, s) ==
  /\ stage[p][s] = "complete"
  /\ \/ WriteStatus(s, "COMPLETED") /\ Stage(p, s, "none") /\ Disarm(p, s) /\ UNCHANGED faults
     \/ Fault /\ Stage(p, s, "fail") /\ UNCHANGED <<row, armed>>
  /\ UNCHANGED <<now, state, cancelling, queued, held, crashes>>

(* Mutant: a failed execution leaves its row alone. *)
Fail_Silently(p, s) ==
  /\ stage[p][s] = "fail"
  /\ Stage(p, s, "none") /\ Disarm(p, s)
  /\ UNCHANGED <<now, row, state, cancelling, queued, held, faults, crashes>>

(* The catch block; an error of its own is swallowed. *)
Fail(p, s) ==
  /\ stage[p][s] = "fail"
  /\ \/ WriteStatus(s, "FAILED") /\ UNCHANGED faults
     \/ Fault /\ UNCHANGED row
  /\ Stage(p, s, "none") /\ Disarm(p, s)
  /\ UNCHANGED <<now, state, cancelling, queued, held, crashes>>

(* cancelSchedule reads the row ...                                          *)
Cancel(p, s) ==
  /\ state[p] = "up" /\ row[s].status = "PENDING" /\ cancelling[p][s] = "none"
  /\ Cancelling(p, s, "stop")
  /\ UNCHANGED <<now, row, state, armed, stage, queued, held, faults, crashes>>

(* Mutant: the timer is left to run. *)
StopTimer_Row(p, s) ==
  /\ cancelling[p][s] = "stop"
  /\ Cancelling(p, s, IF stage[p][s] = "none" THEN "write" ELSE "late")
  /\ UNCHANGED <<now, row, state, armed, stage, queued, held, faults, crashes>>

(* ... stops the timer, if there is one - not a callback that runs already, *)
(* nor the timer of another process ...                                     *)
StopTimer(p, s) ==
  /\ cancelling[p][s] = "stop"
  /\ Cancelling(p, s, IF stage[p][s] = "none" THEN "write" ELSE "late")
  /\ Disarm(p, s)
  /\ UNCHANGED <<now, row, state, stage, queued, held, faults, crashes>>

(* ... and writes the row, whatever it holds by now, unless the call fails. *)
CancelWrite(p, s) ==
  /\ cancelling[p][s] \in {"write", "late"} /\ Cancelling(p, s, "none")
  /\ \/ /\ WriteStatus(s, "CANCELLED") /\ UNCHANGED faults
        /\ held' = IF cancelling[p][s] = "write" THEN held \cup {s} ELSE held
     \/ Fault /\ UNCHANGED <<row, held>>
  /\ UNCHANGED <<now, state, armed, stage, queued, crashes>>

(* onApplicationShutdown stops the timers; callbacks run on until the end. *)
Shutdown(p) ==
  /\ state[p] = "up" /\ crashes < MaxCrashes /\ crashes' = crashes + 1
  /\ state' = [state EXCEPT ![p] = "stopping"]
  /\ armed' = [armed EXCEPT ![p] = {}]
  /\ UNCHANGED <<now, row, stage, cancelling, queued, held, faults>>

Stop(p) ==
  /\ \/ state[p] = "stopping" /\ UNCHANGED crashes
     \/ state[p] = "up" /\ crashes < MaxCrashes /\ crashes' = crashes + 1
  /\ state' = [state EXCEPT ![p] = "down"]
  /\ armed' = [armed EXCEPT ![p] = {}]
  /\ stage' = [stage EXCEPT ![p] = [s \in Schedules |-> "none"]]
  /\ cancelling' = [cancelling EXCEPT ![p] = [s \in Schedules |-> "none"]]
  /\ UNCHANGED <<now, row, queued, held, faults>>

(* loadPendingSchedules *)
Loaded == {s \in Schedules : row[s].status = "PENDING" /\ row[s].at > now}

(* Mutant: a process starts without looking for pending schedules. *)
Start_Forgets(p) ==
  /\ state[p] = "down" /\ state' = [state EXCEPT ![p] = "up"]
  /\ UNCHANGED <<now, row, armed, stage, cancelling, queued, held, faults, crashes>>

Start(p) ==
  /\ state[p] = "down" /\ state' = [state EXCEPT ![p] = "up"]
  /\ armed' = [armed EXCEPT ![p] = Loaded]
  /\ UNCHANGED <<now, row, stage, cancelling, queued, held, faults, crashes>>

(* A timer fires in its instant or, if its process is down, not at all. *)
Tick ==
  /\ now < Horizon
  /\ \A p \in Processes, s \in Schedules : ~Ripe(p, s)
  /\ now' = now + 1
  /\ UNCHANGED <<row, state, armed, stage, cancelling, queued, held, faults, crashes>>

Execute(p, s) ==
  Arm(p, s) \/ Fire(p, s) \/ Mark(p, s) \/ Enqueue(p, s) \/ Complete(p, s) \/ Fail(p, s)

Cancels(p, s) == StopTimer(p, s) \/ CancelWrite(p, s)

Next ==
  \/ \E p \in Processes, s \in Schedules :
       Create(p, s) \/ Execute(p, s) \/ Cancel(p, s) \/ Cancels(p, s)
  \/ \E p \in Processes : Shutdown(p) \/ Stop(p) \/ Start(p)
  \/ Tick

Spec == Init /\ [][Next]_vars

(* Time passes, an awaited call returns, a process that is down is started. *)
FairSpec ==
  /\ Spec /\ WF_vars(Tick)
  /\ \A p \in Processes :
       /\ WF_vars(Start(p))
       /\ \A s \in Schedules : WF_vars(Execute(p, s)) /\ WF_vars(Cancels(p, s))

-------------------------------------------------------------------------------
Alone == Cardinality(Processes) = 1

(* A process that is alone enqueues the trackers for a schedule that lies   *)
(* less than a year ahead once at most, whatever calls fail and whenever it *)
(* restarts.                                                                *)
RunsOnce == Alone /\ Ahead < Year => \A s \in Schedules : Cardinality(queued[s]) <= 1

(* In a process that is alone a cancellation holds, through restarts, if    *)
(* neither the creation nor a callback of the schedule was under way when   *)
(* it stopped the timer: the row stays CANCELLED and nothing is left to run *)
(* it.  One that met a creation leaves a timer behind, which runs it; one   *)
(* that met a callback may be written over.                                 *)
CancelHolds ==
  Alone => \A p \in Processes, s \in held :
             row[s].status = "CANCELLED" /\ s \notin armed[p] /\ stage[p][s] = "none"

(* A process that is alone and up has a timer, or is about to have one, for *)
(* every schedule to come that lies less than a year ahead, also after      *)
(* restarts, unless a call failed: then the row may be PENDING and nothing  *)
(* wait for it.  Further ahead, the timer fires a year early, and the       *)
(* callback may write PENDING over a cancellation.                          *)
PendingArmed ==
  Alone /\ Ahead < Year /\ faults = 0 =>
    \A p \in Processes, s \in Schedules :
      row[s].status = "PENDING" /\ row[s].at > now /\ state[p] = "up" =>
        s \in armed[p] \/ stage[p][s] = "arm" \/ cancelling[p][s] # "none"

(* Timers and rows agree.                                                   *)
TimersAgree == PendingArmed /\ CancelHolds

(* With one failed call at most, a process that stays up brings a schedule  *)
(* it has a timer for in time to an end, or to a cancellation.  A process   *)
(* that goes down may let its time pass, and nothing looks for it then; a   *)
(* timer armed after its time waits for the next year.                      *)
SettlesInTheEnd ==
  \A p \in Processes, s \in Schedules :
    row[s].status = "PENDING" /\ s \in armed[p] /\ row[s].at >= now ~>
      \/ row[s].status # "PENDING" \/ cancelling[p][s] # "none"
      \/ faults > 1 \/ state[p] # "up"

(* A schedule runs at the date and time given, not before, if that is less  *)
(* than a year ahead: the cron expression recurs every year.                *)
NotEarly == Ahead < Year => \A s \in Schedules : \A q \in queued[s] : q[2] >= row[s].at

(* Of whatever fails and restarts, a schedule runs once and not too soon.   *)
RunsOnceInTime == RunsOnce /\ NotEarly
===============================================================================
