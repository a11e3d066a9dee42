---------------------------- MODULE TrackerEnqueue ----------------------------
(***************************************************************************)
(* Everything that puts scraping jobs on the queue:                        *)
(*   requests - registering or adding a tracker (TrackerQueueOrchestrator) *)
(*              and the admin refresh of one tracker (refreshTrackerData); *)
(*   sweeps   - the refresh cron and its manual trigger, the pending sweep *)
(*              of the bot, and the sweep of one guild.                    *)
(* Each is a few awaited calls, run concurrently with the workers and with *)
(* each other: no call locks a tracker or looks for a job it already has.  *)
(***************************************************************************)
EXTENDS TrackerStore

CONSTANTS
  Guilds,    \* the Discord guilds
  Requests,  \* requests served at the same time
  Sweepers   \* sweeps running at the same time

VARIABLES
  request,    \* request[r]: where request r stands, and its tracker
  sweep,      \* sweep[s]: where sweep s stands, and the ids it has left to add
  member,     \* member[u]: the guilds u is a member of, not deleted nor banned
  processing  \* processing[g]: settings.trackerProcessing.enabled # false

enqueueVars == <<request, sweep, member, processing>>
settingVars == <<member, processing>>

-------------------------------------------------------------------------------
RequestStep == {"idle", "guard", "reject", "add", "addFailed",
                "refreshGuard", "refreshMark", "refreshAdd"}

Waiting == [pc |-> "idle", tracker |-> NoTracker]
Asleep == [pc |-> "idle", ids |-> {}]

EnqueueTypeOK ==
  /\ request \in [Requests -> [pc: RequestStep, tracker: Trackers \cup {NoTracker}]]
  /\ sweep \in [Sweepers -> [pc: {"idle", "filter", "add"}, ids: SUBSET Trackers]]
  /\ member \in [Users -> SUBSET Guilds]
  /\ processing \in [Guilds -> BOOLEAN]

EnqueueInit ==
  /\ request = [r \in Requests |-> Waiting]
  /\ sweep = [s \in Sweepers |-> Asleep]
  /\ member \in [Users -> SUBSET Guilds]
  /\ processing \in [Guilds -> BOOLEAN]

-------------------------------------------------------------------------------
(* canProcessTrackerForUser: some guild of the user processes trackers, or  *)
(* the user has no guild.                                                   *)
CanProcessUser(u) == member[u] = {} \/ \E g \in member[u] : processing[g]

(* canProcessTracker: findUserIdById also finds soft-deleted trackers. *)
CanProcess(t) == Live(t) /\ CanProcessUser(Owner[t])

(* findPending *)
Pending(t) ==
  /\ Live(t) /\ tracker[t].active /\ ~tracker[t].deleted
  /\ tracker[t].status = "PENDING"

(* findPendingAndStale *)
Due(t) ==
  /\ Live(t) /\ tracker[t].active /\ ~tracker[t].deleted
  /\ tracker[t].status # "IN_PROGRESS"
  /\ tracker[t].status = "PENDING" \/ tracker[t].scraped # "fresh"

(* findPendingAndStaleForGuild: those of its members. *)
DueInGuild(t, g) == Due(t) /\ g \in member[Owner[t]]

-------------------------------------------------------------------------------
(* Requests.                                                                *)

Ask(r, pc, t) == request' = [request EXCEPT ![r] = [pc |-> pc, tracker |-> t]]
Answer(r) == request' = [request EXCEPT ![r] = Waiting]
Requested(r) == request[r].tracker
In(r, pc) == request[r].pc = pc

(* createTracker: the row is PENDING, and visible to the sweeps, before the *)
(* guard has been asked.                                                    *)
Register(r, t) ==
  /\ In(r, "idle") /\ tracker[t].row = "none"
  /\ tracker' = [tracker EXCEPT ![t] = NewRow]
  /\ Ask(r, "guard", t)
  /\ UNCHANGED <<seasons, job, abandoned, faults, sweep, settingVars>>

(* The guard answers TRUE when it fails. *)
Guard(r) ==
  /\ In(r, "guard")
  /\ \/ /\ Ask(r, IF CanProcess(Requested(r)) THEN "add" ELSE "reject", Requested(r))
        /\ UNCHANGED faults
     \/ Fault /\ Ask(r, "add", Requested(r))
  /\ UNCHANGED <<tracker, seasons, job, abandoned, sweep, settingVars>>

(* update to FAILED with scrapingAttempts 1, whatever the row holds by now; *)
(* an error is logged and dropped.                                          *)
WriteFailedOnce(r) ==
  \/ /\ Live(Requested(r)) /\ UNCHANGED faults
     /\ WriteStatus(Requested(r), "FAILED", tracker[Requested(r)].scraped, 1)
  \/ ~Live(Requested(r)) /\ UNCHANGED <<tracker, abandoned, faults>>
  \/ Fault /\ UNCHANGED <<tracker, abandoned>>

Reject(r) ==
  /\ In(r, "reject")
  /\ WriteFailedOnce(r) /\ Answer(r)
  /\ UNCHANGED <<seasons, job, sweep, settingVars>>

(* addScrapingJob, fire and forget. *)
EnqueueNew(r) ==
  /\ In(r, "add")
  /\ \/ AddJob(Requested(r)) /\ Answer(r) /\ UNCHANGED faults
     \/ Fault /\ Ask(r, "addFailed", Requested(r)) /\ UNCHANGED job
  /\ UNCHANGED <<tracker, seasons, abandoned, sweep, settingVars>>

EnqueueFailed(r) ==
  /\ In(r, "addFailed")
  /\ WriteFailedOnce(r) /\ Answer(r)
  /\ UNCHANGED <<seasons, job, sweep, settingVars>>

(* refreshTrackerData: findById also returns soft-deleted trackers ...      *)
Refresh(r, t) ==
  /\ In(r, "idle") /\ Live(t)
  /\ Ask(r, "refreshGuard", t)
  /\ UNCHANGED <<storeVars, sweep, settingVars>>

RefreshGuard(r) ==
  /\ In(r, "refreshGuard")
  /\ \/ CanProcess(Requested(r)) /\ Ask(r, "refreshMark", Requested(r)) /\ UNCHANGED faults
     \/ ~CanProcess(Requested(r)) /\ Answer(r) /\ UNCHANGED faults
     \/ Fault /\ Ask(r, "refreshMark", Requested(r))
  /\ UNCHANGED <<tracker, seasons, job, abandoned, sweep, settingVars>>

(* Mutant: the next scrape is made a first one again. *)
RefreshMark_ForcesFirst(r) ==
  /\ In(r, "refreshMark") /\ Live(Requested(r))
  /\ WriteStatus(Requested(r), "PENDING", "never", tracker[Requested(r)].attempts)
  /\ Ask(r, "refreshAdd", Requested(r))
  /\ UNCHANGED <<seasons, job, faults, sweep, settingVars>>

(* ... and PENDING is written over any status, IN_PROGRESS included ...     *)
RefreshMark(r) ==
  /\ In(r, "refreshMark")
  /\ \/ /\ Live(Requested(r)) /\ UNCHANGED faults
        /\ WriteStatus(Requested(r), "PENDING", tracker[Requested(r)].scraped,
                       tracker[Requested(r)].attempts)
        /\ Ask(r, "refreshAdd", Requested(r))
     \/ ~Live(Requested(r)) /\ Answer(r) /\ UNCHANGED <<tracker, abandoned, faults>>
     \/ Fault /\ Answer(r) /\ UNCHANGED <<tracker, abandoned>>
  /\ UNCHANGED <<seasons, job, sweep, settingVars>>

(* ... before the job is added: if that fails the tracker stays PENDING.    *)
RefreshAdd(r) ==
  /\ In(r, "refreshAdd")
  /\ \/ AddJob(Requested(r)) /\ UNCHANGED faults
     \/ Fault /\ UNCHANGED job
  /\ Answer(r)
  /\ UNCHANGED <<tracker, seasons, abandoned, sweep, settingVars>>

RequestCrash(r) ==
  /\ ~In(r, "idle") /\ Fault
  /\ Answer(r)
  /\ UNCHANGED <<tracker, seasons, job, abandoned, sweep, settingVars>>

RequestStepOf(r) ==
  \/ Guard(r) \/ Reject(r) \/ EnqueueNew(r) \/ EnqueueFailed(r)
  \/ RefreshGuard(r) \/ RefreshMark(r) \/ RefreshAdd(r)

-------------------------------------------------------------------------------
(* Sweeps.                                                                  *)

Select(s, pc, ids) ==
  /\ sweep[s].pc = "idle" /\ ids # {}
  /\ sweep' = [sweep EXCEPT ![s] = [pc |-> pc, ids |-> ids]]
  /\ UNCHANGED <<storeVars, request, settingVars>>

(* Mutant: the refresh looks for pending trackers only. *)
RefreshSweep_PendingOnly(s) == Select(s, "filter", {t \in Trackers : Pending(t)})

(* scheduledRefresh, and triggerManualRefresh without ids *)
RefreshSweep(s) == Select(s, "filter", {t \in Trackers : Due(t)})

(* processPendingTrackers *)
PendingSweep(s) == Select(s, "filter", {t \in Trackers : Pending(t)})

(* processPendingTrackersForGuild: does not ask the guard. *)
GuildSweep(s, g) ==
  Select(s, "add", {t \in Trackers : DueInGuild(t, g)})

(* triggerManualRefresh with ids: they are not looked up at all. *)
ManualSweep(s) ==
  \E ids \in SUBSET {t \in Trackers : tracker[t].row # "none"} : Select(s, "add", ids)

(* filterProcessableTrackers: on an error, all of them. *)
Filter(s) ==
  /\ sweep[s].pc = "filter"
  /\ \E kept \in {{t \in sweep[s].ids : CanProcess(t)}, sweep[s].ids} :
       /\ IF kept = {t \in sweep[s].ids : CanProcess(t)} THEN UNCHANGED faults ELSE Fault
       /\ sweep' = [sweep EXCEPT ![s] = IF kept = {} THEN Asleep
                                        ELSE [pc |-> "add", ids |-> kept]]
  /\ UNCHANGED <<tracker, seasons, job, abandoned, request, settingVars>>

(* addBatchScrapingJobs: the adds run together, one that fails stops none   *)
(* of the others, and nothing is written to its tracker.                    *)
Add(s, t) ==
  /\ sweep[s].pc = "add" /\ t \in sweep[s].ids
  /\ \/ AddJob(t) /\ UNCHANGED faults
     \/ Fault /\ UNCHANGED job
  /\ sweep' = [sweep EXCEPT ![s] = IF sweep[s].ids = {t} THEN Asleep
                                   ELSE [sweep[s] EXCEPT !.ids = @ \ {t}]]
  /\ UNCHANGED <<tracker, seasons, abandoned, request, settingVars>>

SweepCrash(s) ==
  /\ sweep[s].pc # "idle" /\ Fault
  /\ sweep' = [sweep EXCEPT ![s] = Asleep]
  /\ UNCHANGED <<tracker, seasons, job, abandoned, request, settingVars>>

-------------------------------------------------------------------------------
(* The settings the guard reads.                                            *)

ToggleProcessing(g) ==
  /\ processing' = [processing EXCEPT ![g] = ~@]
  /\ UNCHANGED <<storeVars, request, sweep, member>>

(* A membership is created, restored, deleted or banned. *)
ChangeMembership(u, g) ==
  /\ member' = [member EXCEPT ![u] = IF g \in @ THEN @ \ {g} ELSE @ \cup {g}]
  /\ UNCHANGED <<storeVars, request, sweep, processing>>

-------------------------------------------------------------------------------
EnqueueNext ==
  \/ \E r \in Requests :
       \/ RequestStepOf(r) \/ RequestCrash(r)
       \/ \E t \in Trackers : Register(r, t) \/ Refresh(r, t)
  \/ \E s \in Sweepers :
       \/ RefreshSweep(s) \/ PendingSweep(s) \/ ManualSweep(s)
       \/ \E g \in Guilds : GuildSweep(s, g)
       \/ Filter(s) \/ SweepCrash(s)
       \/ \E t \in Trackers : Add(s, t)
  \/ \E g \in Guilds : ToggleProcessing(g)
  \/ \E u \in Users, g \in Guilds : ChangeMembership(u, g)
===============================================================================
