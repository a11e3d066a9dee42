----------------------------- MODULE TrackerStore -----------------------------
(***************************************************************************)
(* What the tracker services share: the rows of the trackers table, the    *)
(* seasons stored for each tracker, and the BullMQ queue of scraping jobs. *)
(*                                                                         *)
(* A tracker id is a cuid, so it is never reused: a row goes from "none"   *)
(* to "live", and to "gone" when its user is deleted (ON DELETE CASCADE).  *)
(* A soft-deleted tracker is a live row with deleted = TRUE.               *)
(*                                                                         *)
(* The queue is external (BullMQ on Redis).  A job slot is "free" before   *)
(* the job is added and again once BullMQ has completed or finally failed  *)
(* it.  Slots bound how many jobs exist at once, not how many are run.     *)
(***************************************************************************)
EXTENDS Naturals, FiniteSets

CONSTANTS
  Users,        \* the Discord users
  Trackers,     \* the tracker ids that may be created
  Owner,        \* the user each tracker id is created for
  Workers,      \* the processes that run a TrackerScrapingProcessor
  Jobs,         \* the job slots of the queue
  Latest,       \* number of the season now being played
  MaxHistory,   \* historical seasons fetched by a first scrape (3 in the code)
  MaxTries,     \* attempts of a job (3 in the code)
  MaxStalls,    \* times BullMQ re-runs a stalled job (1, its default)
  AttemptsCap,  \* bound of this model on scrapingAttempts
  MaxFaults,    \* bound of this model on crashes and failed I/O
  NoTracker, NoWorker, NoJob

ASSUME StoreAssumption ==
  /\ Owner \in [Trackers -> Users]
  /\ Latest \in Nat \ {0}
  /\ {MaxHistory, MaxTries, MaxStalls, AttemptsCap, MaxFaults} \subseteq Nat
  /\ AttemptsCap > 0
  /\ NoTracker \notin Trackers
  /\ NoWorker \notin Workers
  /\ NoJob \notin Jobs

(* A job that fails or stalls once is run again.                            *)
ASSUME RetryAssumption == MaxTries > 1 /\ MaxStalls > 0

VARIABLES
  tracker,    \* tracker[t]: the row of tracker t
  seasons,    \* seasons[t]: the season numbers stored for tracker t
  job,        \* job[j]: what the queue holds in slot j
  abandoned,  \* history: trackers whose last execution ended without writing a
              \* final status, and of which BullMQ keeps no job to run again
  faults      \* how many crashes and I/O failures there have been

storeVars == <<tracker, seasons, job, abandoned, faults>>

-------------------------------------------------------------------------------
Status == {"PENDING", "IN_PROGRESS", "COMPLETED", "FAILED"}
Seasons == 1..Latest

(* scrapeSeasons: the current season, and the most recent of the others. *)
History == {s \in Seasons : s < Latest /\ s + MaxHistory >= Latest}

TrackerRow ==
  [row: {"none", "live", "gone"}, status: Status,
   scraped: {"never", "fresh", "stale"},  \* lastScrapedAt: null, recent, past the cutoff
   active: BOOLEAN, deleted: BOOLEAN, attempts: 0..AttemptsCap]

(* A row as trackerRepository.create and the column defaults make it. *)
NewRow == [row |-> "live", status |-> "PENDING", scraped |-> "never",
           active |-> TRUE, deleted |-> FALSE, attempts |-> 0]

JobSlot ==
  [state: {"free", "waiting", "active"}, tracker: Trackers \cup {NoTracker},
   owner: Workers \cup {NoWorker}, tries: 0..MaxTries, stalls: 0..MaxStalls]

FreeSlot == [state |-> "free", tracker |-> NoTracker, owner |-> NoWorker,
             tries |-> 0, stalls |-> 0]

StoreTypeOK ==
  /\ tracker \in [Trackers -> TrackerRow]
  /\ seasons \in [Trackers -> SUBSET Seasons]
  /\ job \in [Jobs -> JobSlot]
  /\ abandoned \subseteq Trackers
  /\ faults \in 0..MaxFaults

StoreInit ==
  /\ tracker = [t \in Trackers |-> [NewRow EXCEPT !.row = "none"]]
  /\ seasons = [t \in Trackers |-> {}]
  /\ job = [j \in Jobs |-> FreeSlot]
  /\ abandoned = {}
  /\ faults = 0

-------------------------------------------------------------------------------
Live(t) == tracker[t].row = "live"

(* A crash or an I/O call that fails. *)
Fault == faults < MaxFaults /\ faults' = faults + 1

(* trackerRepository.update of the scraping columns: writing a status says  *)
(* that whatever execution was lost before no longer holds the tracker.     *)
WriteStatus(t, status, scraped, attempts) ==
  /\ tracker' = [tracker EXCEPT ![t] = [@ EXCEPT !.status = status,
                                              !.scraped = scraped, !.attempts = attempts]]
  /\ abandoned' = abandoned \ {t}

(* addScrapingJob: a new job, whatever other jobs the tracker already has   *)
(* (the job id carries the time, so it does not deduplicate).               *)
AddJob(t) ==
  \E j \in Jobs :
    /\ job[j].state = "free"
    /\ job' = [job EXCEPT ![j] = [state |-> "waiting", tracker |-> t,
                                  owner |-> NoWorker, tries |-> 0, stalls |-> 0]]

-------------------------------------------------------------------------------
(* The rest of the system, as far as it reaches these rows.                 *)

(* lastScrapedAt falls behind now - refreshIntervalHours. *)
Expire(t) ==
  /\ Live(t) /\ tracker[t].scraped = "fresh"
  /\ tracker' = [tracker EXCEPT ![t].scraped = "stale"]
  /\ UNCHANGED <<seasons, job, abandoned, faults>>

(* PUT /api/trackers/:id with isActive. *)
UpdateTracker(t) ==
  /\ Live(t)
  /\ \E b \in BOOLEAN : tracker' = [tracker EXCEPT ![t].active = b]
  /\ UNCHANGED <<seasons, job, abandoned, faults>>

(* DELETE /api/trackers/:id: no check of the status, queued jobs are kept.  *)
DeleteTracker(t) ==
  /\ Live(t)
  /\ tracker' = [tracker EXCEPT ![t].deleted = TRUE]
  /\ UNCHANGED <<seasons, job, abandoned, faults>>

(* Deleting a user cascades to the trackers, seasons and scraping logs.     *)
DeleteUser(u) ==
  /\ \E t \in Trackers : Owner[t] = u /\ Live(t)
  /\ tracker' = [t \in Trackers |->
                   IF Owner[t] = u /\ Live(t)
                   THEN [tracker[t] EXCEPT !.row = "gone"] ELSE tracker[t]]
  /\ seasons' = [t \in Trackers |-> IF Owner[t] = u THEN {} ELSE seasons[t]]
  /\ UNCHANGED <<job, abandoned, faults>>
===============================================================================
