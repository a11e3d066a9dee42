---------------------------- MODULE ScrapingWorker ----------------------------
(***************************************************************************)
(* TrackerScrapingProcessor.process, one step per awaited call, run by     *)
(* processes that BullMQ hands jobs to.  What can happen between two steps *)
(* is anything: another process, a sweep, a deletion, a crash.             *)
(*                                                                         *)
(* Calls whose failure the code swallows (activity log, notifications,     *)
(* player creation, MMR calculation) change none of this state.            *)
(***************************************************************************)
EXTENDS TrackerStore

VARIABLES
  worker,   \* worker[w]: the execution of process w, with its local variables
  partial,  \* history: trackers for which a season was not fetched or not stored
  orphans   \* trackers with a scraping log nobody will move out of IN_PROGRESS

workerVars == <<worker, partial, orphans>>

-------------------------------------------------------------------------------
(* Steps of an execution at which it still owes the tracker a final status. *)
Unsettled == {"load", "openLog", "mark", "readSeasons", "scrape", "bulk",
              "fallback", "complete", "failRead", "failWrite"}
Settled == {"closeLog", "failLog", "done"}
Step == {"idle"} \cup Unsettled \cup Settled

Execution ==
  [pc: Step, job: Jobs \cup {NoJob}, tracker: Trackers \cup {NoTracker},
   never: BOOLEAN,            \* trackerRecord.lastScrapedAt === null, as loaded
   first: BOOLEAN,            \* isFirstScrape
   got: SUBSET Seasons,       \* what scrapeSeasons returned
   todo: SUBSET Seasons,      \* seasons the individual upserts have left
   stored: 0..Latest, lost: 0..Latest,   \* seasonsScraped, seasonsFailed
   attempts: 0..AttemptsCap,  \* currentAttempts
   log: BOOLEAN]              \* this execution's log row is IN_PROGRESS

Idle == [pc |-> "idle", job |-> NoJob, tracker |-> NoTracker, never |-> FALSE,
         first |-> FALSE, got |-> {}, todo |-> {}, stored |-> 0, lost |-> 0,
         attempts |-> 0, log |-> FALSE]

WorkerTypeOK ==
  /\ worker \in [Workers -> Execution]
  /\ partial \subseteq Trackers
  /\ orphans \subseteq Trackers

WorkerInit ==
  /\ worker = [w \in Workers |-> Idle]
  /\ partial = {}
  /\ orphans = {}

-------------------------------------------------------------------------------
At(w, pc) == worker[w].pc = pc
On(w) == worker[w].tracker
Update(w, e) == worker' = [worker EXCEPT ![w] = e]
Goto(w, pc) == Update(w, [worker[w] EXCEPT !.pc = pc])

Runs(w, j) == ~At(w, "idle") /\ worker[w].job = j
Owns(w, j) == job[j].state = "active" /\ job[j].owner = w

(* The execution is over: a log it leaves open stays IN_PROGRESS. *)
Leave(w) ==
  /\ Update(w, Idle)
  /\ orphans' = IF worker[w].log /\ Live(On(w)) THEN orphans \cup {On(w)} ELSE orphans

-------------------------------------------------------------------------------
(* BullMQ gives a waiting job to an idle worker.  The worker runs one job   *)
(* at a time: @Processor is given no concurrency.                           *)
Pick(w, j) ==
  /\ At(w, "idle") /\ job[j].state = "waiting"
  /\ job' = [job EXCEPT ![j] = [@ EXCEPT !.state = "active", !.owner = w]]
  /\ Update(w, [Idle EXCEPT !.pc = "load", !.job = j, !.tracker = job[j].tracker])
  /\ UNCHANGED <<tracker, seasons, abandoned, faults, partial, orphans>>

(* findById, and the throw when there is no such tracker. *)
Load(w) ==
  /\ At(w, "load")
  /\ \/ /\ Live(On(w))
        /\ Update(w, [worker[w] EXCEPT !.pc = "openLog",
                                       !.never = tracker[On(w)].scraped = "never"])
        /\ UNCHANGED faults
     \/ ~Live(On(w)) /\ Goto(w, "failRead") /\ UNCHANGED faults
     \/ Fault /\ Goto(w, "failRead")
  /\ UNCHANGED <<tracker, seasons, job, abandoned, partial, orphans>>

(* scrapingLogRepository.create: needs the tracker (foreign key). *)
OpenLog(w) ==
  /\ At(w, "openLog")
  /\ \/ /\ Live(On(w)) /\ UNCHANGED faults
        /\ Update(w, [worker[w] EXCEPT !.pc = "mark", !.log = TRUE])
     \/ ~Live(On(w)) /\ Goto(w, "failRead") /\ UNCHANGED faults
     \/ Fault /\ Goto(w, "failRead")
  /\ UNCHANGED <<tracker, seasons, job, abandoned, partial, orphans>>

(* The tracker becomes IN_PROGRESS.  A tracker never scraped needs no look  *)
(* at its seasons: the condition of isFirstScrape stops at its first half.  *)
MarkInProgress(w) ==
  /\ At(w, "mark")
  /\ \/ /\ Live(On(w)) /\ UNCHANGED faults
        /\ WriteStatus(On(w), "IN_PROGRESS", tracker[On(w)].scraped,
                       tracker[On(w)].attempts)
        /\ Update(w, [worker[w] EXCEPT !.pc = IF worker[w].never THEN "scrape" ELSE "readSeasons",
                                       !.first = worker[w].never])
     \/ /\ ~Live(On(w)) /\ Goto(w, "failRead")
        /\ UNCHANGED <<tracker, abandoned, faults>>
     \/ Fault /\ Goto(w, "failRead") /\ UNCHANGED <<tracker, abandoned>>
  /\ UNCHANGED <<seasons, job, partial, orphans>>

(* getSeasonsByTracker(trackerId).length === 0 *)
ReadSeasons(w) ==
  /\ At(w, "readSeasons")
  /\ \/ /\ Update(w, [worker[w] EXCEPT !.pc = "scrape",
                                       !.first = seasons[On(w)] = {}])
        /\ UNCHANGED faults
     \/ Fault /\ Goto(w, "failRead")
  /\ UNCHANGED <<tracker, seasons, job, abandoned, partial, orphans>>

-------------------------------------------------------------------------------
(* Mutant: one historical season too few. *)
Wanted_OneShort(w) ==
  {Latest} \cup {s \in History : worker[w].first /\ s + MaxHistory > Latest}

(* The seasons scrapeSeasons is asked for. *)
Wanted(w) == {Latest} \cup (IF worker[w].first THEN History ELSE {})

(* scraperService.scrapeSeasons: fails when the base request does; drops    *)
(* each historical season whose own request fails; drops the current one    *)
(* when the profile does not name it.                                       *)
Scrape(w) ==
  /\ At(w, "scrape")
  /\ \/ \E got \in SUBSET Wanted(w) :
          /\ Update(w, [worker[w] EXCEPT !.pc = IF got = {} THEN "complete" ELSE "bulk",
                                         !.got = got])
          /\ partial' = IF got = Wanted(w) THEN partial ELSE partial \cup {On(w)}
     \/ Goto(w, "failRead") /\ UNCHANGED partial
  /\ UNCHANGED <<storeVars, orphans>>

(* Mutant: seasonsScraped is set before the bulk upsert has succeeded. *)
BulkUpsert_CountsFirst(w) ==
  /\ At(w, "bulk")
  /\ \/ /\ Live(On(w))
        /\ seasons' = [seasons EXCEPT ![On(w)] = @ \cup worker[w].got]
        /\ Update(w, [worker[w] EXCEPT !.pc = "complete",
                                       !.stored = Cardinality(worker[w].got)])
     \/ /\ ~Live(On(w)) /\ UNCHANGED seasons
        /\ Update(w, [worker[w] EXCEPT !.pc = "fallback",
                                       !.todo = worker[w].got,
                                       !.stored = Cardinality(worker[w].got)])
  /\ UNCHANGED <<tracker, job, abandoned, faults, partial, orphans>>

(* bulkUpsertSeasons: one transaction, all of them or none.  An error is    *)
(* caught and leads to the individual upserts.                              *)
BulkUpsert(w) ==
  /\ At(w, "bulk")
  /\ \/ /\ Live(On(w)) /\ UNCHANGED faults
        /\ seasons' = [seasons EXCEPT ![On(w)] = @ \cup worker[w].got]
        /\ Update(w, [worker[w] EXCEPT !.pc = "complete",
                                       !.stored = Cardinality(worker[w].got)])
     \/ /\ \/ ~Live(On(w)) /\ UNCHANGED faults
           \/ Fault
        /\ Update(w, [worker[w] EXCEPT !.pc = "fallback",
                                       !.todo = worker[w].got])
        /\ UNCHANGED seasons
  /\ UNCHANGED <<tracker, job, abandoned, partial, orphans>>

(* createOrUpdateSeason, newest season first; a failure is counted. *)
UpsertOne(w) ==
  /\ At(w, "fallback") /\ worker[w].todo # {}
  /\ \E s \in worker[w].todo :
       /\ \A r \in worker[w].todo : r <= s
       /\ \/ /\ Live(On(w)) /\ UNCHANGED <<faults, partial>>
             /\ seasons' = [seasons EXCEPT ![On(w)] = @ \cup {s}]
             /\ Update(w, [worker[w] EXCEPT !.todo = @ \ {s},
                                            !.stored = @ + 1])
          \/ /\ \/ ~Live(On(w)) /\ UNCHANGED faults
                \/ Fault
             /\ Update(w, [worker[w] EXCEPT !.todo = @ \ {s}, !.lost = @ + 1])
             /\ partial' = partial \cup {On(w)}
             /\ UNCHANGED seasons
  /\ UNCHANGED <<tracker, job, abandoned, orphans>>

EndFallback(w) ==
  /\ At(w, "fallback") /\ worker[w].todo = {}
  /\ Goto(w, "complete")
  /\ UNCHANGED <<storeVars, partial, orphans>>

-------------------------------------------------------------------------------
(* COMPLETED, lastScrapedAt = now, scrapingAttempts = 0: also when there    *)
(* were no seasons, and when storing every one of them failed.              *)
Complete(w) ==
  /\ At(w, "complete")
  /\ \/ /\ Live(On(w)) /\ UNCHANGED faults
        /\ WriteStatus(On(w), "COMPLETED", "fresh", 0)
        /\ Goto(w, "closeLog")
     \/ /\ ~Live(On(w)) /\ Goto(w, "failRead")
        /\ UNCHANGED <<tracker, abandoned, faults>>
     \/ Fault /\ Goto(w, "failRead") /\ UNCHANGED <<tracker, abandoned>>
  /\ UNCHANGED <<seasons, job, partial, orphans>>

(* An error here is inside the try too: it turns the success into a failure. *)
CloseLog(w) ==
  /\ At(w, "closeLog")
  /\ \/ /\ Live(On(w)) /\ UNCHANGED faults
        /\ Update(w, [worker[w] EXCEPT !.pc = "done", !.log = FALSE])
     \/ ~Live(On(w)) /\ Goto(w, "failRead") /\ UNCHANGED faults
     \/ Fault /\ Goto(w, "failRead")
  /\ UNCHANGED <<tracker, seasons, job, abandoned, partial, orphans>>

(* process returns: BullMQ completes the job, unless this worker no longer  *)
(* holds its lock.  Both outcomes return: a failed scrape is never retried. *)
Return(w) ==
  /\ At(w, "done")
  /\ LET j == worker[w].job IN
       job' = IF Owns(w, j) THEN [job EXCEPT ![j] = FreeSlot] ELSE job
  /\ Leave(w)
  /\ UNCHANGED <<tracker, seasons, abandoned, faults, partial>>

-------------------------------------------------------------------------------
(* process throws, from its catch block: BullMQ retries the job until its   *)
(* attempts are used up.                                                    *)
Requeued(j) == [job[j] EXCEPT !.state = "waiting", !.owner = NoWorker, !.tries = @ + 1]

MayRetry(w) == Owns(w, worker[w].job) /\ job[worker[w].job].tries + 1 < MaxTries

Throw(w) ==
  /\ LET j == worker[w].job IN
       job' = IF Owns(w, j)
              THEN [job EXCEPT ![j] = IF MayRetry(w) THEN Requeued(j) ELSE FreeSlot]
              ELSE job
  /\ abandoned' = IF MayRetry(w) \/ worker[w].pc \in Settled
                  THEN abandoned ELSE abandoned \cup {On(w)}
  /\ Leave(w)

(* Mutant: an error inside the catch block is swallowed and process returns. *)
FailRead_Swallows(w) ==
  /\ At(w, "failRead")
  /\ \/ /\ Update(w, [worker[w] EXCEPT !.pc = "failWrite",
                                       !.attempts = IF Live(On(w)) THEN tracker[On(w)].attempts ELSE 0])
        /\ UNCHANGED <<job, faults, orphans>>
     \/ /\ Fault /\ Leave(w)
        /\ job' = IF Owns(w, worker[w].job)
                  THEN [job EXCEPT ![worker[w].job] = FreeSlot] ELSE job
  /\ UNCHANGED <<tracker, seasons, abandoned, partial>>

(* The catch block reads the attempts ... *)
FailRead(w) ==
  /\ At(w, "failRead")
  /\ \/ /\ Update(w, [worker[w] EXCEPT !.pc = "failWrite",
                                       !.attempts = IF Live(On(w)) THEN tracker[On(w)].attempts ELSE 0])
        /\ UNCHANGED <<job, abandoned, faults, orphans>>
     \/ Fault /\ Throw(w)
  /\ UNCHANGED <<tracker, seasons, partial>>

(* ... and writes FAILED with one attempt more than it read. *)
FailWrite(w) ==
  /\ At(w, "failWrite")
  /\ \/ /\ Live(On(w)) /\ UNCHANGED <<job, faults, orphans>>
        /\ WriteStatus(On(w), "FAILED", tracker[On(w)].scraped,
                       IF worker[w].attempts < AttemptsCap
                       THEN worker[w].attempts + 1 ELSE AttemptsCap)
        /\ Goto(w, IF worker[w].log THEN "failLog" ELSE "done")
     \/ ~Live(On(w)) /\ Throw(w) /\ UNCHANGED <<tracker, faults>>
     \/ Fault /\ Throw(w) /\ UNCHANGED tracker
  /\ UNCHANGED <<seasons, partial>>

FailLog(w) ==
  /\ At(w, "failLog")
  /\ \/ /\ Live(On(w)) /\ UNCHANGED <<job, abandoned, faults, orphans>>
        /\ Update(w, [worker[w] EXCEPT !.pc = "done", !.log = FALSE])
     \/ ~Live(On(w)) /\ Throw(w) /\ UNCHANGED faults
     \/ Fault /\ Throw(w)
  /\ UNCHANGED <<tracker, seasons, partial>>

-------------------------------------------------------------------------------
(* The process dies.  Its job stays active until BullMQ finds it stalled;   *)
(* if it had lost the job already, nothing will run this one again.         *)
Crash(w) ==
  /\ ~At(w, "idle") /\ Fault
  /\ abandoned' = IF Owns(w, worker[w].job) \/ worker[w].pc \in Settled
                  THEN abandoned ELSE abandoned \cup {On(w)}
  /\ Leave(w)
  /\ UNCHANGED <<tracker, seasons, job, partial>>

(* The lock of an active job expires: because its worker is gone, or (a     *)
(* fault) because a live worker failed to renew it.  BullMQ puts the job    *)
(* back once more than MaxStalls times fails it for good.                   *)
Restarted(j) == [job[j] EXCEPT !.state = "waiting", !.owner = NoWorker, !.stalls = @ + 1]

Stall(j) ==
  /\ job[j].state = "active"
  /\ IF Runs(job[j].owner, j) THEN Fault ELSE UNCHANGED faults
  /\ IF job[j].stalls < MaxStalls
     THEN /\ job' = [job EXCEPT ![j] = Restarted(j)]
          /\ UNCHANGED abandoned
     ELSE /\ job' = [job EXCEPT ![j] = FreeSlot]
          /\ abandoned' = abandoned \cup {job[j].tracker}
  /\ UNCHANGED <<tracker, seasons, workerVars>>

-------------------------------------------------------------------------------
WorkerStep(w) ==
  \/ Load(w) \/ OpenLog(w) \/ MarkInProgress(w) \/ ReadSeasons(w) \/ Scrape(w)
  \/ BulkUpsert(w) \/ UpsertOne(w) \/ EndFallback(w) \/ Complete(w) \/ CloseLog(w)
  \/ FailRead(w) \/ FailWrite(w) \/ FailLog(w) \/ Return(w)

WorkerNext ==
  \/ \E w \in Workers : WorkerStep(w) \/ Crash(w)
  \/ \E w \in Workers, j \in Jobs : Pick(w, j)
  \/ \E j \in Jobs : Stall(j)
===============================================================================
