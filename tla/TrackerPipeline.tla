--------------------------- MODULE TrackerPipeline ---------------------------
(***************************************************************************)
(* The scraping pipeline: the requests and sweeps of TrackerEnqueue feed    *)
(* the queue that the processes of ScrapingWorker drain, over the rows of   *)
(* TrackerStore.  They meet only in the tracker rows and in the queue.      *)
(***************************************************************************)
EXTENDS ScrapingWorker, TrackerEnqueue

vars == <<storeVars, workerVars, enqueueVars>>

Init == StoreInit /\ WorkerInit /\ EnqueueInit

(* Deleting a user takes the scraping logs of its trackers along. *)
UserDeleted(u) ==
  /\ DeleteUser(u)
  /\ orphans' = {t \in orphans : Owner[t] # u}
  /\ UNCHANGED <<worker, partial>>

RowNext ==
  \/ /\ \E t \in Trackers : Expire(t) \/ UpdateTracker(t) \/ DeleteTracker(t)
     /\ UNCHANGED workerVars
  \/ \E u \in Users : UserDeleted(u)

Next ==
  \/ WorkerNext /\ UNCHANGED enqueueVars
  \/ EnqueueNext /\ UNCHANGED workerVars
  \/ RowNext /\ UNCHANGED enqueueVars

Spec == Init /\ [][Next]_vars

-------------------------------------------------------------------------------
(* Fairness.  A process that runs keeps running: every awaited call answers *)
(* or fails (HTTP and database calls time out).  BullMQ hands out waiting   *)
(* jobs in order, so each is picked in the end, and looks for stalled jobs  *)
(* on a timer.  The cron fires daily, whatever other sweeps are running.    *)
Fairness ==
  /\ \A w \in Workers : WF_vars(WorkerStep(w) /\ UNCHANGED enqueueVars)
  /\ \A j \in Jobs :
       /\ SF_vars(\E w \in Workers : Pick(w, j) /\ UNCHANGED enqueueVars)
       /\ WF_vars(/\ job[j].state = "active" /\ ~Runs(job[j].owner, j)
                  /\ Stall(j) /\ UNCHANGED enqueueVars)
  /\ \A s \in Sweepers :
       /\ SF_vars(RefreshSweep(s) /\ UNCHANGED workerVars)
       /\ WF_vars(Filter(s) /\ UNCHANGED workerVars)
       /\ \A t \in Trackers : SF_vars(Add(s, t) /\ UNCHANGED workerVars)

FairSpec == Spec /\ Fairness

-------------------------------------------------------------------------------
(* Every variable keeps its type. *)
TypeOK == StoreTypeOK /\ WorkerTypeOK /\ EnqueueTypeOK

(* Whoever acts on a tracker has one, and a process that holds the lock of  *)
(* its job is working on the tracker of that job.                           *)
Placed ==
  /\ \A w \in Workers :
       ~At(w, "idle") =>
         /\ worker[w].job \in Jobs /\ On(w) \in Trackers
         /\ Owns(w, worker[w].job) => job[worker[w].job].tracker = On(w)
  /\ \A j \in Jobs :
       job[j].state # "free" =>
         /\ job[j].tracker \in Trackers
         /\ job[j].state = "active" => job[j].owner \in Workers
  /\ \A r \in Requests : ~In(r, "idle") => Requested(r) \in Trackers

(* The counters of an execution, at every step of the individual upserts.   *)
CountedIn(e) ==
  /\ e.pc \in {"load", "openLog", "mark", "readSeasons", "scrape", "bulk"}
       => e.stored = 0 /\ e.lost = 0
  /\ e.pc = "fallback" => /\ e.todo \subseteq e.got
                         /\ e.stored + e.lost + Cardinality(e.todo) = Cardinality(e.got)
  /\ e.pc \in {"complete", "closeLog"} => e.stored + e.lost = Cardinality(e.got)

Counted == \A w \in Workers : CountedIn(worker[w])

(* A running execution of t that still owes it a final status. *)
Running(t) == \E w \in Workers : On(w) = t /\ worker[w].pc \in Unsettled

(* A job of t that BullMQ will hand out: it waits, or it is active and the  *)
(* process that had it is gone, so that it will be found stalled.           *)
ToBeRun(t) ==
  \E j \in Jobs :
    /\ job[j].state # "free" /\ job[j].tracker = t
    /\ job[j].state = "active" => ~Runs(job[j].owner, j)

Stuck(t) ==
  /\ Live(t) /\ tracker[t].status = "IN_PROGRESS"
  /\ ~Running(t) /\ ~ToBeRun(t)

(* A tracker is IN_PROGRESS only while an execution owes it an outcome or   *)
(* its job will run again, or else the queue gave that job up: no sweep     *)
(* selects an IN_PROGRESS tracker, so nothing else would ever free it.      *)
InProgressOwned == \A t \in Trackers : Stuck(t) => t \in abandoned

(* One crash, lost lock, or failed database or Redis call never strands a   *)
(* tracker in IN_PROGRESS, whenever it strikes: the job is retried, re-run  *)
(* once stalled, or the catch block writes FAILED.                          *)
OneFaultStrandsNothing == faults <= 1 => \A t \in Trackers : ~Stuck(t)

(* After any scrape that lost nothing, a scraped tracker has the current    *)
(* season and the MaxHistory seasons before it, however executions of the   *)
(* same tracker overlapped: each decides isFirstScrape on what it read.     *)
HistoryKept ==
  \A t \in Trackers \ partial :
    Live(t) /\ tracker[t].scraped # "never" => History \cup {Latest} \subseteq seasons[t]

(* What the scraping log is told adds up: every season fetched was counted  *)
(* once as scraped or failed, and those counted as scraped are stored.      *)
CountsAddUp ==
  \A w \in Workers :
    LET e == worker[w] IN
      e.pc \in {"complete", "closeLog"} =>
        /\ e.stored + e.lost = Cardinality(e.got)
        /\ Live(e.tracker) => e.stored <= Cardinality(e.got \cap seasons[e.tracker])

(* A scraping log stays IN_PROGRESS for good only if something failed: each *)
(* way out of process closes the log it opened.                             *)
OrphanLogNeedsFault == orphans # {} => faults > 0

(* The attempts shown beside a status agree with it, although requests and  *)
(* executions write both with values they read before.                      *)
AttemptsAgree ==
  \A t \in Trackers :
    Live(t) =>
      /\ tracker[t].status = "COMPLETED" => tracker[t].attempts = 0 /\ tracker[t].scraped # "never"
      /\ tracker[t].status = "FAILED" => tracker[t].attempts > 0

(* What overlapping executions tell of themselves, in logs and rows, is so. *)
OutcomesAddUp == CountsAddUp /\ AttemptsAgree

(* A fault leaves neither a tracker nor, unless there was one, a log open.  *)
FaultsContained == OneFaultStrandsNothing /\ OrphanLogNeedsFault

(* What is scraped is never forgotten: no refresh, failure or rejection     *)
(* takes back a live tracker's seasons or its having been scraped.          *)
NothingUnlearned ==
  [][\A t \in Trackers : Live(t) /\ Live(t)' =>
       /\ seasons[t] \subseteq seasons'[t]
       /\ tracker[t].scraped # "never" => tracker'[t].scraped # "never"
       /\ tracker[t].scraped # tracker'[t].scraped /\ tracker'[t].scraped = "fresh"
            => tracker'[t].status = "COMPLETED"]_vars

(* An IN_PROGRESS tracker settles, unless the queue gave its job up.        *)
EverySettles ==
  \A t \in Trackers :
    (Live(t) /\ tracker[t].status = "IN_PROGRESS")
      ~> (~Live(t) \/ tracker[t].status # "IN_PROGRESS" \/ t \in abandoned)

(* A tracker that is due and may be processed is not left waiting forever:  *)
(* the daily refresh finds it, whatever became of its earlier job.          *)
DueTried ==
  \A t \in Trackers : []<>(~Due(t) \/ ~CanProcess(t))
===============================================================================
