------------------------- MODULE TrackerPipelineProofs -------------------------
(***************************************************************************)
(* Proofs about TrackerPipeline for any number of trackers, processes,     *)
(* jobs, requests, sweeps and faults.                                      *)
(***************************************************************************)
EXTENDS TrackerPipeline, FiniteSetTheorems, TLAPS

-------------------------------------------------------------------------------
(* Type correctness: first the operators that several actions share.        *)

(* A status write leaves the rows of the table rows.                        *)
LEMMA WriteStatusType ==
  ASSUME StoreTypeOK, NEW t \in Trackers, NEW s \in Status,
         NEW c \in {"never", "fresh", "stale"}, NEW n \in 0..AttemptsCap,
         WriteStatus(t, s, c, n)
  PROVE  tracker' \in [Trackers -> TrackerRow] /\ abandoned' \subseteq Trackers
<1>1. tracker' \in [Trackers -> TrackerRow]
  BY ZenonT(40) DEF StoreTypeOK, WriteStatus, TrackerRow
<1>2. abandoned' \subseteq Trackers
  BY DEF StoreTypeOK, WriteStatus
<1> QED BY <1>1, <1>2

(* A job that is added is put into a slot of the queue.                     *)
LEMMA AddJobType ==
  ASSUME StoreAssumption, StoreTypeOK, NEW t \in Trackers, AddJob(t)
  PROVE  job' \in [Jobs -> JobSlot]
BY DEF StoreAssumption, StoreTypeOK, AddJob, JobSlot

(* The slot without a job is a slot.                                        *)
LEMMA FreeSlotType == ASSUME StoreAssumption PROVE FreeSlot \in JobSlot
BY DEF StoreAssumption, FreeSlot, JobSlot

(* A process without a job is in a state of a process.                      *)
LEMMA IdleType == ASSUME StoreAssumption PROVE Idle \in Execution
BY DEF StoreAssumption, Idle, Execution, Step, Settled, Unsettled, Seasons

(* A fault is counted within its bound.                                     *)
LEMMA FaultType ==
  ASSUME StoreAssumption, StoreTypeOK, Fault
  PROVE  faults' \in 0..MaxFaults
BY DEF StoreAssumption, StoreTypeOK, Fault

(* A process moves to a state of a process.                                 *)
LEMMA UpdateType ==
  ASSUME WorkerTypeOK, NEW w \in Workers, NEW e \in Execution, Update(w, e)
  PROVE  worker' \in [Workers -> Execution]
BY DEF WorkerTypeOK, Update

(* So does one that goes on to another step.                                *)
LEMMA GotoType ==
  ASSUME WorkerTypeOK, NEW w \in Workers, NEW pc \in Step, Goto(w, pc)
  PROVE  worker' \in [Workers -> Execution]
<1>1. [worker[w] EXCEPT !.pc = pc] \in Execution
  BY DEF WorkerTypeOK, Execution
<1> QED BY <1>1, UpdateType DEF Goto

(* So does one that ends, and an open log it leaves is an orphan.           *)
LEMMA LeaveType ==
  ASSUME StoreAssumption, WorkerTypeOK, NEW w \in Workers, On(w) \in Trackers, Leave(w)
  PROVE  worker' \in [Workers -> Execution] /\ orphans' \subseteq Trackers
<1>1. worker' \in [Workers -> Execution]
  BY IdleType, UpdateType DEF Leave
<1>2. orphans' \subseteq Trackers
  BY DEF WorkerTypeOK, Leave
<1> QED BY <1>1, <1>2

(* The initial states have the types.                                       *)
LEMMA InitType == ASSUME StoreAssumption PROVE Init => TypeOK
<1> SUFFICES ASSUME Init PROVE TypeOK
  OBVIOUS
<1>0. AttemptsCap \in Nat /\ MaxFaults \in Nat
  BY DEF StoreAssumption
<1>1. StoreTypeOK
  <2>1. [NewRow EXCEPT !.row = "none"] \in TrackerRow
    <3>1. NewRow \in TrackerRow
      BY <1>0 DEF NewRow, TrackerRow, Status
    <3> QED BY <3>1 DEF TrackerRow
  <2> QED BY <1>0, <2>1, FreeSlotType DEF Init, StoreInit, StoreTypeOK
<1>2. WorkerTypeOK
  BY IdleType DEF Init, WorkerInit, WorkerTypeOK
<1>3. EnqueueTypeOK
  BY DEF Init, EnqueueInit, EnqueueTypeOK, Waiting, Asleep, RequestStep
<1> QED BY <1>1, <1>2, <1>3 DEF TypeOK

(* A set of seasons is finite, and no larger than their number.             *)
LEMMA SeasonsFinite ==
  ASSUME StoreAssumption, NEW S \in SUBSET Seasons
  PROVE  IsFiniteSet(S) /\ Cardinality(S) \in 0..Latest
<1>1. Latest \in Nat \ {0} /\ 1 \in Int /\ Latest \in Int /\ ~(1 > Latest)
  BY DEF StoreAssumption
<1>i. IsFiniteSet(1..Latest) /\ Cardinality(1..Latest) = IF 1 > Latest THEN 0 ELSE Latest-1+1
  BY ONLY <1>1, FS_Interval
<1>2. IsFiniteSet(Seasons) /\ Cardinality(Seasons) = Latest
  BY <1>1, <1>i DEF Seasons
<1>3. IsFiniteSet(S) /\ Cardinality(S) <= Cardinality(Seasons)
  BY <1>2, FS_Subset
<1>4. Cardinality(S) \in Nat
  BY <1>3, FS_CardinalityType
<1> QED BY <1>1, <1>2, <1>3, <1>4

(* A job with tries left may be put back.                                   *)
LEMMA RequeuedType ==
  ASSUME StoreAssumption, StoreTypeOK, NEW j \in Jobs, job[j].tries + 1 < MaxTries
  PROVE  Requeued(j) \in JobSlot
<1>1. job[j] \in JobSlot /\ MaxTries \in Nat
  BY DEF StoreTypeOK, StoreAssumption
<1>2. job[j].tries + 1 \in 0..MaxTries
  BY <1>1 DEF JobSlot
<1> QED BY <1>1, <1>2 DEF JobSlot, Requeued

(* What the queue does with a job whose process throws keeps the types.     *)
LEMMA ThrowType ==
  ASSUME StoreAssumption, TypeOK, NEW w \in Workers, On(w) \in Trackers,
         worker[w].job \in Jobs, Throw(w)
  PROVE  /\ job' \in [Jobs -> JobSlot] /\ abandoned' \subseteq Trackers
         /\ worker' \in [Workers -> Execution] /\ orphans' \subseteq Trackers
<1> DEFINE j == worker[w].job
<1>1. job \in [Jobs -> JobSlot] /\ job[j] \in JobSlot /\ MaxTries \in Nat
  BY DEF TypeOK, StoreTypeOK, StoreAssumption
<1>2. MayRetry(w) => Requeued(j) \in JobSlot
  BY RequeuedType DEF TypeOK, MayRetry
<1>3. job' \in [Jobs -> JobSlot]
  BY <1>1, <1>2, FreeSlotType DEF Throw
<1>4. abandoned' \subseteq Trackers
  BY DEF Throw, TypeOK, StoreTypeOK
<1> QED BY <1>3, <1>4, LeaveType DEF Throw, TypeOK

(* One step of a process keeps the types: one case per action.              *)
LEMMA WorkerStepType ==
  ASSUME StoreAssumption, TypeOK, Placed, Counted, NEW w \in Workers, WorkerStep(w)
  PROVE  StoreTypeOK' /\ WorkerTypeOK'
<1> USE DEF TypeOK
<1>t. worker[w] \in Execution /\ worker \in [Workers -> Execution]
  BY DEF WorkerTypeOK
<1>o. ~At(w, "idle") => On(w) \in Trackers /\ worker[w].job \in Jobs
  BY DEF Placed
<1>s. {"idle", "load", "openLog", "mark", "readSeasons", "scrape", "bulk", "fallback",
       "complete", "failRead", "failWrite", "closeLog", "failLog", "done"} \subseteq Step
  BY DEF Step, Settled, Unsettled
<1>f. Fault => faults' \in 0..MaxFaults
  BY FaultType
<1>1. CASE Load(w)
  <2>1. worker' \in [Workers -> Execution]
    <3>1. [worker[w] EXCEPT !.pc = "openLog", !.never = tracker[On(w)].scraped = "never"]
            \in Execution
      BY <1>t, <1>s DEF Execution
    <3> QED BY <1>1, <1>s, <3>1, UpdateType, GotoType DEF Load
  <2> QED BY <1>1, <1>f, <2>1 DEF Load, StoreTypeOK, WorkerTypeOK
<1>2. CASE OpenLog(w)
  <2>1. worker' \in [Workers -> Execution]
    <3>1. [worker[w] EXCEPT !.pc = "mark", !.log = TRUE] \in Execution
      BY <1>t, <1>s DEF Execution
    <3> QED BY <1>2, <1>s, <3>1, UpdateType, GotoType DEF OpenLog
  <2> QED BY <1>2, <1>f, <2>1 DEF OpenLog, StoreTypeOK, WorkerTypeOK
<1>3. CASE MarkInProgress(w)
  <2>1. worker' \in [Workers -> Execution]
    <3>1. [worker[w] EXCEPT !.pc = IF worker[w].never THEN "scrape" ELSE "readSeasons",
                            !.first = worker[w].never] \in Execution
      BY <1>t, <1>s DEF Execution
    <3> QED BY <1>3, <1>s, <3>1, UpdateType, GotoType DEF MarkInProgress
  <2>2. On(w) \in Trackers
    BY <1>3, <1>o DEF MarkInProgress, At
  <2>3. tracker[On(w)] \in TrackerRow
    BY <2>2 DEF StoreTypeOK
  <2>4. /\ "IN_PROGRESS" \in Status
        /\ tracker[On(w)].scraped \in {"never", "fresh", "stale"}
        /\ tracker[On(w)].attempts \in 0..AttemptsCap
    BY <2>3 DEF TrackerRow, Status
  <2>5. tracker' \in [Trackers -> TrackerRow] /\ abandoned' \subseteq Trackers
    BY <1>3, <2>2, <2>4, WriteStatusType DEF MarkInProgress, StoreTypeOK
  <2> QED BY <1>3, <1>f, <2>1, <2>5 DEF MarkInProgress, StoreTypeOK, WorkerTypeOK
<1>4. CASE ReadSeasons(w)
  <2>1. worker' \in [Workers -> Execution]
    <3>1. [worker[w] EXCEPT !.pc = "scrape", !.first = seasons[On(w)] = {}] \in Execution
      BY <1>t, <1>s DEF Execution
    <3> QED BY <1>4, <1>s, <3>1, UpdateType, GotoType DEF ReadSeasons
  <2> QED BY <1>4, <1>f, <2>1 DEF ReadSeasons, StoreTypeOK, WorkerTypeOK
<1>5. CASE Scrape(w)
  <2>0. On(w) \in Trackers
    BY <1>5, <1>o DEF Scrape, At
  <2>1. Wanted(w) \subseteq Seasons
    BY DEF Wanted, History, Seasons, StoreAssumption
  <2>2. worker' \in [Workers -> Execution]
    <3>1. ASSUME NEW got \in SUBSET Wanted(w)
          PROVE  [worker[w] EXCEPT !.pc = IF got = {} THEN "complete" ELSE "bulk",
                                   !.got = got] \in Execution
      BY <1>t, <1>s, <2>1 DEF Execution
    <3> QED BY <1>5, <1>s, <3>1, UpdateType, GotoType DEF Scrape
  <2>3. partial' \subseteq Trackers
    BY <1>5, <2>0 DEF Scrape, WorkerTypeOK
  <2> QED BY <1>5, <2>2, <2>3 DEF Scrape, storeVars, StoreTypeOK, WorkerTypeOK
<1>6. CASE BulkUpsert(w)
  <2>0. worker[w].got \in SUBSET Seasons /\ Cardinality(worker[w].got) \in 0..Latest
    BY <1>t, SeasonsFinite DEF Execution
  <2>1. worker' \in [Workers -> Execution]
    <3>1. /\ [worker[w] EXCEPT !.pc = "complete", !.stored = Cardinality(worker[w].got)]
               \in Execution
          /\ [worker[w] EXCEPT !.pc = "fallback", !.todo = worker[w].got] \in Execution
      BY <1>t, <1>s, <2>0 DEF Execution
    <3> QED BY <1>6, <3>1, UpdateType DEF BulkUpsert
  <2>2. seasons' \in [Trackers -> SUBSET Seasons]
    BY <1>6, <2>0 DEF BulkUpsert, StoreTypeOK
  <2> QED BY <1>6, <1>f, <2>1, <2>2 DEF BulkUpsert, StoreTypeOK, WorkerTypeOK
<1>7. CASE UpsertOne(w)
  <2>0. On(w) \in Trackers
    BY <1>7, <1>o DEF UpsertOne, At
  <2>1. PICK s \in worker[w].todo :
          \/ /\ UNCHANGED <<faults, partial>>
             /\ seasons' = [seasons EXCEPT ![On(w)] = @ \cup {s}]
             /\ Update(w, [worker[w] EXCEPT !.todo = @ \ {s}, !.stored = @ + 1])
          \/ /\ UNCHANGED faults \/ Fault
             /\ Update(w, [worker[w] EXCEPT !.todo = @ \ {s}, !.lost = @ + 1])
             /\ partial' = partial \cup {On(w)}
             /\ UNCHANGED seasons
    BY <1>7 DEF UpsertOne
  <2>2. /\ worker[w].todo \in SUBSET Seasons /\ worker[w].got \in SUBSET Seasons
        /\ worker[w].stored \in 0..Latest /\ worker[w].lost \in 0..Latest
    BY <1>t DEF Execution
  <2>3. /\ worker[w].stored + 1 \in 0..Latest
        /\ worker[w].lost + 1 \in 0..Latest
    <3>1. worker[w].stored + worker[w].lost + Cardinality(worker[w].todo)
            = Cardinality(worker[w].got)
      BY <1>7 DEF UpsertOne, At, Counted, CountedIn
    <3>2. /\ Cardinality(worker[w].todo) \in 0..Latest /\ Cardinality(worker[w].got) \in 0..Latest
          /\ IsFiniteSet(worker[w].todo)
      BY <2>2, SeasonsFinite
    <3>3. Cardinality(worker[w].todo) # 0
      BY <2>1, <3>2, FS_EmptySet
    <3>4. Latest \in Nat
      BY DEF StoreAssumption
    <3> QED BY ONLY <2>2, <3>1, <3>2, <3>3, <3>4
  <2>4. worker' \in [Workers -> Execution]
    <3>1. /\ [worker[w] EXCEPT !.todo = @ \ {s}, !.stored = @ + 1] \in Execution
          /\ [worker[w] EXCEPT !.todo = @ \ {s}, !.lost = @ + 1] \in Execution
      BY <1>t, <2>2, <2>3 DEF Execution
    <3> QED BY <2>1, <3>1, UpdateType
  <2>5. seasons' \in [Trackers -> SUBSET Seasons] /\ partial' \subseteq Trackers
    BY <2>0, <2>1, <2>2 DEF StoreTypeOK, WorkerTypeOK
  <2>6. faults' \in 0..MaxFaults
    BY <2>1, <1>f DEF StoreTypeOK
  <2> QED BY <1>7, <2>4, <2>5, <2>6 DEF UpsertOne, StoreTypeOK, WorkerTypeOK
<1>8. CASE EndFallback(w)
  BY <1>8, <1>s, GotoType DEF EndFallback, storeVars, StoreTypeOK, WorkerTypeOK
<1>9. CASE Complete(w)
  <2>0. On(w) \in Trackers
    BY <1>9, <1>o DEF Complete, At
  <2>1. worker' \in [Workers -> Execution]
    BY <1>9, <1>s, GotoType DEF Complete
  <2>2. "COMPLETED" \in Status /\ 0 \in 0..AttemptsCap
    BY DEF Status, StoreAssumption
  <2>3. tracker' \in [Trackers -> TrackerRow] /\ abandoned' \subseteq Trackers
    BY <1>9, <2>0, <2>2, WriteStatusType DEF Complete, StoreTypeOK
  <2> QED BY <1>9, <1>f, <2>1, <2>3 DEF Complete, StoreTypeOK, WorkerTypeOK
<1>10. CASE CloseLog(w)
  <2>1. worker' \in [Workers -> Execution]
    <3>1. [worker[w] EXCEPT !.pc = "done", !.log = FALSE] \in Execution
      BY <1>t, <1>s DEF Execution
    <3> QED BY <1>10, <1>s, <3>1, UpdateType, GotoType DEF CloseLog
  <2> QED BY <1>10, <1>f, <2>1 DEF CloseLog, StoreTypeOK, WorkerTypeOK
<1>11. CASE FailRead(w)
  <2>0. On(w) \in Trackers /\ worker[w].job \in Jobs
    BY <1>11, <1>o DEF FailRead, At
  <2>1. CASE Fault /\ Throw(w)
    BY <1>11, <1>f, <2>0, <2>1, ThrowType DEF FailRead, StoreTypeOK, WorkerTypeOK
  <2>2. CASE ~(Fault /\ Throw(w))
    <3>1. IF Live(On(w)) THEN tracker[On(w)].attempts \in 0..AttemptsCap
                         ELSE 0 \in 0..AttemptsCap
      BY <2>0 DEF StoreTypeOK, TrackerRow, StoreAssumption
    <3>2. [worker[w] EXCEPT !.pc = "failWrite",
             !.attempts = IF Live(On(w)) THEN tracker[On(w)].attempts ELSE 0] \in Execution
      BY <1>t, <1>s, <3>1 DEF Execution
    <3>3. worker' \in [Workers -> Execution]
      BY <1>11, <2>2, <3>2, UpdateType DEF FailRead
    <3> QED BY <1>11, <2>2, <3>3 DEF FailRead, StoreTypeOK, WorkerTypeOK
  <2> QED BY <2>1, <2>2
<1>12. CASE FailWrite(w)
  <2>0. On(w) \in Trackers /\ worker[w].job \in Jobs
    BY <1>12, <1>o DEF FailWrite, At
  <2>1. CASE Throw(w)
    <3>1. faults' \in 0..MaxFaults /\ tracker' \in [Trackers -> TrackerRow]
      <4>1. CASE UNCHANGED <<tracker, faults>>
        BY <4>1 DEF StoreTypeOK
      <4>2. CASE Fault /\ UNCHANGED tracker
        BY <4>2, <1>f DEF StoreTypeOK
      <4>3. CASE ~UNCHANGED tracker
        <5>1. UNCHANGED faults /\ \E n \in 0..AttemptsCap :
                WriteStatus(On(w), "FAILED", tracker[On(w)].scraped, n)
          <6>1. worker[w].attempts \in 0..AttemptsCap /\ AttemptsCap \in Nat
            BY <1>t DEF Execution, StoreAssumption
          <6>2. (IF worker[w].attempts < AttemptsCap THEN worker[w].attempts + 1
                 ELSE AttemptsCap) \in 0..AttemptsCap
            BY <6>1
          <6> QED BY <1>12, <4>3, <6>2 DEF FailWrite
        <5>2. tracker[On(w)].scraped \in {"never", "fresh", "stale"} /\ "FAILED" \in Status
          BY <2>0 DEF StoreTypeOK, TrackerRow, Status
        <5> QED BY <5>1, <5>2, <2>0, WriteStatusType DEF StoreTypeOK
      <4> QED BY <1>12, <4>1, <4>2, <4>3 DEF FailWrite
    <3> QED BY <1>12, <2>0, <2>1, <3>1, ThrowType DEF FailWrite, StoreTypeOK, WorkerTypeOK
  <2>2. CASE ~Throw(w)
    <3>1. worker[w].attempts \in 0..AttemptsCap /\ AttemptsCap \in Nat
      BY <1>t DEF Execution, StoreAssumption
    <3>2. (IF worker[w].attempts < AttemptsCap THEN worker[w].attempts + 1
           ELSE AttemptsCap) \in 0..AttemptsCap
      BY <3>1
    <3>3. tracker[On(w)].scraped \in {"never", "fresh", "stale"} /\ "FAILED" \in Status
      BY <2>0 DEF StoreTypeOK, TrackerRow, Status
    <3>4. tracker' \in [Trackers -> TrackerRow] /\ abandoned' \subseteq Trackers
      BY <1>12, <2>0, <2>2, <3>2, <3>3, WriteStatusType DEF FailWrite
    <3>5. worker' \in [Workers -> Execution]
      BY <1>12, <1>s, <2>2, GotoType DEF FailWrite
    <3> QED BY <1>12, <2>2, <3>4, <3>5 DEF FailWrite, StoreTypeOK, WorkerTypeOK
  <2> QED BY <2>1, <2>2
<1>13. CASE FailLog(w)
  <2>0. On(w) \in Trackers /\ worker[w].job \in Jobs
    BY <1>13, <1>o DEF FailLog, At
  <2>1. CASE Throw(w) /\ (UNCHANGED faults \/ Fault)
    BY <1>13, <1>f, <2>0, <2>1, ThrowType DEF FailLog, StoreTypeOK, WorkerTypeOK
  <2>2. CASE ~(Throw(w) /\ (UNCHANGED faults \/ Fault))
    <3>1. [worker[w] EXCEPT !.pc = "done", !.log = FALSE] \in Execution
      BY <1>t, <1>s DEF Execution
    <3>2. worker' \in [Workers -> Execution]
      BY <1>13, <2>2, <3>1, UpdateType DEF FailLog
    <3> QED BY <1>13, <2>2, <3>2 DEF FailLog, StoreTypeOK, WorkerTypeOK
  <2> QED BY <2>1, <2>2
<1>14. CASE Return(w)
  <2>0. On(w) \in Trackers /\ worker[w].job \in Jobs
    BY <1>14, <1>o DEF Return, At
  <2>1. worker' \in [Workers -> Execution] /\ orphans' \subseteq Trackers
    BY <1>14, <2>0, LeaveType DEF Return
  <2>2. job' \in [Jobs -> JobSlot]
    BY <1>14, FreeSlotType DEF Return, StoreTypeOK
  <2> QED BY <1>14, <2>1, <2>2 DEF Return, StoreTypeOK, WorkerTypeOK
<1> QED BY <1>1, <1>2, <1>3, <1>4, <1>5, <1>6, <1>7, <1>8, <1>9, <1>10, <1>11, <1>12,
           <1>13, <1>14 DEF WorkerStep

(* Crashes, picks and stalled jobs keep the types.                          *)
LEMMA QueueStepType ==
  ASSUME StoreAssumption, TypeOK, Placed,
         \/ \E w \in Workers : Crash(w)
         \/ \E w \in Workers, j \in Jobs : Pick(w, j)
         \/ \E j \in Jobs : Stall(j)
  PROVE  StoreTypeOK' /\ WorkerTypeOK'
<1> USE DEF TypeOK
<1>f. Fault => faults' \in 0..MaxFaults
  BY FaultType
<1>1. ASSUME NEW w \in Workers, Crash(w) PROVE StoreTypeOK' /\ WorkerTypeOK'
  <2>1. On(w) \in Trackers
    BY <1>1 DEF Crash, Placed
  <2>2. worker' \in [Workers -> Execution] /\ orphans' \subseteq Trackers
    BY <1>1, <2>1, LeaveType DEF Crash
  <2> QED BY <1>1, <1>f, <2>1, <2>2 DEF Crash, StoreTypeOK, WorkerTypeOK
<1>2. ASSUME NEW w \in Workers, NEW j \in Jobs, Pick(w, j) PROVE StoreTypeOK' /\ WorkerTypeOK'
  <2>1. job[j].tracker \in Trackers
    BY <1>2 DEF Pick, Placed
  <2>2. [Idle EXCEPT !.pc = "load", !.job = j, !.tracker = job[j].tracker] \in Execution
    BY <2>1, IdleType DEF Execution, Step, Unsettled
  <2>3. worker' \in [Workers -> Execution]
    BY <1>2, <2>2, UpdateType DEF Pick
  <2>4. job' \in [Jobs -> JobSlot]
    <3>1. [job[j] EXCEPT !.state = "active", !.owner = w] \in JobSlot
      BY ZenonT(40) DEF StoreTypeOK, JobSlot
    <3> QED BY <1>2, <3>1 DEF Pick, StoreTypeOK
  <2> QED BY <1>2, <2>3, <2>4 DEF Pick, StoreTypeOK, WorkerTypeOK
<1>3. ASSUME NEW j \in Jobs, Stall(j) PROVE StoreTypeOK' /\ WorkerTypeOK'
  <2>1. job[j] \in JobSlot /\ job[j].tracker \in Trackers /\ MaxStalls \in Nat
    BY <1>3 DEF Stall, Placed, StoreTypeOK, StoreAssumption
  <2>2. job[j].stalls < MaxStalls => job[j].stalls + 1 \in 0..MaxStalls
    BY <2>1 DEF JobSlot
  <2>3. job[j].stalls < MaxStalls => Restarted(j) \in JobSlot
    BY <2>1, <2>2 DEF JobSlot, Restarted
  <2>4. job' \in [Jobs -> JobSlot] /\ abandoned' \subseteq Trackers
    BY <1>3, <2>1, <2>3, FreeSlotType DEF Stall, StoreTypeOK
  <2>5. faults' \in 0..MaxFaults
    BY <1>3, <1>f DEF Stall, StoreTypeOK
  <2> QED BY <1>3, <2>4, <2>5 DEF Stall, StoreTypeOK, WorkerTypeOK, workerVars
<1> QED BY <1>1, <1>2, <1>3

(* So does the FAILED an enqueue writes.                                    *)
LEMMA WriteFailedOnceType ==
  ASSUME StoreAssumption, StoreTypeOK, NEW r \in Requests, Requested(r) \in Trackers,
         WriteFailedOnce(r)
  PROVE  /\ tracker' \in [Trackers -> TrackerRow] /\ abandoned' \subseteq Trackers
         /\ faults' \in 0..MaxFaults
<1>1. /\ tracker[Requested(r)].scraped \in {"never", "fresh", "stale"}
      /\ "FAILED" \in Status /\ 1 \in 0..AttemptsCap
  BY DEF StoreTypeOK, TrackerRow, Status, StoreAssumption
<1> QED BY <1>1, WriteStatusType, FaultType DEF WriteFailedOnce, StoreTypeOK

(* A step of a registration or of a refresh keeps the types.                *)
LEMMA RequestType ==
  ASSUME StoreAssumption, TypeOK, Placed, NEW r \in Requests,
         \/ RequestStepOf(r) \/ RequestCrash(r)
         \/ \E t \in Trackers : Register(r, t) \/ Refresh(r, t)
  PROVE  StoreTypeOK' /\ EnqueueTypeOK'
<1> USE DEF TypeOK
<1>f. Fault => faults' \in 0..MaxFaults
  BY FaultType
<1>o. ~In(r, "idle") => Requested(r) \in Trackers
  BY DEF Placed
<1>a. ASSUME NEW t \in Trackers, NEW pc \in RequestStep, Ask(r, pc, t)
      PROVE  request' \in [Requests -> [pc: RequestStep, tracker: Trackers \cup {NoTracker}]]
  BY <1>a DEF Ask, EnqueueTypeOK
<1>b. Answer(r) =>
        request' \in [Requests -> [pc: RequestStep, tracker: Trackers \cup {NoTracker}]]
  BY DEF Answer, Waiting, RequestStep, EnqueueTypeOK
<1>c. {"idle", "guard", "reject", "add", "addFailed", "refreshGuard", "refreshMark",
       "refreshAdd"} \subseteq RequestStep
  BY DEF RequestStep
<1>1. CASE Guard(r)
  BY <1>1, <1>f, <1>o, <1>a, <1>c DEF Guard, In, StoreTypeOK, EnqueueTypeOK, settingVars
<1>2. CASE Reject(r) \/ EnqueueFailed(r)
  BY <1>2, <1>o, <1>b, WriteFailedOnceType
  DEF Reject, EnqueueFailed, In, StoreTypeOK, EnqueueTypeOK, settingVars
<1>3. CASE EnqueueNew(r)
  BY <1>3, <1>f, <1>o, <1>a, <1>b, <1>c, AddJobType
  DEF EnqueueNew, In, StoreTypeOK, EnqueueTypeOK, settingVars
<1>4. CASE RefreshGuard(r)
  BY <1>4, <1>f, <1>o, <1>a, <1>b, <1>c
  DEF RefreshGuard, In, StoreTypeOK, EnqueueTypeOK, settingVars
<1>5. CASE RefreshMark(r)
  <2>1. Requested(r) \in Trackers
    BY <1>5, <1>o DEF RefreshMark, In
  <2>2. /\ tracker[Requested(r)].scraped \in {"never", "fresh", "stale"}
        /\ tracker[Requested(r)].attempts \in 0..AttemptsCap /\ "PENDING" \in Status
    BY <2>1 DEF StoreTypeOK, TrackerRow, Status
  <2>3. tracker' \in [Trackers -> TrackerRow] /\ abandoned' \subseteq Trackers
    BY <1>5, <2>1, <2>2, WriteStatusType DEF RefreshMark, StoreTypeOK
  <2> QED BY <1>5, <1>f, <1>a, <1>b, <1>c, <2>1, <2>3
          DEF RefreshMark, StoreTypeOK, EnqueueTypeOK, settingVars
<1>6. CASE RefreshAdd(r)
  BY <1>6, <1>f, <1>o, <1>b, AddJobType
  DEF RefreshAdd, In, StoreTypeOK, EnqueueTypeOK, settingVars
<1>7. CASE RequestCrash(r)
  BY <1>7, <1>f, <1>b DEF RequestCrash, StoreTypeOK, EnqueueTypeOK, settingVars
<1>8. ASSUME NEW t \in Trackers, Register(r, t) PROVE StoreTypeOK' /\ EnqueueTypeOK'
  <2>1. NewRow \in TrackerRow
    BY DEF NewRow, TrackerRow, Status, StoreAssumption
  <2> QED BY <1>8, <1>a, <1>c, <2>1 DEF Register, StoreTypeOK, EnqueueTypeOK, settingVars
<1>9. ASSUME NEW t \in Trackers, Refresh(r, t) PROVE StoreTypeOK' /\ EnqueueTypeOK'
  BY <1>9, <1>a, <1>c DEF Refresh, storeVars, StoreTypeOK, EnqueueTypeOK, settingVars
<1> QED BY <1>1, <1>2, <1>3, <1>4, <1>5, <1>6, <1>7, <1>8, <1>9 DEF RequestStepOf

(* A step of a sweep keeps the types.                                       *)
LEMMA SweepType ==
  ASSUME StoreAssumption, TypeOK, NEW s \in Sweepers,
         \/ RefreshSweep(s) \/ PendingSweep(s) \/ ManualSweep(s)
         \/ \E g \in Guilds : GuildSweep(s, g)
         \/ Filter(s) \/ SweepCrash(s) \/ \E t \in Trackers : Add(s, t)
  PROVE  StoreTypeOK' /\ EnqueueTypeOK'
<1> USE DEF TypeOK
<1>f. Fault => faults' \in 0..MaxFaults
  BY FaultType
<1>1. ASSUME NEW pc \in {"filter", "add"}, NEW ids \in SUBSET Trackers, Select(s, pc, ids)
      PROVE  StoreTypeOK' /\ EnqueueTypeOK'
  BY <1>1 DEF Select, storeVars, settingVars, StoreTypeOK, EnqueueTypeOK
<1>2. CASE RefreshSweep(s) \/ PendingSweep(s) \/ ManualSweep(s) \/ \E g \in Guilds : GuildSweep(s, g)
  <2>1. \E pc \in {"filter", "add"} : \E ids \in SUBSET Trackers : Select(s, pc, ids)
    <3>1. CASE RefreshSweep(s)
      <4>1. {t \in Trackers : Due(t)} \in SUBSET Trackers
        OBVIOUS
      <4> QED BY <3>1, <4>1 DEF RefreshSweep
    <3>2. CASE PendingSweep(s)
      <4>1. {t \in Trackers : Pending(t)} \in SUBSET Trackers
        OBVIOUS
      <4> QED BY <3>2, <4>1 DEF PendingSweep
    <3>3. CASE ManualSweep(s)
      BY <3>3 DEF ManualSweep
    <3>4. ASSUME NEW g \in Guilds, GuildSweep(s, g)
          PROVE  \E pc \in {"filter", "add"} : \E ids \in SUBSET Trackers : Select(s, pc, ids)
      <4>1. {t \in Trackers : Due(t) /\ g \in member[Owner[t]]} \in SUBSET Trackers
        OBVIOUS
      <4> QED BY <3>4, <4>1 DEF GuildSweep
    <3> QED BY <1>2, <3>1, <3>2, <3>3, <3>4
  <2> QED BY <1>1, <2>1
<1>3. CASE Filter(s)
  <2>1. PICK kept \in SUBSET Trackers :
          sweep' = [sweep EXCEPT ![s] = IF kept = {} THEN Asleep ELSE [pc |-> "add", ids |-> kept]]
    BY <1>3 DEF Filter, EnqueueTypeOK
  <2>2. sweep' \in [Sweepers -> [pc: {"idle", "filter", "add"}, ids: SUBSET Trackers]]
    BY <2>1 DEF Asleep, EnqueueTypeOK
  <2>3. faults' \in 0..MaxFaults
    BY <1>3, <1>f DEF Filter, StoreTypeOK
  <2> QED BY <1>3, <2>2, <2>3 DEF Filter, settingVars, StoreTypeOK, EnqueueTypeOK
<1>4. CASE SweepCrash(s)
  BY <1>4, <1>f DEF SweepCrash, Asleep, settingVars, StoreTypeOK, EnqueueTypeOK
<1>5. ASSUME NEW t \in Trackers, Add(s, t) PROVE StoreTypeOK' /\ EnqueueTypeOK'
  <2>1. sweep' \in [Sweepers -> [pc: {"idle", "filter", "add"}, ids: SUBSET Trackers]]
    <3>1. [sweep[s] EXCEPT !.ids = @ \ {t}] \in [pc: {"idle", "filter", "add"}, ids: SUBSET Trackers]
      BY DEF EnqueueTypeOK
    <3> QED BY <1>5, <3>1 DEF Add, Asleep, EnqueueTypeOK
  <2>2. job' \in [Jobs -> JobSlot] /\ faults' \in 0..MaxFaults
    BY <1>5, <1>f, AddJobType DEF Add, StoreTypeOK
  <2> QED BY <1>5, <2>1, <2>2 DEF Add, settingVars, StoreTypeOK, EnqueueTypeOK
<1> QED BY <1>2, <1>3, <1>4, <1>5

(* So does what happens to the rows themselves.                             *)
LEMMA RowType ==
  ASSUME StoreAssumption, TypeOK, RowNext
  PROVE  StoreTypeOK' /\ WorkerTypeOK'
<1> USE DEF TypeOK
<1>1. ASSUME NEW t \in Trackers, Expire(t) \/ UpdateTracker(t) \/ DeleteTracker(t), UNCHANGED workerVars
      PROVE  StoreTypeOK' /\ WorkerTypeOK'
  <2>1. tracker' \in [Trackers -> TrackerRow]
    <3>1. CASE Expire(t)
      BY <3>1 DEF Expire, StoreTypeOK, TrackerRow
    <3>2. CASE UpdateTracker(t)
      <4>1. PICK b \in BOOLEAN : tracker' = [tracker EXCEPT ![t].active = b]
        BY <3>2 DEF UpdateTracker
      <4>2. [tracker[t] EXCEPT !.active = b] \in TrackerRow
        BY DEF StoreTypeOK, TrackerRow
      <4>3. tracker' = [tracker EXCEPT ![t] = [tracker[t] EXCEPT !.active = b]]
        BY <4>1
      <4> QED BY <4>2, <4>3 DEF StoreTypeOK
    <3>3. CASE DeleteTracker(t)
      <4>0. ASSUME NEW b \in BOOLEAN PROVE [tracker[t] EXCEPT !.deleted = b] \in TrackerRow
        BY DEF StoreTypeOK, TrackerRow
      <4>1. [tracker[t] EXCEPT !.deleted = TRUE] \in TrackerRow
        BY <4>0
      <4>2. tracker' = [tracker EXCEPT ![t] = [tracker[t] EXCEPT !.deleted = TRUE]]
        BY <3>3 DEF DeleteTracker
      <4> QED BY <4>1, <4>2 DEF StoreTypeOK
    <3> QED BY <1>1, <3>1, <3>2, <3>3
  <2> QED BY <1>1, <2>1
          DEF Expire, UpdateTracker, DeleteTracker, StoreTypeOK, WorkerTypeOK, workerVars
<1>2. ASSUME NEW u \in Users, UserDeleted(u) PROVE StoreTypeOK' /\ WorkerTypeOK'
  <2>1. tracker' \in [Trackers -> TrackerRow]
    BY <1>2 DEF UserDeleted, DeleteUser, StoreTypeOK, TrackerRow
  <2> QED BY <1>2, <2>1 DEF UserDeleted, DeleteUser, StoreTypeOK, WorkerTypeOK
<1> QED BY <1>1, <1>2 DEF RowNext

(* No step at all breaks the types.                                         *)
LEMMA TypeStep ==
  ASSUME StoreAssumption, TypeOK, Placed, Counted, [Next]_vars
  PROVE  TypeOK'
<1>1. CASE UNCHANGED vars
  BY <1>1 DEF vars, storeVars, workerVars, enqueueVars, TypeOK, StoreTypeOK, WorkerTypeOK,
     EnqueueTypeOK
<1>2. CASE WorkerNext /\ UNCHANGED enqueueVars
  <2>1. StoreTypeOK' /\ WorkerTypeOK'
    BY <1>2, WorkerStepType, QueueStepType DEF WorkerNext
  <2> QED BY <1>2, <2>1 DEF TypeOK, EnqueueTypeOK, enqueueVars
<1>3. CASE EnqueueNext /\ UNCHANGED workerVars
  <2>1. CASE UNCHANGED storeVars /\ EnqueueTypeOK'
    BY <1>3, <2>1 DEF TypeOK, StoreTypeOK, storeVars, WorkerTypeOK, workerVars
  <2>2. CASE StoreTypeOK' /\ EnqueueTypeOK'
    BY <1>3, <2>2 DEF TypeOK, WorkerTypeOK, workerVars
  <2>3. ASSUME NEW g \in Guilds, ToggleProcessing(g)
        PROVE  UNCHANGED storeVars /\ EnqueueTypeOK'
    BY <2>3 DEF ToggleProcessing, TypeOK, EnqueueTypeOK
  <2>4. ASSUME NEW u \in Users, NEW g \in Guilds, ChangeMembership(u, g)
        PROVE  UNCHANGED storeVars /\ EnqueueTypeOK'
    BY <2>4 DEF ChangeMembership, TypeOK, EnqueueTypeOK
  <2> QED BY <1>3, <2>1, <2>2, <2>3, <2>4, RequestType, SweepType DEF EnqueueNext
<1>4. CASE RowNext /\ UNCHANGED enqueueVars
  BY <1>4, RowType DEF TypeOK, EnqueueTypeOK, enqueueVars
<1> QED BY <1>1, <1>2, <1>3, <1>4 DEF Next

-------------------------------------------------------------------------------
(* Counted.                                                                 *)

(* A process that moves to a state whose counts add up keeps Counted.       *)
LEMMA CountedUpdate ==
  ASSUME TypeOK, Counted, NEW w \in Workers, NEW e, Update(w, e), CountedIn(e)
  PROVE  Counted'
BY DEF TypeOK, WorkerTypeOK, Counted, CountedIn, Update

(* The state of an idle process is one of those.                            *)
LEMMA CountedLeave ==
  ASSUME TypeOK, Counted, NEW w \in Workers, Leave(w)
  PROVE  Counted'
<1>1. CountedIn(Idle)
  BY DEF Idle, CountedIn
<1> QED BY <1>1, CountedUpdate DEF Leave

(* No step breaks the counts of a process.                                  *)
LEMMA CountedStep ==
  ASSUME StoreAssumption, TypeOK, Placed, Counted, [Next]_vars
  PROVE  Counted'
<1>1. CASE UNCHANGED worker
  BY <1>1 DEF Counted, CountedIn
<1>2. ASSUME NEW w \in Workers, WorkerStep(w) PROVE Counted'
  <2> DEFINE e == worker[w]
  <2>t. e \in Execution /\ CountedIn(e)
    BY DEF TypeOK, WorkerTypeOK, Counted
  <2>c. ASSUME NEW S \in SUBSET Seasons PROVE IsFiniteSet(S) /\ Cardinality(S) \in Nat
    BY SeasonsFinite, FS_CardinalityType
  <2>g. Goto(w, "failRead") => Counted'
    <3>1. CountedIn([e EXCEPT !.pc = "failRead"])
      BY <2>t DEF CountedIn, Execution
    <3> QED BY <3>1, CountedUpdate DEF Goto
  <2>1. CASE Load(w) \/ OpenLog(w) \/ MarkInProgress(w) \/ ReadSeasons(w)
    <3>1. CASE Load(w)
      <4>1. CountedIn([e EXCEPT !.pc = "openLog", !.never = tracker[On(w)].scraped = "never"])
        BY <2>t, <3>1 DEF CountedIn, Execution, Load, At
      <4> QED BY <2>g, <3>1, <4>1, CountedUpdate DEF Load
    <3>2. CASE OpenLog(w)
      <4>1. CountedIn([e EXCEPT !.pc = "mark", !.log = TRUE])
        BY <2>t, <3>2 DEF CountedIn, Execution, OpenLog, At
      <4> QED BY <2>g, <3>2, <4>1, CountedUpdate DEF OpenLog
    <3>3. CASE MarkInProgress(w)
      <4>1. CountedIn([e EXCEPT !.pc = IF e.never THEN "scrape" ELSE "readSeasons",
                                !.first = e.never])
        BY <2>t, <3>3 DEF CountedIn, Execution, MarkInProgress, At
      <4> QED BY <2>g, <3>3, <4>1, CountedUpdate DEF MarkInProgress
    <3>4. CASE ReadSeasons(w)
      <4>1. CountedIn([e EXCEPT !.pc = "scrape", !.first = seasons[On(w)] = {}])
        BY <2>t, <3>4 DEF CountedIn, Execution, ReadSeasons, At
      <4> QED BY <2>g, <3>4, <4>1, CountedUpdate DEF ReadSeasons
    <3> QED BY <2>1, <3>1, <3>2, <3>3, <3>4
  <2>2. CASE Scrape(w)
    <3>1. ASSUME NEW got \in SUBSET Wanted(w)
          PROVE  CountedIn([e EXCEPT !.pc = IF got = {} THEN "complete" ELSE "bulk", !.got = got])
      <4>1. e.stored = 0 /\ e.lost = 0
        BY <2>t, <2>2 DEF CountedIn, Scrape, At
      <4>2. CASE got = {}
        <5>1. CountedIn([e EXCEPT !.pc = "complete", !.got = {}])
          BY <2>t, <4>1, FS_EmptySet DEF CountedIn, Execution
        <5> QED BY <4>2, <5>1
      <4>3. CASE got # {}
        <5>1. CountedIn([e EXCEPT !.pc = "bulk", !.got = got])
          BY <2>t, <4>1 DEF CountedIn, Execution
        <5> QED BY <4>3, <5>1
      <4> QED BY <4>2, <4>3
    <3> QED BY <2>g, <2>2, <3>1, CountedUpdate DEF Scrape
  <2>3. CASE BulkUpsert(w)
    <3>1. e.stored = 0 /\ e.lost = 0 /\ e.got \in SUBSET Seasons /\ Cardinality(e.got) \in Nat
      BY <2>t, <2>c, <2>3 DEF CountedIn, Execution, BulkUpsert, At
    <3>2. /\ CountedIn([e EXCEPT !.pc = "complete", !.stored = Cardinality(e.got)])
          /\ CountedIn([e EXCEPT !.pc = "fallback", !.todo = e.got])
      BY <2>t, <3>1 DEF CountedIn, Execution
    <3> QED BY <2>3, <3>2, CountedUpdate DEF BulkUpsert
  <2>4. CASE UpsertOne(w)
    <3>1. PICK s \in e.todo :
            \/ Update(w, [e EXCEPT !.todo = @ \ {s}, !.stored = @ + 1])
            \/ Update(w, [e EXCEPT !.todo = @ \ {s}, !.lost = @ + 1])
      BY <2>4 DEF UpsertOne
    <3>2. /\ e.pc = "fallback" /\ e.todo \subseteq e.got /\ e.stored \in Nat /\ e.lost \in Nat
          /\ e.stored + e.lost + Cardinality(e.todo) = Cardinality(e.got)
          /\ e.todo \in SUBSET Seasons
      BY <2>t, <2>4 DEF CountedIn, Execution, UpsertOne, At
    <3>3. Cardinality(e.todo \ {s}) = Cardinality(e.todo) - 1 /\ Cardinality(e.todo) \in Nat
      BY <2>c, <3>2, FS_RemoveElement
    <3>4. /\ CountedIn([e EXCEPT !.todo = @ \ {s}, !.stored = @ + 1])
          /\ CountedIn([e EXCEPT !.todo = @ \ {s}, !.lost = @ + 1])
      BY <2>t, <3>2, <3>3 DEF CountedIn, Execution
    <3> QED BY <3>1, <3>4, CountedUpdate
  <2>5. CASE EndFallback(w)
    <3>1. e.stored + e.lost = Cardinality(e.got)
      BY <2>t, <2>5, FS_EmptySet DEF CountedIn, Execution, EndFallback, At
    <3>2. CountedIn([e EXCEPT !.pc = "complete"])
      BY <2>t, <3>1 DEF CountedIn, Execution
    <3> QED BY <2>5, <3>2, CountedUpdate DEF EndFallback, Goto
  <2>6. CASE Complete(w)
    <3>1. CountedIn([e EXCEPT !.pc = "closeLog"])
      BY <2>t, <2>6 DEF CountedIn, Execution, Complete, At
    <3> QED BY <2>g, <2>6, <3>1, CountedUpdate DEF Complete, Goto
  <2>7. CASE CloseLog(w)
    <3>1. CountedIn([e EXCEPT !.pc = "done", !.log = FALSE])
      BY <2>t DEF CountedIn, Execution
    <3> QED BY <2>g, <2>7, <3>1, CountedUpdate DEF CloseLog
  <2>8. CASE FailRead(w)
    <3>1. ASSUME NEW n PROVE CountedIn([e EXCEPT !.pc = "failWrite", !.attempts = n])
      BY <2>t DEF CountedIn, Execution
    <3> QED BY <2>8, <3>1, CountedUpdate, CountedLeave DEF FailRead, Throw
  <2>9. CASE FailWrite(w)
    <3>1. CountedIn([e EXCEPT !.pc = IF e.log THEN "failLog" ELSE "done"])
      BY <2>t DEF CountedIn, Execution
    <3> QED BY <2>9, <3>1, CountedUpdate, CountedLeave DEF FailWrite, Goto, Throw
  <2>10. CASE FailLog(w)
    <3>1. CountedIn([e EXCEPT !.pc = "done", !.log = FALSE])
      BY <2>t DEF CountedIn, Execution
    <3> QED BY <2>10, <3>1, CountedUpdate, CountedLeave DEF FailLog, Throw
  <2>11. CASE Return(w)
    BY <2>11, CountedLeave DEF Return
  <2> QED BY <1>2, <2>1, <2>2, <2>3, <2>4, <2>5, <2>6, <2>7, <2>8, <2>9, <2>10, <2>11
          DEF WorkerStep
<1>3. ASSUME NEW w \in Workers, Crash(w) PROVE Counted'
  BY <1>3, CountedLeave DEF Crash
<1>4. ASSUME NEW w \in Workers, NEW j \in Jobs, Pick(w, j) PROVE Counted'
  <2>1. CountedIn([Idle EXCEPT !.pc = "load", !.job = j, !.tracker = job[j].tracker])
    BY DEF Idle, CountedIn
  <2> QED BY <1>4, <2>1, CountedUpdate DEF Pick
<1>5. ASSUME NEW j \in Jobs, Stall(j) PROVE UNCHANGED worker
  BY <1>5 DEF Stall, workerVars
<1>6. RowNext => UNCHANGED worker
  BY DEF RowNext, UserDeleted, workerVars
<1> QED BY <1>1, <1>2, <1>3, <1>4, <1>5, <1>6 DEF Next, WorkerNext, vars, workerVars

-------------------------------------------------------------------------------
(* What the steps of a process do to its place in the pipeline: it stays on *)
(* its job and tracker, or it leaves and its job is kept, requeued or freed.*)

Stays(w) ==
  \E e : /\ Update(w, e) /\ e.pc \in Step \ {"idle"}
        /\ e.job = worker[w].job /\ e.tracker = On(w)
        /\ UNCHANGED <<job, request, sweep>>

Leaves(w) ==
  /\ Leave(w) /\ UNCHANGED <<request, sweep>>
  /\ \/ UNCHANGED job
     \/ /\ Owns(w, worker[w].job)
        /\ \/ job' = [job EXCEPT ![worker[w].job] = FreeSlot]
           \/ MayRetry(w) /\ job' = [job EXCEPT ![worker[w].job] = Requeued(worker[w].job)]

(* A step of a process keeps it at its job, or ends it.                     *)
LEMMA StaysOrLeaves ==
  ASSUME TypeOK, NEW w \in Workers, WorkerStep(w), UNCHANGED enqueueVars
  PROVE  ~At(w, "idle") /\ (Stays(w) \/ Leaves(w))
<1> DEFINE e == worker[w]
<1>t. e \in Execution
  BY DEF TypeOK, WorkerTypeOK
<1>e. UNCHANGED <<request, sweep>>
  BY DEF enqueueVars
<1>s. {"load", "openLog", "mark", "readSeasons", "scrape", "bulk", "fallback", "complete",
       "failRead", "failWrite", "closeLog", "failLog", "done"} = Step \ {"idle"}
  BY DEF Step, Settled, Unsettled
<1>g. ASSUME NEW pc \in Step \ {"idle"}, Goto(w, pc), UNCHANGED job PROVE Stays(w)
  <2>1. [e EXCEPT !.pc = pc].job = e.job /\ [e EXCEPT !.pc = pc].tracker = e.tracker
        /\ [e EXCEPT !.pc = pc].pc = pc
    BY <1>t DEF Execution
  <2> QED BY <1>e, <1>g, <2>1 DEF Stays, Goto, On
<1>u. ASSUME NEW f, Update(w, f), f.pc \in Step \ {"idle"}, f.job = e.job, f.tracker = e.tracker,
             UNCHANGED job
      PROVE  Stays(w)
  BY <1>e, <1>u DEF Stays, On
<1>th. Throw(w) => Leaves(w)
  BY <1>e DEF Throw, Leaves, MayRetry
<1>1. CASE Load(w)
  <2> DEFINE f == [e EXCEPT !.pc = "openLog", !.never = tracker[On(w)].scraped = "never"]
  <2>1. f.pc = "openLog" /\ f.job = e.job /\ f.tracker = e.tracker
    BY <1>t DEF Execution
  <2>2. Update(w, f) \/ Goto(w, "failRead")
    BY <1>1 DEF Load
  <2> HIDE DEF f
  <2> QED BY <1>1, <1>g, <1>s, <1>u, <2>1, <2>2 DEF Load, At
<1>2. CASE OpenLog(w)
  <2> DEFINE f == [e EXCEPT !.pc = "mark", !.log = TRUE]
  <2>1. f.pc = "mark" /\ f.job = e.job /\ f.tracker = e.tracker
    BY <1>t DEF Execution
  <2>2. Update(w, f) \/ Goto(w, "failRead")
    BY <1>2 DEF OpenLog
  <2> HIDE DEF f
  <2> QED BY <1>2, <1>g, <1>s, <1>u, <2>1, <2>2 DEF OpenLog, At
<1>3. CASE MarkInProgress(w)
  <2> DEFINE f == [e EXCEPT !.pc = IF e.never THEN "scrape" ELSE "readSeasons", !.first = e.never]
  <2>1. f.pc \in {"scrape", "readSeasons"} /\ f.job = e.job /\ f.tracker = e.tracker
    BY <1>t DEF Execution
  <2>2. Update(w, f) \/ Goto(w, "failRead")
    BY <1>3 DEF MarkInProgress
  <2> HIDE DEF f
  <2> QED BY <1>3, <1>g, <1>s, <1>u, <2>1, <2>2 DEF MarkInProgress, At
<1>4. CASE ReadSeasons(w)
  <2> DEFINE f == [e EXCEPT !.pc = "scrape", !.first = seasons[On(w)] = {}]
  <2>1. f.pc = "scrape" /\ f.job = e.job /\ f.tracker = e.tracker
    BY <1>t DEF Execution
  <2>2. Update(w, f) \/ Goto(w, "failRead")
    BY <1>4 DEF ReadSeasons
  <2> HIDE DEF f
  <2> QED BY <1>4, <1>g, <1>s, <1>u, <2>1, <2>2 DEF ReadSeasons, At
<1>5. CASE Scrape(w)
  <2>1. ASSUME NEW got
        PROVE  LET f == [e EXCEPT !.pc = IF got = {} THEN "complete" ELSE "bulk", !.got = got]
               IN  f.pc \in {"complete", "bulk"} /\ f.job = e.job /\ f.tracker = e.tracker
    BY <1>t DEF Execution
  <2>2. CASE Goto(w, "failRead")
    BY <1>5, <1>g, <1>s, <2>2 DEF Scrape, storeVars, At
  <2>3. CASE \E got \in SUBSET Wanted(w) :
               Update(w, [e EXCEPT !.pc = IF got = {} THEN "complete" ELSE "bulk", !.got = got])
    <3>1. PICK got \in SUBSET Wanted(w) :
            Update(w, [e EXCEPT !.pc = IF got = {} THEN "complete" ELSE "bulk", !.got = got])
      BY <2>3
    <3> DEFINE f == [e EXCEPT !.pc = IF got = {} THEN "complete" ELSE "bulk", !.got = got]
    <3>2. f.pc \in {"complete", "bulk"} /\ f.job = e.job /\ f.tracker = e.tracker
      BY <2>1
    <3>3. Update(w, f)
      BY <3>1
    <3> HIDE DEF f
    <3> QED BY <1>5, <1>s, <1>u, <3>2, <3>3 DEF Scrape, storeVars, At
  <2> QED BY <1>5, <2>2, <2>3 DEF Scrape
<1>6. CASE BulkUpsert(w)
  <2> DEFINE f == [e EXCEPT !.pc = "complete", !.stored = Cardinality(e.got)]
             h == [e EXCEPT !.pc = "fallback", !.todo = e.got]
  <2>1. /\ f.pc = "complete" /\ f.job = e.job /\ f.tracker = e.tracker
        /\ h.pc = "fallback" /\ h.job = e.job /\ h.tracker = e.tracker
    BY <1>t DEF Execution
  <2>2. Update(w, f) \/ Update(w, h)
    BY <1>6 DEF BulkUpsert
  <2> HIDE DEF f, h
  <2> QED BY <1>6, <1>s, <1>u, <2>1, <2>2 DEF BulkUpsert, At
<1>7. CASE UpsertOne(w)
  <2>1. PICK s \in e.todo : \/ Update(w, [e EXCEPT !.todo = @ \ {s}, !.stored = @ + 1])
                            \/ Update(w, [e EXCEPT !.todo = @ \ {s}, !.lost = @ + 1])
    BY <1>7 DEF UpsertOne
  <2> DEFINE f == [e EXCEPT !.todo = @ \ {s}, !.stored = @ + 1]
             h == [e EXCEPT !.todo = @ \ {s}, !.lost = @ + 1]
  <2>2. /\ f.pc = e.pc /\ f.job = e.job /\ f.tracker = e.tracker
        /\ h.pc = e.pc /\ h.job = e.job /\ h.tracker = e.tracker
    BY <1>t DEF Execution
  <2>3. Update(w, f) \/ Update(w, h)
    BY <2>1
  <2> HIDE DEF f, h
  <2> QED BY <1>7, <1>s, <1>u, <2>2, <2>3 DEF UpsertOne, At
<1>8. CASE EndFallback(w)
  BY <1>8, <1>s, <1>g DEF EndFallback, storeVars, At
<1>9. CASE Complete(w)
  BY <1>9, <1>s, <1>g DEF Complete, At
<1>10. CASE CloseLog(w)
  <2> DEFINE f == [e EXCEPT !.pc = "done", !.log = FALSE]
  <2>1. f.pc = "done" /\ f.job = e.job /\ f.tracker = e.tracker
    BY <1>t DEF Execution
  <2>2. Update(w, f) \/ Goto(w, "failRead")
    BY <1>10 DEF CloseLog
  <2> HIDE DEF f
  <2> QED BY <1>10, <1>g, <1>s, <1>u, <2>1, <2>2 DEF CloseLog, At
<1>11. CASE FailRead(w)
  <2> DEFINE f == [e EXCEPT !.pc = "failWrite",
                     !.attempts = IF Live(On(w)) THEN tracker[On(w)].attempts ELSE 0]
  <2>1. f.pc = "failWrite" /\ f.job = e.job /\ f.tracker = e.tracker
    BY <1>t DEF Execution
  <2>2. (Update(w, f) /\ UNCHANGED job) \/ Throw(w)
    BY <1>11 DEF FailRead
  <2> HIDE DEF f
  <2> QED BY <1>11, <1>s, <1>u, <1>th, <2>1, <2>2 DEF FailRead, At
<1>12. CASE FailWrite(w)
  <2>1. (Goto(w, IF e.log THEN "failLog" ELSE "done") /\ UNCHANGED job) \/ Throw(w)
    BY <1>12 DEF FailWrite
  <2> QED BY <1>12, <1>g, <1>s, <1>th, <2>1 DEF FailWrite, At
<1>13. CASE FailLog(w)
  <2> DEFINE f == [e EXCEPT !.pc = "done", !.log = FALSE]
  <2>1. f.pc = "done" /\ f.job = e.job /\ f.tracker = e.tracker
    BY <1>t DEF Execution
  <2>2. (Update(w, f) /\ UNCHANGED job) \/ Throw(w)
    BY <1>13 DEF FailLog
  <2> HIDE DEF f
  <2> QED BY <1>13, <1>s, <1>u, <1>th, <2>1, <2>2 DEF FailLog, At
<1>14. CASE Return(w)
  BY <1>14, <1>e DEF Return, Leaves, At
<1> QED BY <1>1, <1>2, <1>3, <1>4, <1>5, <1>6, <1>7, <1>8, <1>9, <1>10, <1>11, <1>12,
           <1>13, <1>14 DEF WorkerStep

-------------------------------------------------------------------------------
(* Placed.                                                                  *)

(* A process that ends leaves every job with one owner at most.             *)
LEMMA LeavesPlace ==
  ASSUME StoreAssumption, TypeOK, Placed, NEW w \in Workers, ~At(w, "idle"), Leaves(w)
  PROVE  Placed'
<1> DEFINE j == worker[w].job
<1>0. j \in Jobs /\ On(w) \in Trackers
  BY DEF Placed
<1>1. /\ worker' = [worker EXCEPT ![w] = Idle] /\ Idle.pc = "idle"
      /\ worker \in [Workers -> Execution]
  BY DEF Leaves, Leave, Update, Idle, TypeOK, WorkerTypeOK
<1>a. /\ job \in [Jobs -> JobSlot] /\ FreeSlot.state = "free"
      /\ Requeued(j).state = "waiting" /\ Requeued(j).tracker = job[j].tracker
  BY <1>0 DEF TypeOK, StoreTypeOK, FreeSlot, Requeued, JobSlot
<1>2. \A k \in Jobs : k # j => job'[k] = job[k]
  BY <1>0, <1>a DEF Leaves
<1>3. \/ job'[j] = job[j]
      \/ Owns(w, j) /\ job'[j].state = "free"
      \/ Owns(w, j) /\ job'[j].state = "waiting" /\ job'[j].tracker = job[j].tracker
  BY <1>0, <1>a DEF Leaves
<1>4. job[j].state # "free" => job[j].tracker \in Trackers /\ (job[j].state = "active" => job[j].owner \in Workers)
  BY <1>0 DEF Placed
<1>5. \A k \in Jobs :
         job'[k].state # "free" =>
           job'[k].tracker \in Trackers /\ (job'[k].state = "active" => job'[k].owner \in Workers)
  BY <1>2, <1>3, <1>4 DEF Placed, Owns
<1>6. \A v \in Workers : worker'[v].pc # "idle" =>
        /\ v # w /\ worker'[v] = worker[v] /\ worker[v].job \in Jobs
        /\ On(v) \in Trackers /\ (Owns(v, worker[v].job) => job[worker[v].job].tracker = On(v))
  BY <1>1 DEF Placed, At
<1>7. \A v \in Workers : worker'[v].pc # "idle" =>
        (Owns(v, worker[v].job)' => job'[worker[v].job].tracker = On(v))
  BY <1>2, <1>3, <1>6 DEF Owns
<1>8. \A r \in Requests : request'[r].pc # "idle" => request'[r].tracker \in Trackers
  BY DEF Leaves, Placed, In, Requested
<1> QED BY <1>5, <1>6, <1>7, <1>8 DEF Placed, At, On, In, Requested, Owns

(* A process that stays keeps its job and its tracker.                      *)
LEMMA StaysPlace ==
  ASSUME TypeOK, Placed, NEW w \in Workers, ~At(w, "idle"), Stays(w)
  PROVE  Placed'
<1>1. PICK e : /\ worker' = [worker EXCEPT ![w] = e] /\ e.pc \in Step \ {"idle"}
               /\ e.job = worker[w].job /\ e.tracker = On(w)
               /\ UNCHANGED <<job, request>>
  BY DEF Stays, Update
<1>2. worker \in [Workers -> Execution]
  BY DEF TypeOK, WorkerTypeOK
<1>3. \A v \in Workers : /\ worker'[v].job = worker[v].job /\ worker'[v].tracker = worker[v].tracker
                         /\ worker'[v].pc # "idle" => worker[v].pc # "idle"
  BY <1>1, <1>2 DEF At, On
<1> QED BY <1>1, <1>3 DEF Placed, At, On, In, Requested, Owns

(* Adding a job, or changing anything but jobs and executions.              *)
OnlyAdds == UNCHANGED worker /\ (UNCHANGED job \/ \E t \in Trackers : AddJob(t))

(* A job that is added goes to a free slot, which nobody owns.              *)
LEMMA AddsPlace ==
  ASSUME StoreAssumption, TypeOK, Placed, OnlyAdds,
         \A r \in Requests : request'[r].pc # "idle" => request'[r].tracker \in Trackers
  PROVE  Placed'
<1>1. CASE UNCHANGED job
  BY <1>1 DEF OnlyAdds, Placed, At, On, In, Requested, Owns
<1>2. ASSUME NEW t \in Trackers, AddJob(t) PROVE Placed'
  <2>1. PICK j \in Jobs :
          /\ job[j].state = "free"
          /\ job' = [job EXCEPT ![j] = [state |-> "waiting", tracker |-> t, owner |-> NoWorker,
                                        tries |-> 0, stalls |-> 0]]
    BY <1>2 DEF AddJob
  <2>2. /\ job'[j].state = "waiting" /\ job'[j].tracker = t
        /\ \A k \in Jobs : k # j => job'[k] = job[k]
    BY <2>1 DEF TypeOK, StoreTypeOK
  <2>3. \A v \in Workers : ~At(v, "idle") => worker[v].job \in Jobs
    BY DEF Placed
  <2> QED BY <2>1, <2>2, <2>3 DEF OnlyAdds, Placed, At, On, In, Requested, Owns
<1> QED BY <1>1, <1>2 DEF OnlyAdds

(* A waiting job gets the process that picks it, and no other.              *)
LEMMA PickPlace ==
  ASSUME StoreAssumption, TypeOK, Placed, NEW w \in Workers, NEW j \in Jobs, Pick(w, j),
         UNCHANGED enqueueVars
  PROVE  Placed'
<1>1. /\ job'[j].state = "active" /\ job'[j].owner = w /\ job'[j].tracker = job[j].tracker
      /\ \A k \in Jobs : k # j => job'[k] = job[k]
  BY DEF Pick, TypeOK, StoreTypeOK, JobSlot
<1>2. job[j].state = "waiting" /\ job[j].tracker \in Trackers
  BY DEF Pick, Placed
<1>3. /\ worker'[w].job = j /\ worker'[w].tracker = job[j].tracker
      /\ \A v \in Workers : v # w => worker'[v] = worker[v]
  BY DEF Pick, Update, Idle, TypeOK, WorkerTypeOK
<1>4. ASSUME NEW v \in Workers, v # w, ~At(v, "idle")
      PROVE  /\ worker[v].job \in Jobs /\ On(v) \in Trackers
             /\ Owns(v, worker[v].job)' => job'[worker[v].job].tracker = On(v)
  <2>1. /\ worker[v].job \in Jobs /\ On(v) \in Trackers
        /\ Owns(v, worker[v].job) => job[worker[v].job].tracker = On(v)
    BY <1>4 DEF Placed
  <2>2. UNCHANGED worker[v]
    BY <1>3, <1>4
  <2>3. CASE worker[v].job = j
    BY <1>1, <1>4, <2>1, <2>2, <2>3 DEF Owns
  <2>4. CASE worker[v].job # j
    BY <1>1, <2>1, <2>2, <2>4 DEF Owns
  <2> QED BY <2>1, <2>3, <2>4
<1>5. \A k \in Jobs : job'[k].state # "free" =>
        job'[k].tracker \in Trackers /\ (job'[k].state = "active" => job'[k].owner \in Workers)
  BY <1>1, <1>2 DEF Placed
<1> QED BY <1>1, <1>2, <1>3, <1>4, <1>5 DEF Placed, At, On, In, Requested, Owns, enqueueVars

(* A job that stalls waits again, or is given up.                           *)
LEMMA StallPlace ==
  ASSUME StoreAssumption, TypeOK, Placed, NEW j \in Jobs, Stall(j), UNCHANGED enqueueVars
  PROVE  Placed'
<1>1. job[j].tracker \in Trackers /\ job \in [Jobs -> JobSlot]
  BY DEF Stall, Placed, TypeOK, StoreTypeOK
<1>2. /\ job'[j].state = "free" \/ (job'[j].state = "waiting" /\ job'[j].tracker = job[j].tracker)
      /\ \A k \in Jobs : k # j => job'[k] = job[k]
  <2>1. Restarted(j).state = "waiting" /\ Restarted(j).tracker = job[j].tracker /\ FreeSlot.state = "free"
    BY <1>1 DEF Restarted, JobSlot, FreeSlot
  <2> QED BY <1>1, <2>1 DEF Stall
<1>3. UNCHANGED <<worker, request>>
  BY DEF Stall, workerVars, enqueueVars
<1>4. \A v \in Workers : ~At(v, "idle") => worker[v].job \in Jobs
  BY DEF Placed
<1> QED BY <1>1, <1>2, <1>3, <1>4 DEF Placed, At, On, In, Requested, Owns

(* Requests, sweeps, settings and rows only ever add jobs.                  *)
LEMMA OthersOnlyAdd ==
  ASSUME TypeOK, Placed,
         (EnqueueNext /\ UNCHANGED workerVars) \/ (RowNext /\ UNCHANGED enqueueVars)
  PROVE  /\ OnlyAdds
         /\ \A r \in Requests : request'[r].pc # "idle" => request'[r].tracker \in Trackers
<1>r. request \in [Requests -> [pc: RequestStep, tracker: Trackers \cup {NoTracker}]]
  BY DEF TypeOK, EnqueueTypeOK
<1>o. \A r \in Requests : ~In(r, "idle") => Requested(r) \in Trackers
  BY DEF Placed
<1>w. UNCHANGED worker
  BY DEF RowNext, UserDeleted, workerVars
<1>1. CASE RowNext /\ UNCHANGED enqueueVars
  <2>1. UNCHANGED job
    BY <1>1 DEF RowNext, UserDeleted, DeleteUser, Expire, UpdateTracker, DeleteTracker
  <2>2. UNCHANGED request
    BY <1>1 DEF enqueueVars
  <2> QED BY <1>w, <1>o, <2>1, <2>2 DEF OnlyAdds, In, Requested
<1>2. ASSUME NEW r \in Requests, NEW t \in Trackers, NEW pc, Ask(r, pc, t)
      PROVE  \A q \in Requests : request'[q].pc # "idle" => request'[q].tracker \in Trackers
  BY <1>2, <1>r, <1>o DEF Ask, In, Requested
<1>3. ASSUME NEW r \in Requests, Answer(r)
      PROVE  \A q \in Requests : request'[q].pc # "idle" => request'[q].tracker \in Trackers
  BY <1>3, <1>r, <1>o DEF Answer, Waiting, In, Requested
<1>4. UNCHANGED request =>
        \A q \in Requests : request'[q].pc # "idle" => request'[q].tracker \in Trackers
  BY <1>o DEF In, Requested
<1>5. ASSUME NEW r \in Requests,
             \/ RequestStepOf(r) \/ RequestCrash(r)
             \/ \E t \in Trackers : Register(r, t) \/ Refresh(r, t)
      PROVE  /\ UNCHANGED job \/ \E t \in Trackers : AddJob(t)
             /\ \A q \in Requests : request'[q].pc # "idle" => request'[q].tracker \in Trackers
  <2>1. CASE Guard(r)
    BY <1>o, <1>2, <2>1 DEF Guard, In
  <2>2. CASE Reject(r) \/ EnqueueFailed(r) \/ RequestCrash(r)
    BY <1>3, <2>2 DEF Reject, EnqueueFailed, RequestCrash
  <2>3. CASE EnqueueNew(r)
    BY <1>o, <1>2, <1>3, <2>3 DEF EnqueueNew, In
  <2>4. CASE RefreshGuard(r)
    BY <1>o, <1>2, <1>3, <2>4 DEF RefreshGuard, In
  <2>5. CASE RefreshMark(r)
    BY <1>o, <1>2, <1>3, <2>5 DEF RefreshMark, In
  <2>6. CASE RefreshAdd(r)
    BY <1>o, <1>3, <2>6 DEF RefreshAdd, In
  <2>7. ASSUME NEW t \in Trackers, Register(r, t) \/ Refresh(r, t)
        PROVE  /\ UNCHANGED job
               /\ \A q \in Requests : request'[q].pc # "idle" => request'[q].tracker \in Trackers
    BY <1>2, <2>7 DEF Register, Refresh, storeVars
  <2> QED BY <1>5, <2>1, <2>2, <2>3, <2>4, <2>5, <2>6, <2>7 DEF RequestStepOf
<1>6. ASSUME NEW s \in Sweepers,
             \/ RefreshSweep(s) \/ PendingSweep(s) \/ ManualSweep(s)
             \/ \E g \in Guilds : GuildSweep(s, g)
             \/ Filter(s) \/ SweepCrash(s) \/ \E t \in Trackers : Add(s, t)
      PROVE  /\ UNCHANGED job \/ \E t \in Trackers : AddJob(t)
             /\ UNCHANGED request
  BY <1>6 DEF RefreshSweep, PendingSweep, ManualSweep, GuildSweep, Select, Filter, SweepCrash, Add,
     storeVars
<1>7. CASE EnqueueNext /\ UNCHANGED workerVars
  <2>1. CASE (\E g \in Guilds : ToggleProcessing(g))
               \/ \E u \in Users, g \in Guilds : ChangeMembership(u, g)
    BY <1>w, <1>4, <2>1 DEF ToggleProcessing, ChangeMembership, storeVars, OnlyAdds
  <2> QED BY <1>7, <1>w, <1>4, <1>5, <1>6, <2>1 DEF EnqueueNext, OnlyAdds
<1> QED BY <1>1, <1>7

(* No step breaks the places of jobs and processes.                         *)
LEMMA PlacedStep ==
  ASSUME StoreAssumption, TypeOK, Placed, [Next]_vars
  PROVE  Placed'
<1>1. CASE UNCHANGED vars
  BY <1>1 DEF vars, storeVars, workerVars, enqueueVars, Placed, At, On, In, Requested, Owns
<1>2. CASE WorkerNext /\ UNCHANGED enqueueVars
  <2>1. ASSUME NEW w \in Workers, WorkerStep(w) PROVE Placed'
    BY <1>2, <2>1, StaysOrLeaves, StaysPlace, LeavesPlace
  <2>2. ASSUME NEW w \in Workers, Crash(w) PROVE Placed'
    BY <1>2, <2>2, LeavesPlace DEF Crash, Leaves, enqueueVars
  <2> QED BY <1>2, <2>1, <2>2, PickPlace, StallPlace DEF WorkerNext
<1>3. CASE (EnqueueNext /\ UNCHANGED workerVars) \/ (RowNext /\ UNCHANGED enqueueVars)
  BY <1>3, OthersOnlyAdd, AddsPlace
<1> QED BY <1>1, <1>2, <1>3 DEF Next

-------------------------------------------------------------------------------
(* The invariant that types, places and counters need together.             *)
Inv == TypeOK /\ Placed /\ Counted

(* The invariant holds in the initial states.                               *)
LEMMA InitInv == ASSUME StoreAssumption PROVE Init => Inv
<1>1. Init => Placed
  BY DEF Init, StoreInit, WorkerInit, EnqueueInit, Idle, FreeSlot, Waiting, Placed, At, On, In,
     Requested, Owns
<1>2. Init => Counted
  BY DEF Init, WorkerInit, Idle, Counted, CountedIn
<1> QED BY <1>1, <1>2, InitType DEF Inv

(* Every variable keeps its type, whatever the processes, requests, sweeps, *)
(* deletions and faults do.                                                 *)
THEOREM TypeCorrect == Spec => []TypeOK
<1>1. Init => Inv
  BY StoreAssumption, InitInv
<1>2. Inv /\ [Next]_vars => Inv'
  BY StoreAssumption, TypeStep, PlacedStep, CountedStep DEF Inv
<1>3. Inv => TypeOK
  BY DEF Inv
<1> QED BY <1>1, <1>2, <1>3, PTL DEF Spec

-------------------------------------------------------------------------------
(* InProgressOwned is inductive, given Inv.                                 *)

InProgress(t) == Live(t) /\ tracker[t].status = "IN_PROGRESS"

(* InProgressOwned, tracker by tracker.                                     *)
LEMMA OwnedForm ==
  InProgressOwned <=>
    \A t \in Trackers : InProgress(t) => t \in abandoned \/ Running(t) \/ ToBeRun(t)
BY DEF InProgressOwned, Stuck, InProgress

(* No tracker becomes IN_PROGRESS, or stops being abandoned while it is.    *)
NothingNew ==
  \A t \in Trackers : InProgress(t)' => InProgress(t) /\ (t \in abandoned => t \in abandoned')

(* A process that stays answers for the tracker it has marked.              *)
LEMMA StaysOwned ==
  ASSUME Inv, InProgressOwned, NEW w \in Workers, ~At(w, "idle"), Stays(w),
         \A t \in Trackers : InProgress(t)' =>
           \/ t = On(w) /\ worker'[w].pc \in Unsettled
           \/ /\ InProgress(t)
              /\ t \in abandoned => t \in abandoned'
              /\ t # On(w) \/ worker[w].pc \notin Unsettled
  PROVE  InProgressOwned'
<1>1. PICK e : /\ worker' = [worker EXCEPT ![w] = e] /\ e.pc \in Step \ {"idle"}
               /\ e.job = worker[w].job /\ e.tracker = On(w)
               /\ UNCHANGED job
  BY DEF Stays, Update
<1>2. /\ worker'[w] = e /\ \A v \in Workers : v # w => worker'[v] = worker[v]
  BY <1>1 DEF Inv, TypeOK, WorkerTypeOK
<1>3. ASSUME NEW t \in Trackers, InProgress(t)'
      PROVE  t \in abandoned' \/ Running(t)' \/ ToBeRun(t)'
  <2>1. CASE t = On(w) /\ worker'[w].pc \in Unsettled
    BY <1>1, <1>2, <2>1 DEF Running, On
  <2>2. CASE /\ InProgress(t)
             /\ t \in abandoned => t \in abandoned'
             /\ t # On(w) \/ worker[w].pc \notin Unsettled
    <3>1. t \in abandoned \/ Running(t) \/ ToBeRun(t)
      BY <2>2, OwnedForm
    <3>2. CASE Running(t)
      <4>1. PICK v \in Workers : On(v) = t /\ worker[v].pc \in Unsettled
        BY <3>2 DEF Running
      <4>2. v # w
        BY <2>2, <4>1
      <4> QED BY <1>2, <4>1, <4>2 DEF Running, On
    <3>3. CASE ToBeRun(t)
      <4>1. PICK j \in Jobs : /\ job[j].state # "free" /\ job[j].tracker = t
                              /\ job[j].state = "active" => ~Runs(job[j].owner, j)
        BY <3>3 DEF ToBeRun
      <4>2. job[j].state = "active" => job[j].owner \in Workers
        BY <4>1 DEF Inv, Placed
      <4>3. job[j].state = "active" => ~Runs(job[j].owner, j)'
        BY <1>1, <1>2, <4>1, <4>2 DEF Runs, At
      <4> QED BY <1>1, <4>1, <4>3 DEF ToBeRun
    <3> QED BY <2>2, <3>1, <3>2, <3>3
  <2> QED BY <1>3, <2>1, <2>2
<1> QED BY <1>3, OwnedForm DEF InProgressOwned, Stuck, InProgress

(* A process that ends has settled its tracker, or its job runs again.      *)
LEMMA LeavesOwned ==
  ASSUME Inv, InProgressOwned, NEW w \in Workers, ~At(w, "idle"), Leaves(w), NothingNew,
         worker[w].pc \in Unsettled =>
           \/ On(w) \in abandoned'
           \/ tracker'[On(w)].row # "live" \/ tracker'[On(w)].status # "IN_PROGRESS"
           \/ Owns(w, worker[w].job) /\ UNCHANGED job
           \/ Owns(w, worker[w].job) /\ job' = [job EXCEPT ![worker[w].job] = Requeued(worker[w].job)]
  PROVE  InProgressOwned'
<1> DEFINE k == worker[w].job
<1>0. /\ k \in Jobs /\ On(w) \in Trackers /\ job \in [Jobs -> JobSlot]
      /\ Owns(w, k) => job[k].tracker = On(w)
  BY DEF Inv, Placed, TypeOK, StoreTypeOK
<1>1. worker'[w].pc = "idle" /\ \A v \in Workers : v # w => worker'[v] = worker[v]
  BY DEF Inv, TypeOK, WorkerTypeOK, Leaves, Leave, Update, Idle
<1>2. Requeued(k).state = "waiting" /\ Requeued(k).tracker = job[k].tracker
  BY <1>0 DEF Requeued, JobSlot
<1>3. \A j \in Jobs : job'[j] = job[j] \/ (j = k /\ Owns(w, k))
  BY <1>0 DEF Leaves
<1>4. ASSUME NEW t \in Trackers, InProgress(t)'
      PROVE  t \in abandoned' \/ Running(t)' \/ ToBeRun(t)'
  <2>1. t \in abandoned' \/ Running(t) \/ ToBeRun(t)
    BY <1>4, OwnedForm DEF NothingNew
  <2>2. CASE Running(t)
    <3>1. PICK v \in Workers : On(v) = t /\ worker[v].pc \in Unsettled
      BY <2>2 DEF Running
    <3>2. CASE v # w
      BY <1>1, <3>1, <3>2 DEF Running, On
    <3>3. CASE v = w
      <4>1. CASE Owns(w, k) /\ UNCHANGED job
        <5>1. job'[k].state = "active" /\ job'[k].owner = w /\ job'[k].tracker = t
          BY <1>0, <3>1, <3>3, <4>1 DEF Owns
        <5> QED BY <1>0, <1>1, <5>1 DEF ToBeRun, Runs, At
      <4>2. CASE Owns(w, k) /\ job' = [job EXCEPT ![k] = Requeued(k)]
        <5>1. job'[k].state = "waiting" /\ job'[k].tracker = t
          BY <1>0, <1>2, <3>1, <3>3, <4>2
        <5> QED BY <1>0, <5>1 DEF ToBeRun
      <4> QED BY <1>4, <2>2, <3>1, <3>3, <4>1, <4>2 DEF InProgress, Live
    <3> QED BY <3>2, <3>3
  <2>3. CASE ToBeRun(t)
    <3>1. PICK j \in Jobs : /\ job[j].state # "free" /\ job[j].tracker = t
                            /\ job[j].state = "active" => ~Runs(job[j].owner, j)
      BY <2>3 DEF ToBeRun
    <3>2. job'[j] = job[j]
      BY <1>3, <3>1 DEF Owns, Runs
    <3>3. job[j].state = "active" => job[j].owner \in Workers
      BY <3>1 DEF Inv, Placed
    <3>4. job[j].state = "active" => ~Runs(job[j].owner, j)'
      BY <1>1, <3>1, <3>3, <3>2 DEF Runs, At
    <3> QED BY <3>1, <3>2, <3>4 DEF ToBeRun
  <2> QED BY <2>1, <2>2, <2>3
<1> QED BY <1>4, OwnedForm DEF InProgressOwned, Stuck, InProgress

(* Adding jobs takes none away.                                             *)
LEMMA AddsOwned ==
  ASSUME Inv, InProgressOwned, OnlyAdds, NothingNew
  PROVE  InProgressOwned'
<1>1. \A j \in Jobs : job[j].state # "free" => job'[j] = job[j]
  BY DEF OnlyAdds, AddJob, Inv, TypeOK, StoreTypeOK
<1>2. ASSUME NEW t \in Trackers, InProgress(t)'
      PROVE  t \in abandoned' \/ Running(t)' \/ ToBeRun(t)'
  <2>1. t \in abandoned' \/ Running(t) \/ ToBeRun(t)
    BY <1>2, OwnedForm DEF NothingNew
  <2>2. Running(t) => Running(t)'
    BY DEF OnlyAdds, Running, On
  <2>3. ToBeRun(t) => ToBeRun(t)'
    BY <1>1 DEF OnlyAdds, ToBeRun, Runs, At
  <2> QED BY <2>1, <2>2, <2>3
<1> QED BY <1>2, OwnedForm DEF InProgressOwned, Stuck, InProgress

(* A job that is picked is still to run: by the process at its first step.  *)
LEMMA PickOwned ==
  ASSUME Inv, InProgressOwned, NEW w \in Workers, NEW j \in Jobs, Pick(w, j)
  PROVE  InProgressOwned'
<1>1. /\ \A k \in Jobs : k # j => job'[k] = job[k]
      /\ worker'[w].job = j /\ worker'[w].tracker = job[j].tracker /\ worker'[w].pc = "load"
      /\ \A v \in Workers : v # w => worker'[v] = worker[v]
      /\ worker[w].pc = "idle" /\ UNCHANGED <<tracker, abandoned>>
  BY DEF Pick, Update, Idle, At, Inv, TypeOK, WorkerTypeOK, StoreTypeOK
<1>2. ASSUME NEW t \in Trackers, InProgress(t)'
      PROVE  t \in abandoned' \/ Running(t)' \/ ToBeRun(t)'
  <2>1. t \in abandoned' \/ Running(t) \/ ToBeRun(t)
    BY <1>1, <1>2, OwnedForm DEF InProgress, Live
  <2>2. CASE Running(t)
    BY <1>1, <2>2 DEF Running, On, Unsettled
  <2>3. CASE ToBeRun(t)
    <3>1. PICK k \in Jobs : /\ job[k].state # "free" /\ job[k].tracker = t
                            /\ job[k].state = "active" => ~Runs(job[k].owner, k)
      BY <2>3 DEF ToBeRun
    <3>2. CASE k = j
      BY <1>1, <3>1, <3>2 DEF Running, On, Unsettled
    <3>3. CASE k # j
      <4>1. job[k].state = "active" => job[k].owner \in Workers
        BY <3>1 DEF Inv, Placed
      <4>2. job[k].state = "active" => ~Runs(job[k].owner, k)'
        BY <1>1, <3>1, <3>3, <4>1 DEF Runs, At
      <4> QED BY <1>1, <3>1, <3>3, <4>2 DEF ToBeRun
    <3> QED BY <3>2, <3>3
  <2> QED BY <2>1, <2>2, <2>3
<1> QED BY <1>2, OwnedForm DEF InProgressOwned, Stuck, InProgress

(* A job that stalls runs again, or its tracker is abandoned.               *)
LEMMA StallOwned ==
  ASSUME Inv, InProgressOwned, NEW j \in Jobs, Stall(j)
  PROVE  InProgressOwned'
<1>1. /\ \A k \in Jobs : k # j => job'[k] = job[k]
      /\ UNCHANGED <<tracker, worker>> /\ \A t \in abandoned : t \in abandoned'
      /\ \/ job'[j].state = "waiting" /\ job'[j].tracker = job[j].tracker
         \/ job[j].tracker \in abandoned'
  <2>1. Restarted(j).state = "waiting" /\ Restarted(j).tracker = job[j].tracker
    BY DEF Restarted, Inv, TypeOK, StoreTypeOK, JobSlot
  <2> QED BY <2>1 DEF Stall, workerVars, Inv, TypeOK, StoreTypeOK
<1>2. ASSUME NEW t \in Trackers, InProgress(t)'
      PROVE  t \in abandoned' \/ Running(t)' \/ ToBeRun(t)'
  <2>1. t \in abandoned' \/ Running(t) \/ ToBeRun(t)
    BY <1>1, <1>2, OwnedForm DEF InProgress, Live
  <2>2. Running(t) => Running(t)'
    BY <1>1 DEF Running, On
  <2>3. CASE ToBeRun(t)
    <3>1. PICK k \in Jobs : /\ job[k].state # "free" /\ job[k].tracker = t
                            /\ job[k].state = "active" => ~Runs(job[k].owner, k)
      BY <2>3 DEF ToBeRun
    <3>2. CASE k = j
      BY <1>1, <3>1, <3>2 DEF ToBeRun
    <3>3. CASE k # j
      BY <1>1, <3>1, <3>3 DEF ToBeRun, Runs, At
    <3> QED BY <3>2, <3>3
  <2> QED BY <2>1, <2>2, <2>3
<1> QED BY <1>2, OwnedForm DEF InProgressOwned, Stuck, InProgress

(* A status write touches one tracker, and is no longer abandoned by it.    *)
LEMMA WriteEffect ==
  ASSUME TypeOK, NEW u \in Trackers, NEW status, NEW scraped, NEW attempts,
         WriteStatus(u, status, scraped, attempts)
  PROVE  /\ tracker'[u].status = status
         /\ \A t \in Trackers : t # u => /\ tracker'[t] = tracker[t]
                                         /\ t \in abandoned => t \in abandoned'
BY DEF WriteStatus, TypeOK, StoreTypeOK, TrackerRow

(* Goto moves an execution to the step it names.                            *)
LEMMA GotoPc ==
  ASSUME TypeOK, NEW w \in Workers, NEW pc, Goto(w, pc)
  PROVE  worker'[w].pc = pc
BY DEF Goto, Update, TypeOK, WorkerTypeOK, Execution

(* Up to the status it writes, an execution that goes on stays unsettled.   *)
LEMMA PcAfter ==
  ASSUME TypeOK, NEW w \in Workers,
         \/ Load(w) \/ OpenLog(w) \/ ReadSeasons(w) \/ Scrape(w) \/ BulkUpsert(w) \/ UpsertOne(w)
         \/ EndFallback(w) \/ MarkInProgress(w)
  PROVE  worker'[w].pc \in Unsettled
<1> DEFINE e == worker[w]
<1>t. e \in Execution /\ worker \in [Workers -> Execution]
  BY DEF TypeOK, WorkerTypeOK
<1>u. ASSUME NEW f, Update(w, f) PROVE worker'[w] = f
  BY <1>t, <1>u DEF Update
<1>f. Goto(w, "failRead") => worker'[w].pc \in Unsettled
  BY GotoPc DEF Unsettled
<1>1. Load(w) => worker'[w].pc \in Unsettled
  <2>1. [e EXCEPT !.pc = "openLog", !.never = tracker[On(w)].scraped = "never"].pc = "openLog"
    BY <1>t DEF Execution
  <2> QED BY <1>f, <1>u, <2>1 DEF Load, Unsettled
<1>2. OpenLog(w) => worker'[w].pc \in Unsettled
  <2>1. [e EXCEPT !.pc = "mark", !.log = TRUE].pc = "mark"
    BY <1>t DEF Execution
  <2> QED BY <1>f, <1>u, <2>1 DEF OpenLog, Unsettled
<1>3. ReadSeasons(w) => worker'[w].pc \in Unsettled
  <2>1. [e EXCEPT !.pc = "scrape", !.first = seasons[On(w)] = {}].pc = "scrape"
    BY <1>t DEF Execution
  <2> QED BY <1>f, <1>u, <2>1 DEF ReadSeasons, Unsettled
<1>4. Scrape(w) => worker'[w].pc \in Unsettled
  <2>1. ASSUME NEW got
        PROVE [e EXCEPT !.pc = IF got = {} THEN "complete" ELSE "bulk", !.got = got].pc
                \in {"complete", "bulk"}
    BY <1>t DEF Execution
  <2> QED BY <1>f, <1>u, <2>1 DEF Scrape, Unsettled
<1>5. BulkUpsert(w) => worker'[w].pc \in Unsettled
  <2>1. /\ [e EXCEPT !.pc = "complete", !.stored = Cardinality(e.got)].pc = "complete"
        /\ [e EXCEPT !.pc = "fallback", !.todo = e.got].pc = "fallback"
    BY <1>t DEF Execution
  <2> QED BY <1>u, <2>1 DEF BulkUpsert, Unsettled
<1>6. UpsertOne(w) => worker'[w].pc \in Unsettled
  <2>1. ASSUME NEW s
        PROVE  /\ [e EXCEPT !.todo = @ \ {s}, !.stored = @ + 1].pc = e.pc
               /\ [e EXCEPT !.todo = @ \ {s}, !.lost = @ + 1].pc = e.pc
    BY <1>t DEF Execution
  <2> QED BY <1>u, <2>1 DEF UpsertOne, At, Unsettled
<1>7. EndFallback(w) => worker'[w].pc \in Unsettled
  BY GotoPc DEF EndFallback, Unsettled
<1>8. MarkInProgress(w) => worker'[w].pc \in Unsettled
  <2>1. [e EXCEPT !.pc = IF e.never THEN "scrape" ELSE "readSeasons", !.first = e.never].pc
          \in {"scrape", "readSeasons"}
    BY <1>t DEF Execution
  <2> QED BY <1>f, <1>u, <2>1 DEF MarkInProgress, Unsettled
<1> QED BY <1>1, <1>2, <1>3, <1>4, <1>5, <1>6, <1>7, <1>8

(* No step of an execution leaves its tracker IN_PROGRESS and unowned.      *)
LEMMA WorkerOwned ==
  ASSUME Inv, InProgressOwned, NEW w \in Workers, WorkerStep(w), UNCHANGED enqueueVars
  PROVE  InProgressOwned'
<1>i. ~At(w, "idle") /\ (Stays(w) \/ Leaves(w))
  BY StaysOrLeaves DEF Inv
<1>t. TypeOK /\ On(w) \in Trackers
  BY <1>i DEF Inv, Placed
<1>q. UNCHANGED <<tracker, abandoned>> => NothingNew
  BY DEF NothingNew, InProgress, Live
<1>s. ASSUME Stays(w), UNCHANGED <<tracker, abandoned>>,
             worker'[w].pc \in Unsettled \/ worker[w].pc \notin Unsettled
      PROVE  InProgressOwned'
  BY <1>i, <1>q, <1>s, StaysOwned DEF NothingNew
<1>th. ASSUME Throw(w), UNCHANGED tracker PROVE InProgressOwned'
  <2>1. NothingNew
    BY <1>th DEF Throw, NothingNew, InProgress, Live
  <2>2. Leaves(w)
    BY <1>th DEF Throw, Leaves, MayRetry, enqueueVars
  <2>3. worker[w].pc \in Unsettled => worker[w].pc \notin Settled
    BY DEF Unsettled, Settled
  <2>4. MayRetry(w) => job' = [job EXCEPT ![worker[w].job] = Requeued(worker[w].job)]
    BY <1>th DEF Throw, MayRetry
  <2>5. ~MayRetry(w) /\ worker[w].pc \in Unsettled => On(w) \in abandoned'
    BY <1>th, <2>3 DEF Throw
  <2> QED BY <1>i, <2>1, <2>2, <2>4, <2>5, LeavesOwned DEF MayRetry
<1>1. CASE Load(w) \/ OpenLog(w) \/ ReadSeasons(w) \/ Scrape(w) \/ BulkUpsert(w) \/ UpsertOne(w)
             \/ EndFallback(w)
  <2>1. UNCHANGED <<tracker, abandoned>>
    BY <1>1 DEF Load, OpenLog, ReadSeasons, Scrape, BulkUpsert, UpsertOne, EndFallback, storeVars
  <2>2. worker'[w].pc \in Unsettled
    BY <1>1, <1>t, PcAfter
  <2>3. Stays(w)
    BY <1>i, <1>t, <2>2 DEF Leaves, Leave, Update, Idle, Unsettled, TypeOK, WorkerTypeOK
  <2> QED BY <1>s, <2>1, <2>2, <2>3
<1>2. CASE MarkInProgress(w)
  <2>1. worker'[w].pc \in Unsettled
    BY <1>2, <1>t, PcAfter
  <2>2. Stays(w)
    BY <1>i, <1>t, <2>1 DEF Leaves, Leave, Update, Idle, Unsettled, TypeOK, WorkerTypeOK
  <2>3. ASSUME NEW status, NEW scraped, NEW attempts, WriteStatus(On(w), status, scraped, attempts)
        PROVE  \A t \in Trackers : InProgress(t)' /\ t # On(w) =>
                 InProgress(t) /\ (t \in abandoned => t \in abandoned')
    BY <1>t, <2>3, WriteEffect DEF InProgress, Live
  <2>4. \A t \in Trackers : InProgress(t)' /\ t # On(w) =>
          InProgress(t) /\ (t \in abandoned => t \in abandoned')
    BY <1>2, <2>3 DEF MarkInProgress, InProgress, Live
  <2> QED BY <1>i, <2>1, <2>2, <2>4, StaysOwned
<1>3. CASE Complete(w)
  <2>1. CASE Goto(w, "failRead") /\ UNCHANGED <<tracker, abandoned>>
    <3>1. worker'[w].pc \in Unsettled
      BY <1>t, <2>1, GotoPc DEF Unsettled
    <3>2. Stays(w)
      BY <1>i, <1>t, <3>1 DEF Leaves, Leave, Update, Idle, Unsettled, TypeOK, WorkerTypeOK
    <3> QED BY <1>s, <2>1, <3>1, <3>2
  <2>2. CASE WriteStatus(On(w), "COMPLETED", "fresh", 0) /\ Goto(w, "closeLog")
    <3>1. worker'[w].pc = "closeLog"
      BY <1>t, <2>2, GotoPc
    <3>2. Stays(w)
      BY <1>i, <1>t, <3>1 DEF Leaves, Leave, Update, Idle, TypeOK, WorkerTypeOK
    <3>3. \A t \in Trackers : InProgress(t)' =>
            t # On(w) /\ InProgress(t) /\ (t \in abandoned => t \in abandoned')
      BY <1>t, <2>2, WriteEffect DEF InProgress, Live
    <3> QED BY <1>i, <3>2, <3>3, StaysOwned
  <2> QED BY <1>3, <2>1, <2>2 DEF Complete
<1>4. CASE CloseLog(w)
  <2>1. UNCHANGED <<tracker, abandoned>> /\ worker[w].pc \notin Unsettled
    BY <1>4 DEF CloseLog, At, Unsettled
  <2>2. Stays(w) \/ Leaves(w)
    BY <1>i
  <2>3. CASE Leaves(w)
    BY <1>i, <1>q, <2>1, <2>3, LeavesOwned
  <2> QED BY <1>s, <2>1, <2>2, <2>3
<1>5. CASE FailRead(w)
  <2>1. CASE Throw(w)
    BY <1>5, <1>th, <2>1 DEF FailRead
  <2>2. CASE Update(w, [worker[w] EXCEPT !.pc = "failWrite",
                          !.attempts = IF Live(On(w)) THEN tracker[On(w)].attempts ELSE 0])
              /\ UNCHANGED abandoned
    <3>1. worker'[w].pc = "failWrite"
      BY <1>t, <2>2 DEF Update, TypeOK, WorkerTypeOK, Execution
    <3>2. Stays(w)
      BY <1>i, <1>t, <3>1 DEF Leaves, Leave, Update, Idle, TypeOK, WorkerTypeOK
    <3>3. worker'[w].pc \in Unsettled
      BY <3>1 DEF Unsettled
    <3> QED BY <1>5, <1>s, <2>2, <3>2, <3>3 DEF FailRead
  <2> QED BY <1>5, <2>1, <2>2 DEF FailRead
<1>6. CASE FailWrite(w)
  <2>1. CASE Throw(w) /\ UNCHANGED tracker
    BY <1>th, <2>1
  <2>2. CASE \E pc \in {"failLog", "done"}, n \in Nat :
               WriteStatus(On(w), "FAILED", tracker[On(w)].scraped, n) /\ Goto(w, pc)
    <3>1. worker'[w].pc \in {"failLog", "done"}
      BY <1>t, <2>2, GotoPc
    <3>2. Stays(w)
      BY <1>i, <1>t, <3>1 DEF Leaves, Leave, Update, Idle, TypeOK, WorkerTypeOK
    <3>3. \A t \in Trackers : InProgress(t)' =>
            t # On(w) /\ InProgress(t) /\ (t \in abandoned => t \in abandoned')
      BY <1>t, <2>2, WriteEffect DEF InProgress, Live
    <3> QED BY <1>i, <3>2, <3>3, StaysOwned
  <2>3. worker[w].attempts + 1 \in Nat /\ AttemptsCap \in Nat
    BY <1>t, StoreAssumption DEF TypeOK, WorkerTypeOK, Execution
  <2> QED BY <1>6, <2>1, <2>2, <2>3 DEF FailWrite
<1>7. CASE FailLog(w)
  <2>1. CASE Throw(w)
    BY <1>7, <1>th, <2>1 DEF FailLog
  <2>2. CASE UNCHANGED abandoned
    <3>1. UNCHANGED <<tracker, abandoned>> /\ worker[w].pc \notin Unsettled
      BY <1>7, <2>2 DEF FailLog, At, Unsettled
    <3>2. CASE Leaves(w)
      BY <1>i, <1>q, <3>1, <3>2, LeavesOwned
    <3> QED BY <1>i, <1>s, <3>1, <3>2
  <2> QED BY <1>7, <2>1, <2>2 DEF FailLog
<1>8. CASE Return(w)
  <2>1. UNCHANGED <<tracker, abandoned>> /\ worker[w].pc \notin Unsettled
    BY <1>8 DEF Return, At, Unsettled
  <2>2. CASE Leaves(w)
    BY <1>i, <1>q, <2>1, <2>2, LeavesOwned
  <2> QED BY <1>i, <1>s, <2>1, <2>2
<1> QED BY <1>1, <1>2, <1>3, <1>4, <1>5, <1>6, <1>7, <1>8 DEF WorkerStep

(* Requests, sweeps and rows never make a tracker IN_PROGRESS.              *)
LEMMA OthersNothingNew ==
  ASSUME Inv, (EnqueueNext /\ UNCHANGED workerVars) \/ (RowNext /\ UNCHANGED enqueueVars)
  PROVE  NothingNew
<1>t. tracker \in [Trackers -> TrackerRow] /\ TypeOK
  BY DEF Inv, TypeOK, StoreTypeOK
<1>q. UNCHANGED <<tracker, abandoned>> => NothingNew
  BY DEF NothingNew, InProgress, Live
<1>w. ASSUME NEW r \in Requests, ~In(r, "idle"), NEW status \in {"PENDING", "FAILED"},
             NEW scraped, NEW attempts, WriteStatus(Requested(r), status, scraped, attempts)
      PROVE  NothingNew
  <2>1. Requested(r) \in Trackers
    BY <1>w DEF Inv, Placed
  <2> QED BY <1>t, <1>w, <2>1, WriteEffect DEF NothingNew, InProgress, Live
<1>f. ASSUME NEW r \in Requests, ~In(r, "idle"), WriteFailedOnce(r) PROVE NothingNew
  BY <1>f, <1>q, <1>w DEF WriteFailedOnce
<1>1. ASSUME NEW r \in Requests,
             \/ RequestStepOf(r) \/ RequestCrash(r)
             \/ \E t \in Trackers : Register(r, t) \/ Refresh(r, t)
      PROVE  NothingNew
  <2>1. CASE Guard(r) \/ EnqueueNew(r) \/ RefreshGuard(r) \/ RefreshAdd(r) \/ RequestCrash(r)
    BY <1>q, <2>1 DEF Guard, EnqueueNew, RefreshGuard, RefreshAdd, RequestCrash
  <2>2. CASE Reject(r) \/ EnqueueFailed(r)
    BY <1>f, <2>2 DEF Reject, EnqueueFailed, In
  <2>3. CASE RefreshMark(r)
    BY <1>q, <1>w, <2>3 DEF RefreshMark, In
  <2>4. ASSUME NEW t \in Trackers, Register(r, t) PROVE NothingNew
    <3>1. tracker'[t].status = "PENDING" /\ UNCHANGED abandoned
          /\ \A u \in Trackers : u # t => tracker'[u] = tracker[u]
      BY <1>t, <2>4 DEF Register, NewRow
    <3> QED BY <3>1 DEF NothingNew, InProgress, Live
  <2>5. ASSUME NEW t \in Trackers, Refresh(r, t) PROVE NothingNew
    BY <1>q, <2>5 DEF Refresh, storeVars
  <2> QED BY <1>1, <2>1, <2>2, <2>3, <2>4, <2>5 DEF RequestStepOf
<1>2. CASE EnqueueNext
  <2>1. ASSUME NEW s \in Sweepers,
               \/ RefreshSweep(s) \/ PendingSweep(s) \/ ManualSweep(s)
               \/ \E g \in Guilds : GuildSweep(s, g)
               \/ Filter(s) \/ SweepCrash(s) \/ \E t \in Trackers : Add(s, t)
        PROVE  NothingNew
    BY <1>q, <2>1 DEF RefreshSweep, PendingSweep, ManualSweep, GuildSweep, Select, Filter,
       SweepCrash, Add, storeVars
  <2>2. CASE (\E g \in Guilds : ToggleProcessing(g))
               \/ \E u \in Users, g \in Guilds : ChangeMembership(u, g)
    BY <1>q, <2>2 DEF ToggleProcessing, ChangeMembership, storeVars
  <2> QED BY <1>1, <1>2, <2>1, <2>2 DEF EnqueueNext
<1>3. CASE RowNext
  <2>1. UNCHANGED abandoned
    BY <1>3 DEF RowNext, UserDeleted, DeleteUser, Expire, UpdateTracker, DeleteTracker
  <2>2. \A t \in Trackers : tracker'[t].row = "live" =>
          tracker[t].row = "live" /\ tracker'[t].status = tracker[t].status
    <3>1. ASSUME NEW u \in Trackers, Expire(u) \/ UpdateTracker(u) \/ DeleteTracker(u)
          PROVE  \A t \in Trackers : tracker'[t].row = tracker[t].row
                                       /\ tracker'[t].status = tracker[t].status
      BY <1>t, <3>1 DEF Expire, UpdateTracker, DeleteTracker, TrackerRow
    <3>2. ASSUME NEW u \in Users, UserDeleted(u)
          PROVE  \A t \in Trackers : tracker'[t] = tracker[t] \/ tracker'[t].row = "gone"
      BY <1>t, <3>2 DEF UserDeleted, DeleteUser, TrackerRow
    <3> QED BY <1>3, <3>1, <3>2 DEF RowNext
  <2> QED BY <2>1, <2>2 DEF NothingNew, InProgress, Live
<1> QED BY <1>2, <1>3

(* No step leaves a tracker IN_PROGRESS that nothing will settle.           *)
LEMMA OwnedStep ==
  ASSUME StoreAssumption, Inv, InProgressOwned, [Next]_vars
  PROVE  InProgressOwned'
<1>1. CASE UNCHANGED vars
  BY <1>1 DEF vars, storeVars, workerVars, InProgressOwned, Stuck, Live, Running, ToBeRun, On, Runs, At
<1>2. CASE WorkerNext /\ UNCHANGED enqueueVars
  <2>1. ASSUME NEW w \in Workers, Crash(w) PROVE InProgressOwned'
    <3>1. Leaves(w) /\ NothingNew /\ ~At(w, "idle")
      BY <1>2, <2>1 DEF Crash, Leaves, NothingNew, InProgress, Live, enqueueVars
    <3>2. worker[w].pc \in Unsettled =>
            On(w) \in abandoned' \/ (Owns(w, worker[w].job) /\ UNCHANGED job)
      BY <2>1 DEF Crash, Unsettled, Settled
    <3> QED BY <3>1, <3>2, LeavesOwned
  <2> QED BY <1>2, <2>1, WorkerOwned, PickOwned, StallOwned DEF WorkerNext
<1>3. CASE (EnqueueNext /\ UNCHANGED workerVars) \/ (RowNext /\ UNCHANGED enqueueVars)
  BY <1>3, OthersOnlyAdd, OthersNothingNew, AddsOwned DEF Inv
<1> QED BY <1>1, <1>2, <1>3 DEF Next

(* A tracker is IN_PROGRESS only while an execution owes it an outcome or   *)
(* its job will run again, or the queue has given that job up.              *)
THEOREM InProgressAlwaysOwned == Spec => []InProgressOwned
<1>1. Init => Inv /\ InProgressOwned
  <2>1. Init => InProgressOwned
    BY DEF Init, StoreInit, NewRow, InProgressOwned, Stuck, Live
  <2> QED BY <2>1, StoreAssumption, InitInv
<1>2. Inv /\ InProgressOwned /\ [Next]_vars => (Inv /\ InProgressOwned)'
  BY StoreAssumption, TypeStep, PlacedStep, CountedStep, OwnedStep DEF Inv
<1> QED BY <1>1, <1>2, PTL DEF Spec

-------------------------------------------------------------------------------
(* What any step may do to the row and the seasons of a tracker.            *)

RowStep(t) ==
  \/ tracker'[t] = tracker[t]
  \/ tracker[t].row = "none" /\ tracker'[t] = NewRow
  \/ tracker[t].row = "live" /\ tracker'[t].row = "gone"
  \/ /\ tracker[t].row = "live" /\ tracker'[t].row = "live"
     /\ \/ /\ tracker'[t].status = tracker[t].status /\ tracker'[t].attempts = tracker[t].attempts
           /\ \/ tracker'[t].scraped = tracker[t].scraped
              \/ tracker[t].scraped = "fresh" /\ tracker'[t].scraped = "stale"
        \/ /\ tracker'[t].scraped = tracker[t].scraped
           /\ \/ tracker'[t].status \in {"PENDING", "IN_PROGRESS"}
              \/ tracker'[t].status = "FAILED" /\ tracker'[t].attempts > 0
        \/ /\ tracker'[t].status = "COMPLETED" /\ tracker'[t].scraped = "fresh"
           /\ tracker'[t].attempts = 0
           /\ \E w \in Workers : At(w, "complete") /\ On(w) = t

SeasonStep(t) ==
  \/ seasons'[t] = seasons[t]
  \/ Live(t) /\ tracker'[t] = tracker[t] /\ seasons[t] \subseteq seasons'[t]
  \/ tracker'[t].row # "live" /\ seasons'[t] = {}

(* A status write changes the three columns of one row.                     *)
LEMMA WriteRow ==
  ASSUME TypeOK, NEW u \in Trackers, NEW status, NEW scraped, NEW attempts,
         WriteStatus(u, status, scraped, attempts)
  PROVE  /\ tracker'[u].row = tracker[u].row /\ tracker'[u].status = status
         /\ tracker'[u].scraped = scraped /\ tracker'[u].attempts = attempts
         /\ \A t \in Trackers : t # u => tracker'[t] = tracker[t]
BY DEF WriteStatus, TypeOK, StoreTypeOK, TrackerRow

(* The steps of the processes change rows and seasons so.                   *)
LEMMA WorkerRows ==
  ASSUME StoreAssumption, Inv, WorkerNext
  PROVE  \A t \in Trackers : RowStep(t) /\ SeasonStep(t)
<1>t. /\ TypeOK /\ worker \in [Workers -> Execution] /\ seasons \in [Trackers -> SUBSET Seasons]
      /\ AttemptsCap \in Nat /\ AttemptsCap > 0
  BY DEF Inv, TypeOK, StoreTypeOK, WorkerTypeOK, StoreAssumption
<1>o. \A w \in Workers : ~At(w, "idle") => On(w) \in Trackers
  BY DEF Inv, Placed
<1>q. UNCHANGED <<tracker, seasons>> => \A t \in Trackers : RowStep(t) /\ SeasonStep(t)
  BY DEF RowStep, SeasonStep
<1>w. ASSUME NEW u \in Trackers, NEW status, NEW scraped, NEW attempts, Live(u),
             WriteStatus(u, status, scraped, attempts), UNCHANGED seasons,
             \/ scraped = tracker[u].scraped /\ status = "IN_PROGRESS"
             \/ scraped = tracker[u].scraped /\ status = "FAILED" /\ attempts > 0
             \/ /\ status = "COMPLETED" /\ scraped = "fresh" /\ attempts = 0
                /\ \E w \in Workers : At(w, "complete") /\ On(w) = u
      PROVE  \A t \in Trackers : RowStep(t) /\ SeasonStep(t)
  <2>1. /\ tracker'[u].row = tracker[u].row /\ tracker'[u].status = status
        /\ tracker'[u].scraped = scraped /\ tracker'[u].attempts = attempts
        /\ \A t \in Trackers : t # u => tracker'[t] = tracker[t]
    BY <1>t, <1>w, WriteRow
  <2> QED BY <1>w, <2>1 DEF RowStep, SeasonStep, Live
<1>u. ASSUME NEW u \in Trackers, Live(u), NEW S, seasons' = [seasons EXCEPT ![u] = @ \cup S],
             UNCHANGED tracker
      PROVE  \A t \in Trackers : RowStep(t) /\ SeasonStep(t)
  BY <1>t, <1>u DEF RowStep, SeasonStep
<1>1. ASSUME NEW w \in Workers,
             \/ Load(w) \/ OpenLog(w) \/ ReadSeasons(w) \/ Scrape(w) \/ EndFallback(w)
             \/ CloseLog(w) \/ FailRead(w) \/ FailLog(w) \/ Return(w) \/ Crash(w)
      PROVE  UNCHANGED <<tracker, seasons>>
  BY <1>1 DEF Load, OpenLog, ReadSeasons, Scrape, EndFallback, CloseLog, FailRead, FailLog, Return,
     Crash, storeVars
<1>2. ASSUME NEW w \in Workers, MarkInProgress(w)
      PROVE  \A t \in Trackers : RowStep(t) /\ SeasonStep(t)
  BY <1>2, <1>o, <1>q, <1>w DEF MarkInProgress, At
<1>3. ASSUME NEW w \in Workers, Complete(w)
      PROVE  \A t \in Trackers : RowStep(t) /\ SeasonStep(t)
  BY <1>3, <1>o, <1>q, <1>w DEF Complete, At
<1>4. ASSUME NEW w \in Workers, FailWrite(w)
      PROVE  \A t \in Trackers : RowStep(t) /\ SeasonStep(t)
  <2>1. worker[w].attempts \in Nat
    BY <1>t, <1>4 DEF Execution
  <2>2. (IF worker[w].attempts < AttemptsCap THEN worker[w].attempts + 1 ELSE AttemptsCap) > 0
    BY <1>t, <2>1
  <2> QED BY <1>4, <1>o, <1>q, <1>w, <2>2 DEF FailWrite, At
<1>5. ASSUME NEW w \in Workers, BulkUpsert(w) \/ UpsertOne(w)
      PROVE  \A t \in Trackers : RowStep(t) /\ SeasonStep(t)
  BY <1>5, <1>o, <1>q, <1>u DEF BulkUpsert, UpsertOne, At
<1>6. ASSUME NEW j \in Jobs, Stall(j) \/ \E w \in Workers : Pick(w, j)
      PROVE  UNCHANGED <<tracker, seasons>>
  BY <1>6 DEF Stall, Pick
<1> QED BY <1>q, <1>1, <1>2, <1>3, <1>4, <1>5, <1>6 DEF WorkerNext, WorkerStep

(* So do requests, sweeps and the steps of the rows.                        *)
LEMMA OtherRows ==
  ASSUME StoreAssumption, Inv, EnqueueNext \/ RowNext
  PROVE  \A t \in Trackers : RowStep(t) /\ SeasonStep(t)
<1>t. /\ TypeOK /\ tracker \in [Trackers -> TrackerRow]
      /\ seasons \in [Trackers -> SUBSET Seasons]
  BY DEF Inv, TypeOK, StoreTypeOK
<1>o. \A r \in Requests : ~In(r, "idle") => Requested(r) \in Trackers
  BY DEF Inv, Placed
<1>q. UNCHANGED <<tracker, seasons>> => \A t \in Trackers : RowStep(t) /\ SeasonStep(t)
  BY DEF RowStep, SeasonStep
<1>w. ASSUME NEW u \in Trackers, NEW status, NEW scraped, NEW attempts, Live(u),
             WriteStatus(u, status, scraped, attempts), UNCHANGED seasons,
             \/ scraped = tracker[u].scraped /\ status = "PENDING"
             \/ scraped = tracker[u].scraped /\ status = "FAILED" /\ attempts > 0
      PROVE  \A t \in Trackers : RowStep(t) /\ SeasonStep(t)
  <2>1. /\ tracker'[u].row = tracker[u].row /\ tracker'[u].status = status
        /\ tracker'[u].scraped = scraped /\ tracker'[u].attempts = attempts
        /\ \A t \in Trackers : t # u => tracker'[t] = tracker[t]
    BY <1>t, <1>w, WriteRow
  <2> QED BY <1>w, <2>1 DEF RowStep, SeasonStep, Live
<1>1. ASSUME NEW r \in Requests, Reject(r) \/ EnqueueFailed(r)
      PROVE  \A t \in Trackers : RowStep(t) /\ SeasonStep(t)
  <2>1. ~In(r, "idle") /\ WriteFailedOnce(r) /\ UNCHANGED seasons
    BY <1>1 DEF Reject, EnqueueFailed, In
  <2> QED BY <1>o, <1>q, <1>w, <2>1 DEF WriteFailedOnce
<1>2. ASSUME NEW r \in Requests, RefreshMark(r)
      PROVE  \A t \in Trackers : RowStep(t) /\ SeasonStep(t)
  BY <1>2, <1>o, <1>q, <1>w DEF RefreshMark, In
<1>3. ASSUME NEW r \in Requests, NEW u \in Trackers, Register(r, u)
      PROVE  \A t \in Trackers : RowStep(t) /\ SeasonStep(t)
  <2>1. tracker[u].row = "none" /\ tracker'[u] = NewRow /\ UNCHANGED seasons
        /\ \A t \in Trackers : t # u => tracker'[t] = tracker[t]
    BY <1>t, <1>3 DEF Register
  <2> QED BY <2>1 DEF RowStep, SeasonStep
<1>4. ASSUME NEW r \in Requests,
             \/ Guard(r) \/ EnqueueNew(r) \/ RefreshGuard(r) \/ RefreshAdd(r) \/ RequestCrash(r)
             \/ \E t \in Trackers : Refresh(r, t)
      PROVE  UNCHANGED <<tracker, seasons>>
  BY <1>4 DEF Guard, EnqueueNew, RefreshGuard, RefreshAdd, RequestCrash, Refresh, storeVars
<1>5. ASSUME NEW s \in Sweepers,
             \/ RefreshSweep(s) \/ PendingSweep(s) \/ ManualSweep(s)
             \/ \E g \in Guilds : GuildSweep(s, g)
             \/ Filter(s) \/ SweepCrash(s) \/ \E t \in Trackers : Add(s, t)
      PROVE  UNCHANGED <<tracker, seasons>>
  BY <1>5 DEF RefreshSweep, PendingSweep, ManualSweep, GuildSweep, Select, Filter, SweepCrash, Add,
     storeVars
<1>6. (\E g \in Guilds : ToggleProcessing(g))
        \/ (\E u \in Users, g \in Guilds : ChangeMembership(u, g)) => UNCHANGED <<tracker, seasons>>
  BY DEF ToggleProcessing, ChangeMembership, storeVars
<1>7. ASSUME NEW u \in Trackers, Expire(u) \/ UpdateTracker(u) \/ DeleteTracker(u)
      PROVE  \A t \in Trackers : RowStep(t) /\ SeasonStep(t)
  BY <1>t, <1>7 DEF Expire, UpdateTracker, DeleteTracker, RowStep, SeasonStep, TrackerRow, Live
<1>8. ASSUME NEW u \in Users, UserDeleted(u)
      PROVE  \A t \in Trackers : RowStep(t) /\ SeasonStep(t)
  BY <1>t, <1>8 DEF UserDeleted, DeleteUser, RowStep, SeasonStep, TrackerRow, Live
<1> QED BY <1>q, <1>1, <1>2, <1>3, <1>4, <1>5, <1>6, <1>7, <1>8
        DEF EnqueueNext, RowNext, RequestStepOf

(* Every step changes rows and seasons so.                                  *)
LEMMA AnyRows ==
  ASSUME StoreAssumption, Inv, [Next]_vars
  PROVE  \A t \in Trackers : RowStep(t) /\ SeasonStep(t)
<1>1. CASE UNCHANGED vars
  BY <1>1 DEF vars, storeVars, RowStep, SeasonStep
<1>2. CASE Next
  BY <1>2, WorkerRows, OtherRows DEF Next
<1> QED BY <1>1, <1>2

-------------------------------------------------------------------------------
(* Rows: attempts agree with the status; what does not exist has no seasons.*)
RowOK(t) ==
  /\ tracker[t].row = "none" => seasons[t] = {}
  /\ Live(t) => /\ tracker[t].status = "COMPLETED" => tracker[t].attempts = 0 /\ tracker[t].scraped # "never"
                /\ tracker[t].status = "FAILED" => tracker[t].attempts > 0

RowsOK == \A t \in Trackers : RowOK(t)

(* No step breaks it.                                                       *)
LEMMA RowsOKStep ==
  ASSUME StoreAssumption, Inv, RowsOK, [Next]_vars
  PROVE  RowsOK'
<1> SUFFICES ASSUME NEW t \in Trackers PROVE RowOK(t)'
  BY DEF RowsOK
<1>1. RowStep(t) /\ SeasonStep(t) /\ RowOK(t)
  BY AnyRows DEF RowsOK
<1> QED BY <1>1 DEF RowStep, SeasonStep, RowOK, Live, NewRow

(* What is scraped is never forgotten, whatever the requests, the sweeps,   *)
(* the failures and the other executions of the tracker do.                 *)
THEOREM NeverUnlearned == Spec => NothingUnlearned
<1>1. Inv /\ [Next]_vars =>
        [\A t \in Trackers : Live(t) /\ Live(t)' =>
           /\ seasons[t] \subseteq seasons'[t]
           /\ tracker[t].scraped # "never" => tracker'[t].scraped # "never"
           /\ tracker[t].scraped # tracker'[t].scraped /\ tracker'[t].scraped = "fresh"
                => tracker'[t].status = "COMPLETED"]_vars
  <2> SUFFICES ASSUME Inv, [Next]_vars, NEW t \in Trackers, Live(t), Live(t)'
               PROVE  /\ seasons[t] \subseteq seasons'[t]
                      /\ tracker[t].scraped # "never" => tracker'[t].scraped # "never"
                      /\ tracker[t].scraped # tracker'[t].scraped /\ tracker'[t].scraped = "fresh"
                           => tracker'[t].status = "COMPLETED"
    OBVIOUS
  <2>1. RowStep(t) /\ SeasonStep(t)
    BY StoreAssumption, AnyRows
  <2> QED BY <2>1 DEF RowStep, SeasonStep, Live, NewRow
<1>2. Init => Inv
  BY StoreAssumption, InitInv
<1>3. Inv /\ [Next]_vars => Inv'
  BY StoreAssumption, TypeStep, PlacedStep, CountedStep DEF Inv
<1> QED BY <1>1, <1>2, <1>3, PTL DEF Spec, NothingUnlearned

-------------------------------------------------------------------------------
(* What an execution has stored, and what it may rely on having stored, is  *)
(* in the table, as long as the tracker is.                                 *)

Everything == History \cup {Latest}

(* The seasons an execution has tried to store.                             *)
Tried(e) == IF e.pc = "fallback" THEN e.got \ e.todo ELSE e.got

StoredIn(e, rows, sn) ==
  e.pc \in {"fallback", "complete", "closeLog"} /\ rows[e.tracker].row # "gone" =>
    e.stored <= Cardinality(Tried(e) \cap sn[e.tracker])

KeptIn(e, rows, sn, pt) ==
  e.tracker \notin pt /\ rows[e.tracker].row # "gone" =>
    /\ e.pc \in {"openLog", "mark", "readSeasons"} /\ ~e.never => Everything \subseteq sn[e.tracker]
    /\ e.pc = "readSeasons" => ~e.never
    /\ e.pc = "scrape" /\ ~e.first => Everything \subseteq sn[e.tracker]
    /\ e.pc \in {"bulk", "fallback"} => Everything \subseteq sn[e.tracker] \/ e.got = Everything
    /\ e.pc = "fallback" => e.got \ e.todo \subseteq sn[e.tracker]
    /\ e.pc = "complete" => Everything \subseteq sn[e.tracker]

Honest == \A w \in Workers : /\ StoredIn(worker[w], tracker, seasons)
                             /\ KeptIn(worker[w], tracker, seasons, partial)

(* A tracker that is gone stays gone, and the seasons of another only grow. *)
LEMMA Growth ==
  ASSUME StoreAssumption, Inv, RowsOK, [Next]_vars
  PROVE  \A t \in Trackers : tracker'[t].row # "gone" =>
           tracker[t].row # "gone" /\ seasons[t] \subseteq seasons'[t]
<1> SUFFICES ASSUME NEW t \in Trackers, tracker'[t].row # "gone"
             PROVE  tracker[t].row # "gone" /\ seasons[t] \subseteq seasons'[t]
  OBVIOUS
<1>1. RowStep(t) /\ SeasonStep(t) /\ RowOK(t)
  BY AnyRows DEF RowsOK
<1>2. tracker'[t] \in TrackerRow
  BY TypeStep DEF Inv, TypeOK, StoreTypeOK
<1> QED BY <1>1, <1>2 DEF RowStep, SeasonStep, RowOK, Live, TrackerRow

(* So an execution that does not move keeps what it has.                    *)
LEMMA HonestStays ==
  ASSUME StoreAssumption, NEW e \in Execution, e.pc # "idle" => e.tracker \in Trackers,
         NEW rows, NEW rows2, NEW sn \in [Trackers -> SUBSET Seasons],
         NEW sn2 \in [Trackers -> SUBSET Seasons], NEW pt, NEW pt2, pt \subseteq pt2,
         \A t \in Trackers : rows2[t].row # "gone" =>
           rows[t].row # "gone" /\ sn[t] \subseteq sn2[t],
         StoredIn(e, rows, sn), KeptIn(e, rows, sn, pt)
  PROVE  StoredIn(e, rows2, sn2) /\ KeptIn(e, rows2, sn2, pt2)
<1>1. KeptIn(e, rows2, sn2, pt2)
  <2>1. CASE e.pc = "idle"
    BY <2>1 DEF KeptIn
  <2>2. CASE e.pc # "idle"
    BY <2>2 DEF KeptIn
  <2> QED BY <2>1, <2>2
<1>2. StoredIn(e, rows2, sn2)
  <2> SUFFICES ASSUME e.pc \in {"fallback", "complete", "closeLog"}, rows2[e.tracker].row # "gone"
               PROVE  e.stored <= Cardinality(Tried(e) \cap sn2[e.tracker])
    BY DEF StoredIn
  <2>1. e.stored <= Cardinality(Tried(e) \cap sn[e.tracker]) /\ e.stored \in Nat
    BY DEF StoredIn, Execution
  <2>2. /\ Tried(e) \cap sn[e.tracker] \subseteq Tried(e) \cap sn2[e.tracker]
        /\ Tried(e) \cap sn2[e.tracker] \in SUBSET Seasons
        /\ Tried(e) \cap sn[e.tracker] \in SUBSET Seasons
    OBVIOUS
  <2>3. /\ Cardinality(Tried(e) \cap sn[e.tracker]) <= Cardinality(Tried(e) \cap sn2[e.tracker])
        /\ Cardinality(Tried(e) \cap sn[e.tracker]) \in Nat
        /\ Cardinality(Tried(e) \cap sn2[e.tracker]) \in Nat
    BY <2>2, SeasonsFinite, FS_Subset, FS_CardinalityType
  <2> QED BY <2>1, <2>3
<1> QED BY <1>1, <1>2

(* At the other steps there is nothing to keep.                             *)
LEMMA HonestElsewhere ==
  ASSUME NEW e, NEW rows, NEW sn, NEW pt,
         e.pc \in {"idle", "load", "failRead", "failWrite", "failLog", "done"}
  PROVE  StoredIn(e, rows, sn) /\ KeptIn(e, rows, sn, pt)
BY DEF StoredIn, KeptIn

(* A step of an execution leaves it with what it needs at its next step.    *)
LEMMA HonestMoves ==
  ASSUME StoreAssumption, Inv, RowsOK, HistoryKept, Honest, NEW w \in Workers, WorkerStep(w),
         UNCHANGED enqueueVars
  PROVE  StoredIn(worker'[w], tracker', seasons') /\ KeptIn(worker'[w], tracker', seasons', partial')
<1> DEFINE e == worker[w]
           Good == /\ StoredIn(worker'[w], tracker', seasons')
                   /\ KeptIn(worker'[w], tracker', seasons', partial')
<1>t. /\ e \in Execution /\ worker \in [Workers -> Execution] /\ CountedIn(e)
      /\ seasons \in [Trackers -> SUBSET Seasons]
  BY DEF Inv, TypeOK, WorkerTypeOK, StoreTypeOK, Counted
<1>o. e.tracker \in Trackers /\ On(w) = e.tracker
  BY StaysOrLeaves DEF Inv, Placed, On
<1>h. StoredIn(e, tracker, seasons) /\ KeptIn(e, tracker, seasons, partial)
  BY DEF Honest
<1>u. ASSUME NEW f, Update(w, f) PROVE worker'[w] = f
  BY <1>t, <1>u DEF Update
<1>f. Goto(w, "failRead") => Good
  BY GotoPc, HonestElsewhere DEF Inv
<1>l. Leave(w) => Good
  <2>1. Leave(w) => worker'[w].pc = "idle"
    BY <1>u DEF Leave, Idle
  <2> QED BY <2>1, HonestElsewhere
<1>n. Next
  BY DEF Next, WorkerNext
<1>g. \A t \in Trackers : tracker'[t].row # "gone" =>
        tracker[t].row # "gone" /\ seasons[t] \subseteq seasons'[t]
  BY <1>n, Growth
<1>c. ASSUME NEW S \in SUBSET Seasons PROVE IsFiniteSet(S) /\ Cardinality(S) \in Nat
  BY SeasonsFinite, FS_CardinalityType
<1>1. CASE Load(w)
  <2>1. ASSUME Live(On(w)), Update(w, [e EXCEPT !.pc = "openLog",
                                         !.never = tracker[On(w)].scraped = "never"]),
               UNCHANGED <<tracker, seasons, partial>>
        PROVE  Good
    <3>1. /\ worker'[w].pc = "openLog" /\ worker'[w].tracker = e.tracker
          /\ worker'[w].never <=> (tracker[On(w)].scraped = "never")
      BY <1>t, <1>u, <2>1, ZenonT(40) DEF Execution
    <3>2. worker'[w].never \/ e.tracker \in partial \/ Everything \subseteq seasons[e.tracker]
      BY <1>o, <2>1, <3>1 DEF HistoryKept, Everything
    <3> QED BY <2>1, <3>1, <3>2 DEF StoredIn, KeptIn
  <2> QED BY <1>1, <1>f, <2>1 DEF Load
<1>2. CASE OpenLog(w)
  <2>1. ASSUME Update(w, [e EXCEPT !.pc = "mark", !.log = TRUE]),
               UNCHANGED <<tracker, seasons, partial>>
        PROVE  Good
    <3>1. /\ worker'[w].pc = "mark" /\ worker'[w].tracker = e.tracker
          /\ worker'[w].never = e.never
      BY <1>t, <1>u, <2>1 DEF Execution
    <3> QED BY <1>2, <1>h, <2>1, <3>1 DEF StoredIn, KeptIn, OpenLog, At
  <2> QED BY <1>2, <1>f, <2>1 DEF OpenLog
<1>3. CASE MarkInProgress(w)
  <2>1. ASSUME Update(w, [e EXCEPT !.pc = IF e.never THEN "scrape" ELSE "readSeasons",
                                   !.first = e.never]),
               UNCHANGED <<seasons, partial>>
        PROVE  Good
    <3>1. /\ worker'[w].tracker = e.tracker /\ worker'[w].never = e.never
          /\ worker'[w].first = e.never
          /\ worker'[w].pc = IF e.never THEN "scrape" ELSE "readSeasons"
      <4>1. worker'[w] = [e EXCEPT !.pc = IF e.never THEN "scrape" ELSE "readSeasons",
                                   !.first = e.never]
        BY <1>u, <2>1
      <4> QED BY <1>t, <4>1 DEF Execution
    <3>2. e.pc = "mark" /\ e.never \in BOOLEAN
      BY <1>3, <1>t DEF MarkInProgress, At, Execution
    <3> QED BY <1>h, <1>g, <1>o, <2>1, <3>1, <3>2 DEF StoredIn, KeptIn
  <2> QED BY <1>3, <1>f, <2>1 DEF MarkInProgress
<1>4. CASE ReadSeasons(w)
  <2>1. ASSUME Update(w, [e EXCEPT !.pc = "scrape", !.first = seasons[On(w)] = {}]),
               UNCHANGED <<tracker, seasons, partial>>
        PROVE  Good
    <3>1. worker'[w].tracker = e.tracker /\ worker'[w].pc = "scrape"
      BY <1>t, <1>u, <2>1, ZenonT(40) DEF Execution
    <3>2. e.pc = "readSeasons"
      BY <1>4 DEF ReadSeasons, At
    <3> QED BY <1>h, <2>1, <3>1, <3>2 DEF StoredIn, KeptIn
  <2> QED BY <1>4, <1>f, <2>1 DEF ReadSeasons
<1>5. CASE Scrape(w)
  <2>1. ASSUME NEW got \in SUBSET Wanted(w),
               Update(w, [e EXCEPT !.pc = IF got = {} THEN "complete" ELSE "bulk", !.got = got]),
               partial' = IF got = Wanted(w) THEN partial ELSE partial \cup {On(w)},
               UNCHANGED <<tracker, seasons>>
        PROVE  Good
    <3>1. /\ worker'[w].tracker = e.tracker /\ worker'[w].got = got /\ worker'[w].stored = e.stored
          /\ worker'[w].pc = IF got = {} THEN "complete" ELSE "bulk"
      BY <1>t, <1>u, <2>1 DEF Execution
    <3>2. e.pc = "scrape" /\ e.stored = 0
      BY <1>5, <1>t DEF Scrape, At, CountedIn
    <3>3. /\ Wanted(w) # {} /\ (e.first => Wanted(w) = Everything)
      BY DEF Wanted, Everything
    <3>4. StoredIn(worker'[w], tracker', seasons')
      <4>1. Cardinality(Tried(worker'[w]) \cap seasons'[e.tracker]) \in Nat
        BY <1>c, <1>o, <1>t, <2>1
      <4> QED BY <3>1, <3>2, <4>1 DEF StoredIn
    <3>5. KeptIn(worker'[w], tracker', seasons', partial')
      BY <1>h, <1>o, <2>1, <3>1, <3>2, <3>3 DEF KeptIn
    <3> QED BY <3>4, <3>5
  <2> QED BY <1>5, <1>f, <2>1 DEF Scrape, storeVars
<1>6. CASE BulkUpsert(w)
  <2>0. e.pc = "bulk" /\ e.stored = 0 /\ e.got \in SUBSET Seasons
    BY <1>6, <1>t DEF BulkUpsert, At, CountedIn, Execution
  <2>1. ASSUME seasons' = [seasons EXCEPT ![On(w)] = @ \cup e.got],
               Update(w, [e EXCEPT !.pc = "complete", !.stored = Cardinality(e.got)]),
               UNCHANGED <<tracker, partial>>
        PROVE  Good
    <3>1. /\ worker'[w].tracker = e.tracker /\ worker'[w].got = e.got /\ worker'[w].pc = "complete"
          /\ worker'[w].stored = Cardinality(e.got)
      BY <1>t, <1>u, <2>1 DEF Execution
    <3>2. seasons'[e.tracker] = seasons[e.tracker] \cup e.got
      BY <1>o, <1>t, <2>1
    <3>3. StoredIn(worker'[w], tracker', seasons')
      <4>1. Tried(worker'[w]) \cap seasons'[e.tracker] = e.got
        BY <3>1, <3>2 DEF Tried
      <4>2. Cardinality(e.got) \in Nat
        BY <1>c, <2>0
      <4>3. worker'[w].stored <= Cardinality(Tried(worker'[w]) \cap seasons'[worker'[w].tracker])
        <5>1. Tried(worker'[w]) \cap seasons'[worker'[w].tracker] = e.got
          BY <3>1, <4>1
        <5>2. Cardinality(Tried(worker'[w]) \cap seasons'[worker'[w].tracker]) = worker'[w].stored
          BY <3>1, <5>1, Zenon
        <5> QED BY <3>1, <4>2, <5>2
      <4> QED BY <4>3 DEF StoredIn
    <3> QED BY <1>h, <2>0, <2>1, <3>1, <3>2, <3>3 DEF KeptIn
  <2>2. ASSUME Update(w, [e EXCEPT !.pc = "fallback", !.todo = e.got]),
               UNCHANGED <<tracker, seasons, partial>>
        PROVE  Good
    <3>1. /\ worker'[w].tracker = e.tracker /\ worker'[w].got = e.got /\ worker'[w].pc = "fallback"
          /\ worker'[w].stored = 0 /\ worker'[w].todo = e.got
      BY <1>t, <1>u, <2>0, <2>2, ZenonT(40) DEF Execution
    <3>2. StoredIn(worker'[w], tracker', seasons')
      <4>1. Tried(worker'[w]) \cap seasons'[e.tracker] = {}
        BY <3>1 DEF Tried
      <4>2. worker'[w].stored <= Cardinality(Tried(worker'[w]) \cap seasons'[worker'[w].tracker])
        <5>1. Tried(worker'[w]) \cap seasons'[worker'[w].tracker] = {}
          BY <3>1, <4>1
        <5>2. Cardinality(Tried(worker'[w]) \cap seasons'[worker'[w].tracker]) = 0
          BY <5>1, FS_EmptySet, Zenon
        <5> QED BY <3>1, <5>2
      <4> QED BY <4>2 DEF StoredIn
    <3> QED BY <1>h, <2>0, <2>2, <3>1, <3>2 DEF KeptIn
  <2> QED BY <1>6, <2>1, <2>2 DEF BulkUpsert
<1>7. CASE UpsertOne(w)
  <2>0. /\ e.pc = "fallback" /\ e.stored \in Nat /\ e.got \in SUBSET Seasons
        /\ e.todo \subseteq e.got
    BY <1>7, <1>t DEF UpsertOne, At, CountedIn, Execution
  <2> DEFINE old == (e.got \ e.todo) \cap seasons[e.tracker]
  <2>a. /\ old \in SUBSET Seasons
        /\ tracker[e.tracker].row # "gone" => e.stored <= Cardinality(old)
    BY <1>h, <2>0 DEF StoredIn, Tried
  <2>1. ASSUME NEW s \in e.todo, seasons' = [seasons EXCEPT ![On(w)] = @ \cup {s}],
               Update(w, [e EXCEPT !.todo = @ \ {s}, !.stored = @ + 1]),
               UNCHANGED <<tracker, partial>>
        PROVE  Good
    <3>1. /\ worker'[w].tracker = e.tracker /\ worker'[w].got = e.got /\ worker'[w].pc = "fallback"
          /\ worker'[w].stored = e.stored + 1 /\ worker'[w].todo = e.todo \ {s}
      BY <1>t, <1>u, <2>0, <2>1 DEF Execution
    <3>2. seasons'[e.tracker] = seasons[e.tracker] \cup {s}
      BY <1>o, <1>t, <2>1
    <3>3. StoredIn(worker'[w], tracker', seasons')
      <4>1. Tried(worker'[w]) \cap seasons'[e.tracker] = old \cup {s} /\ s \notin old
        BY <2>0, <2>1, <3>1, <3>2 DEF Tried
      <4>2. Cardinality(old \cup {s}) = Cardinality(old) + 1 /\ Cardinality(old) \in Nat
        BY <1>c, <2>a, <4>1, FS_AddElement
      <4>3. tracker'[e.tracker].row # "gone" => e.stored + 1 <= Cardinality(old \cup {s})
        BY <2>0, <2>1, <2>a, <4>2
      <4>4. Tried(worker'[w]) \cap seasons'[worker'[w].tracker] = old \cup {s}
        BY <3>1, <4>1
      <4> HIDE DEF old
      <4> QED BY <3>1, <4>3, <4>4 DEF StoredIn
    <3> QED BY <1>h, <2>0, <2>1, <3>1, <3>2, <3>3 DEF KeptIn
  <2>2. ASSUME NEW s \in e.todo, Update(w, [e EXCEPT !.todo = @ \ {s}, !.lost = @ + 1]),
               partial' = partial \cup {On(w)}, UNCHANGED <<tracker, seasons>>
        PROVE  Good
    <3>1. /\ worker'[w].tracker = e.tracker /\ worker'[w].got = e.got /\ worker'[w].pc = "fallback"
          /\ worker'[w].stored = e.stored /\ worker'[w].todo = e.todo \ {s}
      BY <1>t, <1>u, <2>0, <2>2 DEF Execution
    <3>2. StoredIn(worker'[w], tracker', seasons')
      <4> DEFINE new == Tried(worker'[w]) \cap seasons'[e.tracker]
      <4>1. old \subseteq new /\ new \in SUBSET Seasons
        BY <1>t, <1>o, <2>0, <2>2, <3>1 DEF Tried
      <4>2. Cardinality(old) <= Cardinality(new) /\ Cardinality(old) \in Nat /\ Cardinality(new) \in Nat
        BY <1>c, <2>a, <4>1, FS_Subset
      <4> QED BY <2>0, <2>2, <2>a, <3>1, <4>2 DEF StoredIn
    <3> QED BY <1>o, <2>2, <3>1, <3>2 DEF KeptIn
  <2> QED BY <1>7, <2>1, <2>2 DEF UpsertOne
<1>8. CASE EndFallback(w)
  <2>0. e.pc = "fallback" /\ e.todo = {} /\ UNCHANGED <<tracker, seasons, partial>>
    BY <1>8 DEF EndFallback, At, storeVars
  <2>1. /\ worker'[w].tracker = e.tracker /\ worker'[w].got = e.got /\ worker'[w].pc = "complete"
        /\ worker'[w].stored = e.stored
    BY <1>8, <1>t, <1>u DEF EndFallback, Goto, Execution
  <2>2. Tried(worker'[w]) = Tried(e)
    BY <2>0, <2>1 DEF Tried
  <2>3. StoredIn(worker'[w], tracker', seasons')
    BY <1>h, <2>0, <2>1, <2>2 DEF StoredIn
  <2>4. KeptIn(worker'[w], tracker', seasons', partial')
    BY <1>h, <2>0, <2>1 DEF KeptIn
  <2> QED BY <2>3, <2>4
<1>9. CASE Complete(w)
  <2>1. ASSUME Goto(w, "closeLog"), WriteStatus(On(w), "COMPLETED", "fresh", 0),
               UNCHANGED <<seasons, partial>>
        PROVE  Good
    <3>0. e.pc = "complete"
      BY <1>9 DEF Complete, At
    <3>1. /\ worker'[w].tracker = e.tracker /\ worker'[w].got = e.got /\ worker'[w].pc = "closeLog"
          /\ worker'[w].stored = e.stored
      BY <1>t, <1>u, <2>1 DEF Goto, Execution
    <3>2. Tried(worker'[w]) = Tried(e)
      BY <3>0, <3>1 DEF Tried
    <3>3. StoredIn(worker'[w], tracker', seasons')
      BY <1>g, <1>h, <1>o, <2>1, <3>0, <3>1, <3>2 DEF StoredIn
    <3> QED BY <3>1, <3>3 DEF KeptIn
  <2> QED BY <1>9, <1>f, <2>1 DEF Complete
<1>10. CASE CloseLog(w)
  <2>1. ASSUME Update(w, [e EXCEPT !.pc = "done", !.log = FALSE]) PROVE Good
    <3>1. worker'[w].pc = "done"
      BY <1>t, <1>u, <2>1 DEF Execution
    <3> QED BY <3>1, HonestElsewhere
  <2> QED BY <1>10, <1>f, <2>1 DEF CloseLog
<1>11. CASE FailRead(w)
  <2>1. ASSUME NEW n, Update(w, [e EXCEPT !.pc = "failWrite", !.attempts = n]) PROVE Good
    <3>1. worker'[w].pc = "failWrite"
      BY <1>t, <1>u, <2>1 DEF Execution
    <3> QED BY <3>1, HonestElsewhere
  <2> QED BY <1>11, <1>l, <2>1 DEF FailRead, Throw
<1>12. CASE FailWrite(w)
  <2>1. ASSUME NEW pc \in {"failLog", "done"}, Goto(w, pc) PROVE Good
    BY <2>1, GotoPc, HonestElsewhere DEF Inv
  <2> QED BY <1>12, <1>l, <2>1 DEF FailWrite, Throw
<1>13. CASE FailLog(w)
  <2>1. ASSUME Update(w, [e EXCEPT !.pc = "done", !.log = FALSE]) PROVE Good
    <3>1. worker'[w].pc = "done"
      BY <1>t, <1>u, <2>1 DEF Execution
    <3> QED BY <3>1, HonestElsewhere
  <2> QED BY <1>13, <1>l, <2>1 DEF FailLog, Throw
<1>14. CASE Return(w)
  BY <1>14, <1>l DEF Return
<1> QED BY <1>1, <1>2, <1>3, <1>4, <1>5, <1>6, <1>7, <1>8, <1>9, <1>10, <1>11, <1>12, <1>13, <1>14
        DEF WorkerStep

(* Seasons once missed stay on record.                                      *)
LEMMA PartialGrows == ASSUME [Next]_vars PROVE partial \subseteq partial'
BY DEF Next, WorkerNext, WorkerStep, RowNext, UserDeleted, vars, workerVars, Load, OpenLog,
   MarkInProgress, ReadSeasons, Scrape, BulkUpsert, UpsertOne, EndFallback, Complete, CloseLog,
   FailRead, FailWrite, FailLog, Return, Crash, Pick, Stall

(* No step of the pipeline breaks what the executions rely on.              *)
LEMMA HonestStep ==
  ASSUME StoreAssumption, Inv, RowsOK, HistoryKept, Honest, [Next]_vars
  PROVE  Honest'
<1>t. /\ worker \in [Workers -> Execution] /\ seasons \in [Trackers -> SUBSET Seasons]
      /\ seasons' \in [Trackers -> SUBSET Seasons]
  BY TypeStep DEF Inv, TypeOK, WorkerTypeOK, StoreTypeOK
<1>p. partial \subseteq partial'
  BY PartialGrows
<1>s. ASSUME NEW v \in Workers, worker'[v] = worker[v]
      PROVE  /\ StoredIn(worker'[v], tracker', seasons')
             /\ KeptIn(worker'[v], tracker', seasons', partial')
  <2>1. worker[v].pc # "idle" => worker[v].tracker \in Trackers
    BY DEF Inv, Placed, At, On
  <2>2. StoredIn(worker[v], tracker, seasons) /\ KeptIn(worker[v], tracker, seasons, partial)
    BY DEF Honest
  <2> QED BY <1>t, <1>p, <1>s, <2>1, <2>2, Growth, HonestStays
<1>m. ASSUME NEW w \in Workers,
             /\ StoredIn(worker'[w], tracker', seasons')
             /\ KeptIn(worker'[w], tracker', seasons', partial'),
             \A v \in Workers : v # w => worker'[v] = worker[v]
      PROVE  Honest'
  BY <1>m, <1>s DEF Honest
<1>1. CASE UNCHANGED worker
  BY <1>1, <1>s DEF Honest
<1>2. ASSUME NEW w \in Workers, WorkerStep(w), UNCHANGED enqueueVars PROVE Honest'
  <2>1. \A v \in Workers : v # w => worker'[v] = worker[v]
    BY <1>t, <1>2, StaysOrLeaves DEF Stays, Leaves, Leave, Update, Inv
  <2>2. /\ StoredIn(worker'[w], tracker', seasons')
        /\ KeptIn(worker'[w], tracker', seasons', partial')
    BY <1>2, HonestMoves
  <2> QED BY <1>m, <2>1, <2>2
<1>3. ASSUME NEW w \in Workers, Crash(w) \/ \E j \in Jobs : Pick(w, j) PROVE Honest'
  <2>1. worker'[w].pc \in {"idle", "load"} /\ \A v \in Workers : v # w => worker'[v] = worker[v]
    <3>1. CASE Crash(w)
      BY <1>t, <3>1 DEF Crash, Leave, Update, Idle
    <3>2. ASSUME NEW j \in Jobs, Pick(w, j)
          PROVE  worker'[w].pc = "load" /\ \A v \in Workers : v # w => worker'[v] = worker[v]
      <4>1. worker'[w] = [Idle EXCEPT !.pc = "load", !.job = j, !.tracker = job[j].tracker]
            /\ \A v \in Workers : v # w => worker'[v] = worker[v]
        BY <1>t, <3>2 DEF Pick, Update
      <4> QED BY <4>1 DEF Idle
    <3> QED BY <1>3, <3>1, <3>2
  <2>2. /\ StoredIn(worker'[w], tracker', seasons')
        /\ KeptIn(worker'[w], tracker', seasons', partial')
    BY <2>1, HonestElsewhere
  <2> QED BY <1>m, <2>1, <2>2
<1>4. ASSUME NEW j \in Jobs, Stall(j) PROVE UNCHANGED worker
  BY <1>4 DEF Stall, workerVars
<1>5. RowNext => UNCHANGED worker
  BY DEF RowNext, UserDeleted, workerVars
<1> QED BY <1>1, <1>2, <1>3, <1>4, <1>5 DEF Next, WorkerNext, vars, workerVars

(* A tracker that has been scraped keeps the seasons the scrape promised.   *)
LEMMA HistoryStep ==
  ASSUME StoreAssumption, Inv, RowsOK, HistoryKept, Honest, [Next]_vars
  PROVE  HistoryKept'
<1> SUFFICES ASSUME NEW t \in Trackers, t \notin partial', Live(t)', tracker'[t].scraped # "never"
             PROVE  History \cup {Latest} \subseteq seasons'[t]
  BY DEF HistoryKept
<1>1. RowStep(t)
  BY AnyRows
<1>2. tracker[t].row # "gone" /\ seasons[t] \subseteq seasons'[t] /\ t \notin partial
  BY Growth, PartialGrows DEF Live
<1>3. CASE Live(t) /\ tracker[t].scraped # "never"
  BY <1>2, <1>3 DEF HistoryKept
<1>4. CASE \E w \in Workers : At(w, "complete") /\ On(w) = t
  <2>1. PICK w \in Workers : worker[w].pc = "complete" /\ worker[w].tracker = t
    BY <1>4 DEF At, On
  <2>2. Everything \subseteq seasons[t]
    BY <1>2, <2>1 DEF Honest, KeptIn
  <2> QED BY <1>2, <2>2 DEF Everything
<1> QED BY <1>1, <1>3, <1>4 DEF RowStep, Live, NewRow

-------------------------------------------------------------------------------
(* All of it together is inductive.                                         *)
Bookkeeping == Inv /\ RowsOK /\ Honest /\ HistoryKept

(* It holds in the initial states.                                          *)
LEMMA InitBookkeeping == ASSUME StoreAssumption PROVE Init => Bookkeeping
<1> SUFFICES ASSUME Init PROVE RowsOK /\ Honest /\ HistoryKept
  BY InitInv DEF Bookkeeping
<1>1. \A t \in Trackers : tracker[t].row = "none" /\ seasons[t] = {}
  BY DEF Init, StoreInit, NewRow
<1>2. \A w \in Workers : worker[w].pc = "idle"
  BY DEF Init, WorkerInit, Idle
<1> QED BY <1>1, <1>2 DEF RowsOK, RowOK, Live, Honest, StoredIn, KeptIn, HistoryKept

(* No step breaks it.                                                       *)
LEMMA BookkeepingStep ==
  ASSUME StoreAssumption, Bookkeeping, [Next]_vars PROVE Bookkeeping'
<1>1. Inv'
  BY TypeStep, PlacedStep, CountedStep DEF Bookkeeping, Inv
<1> QED BY <1>1, RowsOKStep, HonestStep, HistoryStep DEF Bookkeeping

(* However executions of the same tracker overlap, and whatever fails, a    *)
(* scraped tracker for which no season was lost has the current season and  *)
(* the MaxHistory seasons before it.                                        *)
THEOREM HistoryIsKept == Spec => []HistoryKept
<1>1. Bookkeeping => HistoryKept
  BY DEF Bookkeeping
<1> QED BY <1>1, StoreAssumption, InitBookkeeping, BookkeepingStep, PTL DEF Spec

(* Every season fetched is counted once as scraped or failed, those counted *)
(* as scraped are stored, and the attempts of a tracker agree with its      *)
(* status, although requests and executions write both with values they     *)
(* read before.                                                             *)
THEOREM OutcomesHonest == Spec => []OutcomesAddUp
<1>1. Bookkeeping => OutcomesAddUp
  <2> SUFFICES ASSUME Bookkeeping PROVE CountsAddUp /\ AttemptsAgree
    BY DEF OutcomesAddUp
  <2>1. AttemptsAgree
    BY DEF Bookkeeping, RowsOK, RowOK, AttemptsAgree
  <2>2. CountsAddUp
    BY DEF Bookkeeping, Inv, Counted, CountedIn, Honest, StoredIn, Tried, Live, CountsAddUp
  <2> QED BY <2>1, <2>2
<1> QED BY <1>1, StoreAssumption, InitBookkeeping, BookkeepingStep, PTL DEF Spec

-------------------------------------------------------------------------------
(* Faults.  Every job, execution, request and sweep is about a tracker that *)
(* has been registered; every try and every stall of a job whose tracker is *)
(* still there was paid for with a fault, and so was every lost lock.       *)

Seen(t) == tracker[t].row # "none"

Known ==
  /\ \A w \in Workers : ~At(w, "idle") => Seen(On(w))
  /\ \A j \in Jobs : job[j].state # "free" => Seen(job[j].tracker)
  /\ \A r \in Requests : ~In(r, "idle") => Seen(Requested(r))
  /\ \A s \in Sweepers : \A t \in sweep[s].ids : Seen(t)

Charged ==
  \A j \in Jobs :
    job[j].state # "free" /\ tracker[job[j].tracker].row # "gone" =>
      /\ job[j].tries + job[j].stalls <= faults
      /\ job[j].state = "active" /\ ~Runs(job[j].owner, j) => job[j].tries + job[j].stalls < faults

Held == \A w \in Workers : ~At(w, "idle") /\ ~Owns(w, worker[w].job) => faults > 0

Closed == \A w \in Workers : At(w, "done") => ~worker[w].log

Spared == faults <= 1 => \A t \in abandoned : tracker[t].row = "gone"

Contained == Known /\ Charged /\ Held /\ Closed /\ Spared /\ OrphanLogNeedsFault

(* The rest of the store never forgets a tracker, nor brings one back.      *)
LEMMA RowsLast ==
  ASSUME StoreAssumption, Inv, [Next]_vars
  PROVE  \A t \in Trackers : /\ Seen(t) => Seen(t)'
                             /\ tracker[t].row = "gone" => tracker'[t].row = "gone"
<1>1. \A t \in Trackers : RowStep(t)
  BY AnyRows
<1> QED BY <1>1 DEF RowStep, Seen, NewRow

(* Faults are only counted up.                                              *)
LEMMA FaultsGrow ==
  ASSUME StoreAssumption, Inv, [Next]_vars
  PROVE  faults \in Nat /\ faults' \in Nat /\ faults <= faults'
<1>1. faults \in Nat
  BY DEF Inv, TypeOK, StoreTypeOK, StoreAssumption
<1>2. UNCHANGED faults \/ Fault
  BY ZenonT(40) DEF Next, WorkerNext, WorkerStep, RowNext, UserDeleted, DeleteUser, Expire, UpdateTracker,
     DeleteTracker, vars, storeVars, Load, OpenLog, MarkInProgress, ReadSeasons, Scrape,
     BulkUpsert, UpsertOne, EndFallback, Complete, CloseLog, FailRead, FailWrite, FailLog, Return,
     Crash, Pick, Stall, EnqueueNext, RequestStepOf, RequestCrash, Register, Refresh, Guard,
     Reject, WriteFailedOnce, EnqueueNew, EnqueueFailed, RefreshGuard, RefreshMark, RefreshAdd,
     RefreshSweep, PendingSweep, ManualSweep, GuildSweep, Select, Filter, SweepCrash, Add,
     ToggleProcessing, ChangeMembership
<1> QED BY <1>1, <1>2 DEF Fault

(* The ways a step of a process can go: on, to the end, or out of the try.  *)
LEMMA WorkerKinds ==
  ASSUME StoreAssumption, Inv, Known, Closed, NEW w \in Workers, WorkerStep(w),
         UNCHANGED enqueueVars
  PROVE  \/ /\ Stays(w) /\ UNCHANGED orphans /\ abandoned' \subseteq abandoned
            /\ worker'[w].pc = "done" => ~worker'[w].log
         \/ /\ At(w, "done") /\ Leave(w) /\ UNCHANGED <<abandoned, faults, tracker>>
            /\ job' = IF Owns(w, worker[w].job) THEN [job EXCEPT ![worker[w].job] = FreeSlot] ELSE job
         \/ /\ Throw(w) /\ UNCHANGED tracker
            /\ tracker[On(w)].row = "gone" \/ faults' = faults + 1
<1> DEFINE e == worker[w]
<1>t. TypeOK /\ e \in Execution /\ worker \in [Workers -> Execution]
  BY DEF Inv, TypeOK, WorkerTypeOK
<1>i. ~At(w, "idle") /\ (Stays(w) \/ Leaves(w))
  BY <1>t, StaysOrLeaves
<1>g. ~Live(On(w)) => tracker[On(w)].row = "gone"
  <2>1. On(w) \in Trackers /\ tracker[On(w)].row # "none"
    BY <1>i DEF Known, Seen, Inv, Placed
  <2>2. tracker[On(w)].row \in {"none", "live", "gone"}
    BY <1>t, <2>1 DEF TypeOK, StoreTypeOK, TrackerRow
  <2> QED BY <2>1, <2>2 DEF Live
<1>u. ASSUME NEW f, Update(w, f) PROVE worker'[w] = f
  BY <1>t, <1>u DEF Update
<1>s. ASSUME worker'[w].pc # "idle" PROVE Stays(w)
  <2>1. Leaves(w) => worker'[w].pc = "idle"
    BY <1>u DEF Leaves, Leave, Idle
  <2> QED BY <1>i, <1>s, <2>1
<1>w. ASSUME NEW status, NEW scraped, NEW attempts, WriteStatus(On(w), status, scraped, attempts)
      PROVE  abandoned' \subseteq abandoned
  BY <1>w DEF WriteStatus
<1>1. CASE \/ Load(w) \/ OpenLog(w) \/ ReadSeasons(w) \/ Scrape(w) \/ BulkUpsert(w) \/ UpsertOne(w)
           \/ EndFallback(w) \/ MarkInProgress(w)
  <2>1. worker'[w].pc \in Unsettled
    BY <1>1, <1>t, PcAfter
  <2>2. worker'[w].pc \notin {"idle", "done"}
    BY <2>1 DEF Unsettled
  <2>3. UNCHANGED orphans /\ abandoned' \subseteq abandoned
    BY <1>1, <1>w DEF Load, OpenLog, ReadSeasons, Scrape, BulkUpsert, UpsertOne, EndFallback,
       MarkInProgress, storeVars
  <2> QED BY <1>s, <2>2, <2>3
<1>2. CASE Complete(w)
  <2>1. worker'[w].pc \in {"closeLog", "failRead"}
    BY <1>2, <1>t, GotoPc DEF Complete
  <2>2. UNCHANGED orphans /\ abandoned' \subseteq abandoned
    BY <1>2, <1>w DEF Complete
  <2> QED BY <1>s, <2>1, <2>2
<1>3. CASE CloseLog(w)
  <2>1. worker'[w].pc = "failRead" \/ (worker'[w].pc = "done" /\ ~worker'[w].log)
    <3>1. Update(w, [e EXCEPT !.pc = "done", !.log = FALSE]) =>
            worker'[w].pc = "done" /\ ~worker'[w].log
      BY <1>t, <1>u DEF Execution
    <3> QED BY <1>3, <1>t, <3>1, GotoPc DEF CloseLog
  <2>2. UNCHANGED <<orphans, abandoned>>
    BY <1>3 DEF CloseLog
  <2> QED BY <1>s, <2>1, <2>2
<1>4. CASE FailRead(w)
  <2>1. CASE Fault /\ Throw(w)
    BY <1>4, <2>1 DEF FailRead, Fault
  <2>2. CASE Update(w, [e EXCEPT !.pc = "failWrite",
                          !.attempts = IF Live(On(w)) THEN tracker[On(w)].attempts ELSE 0])
               /\ UNCHANGED <<abandoned, orphans>>
    <3>1. worker'[w].pc = "failWrite"
      BY <1>t, <1>u, <2>2 DEF Execution
    <3> QED BY <1>s, <2>2, <3>1
  <2> QED BY <1>4, <2>1, <2>2 DEF FailRead
<1>5. CASE FailWrite(w)
  <2>1. CASE Throw(w) /\ UNCHANGED tracker /\ (~Live(On(w)) \/ Fault)
    BY <1>g, <2>1 DEF Fault
  <2>2. ASSUME NEW n, WriteStatus(On(w), "FAILED", tracker[On(w)].scraped, n), UNCHANGED orphans,
               Goto(w, IF worker[w].log THEN "failLog" ELSE "done")
        PROVE  /\ Stays(w) /\ UNCHANGED orphans /\ abandoned' \subseteq abandoned
               /\ worker'[w].pc = "done" => ~worker'[w].log
    <3>1. worker'[w].pc = (IF e.log THEN "failLog" ELSE "done") /\ worker'[w].log = e.log
      <4>1. worker'[w] = [e EXCEPT !.pc = IF e.log THEN "failLog" ELSE "done"]
        BY <1>u, <2>2 DEF Goto
      <4> QED BY <1>t, <4>1 DEF Execution
    <3>2. e.log \in BOOLEAN
      BY <1>t DEF Execution
    <3> QED BY <1>s, <1>w, <2>2, <3>1, <3>2
  <2> QED BY <1>5, <2>1, <2>2 DEF FailWrite
<1>6. CASE FailLog(w)
  <2>1. CASE Throw(w) /\ UNCHANGED tracker /\ (~Live(On(w)) \/ Fault)
    BY <1>g, <2>1 DEF Fault
  <2>2. CASE Update(w, [e EXCEPT !.pc = "done", !.log = FALSE]) /\ UNCHANGED <<abandoned, orphans>>
    <3>1. worker'[w].pc = "done" /\ ~worker'[w].log
      BY <1>t, <1>u, <2>2 DEF Execution
    <3> QED BY <1>s, <2>2, <3>1
  <2> QED BY <1>6, <2>1, <2>2 DEF FailLog
<1>7. CASE Return(w)
  BY <1>7 DEF Return
<1> QED BY <1>1, <1>2, <1>3, <1>4, <1>5, <1>6, <1>7 DEF WorkerStep

(* An execution that goes on disturbs none of it.                           *)
LEMMA StaysContained ==
  ASSUME StoreAssumption, Inv, Contained, [Next]_vars, NEW w \in Workers, ~At(w, "idle"), Stays(w),
         UNCHANGED orphans, abandoned' \subseteq abandoned,
         worker'[w].pc = "done" => ~worker'[w].log
  PROVE  Contained'
<1>f. faults \in Nat /\ faults' \in Nat /\ faults <= faults'
  BY FaultsGrow
<1>r. \A t \in Trackers : /\ Seen(t) => Seen(t)'
                          /\ tracker[t].row = "gone" => tracker'[t].row = "gone"
  BY RowsLast
<1>a. abandoned \subseteq Trackers /\ \A s \in Sweepers : sweep[s].ids \subseteq Trackers
  BY DEF Inv, TypeOK, StoreTypeOK, EnqueueTypeOK
<1>1. /\ UNCHANGED <<job, request, sweep>>
      /\ worker'[w].pc # "idle" /\ worker'[w].job = worker[w].job /\ worker'[w].tracker = On(w)
      /\ \A v \in Workers : v # w => worker'[v] = worker[v]
  BY DEF Stays, Update, Inv, TypeOK, WorkerTypeOK
<1>2. /\ \A v \in Workers : ~At(v, "idle") => On(v) \in Trackers
      /\ \A j \in Jobs : job[j].state # "free" =>
           job[j].tracker \in Trackers /\ (job[j].state = "active" => job[j].owner \in Workers)
      /\ \A r \in Requests : ~In(r, "idle") => Requested(r) \in Trackers
  BY DEF Inv, Placed
<1>3. Known'
  BY <1>a, <1>r, <1>1, <1>2 DEF Contained, Known, At, On, In, Requested
<1>4. Charged'
  <2> SUFFICES ASSUME NEW j \in Jobs, job'[j].state # "free", tracker'[job'[j].tracker].row # "gone"
               PROVE  /\ job'[j].tries + job'[j].stalls <= faults'
                      /\ job'[j].state = "active" /\ ~Runs(job[j].owner, j)' =>
                           job'[j].tries + job'[j].stalls < faults'
    BY <1>1 DEF Charged
  <2>1. job'[j] = job[j] /\ job[j].tries + job[j].stalls \in Nat
    BY <1>1 DEF Inv, TypeOK, StoreTypeOK, JobSlot, StoreAssumption
  <2>2. tracker[job[j].tracker].row # "gone"
    BY <1>r, <1>2, <2>1
  <2>3. job[j].state = "active" => (Runs(job[j].owner, j)' <=> Runs(job[j].owner, j))
    BY <1>1, <1>2 DEF Runs, At
  <2> QED BY <1>f, <2>1, <2>2, <2>3 DEF Contained, Charged
<1>5. Held'
  BY <1>f, <1>1 DEF Contained, Held, At, Owns
<1>6. Closed'
  BY <1>1 DEF Contained, Closed, At
<1>7. Spared'
  BY <1>a, <1>f, <1>r DEF Contained, Spared
<1>8. OrphanLogNeedsFault'
  BY <1>f DEF Contained, OrphanLogNeedsFault
<1> QED BY <1>3, <1>4, <1>5, <1>6, <1>7, <1>8 DEF Contained

(* An execution that ends: what it does not clear up, a fault accounts for. *)
LEMMA LeavesContained ==
  ASSUME StoreAssumption, RetryAssumption, Inv, Contained, [Next]_vars,
         NEW w \in Workers, ~At(w, "idle"), Leave(w), UNCHANGED <<tracker, request, sweep>>,
         \/ Owns(w, worker[w].job) /\ job' = [job EXCEPT ![worker[w].job] = FreeSlot]
         \/ /\ Owns(w, worker[w].job)
            /\ job' = [job EXCEPT ![worker[w].job] = Requeued(worker[w].job)]
            /\ tracker[On(w)].row = "gone" \/ faults' = faults + 1
         \/ UNCHANGED job /\ (~Owns(w, worker[w].job) \/ faults' = faults + 1),
         \/ UNCHANGED abandoned
         \/ /\ ~MayRetry(w) /\ abandoned' = abandoned \cup {On(w)}
            /\ tracker[On(w)].row = "gone" \/ faults' = faults + 1,
         ~worker[w].log \/ tracker[On(w)].row = "gone" \/ faults' = faults + 1
  PROVE  Contained'
<1> DEFINE j == worker[w].job
<1>f. faults \in Nat /\ faults' \in Nat /\ faults <= faults'
  BY FaultsGrow
<1>t. /\ job \in [Jobs -> JobSlot] /\ worker \in [Workers -> Execution]
      /\ MaxTries \in Nat
  BY DEF Inv, TypeOK, StoreTypeOK, WorkerTypeOK, StoreAssumption
<1>2. /\ \A v \in Workers : ~At(v, "idle") => On(v) \in Trackers /\ worker[v].job \in Jobs
      /\ \A k \in Jobs : job[k].state # "free" =>
           job[k].tracker \in Trackers /\ (job[k].state = "active" => job[k].owner \in Workers)
      /\ Owns(w, j) => job[j].tracker = On(w)
  BY DEF Inv, Placed
<1>1. /\ worker'[w].pc = "idle" /\ \A v \in Workers : v # w => worker'[v] = worker[v]
  BY <1>t DEF Leave, Update, Idle
<1>3. /\ \A k \in Jobs : k # j => job'[k] = job[k]
      /\ \/ job'[j] = job[j] /\ (~Owns(w, j) \/ faults' = faults + 1)
         \/ Owns(w, j) /\ job'[j].state = "free"
         \/ /\ Owns(w, j) /\ job'[j].state = "waiting" /\ job'[j].tracker = On(w)
            /\ job'[j].tries = job[j].tries + 1 /\ job'[j].stalls = job[j].stalls
            /\ tracker[On(w)].row = "gone" \/ faults' = faults + 1
  <2>1. FreeSlot.state = "free" /\ j \in Jobs
    BY <1>2 DEF FreeSlot
  <2>2. /\ Requeued(j).state = "waiting" /\ Requeued(j).tracker = job[j].tracker
        /\ Requeued(j).tries = job[j].tries + 1 /\ Requeued(j).stalls = job[j].stalls
    BY <1>t, <2>1 DEF Requeued, JobSlot
  <2>3. CASE UNCHANGED job /\ (~Owns(w, j) \/ faults' = faults + 1)
    BY <2>3
  <2>4. CASE Owns(w, j) /\ job' = [job EXCEPT ![j] = FreeSlot]
    BY <1>t, <2>1, <2>4
  <2>5. CASE /\ Owns(w, j) /\ job' = [job EXCEPT ![j] = Requeued(j)]
             /\ tracker[On(w)].row = "gone" \/ faults' = faults + 1
    BY <1>t, <1>2, <2>1, <2>2, <2>5
  <2> QED BY <2>3, <2>4, <2>5
<1>n. \A k \in Jobs : job[k].tries \in Nat /\ job[k].stalls \in Nat
  BY <1>t DEF JobSlot, StoreAssumption
<1>4. Known'
  <2>1. \A k \in Jobs : job'[k].state # "free" => tracker[job'[k].tracker].row # "none"
    BY <1>2, <1>3 DEF Contained, Known, Seen
  <2> QED BY <1>1, <2>1 DEF Contained, Known, Seen, At, On, In, Requested
<1>5. Charged'
  <2> SUFFICES ASSUME NEW k \in Jobs, job'[k].state # "free", tracker[job'[k].tracker].row # "gone"
               PROVE  /\ job'[k].tries + job'[k].stalls <= faults'
                      /\ job'[k].state = "active" /\ ~Runs(job[k].owner, k)' =>
                           job'[k].tries + job'[k].stalls < faults'
    BY DEF Charged
  <2>1. job[k].state # "free" /\ tracker[job[k].tracker].row # "gone" =>
          /\ job[k].tries + job[k].stalls <= faults
          /\ job[k].state = "active" /\ ~Runs(job[k].owner, k) => job[k].tries + job[k].stalls < faults
    BY DEF Contained, Charged
  <2>2. CASE job'[k] = job[k] /\ (k = j => ~Owns(w, j) \/ faults' = faults + 1)
    <3>1. CASE job[k].state = "active" /\ job[k].owner = w
      <4>1. k # j => ~Runs(w, k)
        BY DEF Runs
      <4>2. k = j => faults' = faults + 1
        BY <2>2, <3>1 DEF Owns
      <4> QED BY <1>f, <1>n, <2>1, <2>2, <3>1, <4>1, <4>2
    <3>2. CASE job[k].state = "active" /\ job[k].owner # w
      <4>1. Runs(job[k].owner, k)' <=> Runs(job[k].owner, k)
        BY <1>1, <1>2, <2>2, <3>2 DEF Runs, At
      <4> QED BY <1>f, <1>n, <2>1, <2>2, <4>1
    <3>3. CASE job[k].state # "active"
      BY <1>f, <1>n, <2>1, <2>2, <3>3
    <3> QED BY <3>1, <3>2, <3>3
  <2>3. CASE /\ k = j /\ Owns(w, j) /\ job'[j].state = "waiting" /\ job'[j].tracker = On(w)
             /\ job'[j].tries = job[j].tries + 1 /\ job'[j].stalls = job[j].stalls
             /\ tracker[On(w)].row = "gone" \/ faults' = faults + 1
    BY <1>f, <1>n, <1>2, <2>1, <2>3 DEF Owns
  <2> QED BY <1>3, <2>2, <2>3
<1>6. Held'
  <2> SUFFICES ASSUME NEW v \in Workers, ~At(v, "idle")', ~Owns(v, worker[v].job)'
               PROVE  faults' > 0
    BY DEF Held
  <2>1. v # w /\ ~At(v, "idle") /\ UNCHANGED worker[v]
    BY <1>1 DEF At
  <2>2. ~Owns(v, worker[v].job)
    BY <1>2, <1>3, <2>1 DEF Owns
  <2> QED BY <1>f, <2>1, <2>2 DEF Contained, Held
<1>7. Closed'
  BY <1>1 DEF Contained, Closed, At
<1>8. Spared'
  <2> SUFFICES ASSUME faults' <= 1, NEW t \in abandoned' PROVE tracker[t].row = "gone"
    BY DEF Spared
  <2>1. CASE t \in abandoned
    BY <1>f, <2>1 DEF Contained, Spared
  <2>2. CASE t = On(w) /\ ~MayRetry(w) /\ faults' = faults + 1 /\ tracker[On(w)].row # "gone"
    <3>1. faults = 0
      BY <1>f, <2>2
    <3>2. Owns(w, j) /\ j \in Jobs
      BY <1>2, <3>1 DEF Contained, Held
    <3>3. job[j].tries + 1 >= MaxTries
      BY <1>n, <1>t, <2>2, <3>2 DEF MayRetry
    <3>4. job[j].tries + job[j].stalls <= faults
      BY <1>2, <2>2, <3>2 DEF Contained, Charged, Owns
    <3> QED BY <1>n, <1>t, <3>1, <3>2, <3>3, <3>4 DEF RetryAssumption
  <2> QED BY <2>1, <2>2
<1>9. OrphanLogNeedsFault'
  BY <1>f DEF Contained, OrphanLogNeedsFault, Leave, Live
<1> QED BY <1>4, <1>5, <1>6, <1>7, <1>8, <1>9 DEF Contained

(* A job that is handed out is run by the process that gets it.             *)
LEMMA PickContained ==
  ASSUME StoreAssumption, Inv, Contained, NEW w \in Workers, NEW j \in Jobs, Pick(w, j),
         UNCHANGED enqueueVars
  PROVE  Contained'
<1>t. /\ job \in [Jobs -> JobSlot] /\ worker \in [Workers -> Execution]
  BY DEF Inv, TypeOK, StoreTypeOK, WorkerTypeOK
<1>1. /\ job'[j].state = "active" /\ job'[j].owner = w /\ job'[j].tracker = job[j].tracker
      /\ job'[j].tries = job[j].tries /\ job'[j].stalls = job[j].stalls
      /\ \A k \in Jobs : k # j => job'[k] = job[k]
  BY <1>t DEF Pick, JobSlot
<1>2. worker'[w].job = j /\ worker'[w].tracker = job[j].tracker /\ worker'[w].pc = "load"
      /\ \A v \in Workers : v # w => worker'[v] = worker[v]
  <2>1. worker'[w] = [Idle EXCEPT !.pc = "load", !.job = j, !.tracker = job[j].tracker]
        /\ \A v \in Workers : v # w => worker'[v] = worker[v]
    BY <1>t DEF Pick, Update
  <2> QED BY <2>1 DEF Idle
<1>3. /\ UNCHANGED <<tracker, faults, abandoned, orphans, request, sweep>>
      /\ At(w, "idle") /\ job[j].state = "waiting"
  BY DEF Pick, enqueueVars
<1>4. /\ \A k \in Jobs : job[k].state = "active" => job[k].owner \in Workers
      /\ \A v \in Workers : ~At(v, "idle") => worker[v].job \in Jobs
  BY DEF Inv, Placed
<1>5. Known'
  BY <1>1, <1>2, <1>3 DEF Contained, Known, Seen, At, On, In, Requested
<1>6. Charged'
  <2> SUFFICES ASSUME NEW k \in Jobs, job'[k].state # "free", tracker[job'[k].tracker].row # "gone"
               PROVE  /\ job'[k].tries + job'[k].stalls <= faults
                      /\ job'[k].state = "active" /\ ~Runs(job[k].owner, k)' =>
                           job'[k].tries + job'[k].stalls < faults
    BY <1>3 DEF Charged
  <2>1. CASE k = j
    BY <1>1, <1>2, <1>3, <2>1 DEF Contained, Charged, Runs, At
  <2>2. CASE k # j
    <3>1. job'[k] = job[k] /\ (job[k].state = "active" /\ Runs(job[k].owner, k) => Runs(job[k].owner, k)')
      BY <1>1, <1>2, <1>3, <1>4, <2>2 DEF Runs, At
    <3> QED BY <1>3, <3>1 DEF Contained, Charged
  <2> QED BY <2>1, <2>2
<1>7. Held'
  <2> SUFFICES ASSUME NEW v \in Workers, ~At(v, "idle")', ~Owns(v, worker[v].job)'
               PROVE  faults > 0
    BY <1>3 DEF Held
  <2>1. v # w /\ ~At(v, "idle") /\ UNCHANGED worker[v]
    BY <1>1, <1>2 DEF At, Owns
  <2>2. ~Owns(v, worker[v].job)
    BY <1>1, <1>3, <1>4, <2>1 DEF Owns
  <2> QED BY <2>1, <2>2 DEF Contained, Held
<1>8. Closed' /\ Spared' /\ OrphanLogNeedsFault'
  BY <1>2, <1>3 DEF Contained, Closed, Spared, OrphanLogNeedsFault, At
<1> QED BY <1>5, <1>6, <1>7, <1>8 DEF Contained

(* A job that stalls was lost by a fault, or by a crash paid for before.    *)
LEMMA StallContained ==
  ASSUME StoreAssumption, RetryAssumption, Inv, Contained, NEW j \in Jobs, Stall(j),
         UNCHANGED enqueueVars
  PROVE  Contained'
<1>t. /\ job \in [Jobs -> JobSlot] /\ worker \in [Workers -> Execution]
      /\ MaxStalls \in Nat /\ faults \in Nat
  BY DEF Inv, TypeOK, StoreTypeOK, WorkerTypeOK, StoreAssumption
<1>n. \A k \in Jobs : job[k].tries \in Nat /\ job[k].stalls \in Nat
  BY <1>t DEF JobSlot, StoreAssumption
<1>1. /\ \A k \in Jobs : k # j => job'[k] = job[k]
      /\ \/ /\ job'[j].state = "waiting" /\ job'[j].tracker = job[j].tracker
            /\ job'[j].tries = job[j].tries /\ job'[j].stalls = job[j].stalls + 1
            /\ UNCHANGED abandoned
         \/ /\ job'[j].state = "free" /\ job[j].stalls >= MaxStalls
            /\ abandoned' = abandoned \cup {job[j].tracker}
  <2>1. /\ Restarted(j).state = "waiting" /\ Restarted(j).tracker = job[j].tracker
        /\ Restarted(j).tries = job[j].tries /\ Restarted(j).stalls = job[j].stalls + 1
        /\ FreeSlot.state = "free"
    BY <1>t DEF Restarted, JobSlot, FreeSlot
  <2>2. CASE job[j].stalls < MaxStalls
    BY <1>t, <2>1, <2>2 DEF Stall
  <2>3. CASE ~(job[j].stalls < MaxStalls)
    BY <1>t, <1>n, <2>1, <2>3 DEF Stall
  <2> QED BY <2>2, <2>3
<1>2. /\ UNCHANGED <<tracker, worker, orphans, request, sweep>> /\ job[j].state = "active"
      /\ IF Runs(job[j].owner, j) THEN faults' = faults + 1 ELSE UNCHANGED faults
  BY DEF Stall, Fault, workerVars, enqueueVars
<1>3. tracker[job[j].tracker].row # "gone" => job[j].tries + job[j].stalls < faults'
  BY <1>n, <1>t, <1>2 DEF Contained, Charged
<1>f. faults' \in Nat /\ faults <= faults'
  BY <1>t, <1>2
<1>4. Known'
  BY <1>1, <1>2 DEF Contained, Known, Seen, At, On, In, Requested
<1>5. Charged'
  <2> SUFFICES ASSUME NEW k \in Jobs, job'[k].state # "free", tracker[job'[k].tracker].row # "gone"
               PROVE  /\ job'[k].tries + job'[k].stalls <= faults'
                      /\ job'[k].state = "active" /\ ~Runs(job[k].owner, k)' =>
                           job'[k].tries + job'[k].stalls < faults'
    BY <1>2 DEF Charged
  <2>1. CASE k = j
    BY <1>1, <1>3, <1>f, <1>n, <2>1
  <2>2. CASE k # j
    <3>1. job'[k] = job[k] /\ (Runs(job[k].owner, k)' <=> Runs(job[k].owner, k))
      BY <1>1, <1>2, <2>2 DEF Runs, At
    <3> QED BY <1>f, <1>n, <1>t, <1>2, <3>1 DEF Contained, Charged
  <2> QED BY <2>1, <2>2
<1>6. Held'
  <2> SUFFICES ASSUME NEW v \in Workers, ~At(v, "idle"), ~Owns(v, worker[v].job)'
               PROVE  faults' > 0
    BY <1>2 DEF Held, At
  <2>1. CASE ~Owns(v, worker[v].job)
    BY <1>t, <1>f, <2>1 DEF Contained, Held
  <2>2. CASE Owns(v, worker[v].job)
    <3>1. worker[v].job \in Jobs
      BY DEF Inv, Placed
    <3>2. worker[v].job = j
      BY <1>1, <1>2, <2>2, <3>1 DEF Owns
    <3>3. Runs(job[j].owner, j)
      BY <2>2, <3>2 DEF Owns, Runs
    <3> QED BY <1>t, <1>2, <3>3
  <2> QED BY <2>1, <2>2
<1>7. Spared'
  <2> SUFFICES ASSUME faults' <= 1, NEW t \in abandoned' PROVE tracker[t].row = "gone"
    BY <1>2 DEF Spared
  <2>1. CASE t \in abandoned
    BY <1>t, <1>f, <2>1 DEF Contained, Spared
  <2>2. CASE t = job[j].tracker /\ job[j].stalls >= MaxStalls
    BY <1>n, <1>t, <1>3, <1>f, <2>2 DEF RetryAssumption
  <2> QED BY <1>1, <2>1, <2>2
<1>8. Closed' /\ OrphanLogNeedsFault'
  BY <1>t, <1>2, <1>f DEF Contained, Closed, OrphanLogNeedsFault, At
<1> QED BY <1>4, <1>5, <1>6, <1>7, <1>8 DEF Contained

(* Requests, sweeps and rows act on trackers that are registered: what they *)
(* add to the queue or ask for next is about one of those.                  *)
LEMMA OthersSeen ==
  ASSUME StoreAssumption, Inv, Known,
         (EnqueueNext /\ UNCHANGED workerVars) \/ (RowNext /\ UNCHANGED enqueueVars)
  PROVE  /\ UNCHANGED job \/ \E t \in Trackers : Seen(t) /\ AddJob(t)
         /\ \A r \in Requests : request'[r].pc # "idle" =>
              tracker'[request'[r].tracker].row # "none"
         /\ \A s \in Sweepers : \A t \in sweep'[s].ids : tracker'[t].row # "none"
<1>t. /\ request \in [Requests -> [pc: RequestStep, tracker: Trackers \cup {NoTracker}]]
      /\ sweep \in [Sweepers -> [pc: {"idle", "filter", "add"}, ids: SUBSET Trackers]]
      /\ tracker \in [Trackers -> TrackerRow]
  BY DEF Inv, TypeOK, EnqueueTypeOK, StoreTypeOK
<1>o. /\ \A r \in Requests : ~In(r, "idle") => Requested(r) \in Trackers /\ Seen(Requested(r))
      /\ \A s \in Sweepers : sweep[s].ids \subseteq Trackers /\ \A t \in sweep[s].ids : Seen(t)
  BY <1>t DEF Inv, Placed, Known
<1>n. Next
  BY DEF Next
<1>r. \A t \in Trackers : tracker[t].row # "none" => tracker'[t].row # "none"
  BY <1>n, RowsLast DEF Seen
<1> DEFINE GoodRequests == \A r \in Requests : request'[r].pc # "idle" =>
                             tracker'[request'[r].tracker].row # "none"
           GoodSweeps == \A s \in Sweepers : \A t \in sweep'[s].ids : tracker'[t].row # "none"
           GoodJob == UNCHANGED job \/ \E t \in Trackers : Seen(t) /\ AddJob(t)
<1>q. UNCHANGED request => GoodRequests
  BY <1>o, <1>r DEF In, Requested, Seen
<1>s. UNCHANGED sweep => GoodSweeps
  BY <1>o, <1>r DEF Seen
<1>a. ASSUME NEW r \in Requests, Answer(r) PROVE GoodRequests
  <2>1. request'[r].pc = "idle" /\ \A q \in Requests : q # r => request'[q] = request[q]
    BY <1>t, <1>a DEF Answer, Waiting
  <2> QED BY <1>o, <1>r, <2>1 DEF In, Requested, Seen
<1>k. ASSUME NEW r \in Requests, NEW t \in Trackers, NEW pc, Ask(r, pc, t), tracker'[t].row # "none"
      PROVE  GoodRequests
  <2>1. request'[r].tracker = t /\ \A q \in Requests : q # r => request'[q] = request[q]
    BY <1>t, <1>k DEF Ask
  <2> QED BY <1>o, <1>r, <1>k, <2>1 DEF In, Requested, Seen
<1>kr. ASSUME NEW r \in Requests, ~In(r, "idle"), NEW pc, Ask(r, pc, Requested(r))
       PROVE  GoodRequests
  BY <1>kr, <1>k, <1>o, <1>r DEF Seen
<1>j. ASSUME NEW r \in Requests, ~In(r, "idle"), AddJob(Requested(r)) PROVE GoodJob
  BY <1>j, <1>o
<1> HIDE DEF GoodRequests, GoodJob
<1>1. ASSUME NEW r \in Requests, RequestStepOf(r) \/ RequestCrash(r)
      PROVE  GoodJob /\ GoodRequests /\ UNCHANGED sweep
  <2>0. UNCHANGED job => GoodJob
    BY DEF GoodJob
  <2>1. CASE Guard(r)
    BY <1>kr, <2>0, <2>1 DEF Guard, In
  <2>2. CASE Reject(r) \/ EnqueueFailed(r) \/ RequestCrash(r)
    BY <1>a, <2>0, <2>2 DEF Reject, EnqueueFailed, RequestCrash
  <2>3. CASE EnqueueNew(r)
    BY <1>a, <1>j, <1>kr, <2>0, <2>3 DEF EnqueueNew, In
  <2>4. CASE RefreshGuard(r)
    BY <1>a, <1>kr, <2>0, <2>4 DEF RefreshGuard, In
  <2>5. CASE RefreshMark(r)
    BY <1>a, <1>kr, <2>0, <2>5 DEF RefreshMark, In
  <2>6. CASE RefreshAdd(r)
    BY <1>a, <1>j, <2>0, <2>6 DEF RefreshAdd, In
  <2> QED BY <1>1, <2>1, <2>2, <2>3, <2>4, <2>5, <2>6 DEF RequestStepOf
<1>2. ASSUME NEW r \in Requests, NEW t \in Trackers, Register(r, t) \/ Refresh(r, t)
      PROVE  GoodJob /\ GoodRequests /\ UNCHANGED sweep
  <2>1. CASE Register(r, t)
    <3>1. tracker'[t].row # "none"
      BY <1>t, <2>1 DEF Register, NewRow
    <3> QED BY <1>k, <2>1, <3>1 DEF Register, GoodJob
  <2>2. CASE Refresh(r, t)
    <3>1. tracker'[t].row # "none"
      BY <2>2 DEF Refresh, Live, storeVars
    <3> QED BY <1>k, <2>2, <3>1 DEF Refresh, GoodJob, storeVars
  <2> QED BY <1>2, <2>1, <2>2
<1>3. ASSUME NEW s \in Sweepers, NEW pc, NEW ids \in SUBSET {t \in Trackers : Seen(t)},
             Select(s, pc, ids)
      PROVE  GoodJob /\ UNCHANGED request /\ GoodSweeps
  <2>1. /\ sweep'[s].ids = ids /\ \A z \in Sweepers : z # s => sweep'[z] = sweep[z]
        /\ UNCHANGED <<job, request, tracker>>
    BY <1>t, <1>3 DEF Select, storeVars
  <2> QED BY <1>o, <2>1 DEF GoodJob, Seen
<1>4. ASSUME NEW s \in Sweepers,
             \/ RefreshSweep(s) \/ PendingSweep(s) \/ ManualSweep(s) \/ \E g \in Guilds : GuildSweep(s, g)
      PROVE  GoodJob /\ UNCHANGED request /\ GoodSweeps
  <2>1. \A t \in Trackers : Due(t) \/ Pending(t) => Seen(t)
    BY DEF Due, Pending, Live, Seen
  <2>2. CASE RefreshSweep(s)
    <3>1. {t \in Trackers : Due(t)} \in SUBSET {t \in Trackers : Seen(t)}
      BY <2>1
    <3> QED BY <1>3, <2>2, <3>1 DEF RefreshSweep
  <2>3. CASE PendingSweep(s)
    <3>1. {t \in Trackers : Pending(t)} \in SUBSET {t \in Trackers : Seen(t)}
      BY <2>1
    <3> QED BY <1>3, <2>3, <3>1 DEF PendingSweep
  <2>4. CASE ManualSweep(s)
    BY <1>3, <2>4 DEF ManualSweep, Seen
  <2>5. ASSUME NEW g \in Guilds, GuildSweep(s, g)
        PROVE  GoodJob /\ UNCHANGED request /\ GoodSweeps
    <3>1. {t \in Trackers : DueInGuild(t, g)} \in SUBSET {t \in Trackers : Seen(t)}
      BY <2>1 DEF DueInGuild
    <3> QED BY <1>3, <2>5, <3>1 DEF GuildSweep
  <2> QED BY <1>4, <2>2, <2>3, <2>4, <2>5
<1>5. ASSUME NEW s \in Sweepers, Filter(s) \/ SweepCrash(s) \/ \E t \in Trackers : Add(s, t)
      PROVE  GoodJob /\ UNCHANGED request /\ GoodSweeps
  <2>1. /\ sweep'[s].ids \subseteq sweep[s].ids /\ \A z \in Sweepers : z # s => sweep'[z] = sweep[z]
    <3>1. ASSUME NEW x, sweep' = [sweep EXCEPT ![s] = x], x.ids \subseteq sweep[s].ids
          PROVE  /\ sweep'[s].ids \subseteq sweep[s].ids
                 /\ \A z \in Sweepers : z # s => sweep'[z] = sweep[z]
      BY <1>t, <3>1
    <3>2. Asleep.ids \subseteq sweep[s].ids
      BY DEF Asleep
    <3>3. CASE Filter(s)
      <4>1. PICK kept \in {{t \in sweep[s].ids : CanProcess(t)}, sweep[s].ids} :
              sweep' = [sweep EXCEPT ![s] = IF kept = {} THEN Asleep
                                            ELSE [pc |-> "add", ids |-> kept]]
        BY <3>3 DEF Filter
      <4>2. (IF kept = {} THEN Asleep ELSE [pc |-> "add", ids |-> kept]).ids \subseteq sweep[s].ids
        BY <3>2
      <4> QED BY <3>1, <4>1, <4>2
    <3>4. CASE SweepCrash(s)
      BY <3>1, <3>2, <3>4 DEF SweepCrash
    <3>5. ASSUME NEW t \in Trackers, Add(s, t)
          PROVE  /\ sweep'[s].ids \subseteq sweep[s].ids
                 /\ \A z \in Sweepers : z # s => sweep'[z] = sweep[z]
      <4>1. (IF sweep[s].ids = {t} THEN Asleep ELSE [sweep[s] EXCEPT !.ids = @ \ {t}]).ids
              \subseteq sweep[s].ids
        BY <1>t, <3>2
      <4> QED BY <3>1, <3>5, <4>1 DEF Add
    <3> QED BY <1>5, <3>3, <3>4, <3>5
  <2>2. GoodJob /\ UNCHANGED request
    BY <1>5, <1>o DEF Filter, SweepCrash, Add, GoodJob
  <2> QED BY <1>o, <1>r, <2>1, <2>2 DEF Seen
<1>6. ASSUME RowNext, UNCHANGED enqueueVars PROVE GoodJob /\ GoodRequests /\ GoodSweeps
  <2>1. UNCHANGED job
    BY <1>6 DEF RowNext, UserDeleted, DeleteUser, Expire, UpdateTracker, DeleteTracker
  <2>2. UNCHANGED request /\ UNCHANGED sweep
    BY <1>6 DEF enqueueVars
  <2> QED BY <1>q, <1>s, <2>1, <2>2 DEF GoodJob
<1>7. ASSUME NEW g \in Guilds, ToggleProcessing(g) \/ \E u \in Users : ChangeMembership(u, g)
      PROVE  GoodJob /\ GoodRequests /\ GoodSweeps
  BY <1>7, <1>q, <1>s DEF ToggleProcessing, ChangeMembership, storeVars, GoodJob
<1> HIDE DEF GoodSweeps
<1>8. EnqueueNext => GoodJob /\ GoodRequests /\ GoodSweeps
  BY <1>q, <1>s, <1>1, <1>2, <1>4, <1>5, <1>7 DEF EnqueueNext
<1>9. GoodJob /\ GoodRequests /\ GoodSweeps
  BY <1>6, <1>8
<1> QED BY <1>9 DEF GoodJob, GoodRequests, GoodSweeps

(* They write no FAILED of their own that would hide a lost execution, and  *)
(* leave no log open.                                                       *)
LEMMA OthersContained ==
  ASSUME StoreAssumption, Inv, Contained,
         (EnqueueNext /\ UNCHANGED workerVars) \/ (RowNext /\ UNCHANGED enqueueVars)
  PROVE  Contained'
<1>n. Next
  BY DEF Next
<1>f. faults \in Nat /\ faults' \in Nat /\ faults <= faults'
  BY <1>n, FaultsGrow
<1>r. \A t \in Trackers : /\ Seen(t) => tracker'[t].row # "none"
                          /\ tracker[t].row = "gone" => tracker'[t].row = "gone"
  BY <1>n, RowsLast DEF Seen
<1>t. job \in [Jobs -> JobSlot] /\ abandoned \subseteq Trackers
  BY DEF Inv, TypeOK, StoreTypeOK
<1>p. /\ \A v \in Workers : ~At(v, "idle") => On(v) \in Trackers /\ worker[v].job \in Jobs
      /\ \A k \in Jobs : job[k].state # "free" => job[k].tracker \in Trackers
  BY DEF Inv, Placed
<1>1. UNCHANGED worker /\ orphans' \subseteq orphans /\ abandoned' \subseteq abandoned
  <2>1. ASSUME NEW r \in Requests, WriteFailedOnce(r) \/ RefreshMark(r) PROVE abandoned' \subseteq abandoned
    BY <2>1 DEF WriteFailedOnce, RefreshMark, WriteStatus
  <2>2. CASE RowNext
    BY <2>2 DEF RowNext, UserDeleted, DeleteUser, Expire, UpdateTracker, DeleteTracker, workerVars
  <2>3. CASE EnqueueNext /\ UNCHANGED workerVars
    BY <2>1, <2>3 DEF EnqueueNext, workerVars, RequestStepOf, RequestCrash, Register, Refresh, Guard,
     Reject, EnqueueNew, EnqueueFailed, RefreshGuard, RefreshAdd,
     RefreshSweep, PendingSweep, ManualSweep, GuildSweep, Select, Filter, SweepCrash, Add,
     ToggleProcessing, ChangeMembership, storeVars
  <2> QED BY <2>2, <2>3
<1>2. /\ UNCHANGED job \/ \E t \in Trackers : Seen(t) /\ AddJob(t)
      /\ \A r \in Requests : request'[r].pc # "idle" => tracker'[request'[r].tracker].row # "none"
      /\ \A s \in Sweepers : \A t \in sweep'[s].ids : tracker'[t].row # "none"
  BY OthersSeen DEF Contained
<1>3. \A k \in Jobs :
        \/ job'[k] = job[k]
        \/ /\ job[k].state = "free" /\ job'[k].state = "waiting" /\ job'[k].tries = 0
           /\ job'[k].stalls = 0 /\ tracker'[job'[k].tracker].row # "none"
  BY <1>2, <1>r, <1>t DEF AddJob
<1>4. Known'
  <2>1. /\ \A v \in Workers : ~At(v, "idle") => tracker'[On(v)].row # "none"
        /\ \A k \in Jobs : job'[k].state # "free" => tracker'[job'[k].tracker].row # "none"
    BY <1>3, <1>p, <1>r DEF Contained, Known
  <2> QED BY <1>1, <1>2, <2>1 DEF Known, At, On, In, Requested, Seen
<1>5. Charged'
  <2> SUFFICES ASSUME NEW k \in Jobs, job'[k].state # "free", tracker'[job'[k].tracker].row # "gone"
               PROVE  /\ job'[k].tries + job'[k].stalls <= faults'
                      /\ job'[k].state = "active" /\ ~Runs(job[k].owner, k)' =>
                           job'[k].tries + job'[k].stalls < faults'
    BY DEF Charged
  <2>1. CASE job'[k] = job[k]
    <3>1. job[k].tries + job[k].stalls \in Nat
      BY <1>t DEF JobSlot, StoreAssumption
    <3>2. tracker[job[k].tracker].row # "gone"
      BY <1>p, <1>r, <2>1
    <3> QED BY <1>1, <1>f, <2>1, <3>1, <3>2 DEF Contained, Charged, Runs, At
  <2>2. CASE job'[k].state = "waiting" /\ job'[k].tries = 0 /\ job'[k].stalls = 0
    BY <1>f, <2>2
  <2> QED BY <1>3, <2>1, <2>2
<1>6. Held'
  <2> SUFFICES ASSUME NEW v \in Workers, ~At(v, "idle"), ~Owns(v, worker[v].job)'
               PROVE  faults' > 0
    BY <1>1 DEF Held, At
  <2>1. ~Owns(v, worker[v].job)
    BY <1>1, <1>3, <1>p DEF Owns
  <2> QED BY <1>f, <2>1 DEF Contained, Held
<1>7. Closed' /\ Spared' /\ OrphanLogNeedsFault'
  BY <1>1, <1>f, <1>r, <1>t DEF Contained, Closed, Spared, OrphanLogNeedsFault, At
<1> QED BY <1>4, <1>5, <1>6, <1>7 DEF Contained

(* No step breaks the account of the faults.                                *)
LEMMA ContainedStep ==
  ASSUME StoreAssumption, RetryAssumption, Inv, Contained, [Next]_vars
  PROVE  Contained'
<1>1. CASE UNCHANGED vars
  BY <1>1 DEF vars, storeVars, workerVars, enqueueVars, Contained, Known, Charged, Held, Closed,
     Spared, OrphanLogNeedsFault, At, On, In, Requested, Seen, Runs, Owns
<1>2. ASSUME NEW w \in Workers, WorkerStep(w), UNCHANGED enqueueVars PROVE Contained'
  <2>0. ~At(w, "idle") /\ Next /\ UNCHANGED <<request, sweep>>
    BY <1>2, StaysOrLeaves DEF Next, WorkerNext, enqueueVars, Inv
  <2>1. CASE /\ Stays(w) /\ UNCHANGED orphans /\ abandoned' \subseteq abandoned
             /\ worker'[w].pc = "done" => ~worker'[w].log
    BY <2>0, <2>1, StaysContained
  <2>2. CASE /\ At(w, "done") /\ Leave(w) /\ UNCHANGED <<abandoned, faults, tracker>>
             /\ job' = IF Owns(w, worker[w].job) THEN [job EXCEPT ![worker[w].job] = FreeSlot] ELSE job
    <3>1. ~worker[w].log
      BY <2>2 DEF Contained, Closed
    <3>2. \/ Owns(w, worker[w].job) /\ job' = [job EXCEPT ![worker[w].job] = FreeSlot]
          \/ UNCHANGED job /\ ~Owns(w, worker[w].job)
      BY <2>2
    <3> QED BY <2>0, <2>2, <3>1, <3>2, LeavesContained
  <2>3. CASE /\ Throw(w) /\ UNCHANGED tracker
             /\ tracker[On(w)].row = "gone" \/ faults' = faults + 1
    <3>1. \/ Owns(w, worker[w].job) /\ job' = [job EXCEPT ![worker[w].job] = FreeSlot]
          \/ /\ Owns(w, worker[w].job)
             /\ job' = [job EXCEPT ![worker[w].job] = Requeued(worker[w].job)]
          \/ UNCHANGED job /\ ~Owns(w, worker[w].job)
      BY <2>3 DEF Throw
    <3>2. UNCHANGED abandoned \/ (~MayRetry(w) /\ abandoned' = abandoned \cup {On(w)})
      BY <2>3 DEF Throw
    <3>3. Leave(w)
      BY <2>3 DEF Throw
    <3> QED BY <2>0, <2>3, <3>1, <3>2, <3>3, LeavesContained
  <2> QED BY <1>2, <2>1, <2>2, <2>3, WorkerKinds DEF Contained
<1>3. ASSUME NEW w \in Workers, Crash(w), UNCHANGED enqueueVars PROVE Contained'
  <2>1. /\ ~At(w, "idle") /\ Leave(w) /\ UNCHANGED <<tracker, request, sweep, job>>
        /\ faults' = faults + 1
    BY <1>3 DEF Crash, Fault, enqueueVars
  <2>2. UNCHANGED abandoned \/ (~MayRetry(w) /\ abandoned' = abandoned \cup {On(w)})
    BY <1>3 DEF Crash, MayRetry
  <2>3. Next
    BY <1>3 DEF Next, WorkerNext
  <2> QED BY <2>1, <2>2, <2>3, LeavesContained
<1>4. CASE WorkerNext /\ UNCHANGED enqueueVars
  BY <1>4, <1>2, <1>3, PickContained, StallContained DEF WorkerNext
<1> QED BY <1>1, <1>4, OthersContained DEF Next

(* One crash, lost lock or failed call, whenever it strikes, strands no     *)
(* tracker in IN_PROGRESS, and without any no scraping log stays open.      *)
THEOREM FaultsAreContained == Spec => []FaultsContained
<1>1. Init => Contained
  BY DEF Init, StoreInit, WorkerInit, EnqueueInit, Idle, FreeSlot, Waiting, Asleep, NewRow, Contained,
     Known, Charged, Held, Closed, Spared, OrphanLogNeedsFault, At, In
<1>2. Inv /\ [Next]_vars => Inv'
  BY StoreAssumption, TypeStep, PlacedStep, CountedStep DEF Inv
<1>3. Inv /\ Contained /\ [Next]_vars => Contained'
  BY StoreAssumption, RetryAssumption, ContainedStep
<1>4. InProgressOwned /\ Contained => FaultsContained
  BY DEF InProgressOwned, Contained, Spared, Stuck, Live, FaultsContained, OneFaultStrandsNothing
<1> QED BY <1>1, <1>2, <1>3, <1>4, InitInv, StoreAssumption, InProgressAlwaysOwned, PTL DEF Spec
===============================================================================
