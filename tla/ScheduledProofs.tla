--------------------------- MODULE ScheduledProofs ---------------------------
(***************************************************************************)
(* Proofs about ScheduledProcessing: its types for any number of processes  *)
(* and schedules, and what a process that is alone keeps to.                *)
(***************************************************************************)
EXTENDS ScheduledProcessing, FiniteSetTheorems, TLAPS

-------------------------------------------------------------------------------
(* What has a timer, a callback, a cancellation or a run is a schedule that *)
(* was created; it lies no further ahead than schedules may, and it does    *)
(* not run before its time.                                                 *)
Created(s) == row[s].status # "none"

Known ==
  /\ \A s \in Schedules : Created(s) => row[s].at <= now + Ahead
  /\ \A s \in Schedules : queued[s] # {} => Created(s)
  /\ \A p \in Processes, s \in Schedules :
       s \in armed[p] \/ stage[p][s] # "none" \/ cancelling[p][s] # "none" => Created(s)

(* A callback starts at its time, so that nothing it has to do with is ever *)
(* loaded again.                                                            *)
InTime ==
  Ahead < Year =>
    /\ \A p \in Processes, s \in Schedules :
         stage[p][s] \notin {"none", "arm"} => row[s].at <= now
    /\ \A s \in Schedules : queued[s] # {} => row[s].at <= now
    /\ NotEarly

(* It comes before the only run there is, or has nothing left to do but to  *)
(* disarm its timer.                                                        *)
Once ==
  Alone /\ Ahead < Year =>
    /\ \A s \in Schedules : \A x, y \in queued[s] : x = y
    /\ \A p \in Processes, s \in Schedules :
         /\ stage[p][s] \in {"arm", "mark", "enqueue"} => queued[s] = {}
         /\ queued[s] # {} /\ s \in armed[p] => stage[p][s] \in {"complete", "fail"}

(* A cancellation that is not late found nothing under way, and nothing can *)
(* begin without a timer.                                                   *)
Disarmed ==
  Alone => \A p \in Processes, s \in Schedules :
             cancelling[p][s] = "write" => s \notin armed[p] /\ stage[p][s] = "none"

IInv == TypeOK /\ Known /\ InTime /\ Once /\ Disarmed /\ TimersAgree

-------------------------------------------------------------------------------
(* What the helpers of the actions do to the variables.                     *)
LEMMA StageShape ==
  ASSUME TypeOK, NEW p \in Processes, NEW s \in Schedules,
         NEW to \in Stages, Stage(p, s, to)
  PROVE  /\ stage' \in [Processes -> [Schedules -> Stages]]
         /\ stage'[p][s] = to
         /\ \A q \in Processes, t \in Schedules : q # p \/ t # s => stage'[q][t] = stage[q][t]
BY DEF TypeOK, Stage

(* A write of a status: that row's, and no other's; its time stays.         *)
LEMMA RowShape ==
  ASSUME TypeOK, NEW s \in Schedules, NEW status \in ScheduledProcessingStatus,
         WriteStatus(s, status)
  PROVE  /\ row' \in [Schedules -> Row]
         /\ row'[s].status = status
         /\ \A t \in Schedules : row'[t].at = row[t].at
         /\ \A t \in Schedules : t # s => row'[t] = row[t]
<1>1. row[s].at \in 0..Horizon
  BY DEF TypeOK, Row
<1>2. [status |-> status, at |-> row[s].at] \in Row
  BY <1>1 DEF Row
<1> QED BY <1>2 DEF TypeOK, WriteStatus

(* Where a call of a callback fails, it fails for good.                     *)
LEMMA FaultShape == ASSUME TypeOK, Fault PROVE faults' \in 0..MaxFaults /\ faults' # 0
BY ScheduledAssumption DEF TypeOK, Fault

(* A step of a cancellation.                                                *)
LEMMA CancelShape ==
  ASSUME TypeOK, NEW p \in Processes, NEW s \in Schedules, NEW to \in Cancellation,
         Cancelling(p, s, to)
  PROVE  /\ cancelling' \in [Processes -> [Schedules -> Cancellation]]
         /\ cancelling'[p][s] = to
         /\ \A q \in Processes, t \in Schedules : q # p \/ t # s => cancelling'[q][t] = cancelling[q][t]
BY DEF TypeOK, Cancelling

(* A timer that is dropped: no process has a timer more.                    *)
LEMMA ArmShape ==
  ASSUME TypeOK, NEW p \in Processes, NEW s \in Schedules, Disarm(p, s)
  PROVE  /\ armed' \in [Processes -> SUBSET Schedules]
         /\ s \notin armed'[p]
         /\ \A q \in Processes : armed'[q] \subseteq armed[q]
         /\ \A q \in Processes, t \in Schedules : q # p \/ t # s => (t \in armed'[q] <=> t \in armed[q])
BY DEF TypeOK, Disarm

(* The times and bounds are numbers.                                        *)
LEMMA Numbers ==
  TypeOK => /\ now \in Nat /\ now <= Horizon /\ Horizon \in Nat /\ Ahead \in Nat
            /\ Year \in Nat \ {0} /\ faults \in Nat
            /\ \A s \in Schedules : row[s].at \in Nat
BY ScheduledAssumption DEF TypeOK, Row

(* A timer whose second of the year has come, less than a year ahead of it, *)
(* does not fire before its time.                                           *)
LEMMA DueInTime ==
  ASSUME NEW Y \in Nat \ {0}, NEW a \in Nat, NEW b \in Nat, a % Y = b % Y, b - a < Y
  PROVE  b <= a
<1> DEFINE m == a \div Y
           n == b \div Y
<1>1. m \in Int /\ n \in Int /\ a = Y * m + (a % Y) /\ b = Y * n + (b % Y)
  OBVIOUS
<1> HIDE DEF m, n
<1>2. ASSUME NEW k \in Int, k > 0
      PROVE  Y * k >= Y
  BY <1>2
<1>3. b - a = Y * (n - m)
  <2>1. Y * (n - m) = Y * n - Y * m
    BY <1>1
  <2>2. Y * n \in Int /\ Y * m \in Int /\ a % Y \in Int
    BY <1>1
  <2> QED BY <1>1, <2>1, <2>2
<1>4. ASSUME n - m <= 0
      PROVE  Y * (n - m) <= 0
  BY <1>1, <1>4
<1> QED BY <1>1, <1>2, <1>3, <1>4

(* A process that is alone is every process.                                *)
LEMMA AloneIsOne == Alone => \A p, q \in Processes : p = q
BY FS_Singleton, ScheduledAssumption DEF Alone

(* A step of one creation, callback or cancellation leaves what is held as  *)
(* it is: its own schedule is not held.                                     *)
LEMMA HeldKept ==
  ASSUME IInv, NEW p \in Processes, NEW s \in Schedules, held' = held,
         s \in armed[p] \/ stage[p][s] # "none" \/ row[s].status # "CANCELLED",
         \A t \in Schedules : t # s =>
           /\ row'[t] = row[t] /\ stage'[p][t] = stage[p][t]
           /\ t \in armed'[p] => t \in armed[p]
  PROVE  CancelHolds'
<1> SUFFICES ASSUME Alone, NEW q \in Processes, NEW t \in held
             PROVE  row'[t].status = "CANCELLED" /\ t \notin armed'[q] /\ stage'[q][t] = "none"
  BY DEF CancelHolds, Alone
<1>1. q = p
  BY AloneIsOne
<1>2. row[t].status = "CANCELLED" /\ t \notin armed[p] /\ stage[p][t] = "none"
  BY DEF IInv, TimersAgree, CancelHolds
<1>3. t \in Schedules /\ t # s
  BY <1>2 DEF IInv, TypeOK
<1> QED BY <1>1, <1>2, <1>3

(* A step of one schedule in a process that is not down brings nothing to   *)
(* one that is.                                                             *)
LEMMA DownKept ==
  ASSUME TypeOK, NEW p \in Processes, state[p] # "down", state' = state,
         \A q \in Processes : q # p => armed'[q] \subseteq armed[q],
         \A q \in Processes, t \in Schedules : q # p =>
           stage'[q][t] = stage[q][t] /\ cancelling'[q][t] = cancelling[q][t]
  PROVE  \A q \in Processes : state'[q] = "down" =>
           armed'[q] = {} /\ \A t \in Schedules : stage'[q][t] = "none" /\ cancelling'[q][t] = "none"
<1> SUFFICES ASSUME NEW q \in Processes, state[q] = "down"
             PROVE  armed'[q] = {} /\ \A t \in Schedules : stage'[q][t] = "none" /\ cancelling'[q][t] = "none"
  OBVIOUS
<1>1. q # p /\ armed[q] = {} /\ \A t \in Schedules : stage[q][t] = "none" /\ cancelling[q][t] = "none"
  BY DEF TypeOK
<1>2. armed'[q] \subseteq armed[q]
  BY <1>1
<1> QED BY <1>1, <1>2

-------------------------------------------------------------------------------
(* A step of a callback or a call for one schedule, which leaves the other  *)
(* schedules and the processes as they are.                                 *)
LEMMA InitOK == Init => IInv
<1> SUFFICES ASSUME Init PROVE IInv
  OBVIOUS
<1>1. TypeOK
  BY ScheduledAssumption DEF Init, TypeOK, Row, Stages, Cancellation
<1>2. Known /\ InTime /\ Once /\ Disarmed
  BY DEF Init, Known, InTime, Once, Disarmed, Created, NotEarly
<1>3. TimersAgree
  BY DEF Init, TimersAgree, PendingArmed, CancelHolds
<1> QED BY <1>1, <1>2, <1>3 DEF IInv

(* A schedule that is created has no timer yet, and is in time for one.     *)
LEMMA CreateOK ==
  ASSUME IInv, NEW p \in Processes, NEW s \in Schedules, Create(p, s) PROVE IInv'
<1>1. PICK at \in (now + 1 .. now + Ahead) \cap (0..Horizon) :
        row' = [row EXCEPT ![s] = [status |-> "PENDING", at |-> at]]
  BY DEF Create
<1>2. /\ state[p] = "up" /\ ~Created(s) /\ Stage(p, s, "arm")
      /\ UNCHANGED <<now, state, armed, cancelling, queued, held, faults, crashes>>
  BY DEF Create, Created
<1>3. /\ row' \in [Schedules -> Row] /\ row'[s].status = "PENDING" /\ row'[s].at = at
      /\ \A t \in Schedules : t # s => row'[t] = row[t]
  BY <1>1 DEF IInv, TypeOK, Row, ScheduledProcessingStatus
<1>4. /\ stage' \in [Processes -> [Schedules -> Stages]] /\ stage'[p][s] = "arm"
      /\ \A q \in Processes, t \in Schedules : q # p \/ t # s => stage'[q][t] = stage[q][t]
  BY <1>2, StageShape DEF IInv, Stages
<1>5. /\ queued[s] = {}
      /\ \A q \in Processes : s \notin armed[q] /\ stage[q][s] = "none" /\ cancelling[q][s] = "none"
  BY <1>2 DEF IInv, Known
<1>6. TypeOK'
  BY <1>2, <1>3, <1>4 DEF IInv, TypeOK
<1>7. Known'
  BY <1>1, <1>2, <1>3, <1>4, <1>5 DEF IInv, Known, Created
<1>8. InTime'
  BY <1>2, <1>3, <1>4, <1>5 DEF IInv, InTime, NotEarly
<1>9. Once'
  BY <1>2, <1>4, <1>5 DEF IInv, Once, Alone
<1>10. Disarmed'
  BY <1>2, <1>4, <1>5 DEF IInv, Disarmed, Alone
<1>11. TimersAgree'
  <2>1. CancelHolds'
    BY <1>2, <1>3, <1>4, HeldKept DEF Created
  <2>2. PendingArmed'
    BY <1>2, <1>3, <1>4, <1>5, AloneIsOne DEF IInv, TimersAgree, PendingArmed, Alone
  <2> QED BY <2>1, <2>2 DEF TimersAgree
<1> QED BY <1>6, <1>7, <1>8, <1>9, <1>10, <1>11 DEF IInv

(* A timer is armed while nobody else is to arm it, however late.           *)
LEMMA ArmOK ==
  ASSUME IInv, NEW p \in Processes, NEW s \in Schedules, Arm(p, s) PROVE IInv'
<1>1. /\ stage[p][s] = "arm" /\ Created(s) /\ state[p] # "down"
      /\ UNCHANGED <<now, row, state, cancelling, queued, held, crashes>>
  BY DEF Arm, IInv, TypeOK, Known
<1>2. /\ stage' \in [Processes -> [Schedules -> Stages]] /\ stage'[p][s] = "none"
      /\ \A q \in Processes, t \in Schedules : q # p \/ t # s => stage'[q][t] = stage[q][t]
  BY StageShape DEF IInv, Arm, Stages
<1>3. /\ armed' \in [Processes -> SUBSET Schedules]
      /\ \A q \in Processes : armed[q] \subseteq armed'[q]
      /\ \A q \in Processes, t \in Schedules : q # p \/ t # s => (t \in armed'[q] <=> t \in armed[q])
  BY DEF Arm, IInv, TypeOK
<1>4. \/ armed' = armed /\ faults' \in 0..MaxFaults /\ faults' # 0
      \/ s \in armed'[p] /\ faults' = faults
  BY FaultShape DEF Arm, IInv, TypeOK
<1>5. TypeOK'
  <2>1. faults' \in 0..MaxFaults
    BY <1>4 DEF IInv, TypeOK
  <2>2. ASSUME NEW q \in Processes, state[q] = "down"
        PROVE  /\ armed'[q] = {}
               /\ \A t \in Schedules : stage'[q][t] = "none" /\ cancelling[q][t] = "none"
    <3>1. q # p /\ armed[q] = {} /\ \A t \in Schedules : stage[q][t] = "none" /\ cancelling[q][t] = "none"
      BY <1>1, <2>2 DEF IInv, TypeOK
    <3>2. \A t \in Schedules : stage'[q][t] = "none"
      BY <1>2, <3>1
    <3>3. armed'[q] \subseteq Schedules /\ \A t \in Schedules : t \notin armed'[q]
      BY <1>3, <3>1
    <3> QED BY <3>1, <3>2, <3>3
  <2> QED BY <1>1, <1>2, <1>3, <2>1, <2>2 DEF IInv, TypeOK
<1>6. Known'
  BY <1>1, <1>2, <1>3 DEF IInv, Known, Created
<1>7. InTime'
  BY <1>1, <1>2 DEF IInv, InTime, NotEarly
<1>8. Once'
  BY <1>1, <1>2, <1>3, AloneIsOne DEF IInv, Once, Alone
<1>9. Disarmed'
  BY <1>1, <1>2, <1>3 DEF IInv, Disarmed, Alone
<1>10. TimersAgree'
  <2>1. CancelHolds'
    BY <1>1, <1>2, <1>3, HeldKept
  <2>2. PendingArmed'
    BY <1>1, <1>2, <1>3, <1>4 DEF IInv, TimersAgree, PendingArmed, Alone
  <2> QED BY <2>1, <2>2 DEF TimersAgree
<1> QED BY <1>5, <1>6, <1>7, <1>8, <1>9, <1>10 DEF IInv

(* A timer that fires begins its callback at the minute of its schedule.    *)
LEMMA FireOK ==
  ASSUME IInv, NEW p \in Processes, NEW s \in Schedules, Fire(p, s) PROVE IInv'
<1>1. /\ s \in armed[p] /\ now % Year = row[s].at % Year /\ stage[p][s] = "none" /\ state[p] # "down"
      /\ Stage(p, s, "mark")
      /\ UNCHANGED <<now, row, state, armed, cancelling, queued, held, faults, crashes>>
  BY DEF Fire, Ripe, Due, IInv, TypeOK
<1>2. /\ stage' \in [Processes -> [Schedules -> Stages]]
      /\ stage'[p][s] = "mark"
      /\ \A q \in Processes, t \in Schedules : q # p \/ t # s => stage'[q][t] = stage[q][t]
  BY <1>1, StageShape DEF IInv, Stages
<1>3. Created(s) /\ row[s].at <= now + Ahead
  BY <1>1 DEF IInv, Known
<1>4. Ahead < Year => row[s].at <= now
  BY <1>1, <1>3, DueInTime, Numbers DEF IInv
<1>5. TypeOK'
  BY <1>1, <1>2 DEF IInv, TypeOK
<1>6. Known'
  BY <1>1, <1>2, <1>3 DEF IInv, Known, Created
<1>7. InTime'
  BY <1>1, <1>2, <1>4 DEF IInv, InTime, NotEarly
<1>8. Once'
  BY <1>1, <1>2, AloneIsOne DEF IInv, Once, Alone
<1>9. Disarmed'
  BY <1>1, <1>2 DEF IInv, Disarmed, Alone
<1>10. TimersAgree'
  <2>1. CancelHolds'
    BY <1>1, <1>2, HeldKept
  <2>2. PendingArmed'
    BY <1>1, <1>2 DEF IInv, TimersAgree, PendingArmed, Alone
  <2> QED BY <2>1, <2>2 DEF TimersAgree
<1> QED BY <1>5, <1>6, <1>7, <1>8, <1>9, <1>10 DEF IInv

(* The callback keeps its row PENDING, or the write fails.                  *)
LEMMA MarkOK ==
  ASSUME IInv, NEW p \in Processes, NEW s \in Schedules, Mark(p, s) PROVE IInv'
<1>1. /\ stage[p][s] = "mark" /\ Created(s) /\ state[p] # "down"
      /\ UNCHANGED <<now, state, armed, cancelling, queued, held, crashes>>
  BY DEF Mark, IInv, TypeOK, Known
<1>2. /\ stage'[p][s] \in {"enqueue", "fail"}
      /\ stage' \in [Processes -> [Schedules -> Stages]]
      /\ \A q \in Processes, t \in Schedules : q # p \/ t # s => stage'[q][t] = stage[q][t]
  BY StageShape DEF IInv, Mark, Stages
<1>3. \/ /\ row' = row /\ faults' \in 0..MaxFaults /\ faults' # 0 /\ stage'[p][s] = "fail"
      \/ row'[s].status = "PENDING" /\ faults' = faults
  BY FaultShape, RowShape, StageShape DEF IInv, Mark, ScheduledProcessingStatus, Stages
<1>4. /\ row' \in [Schedules -> Row]
      /\ \A t \in Schedules : row'[t].at = row[t].at
      /\ \A t \in Schedules : t # s => row'[t] = row[t]
  BY RowShape DEF IInv, TypeOK, Mark, ScheduledProcessingStatus
<1>5. Ahead < Year => ~(row[s].at > now)
  BY <1>1, Numbers DEF IInv, InTime
<1>6. TypeOK'
  BY <1>1, <1>2, <1>3, <1>4, SMTT(20) DEF IInv, TypeOK
<1>7. Known'
  BY <1>1, <1>2, <1>3, <1>4, ZenonT(40) DEF IInv, Known, Created
<1>8. InTime'
  BY <1>1, <1>2, <1>3, <1>4 DEF IInv, InTime, NotEarly
<1>9. Once'
  BY <1>1, <1>2, <1>3, <1>4 DEF IInv, Once, Alone
<1>10. Disarmed'
  BY <1>1, <1>2, <1>3, <1>4 DEF IInv, Disarmed, Alone
<1>11. TimersAgree'
  <2>1. CancelHolds'
    BY <1>1, <1>2, <1>4, HeldKept
  <2>2. PendingArmed'
    BY <1>1, <1>2, <1>3, <1>4, <1>5, AloneIsOne DEF IInv, TimersAgree, PendingArmed, Alone
  <2> QED BY <2>1, <2>2 DEF TimersAgree
<1> QED BY <1>6, <1>7, <1>8, <1>9, <1>10, <1>11 DEF IInv

(* The callback enqueues the trackers, which is counted here.               *)
LEMMA EnqueueOK ==
  ASSUME IInv, NEW p \in Processes, NEW s \in Schedules, Enqueue(p, s) PROVE IInv'
<1>1. /\ stage[p][s] = "enqueue" /\ Created(s) /\ state[p] # "down"
      /\ UNCHANGED <<now, row, state, armed, cancelling, held, crashes>>
  BY DEF Enqueue, IInv, TypeOK, Known
<1>2. /\ stage'[p][s] \in {"complete", "fail"}
      /\ stage' \in [Processes -> [Schedules -> Stages]]
      /\ \A q \in Processes, t \in Schedules : q # p \/ t # s => stage'[q][t] = stage[q][t]
  BY StageShape DEF IInv, Enqueue, Stages
<1>3. faults' \in 0..MaxFaults /\ (faults' = faults \/ faults' # 0)
  BY FaultShape DEF IInv, TypeOK, Enqueue
<1>4. /\ queued' \in [Schedules -> SUBSET (Processes \X (0..Horizon))]
      /\ \A t \in Schedules : t # s => queued'[t] = queued[t]
      /\ queued'[s] = queued[s] \/ queued'[s] = queued[s] \cup {<<p, now>>}
  BY DEF IInv, TypeOK, Enqueue
<1>5. Ahead < Year => row[s].at <= now
  BY <1>1 DEF IInv, InTime
<1>6. TypeOK'
  <2>1. \A q \in Processes : state'[q] = "down" =>
          armed'[q] = {} /\ \A t \in Schedules : stage'[q][t] = "none" /\ cancelling'[q][t] = "none"
    BY <1>1, <1>2, DownKept DEF IInv
  <2> QED BY <1>1, <1>2, <1>3, <1>4, <2>1 DEF IInv, TypeOK
<1>7. Known'
  BY <1>1, <1>2, <1>3, <1>4, <1>5 DEF IInv, Known, Created
<1>8. InTime'
  BY <1>1, <1>2, <1>3, <1>4, <1>5 DEF IInv, InTime, NotEarly
<1>9. Once'
  BY <1>1, <1>2, <1>4, AloneIsOne DEF IInv, Once, Alone
<1>10. Disarmed'
  BY <1>1, <1>2, <1>3, <1>4, <1>5 DEF IInv, Disarmed, Alone
<1>11. TimersAgree'
  <2>1. CancelHolds'
    BY <1>1, <1>2, <1>4, HeldKept
  <2>2. PendingArmed'
    BY <1>1, <1>2, <1>3, <1>4, <1>5, AloneIsOne DEF IInv, TimersAgree, PendingArmed, Alone
  <2> QED BY <2>1, <2>2 DEF TimersAgree
<1> QED BY <1>6, <1>7, <1>8, <1>9, <1>10, <1>11 DEF IInv

(* The callback completes the row and drops the timer.                      *)
LEMMA CompleteOK ==
  ASSUME IInv, NEW p \in Processes, NEW s \in Schedules, Complete(p, s) PROVE IInv'
<1>1. /\ stage[p][s] = "complete" /\ Created(s) /\ state[p] # "down"
      /\ UNCHANGED <<now, state, cancelling, queued, held, crashes>>
  BY DEF Complete, IInv, TypeOK, Known
<1>2. /\ stage'[p][s] \in {"none", "fail"}
      /\ stage' \in [Processes -> [Schedules -> Stages]]
      /\ \A q \in Processes, t \in Schedules : q # p \/ t # s => stage'[q][t] = stage[q][t]
  BY StageShape DEF IInv, Complete, Stages
<1>3. \/ /\ row' = row /\ armed' = armed /\ faults' \in 0..MaxFaults /\ faults' # 0
         /\ stage'[p][s] = "fail"
      \/ row'[s].status = "COMPLETED" /\ s \notin armed'[p] /\ faults' = faults
  BY FaultShape, RowShape, ArmShape, StageShape DEF IInv, Complete, ScheduledProcessingStatus, Stages
<1>4. /\ row' \in [Schedules -> Row]
      /\ \A t \in Schedules : row'[t].at = row[t].at
      /\ \A t \in Schedules : t # s => row'[t] = row[t]
      /\ armed' \in [Processes -> SUBSET Schedules]
      /\ \A q \in Processes : armed'[q] \subseteq armed[q]
      /\ \A q \in Processes, t \in Schedules : q # p \/ t # s => (t \in armed'[q] <=> t \in armed[q])
  BY RowShape, ArmShape DEF IInv, TypeOK, Complete, ScheduledProcessingStatus
<1>5. TypeOK'
  <2>1. faults' \in 0..MaxFaults
    BY <1>3 DEF IInv, TypeOK
  <2>2. \A q \in Processes : state'[q] = "down" =>
          armed'[q] = {} /\ \A t \in Schedules : stage'[q][t] = "none" /\ cancelling'[q][t] = "none"
    BY <1>1, <1>2, <1>4, DownKept DEF IInv
  <2> QED BY <1>1, <1>2, <1>4, <2>1, <2>2 DEF IInv, TypeOK
<1>6. Known'
  <2>1. \A t \in Schedules : Created(t)' <=> Created(t)
    BY <1>1, <1>3, <1>4 DEF Created
  <2> QED BY <1>1, <1>2, <1>4, <2>1 DEF IInv, Known, Created
<1>7. InTime'
  <2>1. \A q \in Processes, t \in Schedules :
          stage'[q][t] \notin {"none", "arm"} => stage[q][t] \notin {"none", "arm"}
    BY <1>1, <1>2
  <2> QED BY <1>1, <1>4, <2>1 DEF IInv, InTime, NotEarly
<1>8. Once'
  BY <1>1, <1>2, <1>3, <1>4 DEF IInv, Once, Alone
<1>9. Disarmed'
  BY <1>1, <1>2, <1>3, <1>4 DEF IInv, Disarmed, Alone
<1>10. TimersAgree'
  <2>1. CancelHolds'
    BY <1>1, <1>2, <1>4, HeldKept
  <2>2. PendingArmed'
    BY <1>1, <1>2, <1>3, <1>4, AloneIsOne DEF IInv, TimersAgree, PendingArmed, Alone
  <2> QED BY <2>1, <2>2 DEF TimersAgree
<1> QED BY <1>5, <1>6, <1>7, <1>8, <1>9, <1>10 DEF IInv

(* The callback records a failure and drops the timer.                      *)
LEMMA FailOK ==
  ASSUME IInv, NEW p \in Processes, NEW s \in Schedules, Fail(p, s) PROVE IInv'
<1>1. /\ stage[p][s] = "fail" /\ Created(s) /\ state[p] # "down"
      /\ UNCHANGED <<now, state, cancelling, queued, held, crashes>>
  BY DEF Fail, IInv, TypeOK, Known
<1>2. /\ stage'[p][s] = "none"
      /\ stage' \in [Processes -> [Schedules -> Stages]]
      /\ \A q \in Processes, t \in Schedules : q # p \/ t # s => stage'[q][t] = stage[q][t]
  BY StageShape DEF IInv, Fail, Stages
<1>3. \/ row' = row /\ faults' \in 0..MaxFaults /\ faults' # 0
      \/ row'[s].status = "FAILED" /\ faults' = faults
  BY FaultShape, RowShape DEF IInv, Fail, ScheduledProcessingStatus
<1>4. /\ s \notin armed'[p]
      /\ row' \in [Schedules -> Row]
      /\ \A t \in Schedules : row'[t].at = row[t].at
      /\ \A t \in Schedules : t # s => row'[t] = row[t]
      /\ armed' \in [Processes -> SUBSET Schedules]
      /\ \A q \in Processes : armed'[q] \subseteq armed[q]
      /\ \A q \in Processes, t \in Schedules : q # p \/ t # s => (t \in armed'[q] <=> t \in armed[q])
  BY RowShape, ArmShape DEF IInv, TypeOK, Fail, ScheduledProcessingStatus
<1>5. TypeOK'
  <2>1. faults' \in 0..MaxFaults
    BY <1>3 DEF IInv, TypeOK
  <2>2. \A q \in Processes : state'[q] = "down" =>
          armed'[q] = {} /\ \A t \in Schedules : stage'[q][t] = "none" /\ cancelling'[q][t] = "none"
    BY <1>1, <1>2, <1>4, DownKept DEF IInv
  <2> QED BY <1>1, <1>2, <1>4, <2>1, <2>2 DEF IInv, TypeOK
<1>6. Known'
  <2>1. \A t \in Schedules : Created(t)' <=> Created(t)
    BY <1>1, <1>3, <1>4 DEF Created
  <2> QED BY <1>1, <1>2, <1>4, <2>1 DEF IInv, Known, Created
<1>7. InTime'
  <2>1. \A q \in Processes, t \in Schedules :
          stage'[q][t] \notin {"none", "arm"} => stage[q][t] \notin {"none", "arm"}
    BY <1>1, <1>2
  <2> QED BY <1>1, <1>4, <2>1 DEF IInv, InTime, NotEarly
<1>8. Once'
  BY <1>1, <1>2, <1>3, <1>4 DEF IInv, Once, Alone
<1>9. Disarmed'
  BY <1>1, <1>2, <1>3, <1>4 DEF IInv, Disarmed, Alone
<1>10. TimersAgree'
  <2>1. CancelHolds'
    BY <1>1, <1>2, <1>4, HeldKept
  <2>2. PendingArmed'
    BY <1>1, <1>2, <1>3, <1>4, AloneIsOne DEF IInv, TimersAgree, PendingArmed, Alone
  <2> QED BY <2>1, <2>2 DEF TimersAgree
<1> QED BY <1>5, <1>6, <1>7, <1>8, <1>9, <1>10 DEF IInv

(* A cancellation reads the row,                                            *)
LEMMA CancelOK ==
  ASSUME IInv, NEW p \in Processes, NEW s \in Schedules, Cancel(p, s) PROVE IInv'
<1>1. /\ state[p] = "up" /\ Created(s) /\ cancelling[p][s] = "none"
      /\ UNCHANGED <<now, row, state, armed, stage, queued, held, faults, crashes>>
  BY DEF Cancel, Created
<1>2. /\ cancelling' \in [Processes -> [Schedules -> Cancellation]] /\ cancelling'[p][s] = "stop"
      /\ \A q \in Processes, t \in Schedules : q # p \/ t # s => cancelling'[q][t] = cancelling[q][t]
  BY CancelShape DEF IInv, Cancel, Cancellation
<1>3. TypeOK'
  BY <1>1, <1>2 DEF IInv, TypeOK
<1>4. Known'
  BY <1>1, <1>2 DEF IInv, Known, Created
<1>5. InTime' /\ Once' /\ Disarmed'
  BY <1>1, <1>2 DEF IInv, InTime, NotEarly, Once, Disarmed, Alone
<1>6. TimersAgree'
  BY <1>1, <1>2, AloneIsOne DEF IInv, TimersAgree, PendingArmed, CancelHolds, Alone
<1> QED BY <1>3, <1>4, <1>5, <1>6 DEF IInv

(* stops the timer of its own process,                                      *)
LEMMA StopTimerOK ==
  ASSUME IInv, NEW p \in Processes, NEW s \in Schedules, StopTimer(p, s) PROVE IInv'
<1>1. /\ cancelling[p][s] = "stop" /\ Created(s) /\ state[p] # "down"
      /\ UNCHANGED <<now, row, state, stage, queued, held, faults, crashes>>
  BY DEF StopTimer, IInv, TypeOK, Known
<1>2. /\ cancelling' \in [Processes -> [Schedules -> Cancellation]]
      /\ cancelling'[p][s] = IF stage[p][s] = "none" THEN "write" ELSE "late"
      /\ \A q \in Processes, t \in Schedules : q # p \/ t # s => cancelling'[q][t] = cancelling[q][t]
  BY CancelShape DEF IInv, StopTimer, Cancellation
<1>3. /\ s \notin armed'[p]
      /\ armed' \in [Processes -> SUBSET Schedules]
      /\ \A q \in Processes : armed'[q] \subseteq armed[q]
      /\ \A q \in Processes, t \in Schedules : q # p \/ t # s => (t \in armed'[q] <=> t \in armed[q])
  BY ArmShape DEF IInv, StopTimer
<1>4. TypeOK'
  <2>1. ASSUME NEW q \in Processes, state[q] = "down"
        PROVE  /\ armed'[q] = {}
               /\ \A t \in Schedules : stage[q][t] = "none" /\ cancelling'[q][t] = "none"
    <3>1. q # p /\ armed[q] = {} /\ \A t \in Schedules : stage[q][t] = "none" /\ cancelling[q][t] = "none"
      BY <1>1, <2>1 DEF IInv, TypeOK
    <3>2. \A t \in Schedules : cancelling'[q][t] = "none"
      BY <1>2, <3>1
    <3>3. armed'[q] \subseteq armed[q]
      BY <1>3
    <3> QED BY <3>1, <3>2, <3>3
  <2> QED BY <1>1, <1>2, <1>3, <2>1 DEF IInv, TypeOK
<1>5. Known'
  BY <1>1, <1>2, <1>3 DEF IInv, Known, Created
<1>6. InTime' /\ Once'
  BY <1>1, <1>3 DEF IInv, InTime, NotEarly, Once, Alone
<1>7. Disarmed'
  BY <1>1, <1>2, <1>3 DEF IInv, Disarmed, Alone
<1>8. TimersAgree'
  <2>1. CancelHolds'
    BY <1>1, <1>3 DEF IInv, TimersAgree, CancelHolds, Alone
  <2>2. PendingArmed'
    <3>1. \A q \in Processes, t \in Schedules :
            t \in armed[q] => t \in armed'[q] \/ cancelling'[q][t] # "none"
      BY <1>2, <1>3
    <3>2. \A q \in Processes, t \in Schedules :
            cancelling[q][t] # "none" => cancelling'[q][t] # "none"
      BY <1>2
    <3> QED BY <1>1, <3>1, <3>2 DEF IInv, TimersAgree, PendingArmed, Alone
  <2> QED BY <2>1, <2>2 DEF TimersAgree
<1> QED BY <1>4, <1>5, <1>6, <1>7, <1>8 DEF IInv

(* and writes the row, by its id alone.                                     *)
LEMMA CancelWriteOK ==
  ASSUME IInv, NEW p \in Processes, NEW s \in Schedules, CancelWrite(p, s) PROVE IInv'
<1>1. /\ cancelling[p][s] \in {"write", "late"} /\ Created(s)
      /\ UNCHANGED <<now, state, armed, stage, queued, crashes>>
  BY DEF CancelWrite, IInv, Known
<1>2. \/ row' = row /\ held' = held /\ faults' \in 0..MaxFaults /\ faults' # 0
      \/ /\ row'[s].status = "CANCELLED" /\ faults' = faults
         /\ held' = IF cancelling[p][s] = "write" THEN held \cup {s} ELSE held
  BY FaultShape, RowShape DEF IInv, CancelWrite, ScheduledProcessingStatus
<1>3. /\ row' \in [Schedules -> Row]
      /\ \A t \in Schedules : row'[t].at = row[t].at
      /\ \A t \in Schedules : t # s => row'[t] = row[t]
  BY RowShape DEF IInv, TypeOK, CancelWrite, ScheduledProcessingStatus
<1>4. /\ cancelling' \in [Processes -> [Schedules -> Cancellation]] /\ cancelling'[p][s] = "none"
      /\ \A q \in Processes, t \in Schedules : q # p \/ t # s => cancelling'[q][t] = cancelling[q][t]
  BY CancelShape DEF IInv, CancelWrite, Cancellation
<1>5. TypeOK'
  BY <1>1, <1>2, <1>3, <1>4 DEF IInv, TypeOK
<1>6. Known'
  BY <1>1, <1>2, <1>3, <1>4 DEF IInv, Known, Created
<1>7. InTime' /\ Once'
  BY <1>1, <1>3 DEF IInv, InTime, NotEarly, Once, Alone
<1>8. Disarmed'
  BY <1>1, <1>4 DEF IInv, Disarmed, Alone
<1>9. TimersAgree'
  <2>1. PendingArmed'
    BY <1>1, <1>2, <1>3, <1>4, AloneIsOne DEF IInv, TimersAgree, PendingArmed, Alone
  <2>2. CancelHolds'
    <3>1. ASSUME Alone, NEW q \in Processes, NEW t \in held'
          PROVE  row'[t].status = "CANCELLED" /\ t \notin armed[q] /\ stage[q][t] = "none"
      <4>1. CASE t \in held
        <5>1. row[t].status = "CANCELLED" /\ t \notin armed[q] /\ stage[q][t] = "none"
          BY <3>1, <4>1 DEF IInv, TimersAgree, CancelHolds
        <5> QED BY <1>2, <1>3, <4>1, <5>1 DEF IInv, TypeOK
      <4>2. CASE t \notin held
        <5>1. t = s /\ cancelling[p][s] = "write" /\ row'[s].status = "CANCELLED"
          BY <1>2, <3>1, <4>2
        <5>2. q = p
          BY <3>1, AloneIsOne
        <5> QED BY <3>1, <5>1, <5>2 DEF IInv, Disarmed
      <4> QED BY <4>1, <4>2
    <3> QED BY <1>1, <3>1 DEF CancelHolds, Alone
  <2> QED BY <2>1, <2>2 DEF TimersAgree
<1> QED BY <1>5, <1>6, <1>7, <1>8, <1>9 DEF IInv

-------------------------------------------------------------------------------
(* A process stops and starts, and time passes.                             *)
LEMMA DownShape ==
  ASSUME TypeOK, NEW p \in Processes, NEW to \in {"up", "stopping", "down"},
         state' = [state EXCEPT ![p] = to]
  PROVE  /\ state' \in [Processes -> {"up", "stopping", "down"}] /\ state'[p] = to
         /\ \A q \in Processes : q # p => state'[q] = state[q]
BY DEF TypeOK

(* A shutdown stops the timers; callbacks may still be at work.             *)
LEMMA ShutdownOK == ASSUME IInv, NEW p \in Processes, Shutdown(p) PROVE IInv'
<1>1. /\ state[p] = "up" /\ crashes' \in 0..MaxCrashes
      /\ UNCHANGED <<now, row, stage, cancelling, queued, held, faults>>
  BY ScheduledAssumption DEF Shutdown, IInv, TypeOK
<1>2. /\ state' \in [Processes -> {"up", "stopping", "down"}] /\ state'[p] = "stopping"
      /\ \A q \in Processes : q # p => state'[q] = state[q]
  BY DownShape DEF Shutdown, IInv
<1>3. /\ armed' \in [Processes -> SUBSET Schedules] /\ armed'[p] = {}
      /\ \A q \in Processes : q # p => armed'[q] = armed[q]
  BY DEF Shutdown, IInv, TypeOK
<1>4. TypeOK'
  BY <1>1, <1>2, <1>3 DEF IInv, TypeOK
<1>5. Known'
  BY <1>1, <1>2, <1>3 DEF IInv, Known, Created
<1>6. InTime'
  BY <1>1, <1>2, <1>3 DEF IInv, InTime, NotEarly
<1>7. Once'
  BY <1>1, <1>2, <1>3 DEF IInv, Once, Alone
<1>8. Disarmed'
  BY <1>1, <1>2, <1>3 DEF IInv, Disarmed, Alone
<1>9. TimersAgree'
  BY <1>1, <1>2, <1>3 DEF IInv, TimersAgree, PendingArmed, CancelHolds, Alone
<1> QED BY <1>4, <1>5, <1>6, <1>7, <1>8, <1>9 DEF IInv

(* A process that stops forgets its timers, callbacks and calls.            *)
LEMMA StopOK == ASSUME IInv, NEW p \in Processes, Stop(p) PROVE IInv'
<1>1. /\ crashes' \in 0..MaxCrashes
      /\ cancelling' \in [Processes -> [Schedules -> Cancellation]]
      /\ \A s \in Schedules : cancelling'[p][s] = "none"
      /\ \A q \in Processes : q # p => cancelling'[q] = cancelling[q]
      /\ UNCHANGED <<now, row, queued, held, faults>>
  BY ScheduledAssumption DEF Stop, IInv, TypeOK, Cancellation
<1>2. /\ state' \in [Processes -> {"up", "stopping", "down"}] /\ state'[p] = "down"
      /\ \A q \in Processes : q # p => state'[q] = state[q]
  BY DownShape DEF Stop, IInv
<1>3. /\ armed' \in [Processes -> SUBSET Schedules] /\ armed'[p] = {}
      /\ \A q \in Processes : q # p => armed'[q] = armed[q]
  BY DEF Stop, IInv, TypeOK
<1>4. /\ stage' \in [Processes -> [Schedules -> Stages]]
      /\ \A s \in Schedules : stage'[p][s] = "none"
      /\ \A q \in Processes : q # p => stage'[q] = stage[q]
  BY DEF Stop, IInv, TypeOK, Stages
<1>5. TypeOK'
  <2>1. ASSUME NEW q \in Processes, state'[q] = "down"
        PROVE  armed'[q] = {} /\ \A t \in Schedules : stage'[q][t] = "none" /\ cancelling'[q][t] = "none"
    <3>1. CASE q = p
      BY <1>1, <1>3, <1>4, <3>1
    <3>2. CASE q # p
      BY <1>1, <1>2, <1>3, <1>4, <2>1, <3>2 DEF IInv, TypeOK
    <3> QED BY <3>1, <3>2
  <2> QED BY <1>1, <1>2, <1>3, <1>4, <2>1 DEF IInv, TypeOK
<1>0. \A q \in Processes, t \in Schedules :
        /\ t \in armed'[q] => t \in armed[q]
        /\ stage'[q][t] # "none" => stage'[q][t] = stage[q][t]
        /\ cancelling'[q][t] # "none" => cancelling'[q][t] = cancelling[q][t]
        /\ t \in armed'[q] => stage'[q][t] = stage[q][t]
  <2> SUFFICES ASSUME NEW q \in Processes, NEW t \in Schedules
               PROVE  /\ t \in armed'[q] => t \in armed[q]
                      /\ stage'[q][t] # "none" => stage'[q][t] = stage[q][t]
                      /\ cancelling'[q][t] # "none" => cancelling'[q][t] = cancelling[q][t]
                      /\ t \in armed'[q] => stage'[q][t] = stage[q][t]
    OBVIOUS
  <2>1. CASE q = p
    BY <1>1, <1>3, <1>4, <2>1
  <2>2. CASE q # p
    BY <1>1, <1>3, <1>4, <2>2
  <2> QED BY <2>1, <2>2
<1>6. Known'
  BY <1>0, <1>1 DEF IInv, Known, Created
<1>7. InTime'
  BY <1>0, <1>1 DEF IInv, InTime, NotEarly
<1>8. Once'
  <2>1. ASSUME Alone, Ahead < Year, NEW q \in Processes, NEW t \in Schedules
        PROVE  /\ stage'[q][t] \in {"arm", "mark", "enqueue"} => queued[t] = {}
               /\ queued[t] # {} /\ t \in armed'[q] => stage'[q][t] \in {"complete", "fail"}
    BY <1>0, <2>1 DEF IInv, Once
  <2> QED BY <1>1, <2>1 DEF IInv, Once, Alone
<1>9. Disarmed'
  BY <1>0 DEF IInv, Disarmed, Alone
<1>10. TimersAgree'
  <2>1. CancelHolds'
    BY <1>0, <1>1 DEF IInv, TypeOK, TimersAgree, CancelHolds, Alone
  <2>2. PendingArmed'
    BY <1>1, <1>2, <1>3, <1>4 DEF IInv, TimersAgree, PendingArmed, Alone
  <2> QED BY <2>1, <2>2 DEF TimersAgree
<1> QED BY <1>5, <1>6, <1>7, <1>8, <1>9, <1>10 DEF IInv

(* A process that starts arms what is PENDING and in the future.            *)
LEMMA StartOK == ASSUME IInv, NEW p \in Processes, Start(p) PROVE IInv'
<1>1. /\ state[p] = "down" /\ \A s \in Schedules : stage[p][s] = "none" /\ cancelling[p][s] = "none"
      /\ UNCHANGED <<now, row, stage, cancelling, queued, held, faults, crashes>>
  BY DEF Start, IInv, TypeOK, Disarmed
<1>2. /\ state' \in [Processes -> {"up", "stopping", "down"}] /\ state'[p] = "up"
      /\ \A q \in Processes : q # p => state'[q] = state[q]
  BY DownShape DEF Start, IInv
<1>3. /\ armed' \in [Processes -> SUBSET Schedules]
      /\ \A s \in Schedules : s \in armed'[p] <=> row[s].status = "PENDING" /\ row[s].at > now
      /\ \A q \in Processes : q # p => armed'[q] = armed[q]
  BY DEF Start, Loaded, IInv, TypeOK
<1>4. Ahead < Year => \A s \in armed'[p] : queued[s] = {}
  BY <1>3, Numbers DEF IInv, InTime
<1>5. TypeOK'
  <2>1. ASSUME NEW q \in Processes, state'[q] = "down"
        PROVE  armed'[q] = {} /\ \A t \in Schedules : stage'[q][t] = "none" /\ cancelling'[q][t] = "none"
    <3>1. q # p
      BY <1>2, <2>1
    <3> QED BY <1>1, <1>2, <1>3, <2>1, <3>1 DEF IInv, TypeOK
  <2> QED BY <1>1, <1>2, <1>3, <2>1 DEF IInv, TypeOK
<1>6. Known'
  BY <1>1, <1>2, <1>3, <1>4 DEF IInv, Known, Created
<1>7. InTime'
  BY <1>1, <1>2, <1>3, <1>4 DEF IInv, InTime, NotEarly
<1>8. Once'
  BY <1>1, <1>2, <1>3, <1>4 DEF IInv, Once, Alone
<1>9. Disarmed'
  BY <1>1, <1>2, <1>3, <1>4 DEF IInv, Disarmed, Alone
<1>10. TimersAgree'
  BY <1>1, <1>2, <1>3, AloneIsOne DEF IInv, TimersAgree, PendingArmed, CancelHolds, Alone
<1> QED BY <1>5, <1>6, <1>7, <1>8, <1>9, <1>10 DEF IInv

(* Time passes only when no timer has yet to fire.                          *)
LEMMA TickOK == ASSUME IInv, Tick PROVE IInv'
<1>1. /\ now' = now + 1 /\ now' \in 0..Horizon
      /\ UNCHANGED <<row, state, armed, stage, cancelling, queued, held, faults, crashes>>
  BY Numbers DEF Tick, IInv, TypeOK
<1>2. TypeOK'
  BY <1>1, Numbers DEF IInv, TypeOK
<1>3. Known'
  BY <1>1, Numbers DEF IInv, Known, Created
<1>4. InTime'
  BY <1>1, Numbers DEF IInv, InTime, NotEarly
<1>5. Once'
  BY <1>1, Numbers DEF IInv, Once, Alone
<1>6. Disarmed'
  BY <1>1, Numbers DEF IInv, Disarmed, Alone
<1>7. TimersAgree'
  BY <1>1, Numbers DEF IInv, TimersAgree, PendingArmed, CancelHolds, Alone
<1> QED BY <1>2, <1>3, <1>4, <1>5, <1>6, <1>7 DEF IInv

(* No step, nor a stutter, breaks the invariant.                            *)
LEMMA StepOK == IInv /\ [Next]_vars => IInv'
<1> SUFFICES ASSUME IInv, [Next]_vars PROVE IInv'
  OBVIOUS
<1>1. CASE UNCHANGED vars
  BY <1>1 DEF vars, IInv, TypeOK, Known, Created, InTime, NotEarly, Once, Alone, Disarmed,
              TimersAgree, PendingArmed, CancelHolds
<1>2. CASE Next
  BY <1>2, CreateOK, FireOK, MarkOK, EnqueueOK, CompleteOK, FailOK, CancelOK, StopTimerOK,
     CancelWriteOK, ArmOK, ShutdownOK, StopOK, StartOK, TickOK DEF Next, Execute, Cancels
<1> QED BY <1>1, <1>2

-------------------------------------------------------------------------------
(* The results.                                                             *)

(* The parts of the inductive invariant always hold.                        *)
THEOREM Invariant == Spec => []IInv
BY InitOK, StepOK, PTL DEF Spec

(* Types, for any number of processes and schedules.                        *)
THEOREM TypeCorrect == Spec => []TypeOK
<1>1. IInv => TypeOK
  BY DEF IInv
<1> QED BY <1>1, Invariant, PTL

(* Timers and rows of a process that is alone agree, through restarts,      *)
(* cancellations and, for the cancelled ones, failed calls.                 *)
THEOREM AgreeAlways == Spec => []TimersAgree
<1>1. IInv => TimersAgree
  BY DEF IInv
<1> QED BY <1>1, Invariant, PTL

(* A schedule less than a year ahead runs once at most if the process is    *)
(* alone, and never before its time, whatever fails and restarts.           *)
THEOREM OnceAndInTime == Spec => []RunsOnceInTime
<1>1. ASSUME NEW S, \A x, y \in S : x = y
      PROVE  Cardinality(S) <= 1
  <2>1. CASE S = {}
    BY <2>1, FS_EmptySet
  <2>2. CASE S # {}
    <3>1. PICK x : S = {x}
      BY <1>1, <2>2
    <3> QED BY <3>1, FS_Singleton
  <2> QED BY <2>1, <2>2
<1>2. IInv => RunsOnceInTime
  BY <1>1 DEF IInv, Once, InTime, NotEarly, RunsOnce, RunsOnceInTime
<1> QED BY <1>2, Invariant, PTL
===============================================================================
