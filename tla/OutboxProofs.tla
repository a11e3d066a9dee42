------------------------------ MODULE OutboxProofs ------------------------------
(***************************************************************************)
(* Proofs about OutboxProcessor for any number of events, faults and        *)
(* crashes: types for any number of processors, the rest for one, since an  *)
(* old process and its successor that overlap may handle an event twice.    *)
(***************************************************************************)
EXTENDS OutboxProcessor, FiniteSetTheorems, WellFoundedInduction, TLAPS

-------------------------------------------------------------------------------
(* A finite set of numbers that is not empty has a least one.               *)
LEMMA LeastExists ==
  ASSUME NEW S \in SUBSET Nat, IsFiniteSet(S), S # {}
  PROVE  \E x \in S : \A y \in S : x <= y
<1> DEFINE Upto(x) == {y \in S : y <= x}
           T == {Upto(x) : x \in S}
           R == StrictSubsetOrdering(S)
<1>1. IsWellFoundedOn(R, FiniteSubsetsOf(S))
  BY FS_StrictSubsetOrderingWellFounded
<1>2. T \subseteq FiniteSubsetsOf(S) /\ T # {}
  <2>1. FiniteSubsetsOf(S) = SUBSET S
    BY FS_FiniteSubsetsOfFinite
  <2>2. \A x \in S : Upto(x) \in SUBSET S
    OBVIOUS
  <2>3. T \subseteq SUBSET S /\ T # {}
    <3> HIDE DEF Upto
    <3> QED BY <2>2
  <2> QED BY <2>1, <2>3
<1>3. \E t \in T : \A u \in T : ~(<<u, t>> \in R)
  <2> HIDE DEF T, R
  <2> QED BY <1>1, <1>2, WFMin
<1>4. PICK x \in S : \A u \in T : ~(<<u, Upto(x)>> \in R)
  BY <1>3
<1>5. ASSUME NEW y \in S, y < x PROVE FALSE
  <2>1. ~(<<Upto(y), Upto(x)>> \in R)
    BY <1>4
  <2>2. x \in Nat /\ y \in Nat /\ \A z \in S : z \in Nat
    OBVIOUS
  <2>3. \A z \in S : z <= y => z <= x
    BY <1>5, <2>2
  <2>4. x <= x /\ ~(x <= y)
    BY <1>5, <2>2
  <2>5. Upto(y) \subseteq Upto(x)
    BY <2>3
  <2>6. x \in Upto(x) /\ x \notin Upto(y)
    BY <2>4
  <2>7. Upto(y) \in SUBSET S /\ Upto(x) \in SUBSET S
    OBVIOUS
  <2> HIDE DEF Upto
  <2>8. <<Upto(y), Upto(x)>> \in R
    BY <2>5, <2>6, <2>7 DEF StrictSubsetOrdering
  <2> QED BY <2>1, <2>8
<1>6. \A y \in S : x <= y
  <2>1. x \in Nat /\ \A z \in S : z \in Nat
    OBVIOUS
  <2> QED BY <2>1, <1>5
<1> QED BY <1>6

(* The event in hand is the first of the batch.                             *)
LEMMA CurrentFirst ==
  ASSUME OutboxAssumption, TypeOK, NEW p \in Processors, ~At(p, "idle")
  PROVE  /\ Current(p) \in processor[p].batch /\ Current(p) \in Events
         /\ \A d \in processor[p].batch : Current(p) <= d
<1> DEFINE B == processor[p].batch
<1>1. B \in SUBSET Events /\ B # {}
  BY DEF TypeOK, At
<1>2. B \in SUBSET Nat /\ IsFiniteSet(B)
  BY <1>1, FS_Subset DEF OutboxAssumption
<1>3. \E x \in B : \A y \in B : x <= y
  <2> HIDE DEF B
  <2> QED BY <1>1, <1>2, LeastExists
<1> QED BY <1>1, <1>3 DEF Current

(* A poll that finds anything takes the oldest of it.                       *)
LEMMA PollTakes ==
  ASSUME OutboxAssumption, Pending # {}
  PROVE  FirstPending # {}
<1>1. Pending \in SUBSET Nat /\ IsFiniteSet(Pending)
  <2>1. Pending \in SUBSET Events
    BY DEF Pending
  <2> QED BY <2>1, FS_Subset DEF OutboxAssumption
<1>2. PICK x \in Pending : \A y \in Pending : x <= y
  BY <1>1, LeastExists
<1>3. {d \in Pending : d < x} = {}
  <2>1. \A d \in Pending : d \in Nat /\ x \in Nat /\ x <= d
    BY <1>1, <1>2
  <2>2. \A d \in Pending : ~(d < x)
    BY <2>1
  <2> QED BY <2>2
<1>4. Cardinality({d \in Pending : d < x}) < BatchLimit
  BY <1>3, FS_EmptySet DEF OutboxAssumption
<1>5. x \in Events /\ row[x].status = "PENDING"
  BY <1>2 DEF Pending
<1> QED BY <1>4, <1>5, <1>2 DEF FirstPending, Pending

-------------------------------------------------------------------------------
(* Type correctness: first the three ways in which a processor goes on.     *)
ProcessorOK ==
  /\ processor \in [Processors -> [pc: Step, batch: SUBSET Events]]
  /\ \A p \in Processors : processor[p].pc = "idle" <=> processor[p].batch = {}

(* To another step with the event in hand ...                               *)
LEMMA GotoType ==
  ASSUME ProcessorOK, NEW p \in Processors, ~At(p, "idle"),
         NEW pc \in Step \ {"idle"}, Goto(p, pc)
  PROVE  ProcessorOK'
BY DEF ProcessorOK, At, Goto

(* ... back to sleep, whatever was in hand ...                              *)
LEMMA AbortType ==
  ASSUME ProcessorOK, NEW p \in Processors, Abort(p)
  PROVE  ProcessorOK'
BY DEF ProcessorOK, Abort, Asleep, Step

(* ... and to the next event of the batch, if there is one.                 *)
LEMMA NextEventType ==
  ASSUME ProcessorOK, NEW p \in Processors, Current(p) \in processor[p].batch, NextEvent(p)
  PROVE  ProcessorOK'
<1> DEFINE B == processor[p].batch
<1>1. B \in SUBSET Events
  BY DEF ProcessorOK
<1>2. CASE B = {Current(p)}
  <2>1. processor' = [processor EXCEPT ![p] = Asleep]
    BY <1>2 DEF NextEvent
  <2> QED BY <2>1, AbortType DEF Abort
<1>3. CASE B # {Current(p)}
  <2> DEFINE rest == [pc |-> "claim", batch |-> B \ {Current(p)}]
  <2>1. processor' = [processor EXCEPT ![p] = rest]
    BY <1>3 DEF NextEvent
  <2>2. rest \in [pc: Step, batch: SUBSET Events] /\ rest.batch # {} /\ rest.pc # "idle"
    BY <1>1, <1>3 DEF Step
  <2> HIDE DEF rest
  <2> QED BY <2>1, <2>2 DEF ProcessorOK
<1> QED BY <1>2, <1>3

(* What the write of a status leaves of the rows.                           *)
Rows == [Events -> [status: OutboxStatus \cup {"none"}, retryCount: 0..MaxRetries]]

(* A row of which only the status is written is a row.                      *)
LEMMA WrittenType ==
  ASSUME row \in Rows, NEW e \in Events, NEW s \in OutboxStatus
  PROVE  [row EXCEPT ![e] = [@ EXCEPT !.status = s]] \in Rows
BY DEF Rows

(* One step of a processor keeps the types: one case per action.            *)
LEMMA ProcessorStepType ==
  ASSUME OutboxAssumption, TypeOK, NEW p \in Processors, ProcessorStep(p)
  PROVE  TypeOK'
<1> DEFINE c == Current(p)
<1>0. ProcessorOK /\ row \in Rows
  BY DEF TypeOK, ProcessorOK, Rows
<1>a. ~At(p, "idle") => c \in Events /\ c \in processor[p].batch
  BY CurrentFirst
<1>s. {"claim", "claimWrite", "dispatch", "done", "doneWrite", "retry", "retryWrite"}
        \subseteq Step \ {"idle"}
  BY DEF Step
<1>n. NewStatus(p) \in OutboxStatus
  BY DEF NewStatus, OutboxStatus
<1>f. Fault => faults' \in 0..MaxFaults
  BY DEF Fault, TypeOK, OutboxAssumption
<1>w. ASSUME NEW s \in OutboxStatus, ~At(p, "idle")
      PROVE  [row EXCEPT ![c] = [@ EXCEPT !.status = s]] \in Rows
  BY <1>0, <1>a, <1>w, WrittenType
<1>q. ASSUME ProcessorOK', row' \in Rows, faults' \in 0..MaxFaults, UNCHANGED crashes,
             dispatched' \in [Events -> 0..DispatchedCap]
      PROVE  TypeOK'
  BY <1>q DEF TypeOK, ProcessorOK, Rows
<1>d. dispatched \in [Events -> 0..DispatchedCap] /\ faults \in 0..MaxFaults
  BY DEF TypeOK
<1> HIDE DEF c
<1>1. CASE Poll(p)
  <2> DEFINE taken == [pc |-> "claim", batch |-> FirstPending]
  <2>1. FirstPending \in SUBSET Events /\ FirstPending # {}
    BY <1>1, PollTakes DEF Poll, FirstPending, Pending
  <2>2. taken \in [pc: Step, batch: SUBSET Events] /\ taken.batch # {} /\ taken.pc # "idle"
    BY <1>s, <2>1
  <2>3. processor' = [processor EXCEPT ![p] = taken]
    BY <1>1 DEF Poll
  <2> HIDE DEF taken
  <2>4. ProcessorOK'
    BY <1>0, <2>2, <2>3 DEF ProcessorOK
  <2> QED BY <1>1, <1>0, <1>q, <1>d, <2>4 DEF Poll
<1>2. CASE Claim(p)
  BY <1>2, <1>0, <1>s, <1>f, <1>q, <1>d, GotoType DEF Claim, Check, At
<1>3. CASE ClaimWrite(p)
  BY <1>3, <1>0, <1>s, <1>f, <1>q, <1>d, <1>w, GotoType
     DEF ClaimWrite, Write, At, OutboxStatus, c
<1>4. CASE Dispatch(p)
  <2>1. ProcessorOK'
    BY <1>4, <1>0, <1>s, GotoType DEF Dispatch, At
  <2>2. dispatched' \in [Events -> 0..DispatchedCap]
    <3>1. DispatchedCap \in Nat /\ c \in Events /\ dispatched[c] \in 0..DispatchedCap
      BY <1>4, <1>a, <1>d DEF Dispatch, At, OutboxAssumption
    <3>2. dispatched' = [dispatched EXCEPT ![c] = IF @ < DispatchedCap THEN @ + 1 ELSE @]
      BY <1>4 DEF Dispatch, c
    <3> QED BY <3>1, <3>2, <1>d
  <2> QED BY <1>4, <1>0, <1>q, <1>d, <2>1, <2>2 DEF Dispatch
<1>5. CASE Done(p)
  BY <1>5, <1>0, <1>s, <1>f, <1>q, <1>d, GotoType DEF Done, Check, At
<1>6. CASE DoneWrite(p)
  <2>1. ~At(p, "idle") /\ c \in processor[p].batch
    BY <1>6, <1>a DEF DoneWrite, Write, At
  <2> QED BY <1>6, <1>0, <1>s, <1>f, <1>q, <1>d, <1>w, <2>1, GotoType, NextEventType
       DEF DoneWrite, Write, OutboxStatus, c
<1>7. CASE Retry(p)
  BY <1>7, <1>0, <1>s, <1>f, <1>q, <1>d, GotoType, AbortType DEF Retry, Check, At
<1>8. CASE RetryWrite(p)
  <2>1. ~At(p, "idle") /\ c \in processor[p].batch
    BY <1>8, <1>a DEF RetryWrite, Write, At
  <2> QED BY <1>8, <1>0, <1>n, <1>f, <1>q, <1>d, <1>w, <2>1, AbortType, NextEventType
       DEF RetryWrite, Write, c
<1> QED BY <1>1, <1>2, <1>3, <1>4, <1>5, <1>6, <1>7, <1>8 DEF ProcessorStep

(* The types, for any number of processors: no processor is ever awake      *)
(* without an event to handle.                                              *)
THEOREM TypeCorrect == ASSUME OutboxAssumption PROVE Spec => []TypeOK
<1>1. Init => TypeOK
  BY DEF OutboxAssumption, Init, TypeOK, Asleep, Step
<1>2. ASSUME TypeOK, [Next]_vars PROVE TypeOK'
  <2> USE <1>2
  <2>1. CASE \E e \in Events : Create(e)
    <3>1. PICK e \in Events : Create(e)
      BY <2>1
    <3>2. row' \in Rows
      BY <3>1, WrittenType DEF Create, TypeOK, Rows, OutboxStatus
    <3> QED BY <3>1, <3>2 DEF Create, TypeOK, Rows
  <2>2. ASSUME NEW p \in Processors, ProcessorStep(p) PROVE TypeOK'
    BY <2>2, ProcessorStepType
  <2>3. ASSUME NEW p \in Processors, Crash(p) PROVE TypeOK'
    <3>1. ProcessorOK'
      BY <2>3, AbortType DEF Crash, TypeOK, ProcessorOK
    <3>2. crashes' \in 0..MaxCrashes
      BY <2>3 DEF Crash, TypeOK, OutboxAssumption
    <3> QED BY <2>3, <3>1, <3>2 DEF Crash, TypeOK, ProcessorOK
  <2>4. CASE UNCHANGED vars
    BY <2>4 DEF vars, TypeOK
  <2> QED BY <2>1, <2>2, <2>3, <2>4 DEF Next
<1> QED BY <1>1, <1>2, PTL DEF Spec

-------------------------------------------------------------------------------
(* One processor.  What the row of the event in hand holds at each step: a  *)
(* failed write may or may not have reached it.  The rest of the batch is   *)
(* still pending.                                                           *)
InHand ==
  \A p \in Processors :
    LET c == Current(p) IN
      /\ processor[p].pc \in {"claim", "claimWrite"} => row[c].status = "PENDING"
      /\ processor[p].pc \in {"dispatch", "done", "doneWrite"} => row[c].status = "PROCESSING"
      /\ At(p, "retry") => row[c].status \in {"PENDING", "PROCESSING", "COMPLETED"}
      /\ At(p, "retryWrite") => row[c].status \in {"PENDING", "PROCESSING"}
      /\ \A e \in processor[p].batch : e # c => row[e].status = "PENDING"

(* An event that waits, or is in hand before its handler has answered well, *)
(* was handed over no more often than database calls failed.                *)
HandedOver ==
  \A e \in Events \ Unhandled :
    /\ dispatched[e] <= 1 + faults
    /\ row[e].status \in {"none", "PENDING"} => dispatched[e] <= faults
    /\ \A p \in Processors :
         ~At(p, "idle") /\ Current(p) = e /\ processor[p].pc \notin {"done", "doneWrite"} =>
           dispatched[e] <= faults

(* Events are recorded in their order.                                      *)
Recorded ==
  \A d, e \in Events : d < e /\ row[e].status # "none" => row[d].status # "none"

(* As long as nothing fails, the events with a handler leave the batch      *)
(* completed, and only the others are put back.                             *)
Orderly ==
  faults = 0 /\ crashes = 0 =>
    \A p \in Processors :
      /\ processor[p].pc \in {"retry", "retryWrite"} =>
           Current(p) \in Unhandled /\ row[Current(p)].status = "PROCESSING"
      /\ \A e \in Events \ Unhandled :
           \/ row[e].status \in {"none", "PENDING", "COMPLETED"}
           \/ processor[p].pc \in {"dispatch", "done", "doneWrite"} /\ e = Current(p)
      /\ \A d, e \in Events \ Unhandled : d < e =>
           /\ row[e].status = "COMPLETED" => row[d].status = "COMPLETED"
           /\ e \in processor[p].batch =>
                d \in processor[p].batch \/ row[d].status = "COMPLETED"

IInv == TypeOK /\ InHand /\ HandedOver /\ Recorded /\ Orderly

-------------------------------------------------------------------------------
(* The ways on, seen from the one processor p.                              *)
LEMMA OnlyGoto ==
  ASSUME OutboxAssumption, TypeOK, NEW p, Processors = {p}, NEW pc, Goto(p, pc)
  PROVE  /\ processor'[p].pc = pc /\ processor'[p].batch = processor[p].batch
         /\ Current(p)' = Current(p)
<1>1. processor'[p].pc = pc /\ processor'[p].batch = processor[p].batch
  BY DEF TypeOK, Goto
<1> QED BY <1>1 DEF Current

(* After an abort the only processor is asleep and holds no batch.          *)
LEMMA OnlyAbort ==
  ASSUME TypeOK, NEW p, Processors = {p}, Abort(p)
  PROVE  processor'[p].pc = "idle" /\ processor'[p].batch = {}
BY DEF TypeOK, Abort, Asleep

(* Past an event, the only processor has one event less in its batch.       *)
LEMMA OnlyNextEvent ==
  ASSUME OutboxAssumption, TypeOK, NEW p, Processors = {p}, ~At(p, "idle"), NextEvent(p)
  PROVE  /\ processor'[p].pc \in {"idle", "claim"}
         /\ processor'[p].batch = processor[p].batch \ {Current(p)}
         /\ processor'[p].pc = "claim" => Current(p)' \in processor[p].batch \ {Current(p)}
<1> DEFINE B == processor[p].batch
<1>1. B \in SUBSET Events /\ Current(p) \in B
  BY CurrentFirst DEF TypeOK
<1>2. /\ B = {Current(p)} => processor'[p] = Asleep
      /\ B # {Current(p)} => processor'[p] = [pc |-> "claim", batch |-> B \ {Current(p)}]
  BY DEF TypeOK, NextEvent
<1>3. processor'[p].pc \in {"idle", "claim"} /\ processor'[p].batch = B \ {Current(p)}
  BY <1>1, <1>2 DEF Asleep
<1>4. ASSUME processor'[p].pc = "claim" PROVE Current(p)' \in B \ {Current(p)}
  <2> DEFINE R == B \ {Current(p)}
  <2>1. R # {} /\ R \in SUBSET Nat /\ IsFiniteSet(R)
    <3>1. IsFiniteSet(B)
      BY <1>1, FS_Subset DEF OutboxAssumption
    <3>2. R # {}
      BY <1>1, <1>2, <1>4 DEF Asleep
    <3> QED BY <1>1, <3>1, <3>2, FS_Subset DEF OutboxAssumption
  <2>2. \E x \in R : \A y \in R : x <= y
    <3> HIDE DEF R
    <3> QED BY <2>1, LeastExists
  <2>3. Current(p)' = CHOOSE e \in R : \A d \in R : e <= d
    BY <1>3 DEF Current
  <2> HIDE DEF R
  <2>4. Current(p)' \in R
    BY <2>2, <2>3
  <2> QED BY <2>4 DEF R
<1> QED BY <1>3, <1>4

(* What a write leaves in the rows.                                         *)
LEMMA OnlyWrite ==
  ASSUME TypeOK, NEW c \in Events, NEW s, row' = [row EXCEPT ![c] = [@ EXCEPT !.status = s]]
  PROVE  row'[c].status = s /\ \A e \in Events : e # c => row'[e] = row[e]
BY DEF TypeOK

(* Every action of the processor keeps what its row holds at each step.     *)
LEMMA InHandStep ==
  ASSUME OutboxAssumption, TypeOK, InHand, NEW p, Processors = {p}, ProcessorStep(p)
  PROVE  InHand'
<1> DEFINE c == Current(p)
<1>a. ~At(p, "idle") => c \in Events /\ c \in processor[p].batch
  BY CurrentFirst
<1>b. processor[p].batch \in SUBSET Events /\ (At(p, "idle") <=> processor[p].batch = {})
  BY DEF TypeOK, At
<1>e. row \in [Events -> [status: OutboxStatus \cup {"none"}, retryCount: 0..MaxRetries]]
  BY DEF TypeOK
<1>n. NewStatus(p) \in {"PENDING", "FAILED"}
  BY DEF NewStatus
<1>i. SUFFICES
        /\ processor'[p].pc \in {"claim", "claimWrite"} => row'[c'].status = "PENDING"
        /\ processor'[p].pc \in {"dispatch", "done", "doneWrite"} => row'[c'].status = "PROCESSING"
        /\ processor'[p].pc = "retry" => row'[c'].status \in {"PENDING", "PROCESSING", "COMPLETED"}
        /\ processor'[p].pc = "retryWrite" => row'[c'].status \in {"PENDING", "PROCESSING"}
        /\ \A e \in processor'[p].batch : e # c' => row'[e].status = "PENDING"
  BY DEF InHand, At
<1>h. /\ processor[p].pc \in {"claim", "claimWrite"} => row[c].status = "PENDING"
      /\ processor[p].pc \in {"dispatch", "done", "doneWrite"} => row[c].status = "PROCESSING"
      /\ At(p, "retry") => row[c].status \in {"PENDING", "PROCESSING", "COMPLETED"}
      /\ At(p, "retryWrite") => row[c].status \in {"PENDING", "PROCESSING"}
      /\ \A e \in processor[p].batch : e # c => row[e].status = "PENDING"
  BY DEF InHand
<1>g. ASSUME NEW pc, Goto(p, pc)
      PROVE  processor'[p].pc = pc /\ processor'[p].batch = processor[p].batch /\ c' = c
  BY <1>g, OnlyGoto
<1>x. ASSUME Abort(p)
      PROVE  processor'[p].pc = "idle" /\ processor'[p].batch = {}
  BY <1>x, OnlyAbort
<1>y. ASSUME NextEvent(p), ~At(p, "idle")
      PROVE  /\ processor'[p].pc \in {"idle", "claim"}
             /\ processor'[p].batch = processor[p].batch \ {c}
             /\ processor'[p].pc = "claim" => c' \in processor[p].batch \ {c}
  BY <1>y, OnlyNextEvent
<1>w. ASSUME NEW s, ~At(p, "idle"), row' = [row EXCEPT ![c] = [@ EXCEPT !.status = s]]
      PROVE  row'[c].status = s /\ \A e \in Events : e # c => row'[e] = row[e]
  BY <1>a, <1>w, OnlyWrite
<1> HIDE DEF c
<1>1. CASE Poll(p)
  <2>1. processor'[p].pc = "claim" /\ processor'[p].batch = FirstPending /\ row' = row
    BY <1>1 DEF Poll, TypeOK
  <2>2. FirstPending # {} /\ FirstPending \in SUBSET Events
    BY <1>1, PollTakes DEF Poll, FirstPending, Pending
  <2>3. FirstPending \in SUBSET Nat /\ IsFiniteSet(FirstPending)
    BY <2>2, FS_Subset DEF OutboxAssumption
  <2>4. c' \in FirstPending
    <3>1. \E x \in FirstPending : \A y \in FirstPending : x <= y
      BY <2>2, <2>3, LeastExists
    <3> QED BY <2>1, <3>1 DEF c, Current
  <2>5. \A e \in FirstPending : row[e].status = "PENDING"
    BY DEF FirstPending, Pending
  <2> QED BY <2>1, <2>4, <2>5
<1>2. CASE Claim(p)
  BY <1>2, <1>g, <1>h DEF Claim, Check, At
<1>3. CASE ClaimWrite(p)
  BY <1>3, <1>a, <1>b, <1>g, <1>h, <1>w DEF ClaimWrite, Write, At, c
<1>4. CASE Dispatch(p)
  BY <1>4, <1>g, <1>h DEF Dispatch, At
<1>5. CASE Done(p)
  BY <1>5, <1>g, <1>h DEF Done, Check, At
<1>6. CASE DoneWrite(p)
  BY <1>6, <1>a, <1>b, <1>g, <1>h, <1>w, <1>y DEF DoneWrite, Write, At, c
<1>7. CASE Retry(p)
  BY <1>7, <1>g, <1>h, <1>x, <1>n DEF Retry, Check, Allowed, At, c
<1>8. CASE RetryWrite(p)
  BY <1>8, <1>a, <1>b, <1>h, <1>w, <1>x, <1>y, <1>n DEF RetryWrite, Write, At, c
<1> QED BY <1>1, <1>2, <1>3, <1>4, <1>5, <1>6, <1>7, <1>8 DEF ProcessorStep

(* Every action of the processor keeps what the number of dispatches of an  *)
(* event owes to the faults.                                                *)
LEMMA HandedOverStep ==
  ASSUME OutboxAssumption, TypeOK, InHand, HandedOver,
         NEW p, Processors = {p}, ProcessorStep(p)
  PROVE  HandedOver'
<1> DEFINE c == Current(p)
<1>a. ~At(p, "idle") => c \in Events /\ c \in processor[p].batch
  BY CurrentFirst
<1>t. /\ faults \in Nat /\ dispatched \in [Events -> Nat]
      /\ processor[p].batch \in SUBSET Events /\ Unhandled \subseteq Events
  BY DEF TypeOK, OutboxAssumption
<1>h. ASSUME NEW e \in Events \ Unhandled
      PROVE  /\ dispatched[e] <= 1 + faults
             /\ row[e].status \in {"none", "PENDING"} => dispatched[e] <= faults
             /\ processor[p].pc \notin {"idle", "done", "doneWrite"} /\ c = e =>
                  dispatched[e] <= faults
             /\ e \in processor[p].batch /\ e # c => dispatched[e] <= faults
  BY DEF HandedOver, InHand, At
<1>f. Fault => faults' = faults + 1
  BY DEF Fault
<1>g. ASSUME NEW pc, Goto(p, pc)
      PROVE  processor'[p].pc = pc /\ c' = c
  BY <1>g, OnlyGoto
<1>x. Abort(p) => processor'[p].pc = "idle"
  BY OnlyAbort
<1>y. ASSUME NextEvent(p), ~At(p, "idle")
      PROVE  /\ processor'[p].pc \in {"idle", "claim"}
             /\ processor'[p].pc = "claim" => c' \in processor[p].batch \ {c}
  BY <1>y, OnlyNextEvent
<1>w. ASSUME NEW s, ~At(p, "idle"), row' = [row EXCEPT ![c] = [@ EXCEPT !.status = s]]
      PROVE  row'[c].status = s /\ \A e \in Events : e # c => row'[e] = row[e]
  BY <1>a, <1>w, OnlyWrite
<1>i. SUFFICES ASSUME NEW e \in Events \ Unhandled
      PROVE  /\ dispatched'[e] <= 1 + faults'
             /\ row'[e].status \in {"none", "PENDING"} => dispatched'[e] <= faults'
             /\ processor'[p].pc \notin {"idle", "done", "doneWrite"} /\ c' = e =>
                  dispatched'[e] <= faults'
  BY DEF HandedOver, At
<1>e. /\ faults \in Nat /\ dispatched[e] \in Nat /\ e \in Events
      /\ dispatched[e] <= faults => dispatched[e] <= faults + 1 /\ dispatched[e] <= 1 + faults
  BY <1>t
<1>k. /\ dispatched[e] <= 1 + faults
      /\ row[e].status \in {"none", "PENDING"} => dispatched[e] <= faults
      /\ processor[p].pc \notin {"idle", "done", "doneWrite"} /\ c = e => dispatched[e] <= faults
      /\ e \in processor[p].batch /\ e # c => dispatched[e] <= faults
  BY <1>h
<1>l. UNCHANGED dispatched /\ faults' = faults + 1 =>
        dispatched'[e] <= faults' /\ dispatched'[e] <= 1 + faults'
  BY <1>e, <1>k
<1> HIDE DEF c
<1>1. CASE Poll(p)
  <2>1. processor'[p].pc = "claim" /\ processor'[p].batch = FirstPending
    BY <1>1 DEF Poll, TypeOK
  <2>2. FirstPending # {} /\ FirstPending \in SUBSET Events
    BY <1>1, PollTakes DEF Poll, FirstPending, Pending
  <2>3. c' \in FirstPending
    <3>1. FirstPending \in SUBSET Nat /\ IsFiniteSet(FirstPending)
      BY <2>2, FS_Subset DEF OutboxAssumption
    <3>2. \E x \in FirstPending : \A y \in FirstPending : x <= y
      BY <2>2, <3>1, LeastExists
    <3> QED BY <2>1, <3>2 DEF c, Current
  <2>4. row[c'].status = "PENDING"
    BY <2>3 DEF FirstPending, Pending
  <2> QED BY <1>1, <1>k, <2>4 DEF Poll
<1>2. CASE Claim(p)
  BY <1>2, <1>f, <1>g, <1>k, <1>l DEF Claim, Check, At
<1>3. CASE ClaimWrite(p)
  BY <1>3, <1>a, <1>e, <1>f, <1>g, <1>k, <1>l, <1>w DEF ClaimWrite, Write, At, c
<1>4. CASE Dispatch(p)
  <2>1. processor'[p].pc = (IF c \in Unhandled THEN "retry" ELSE "done") /\ c' = c
    BY <1>4, <1>g DEF Dispatch, c
  <2>2. At(p, "dispatch") /\ UNCHANGED <<row, faults>>
    BY <1>4 DEF Dispatch
  <2>3. dispatched' = [dispatched EXCEPT ![c] = IF @ < DispatchedCap THEN @ + 1 ELSE @]
    BY <1>4 DEF Dispatch, c
  <2>4. CASE e # c
    BY <1>k, <1>t, <2>1, <2>2, <2>3, <2>4
  <2>5. CASE e = c
    <3>1. row[c].status = "PROCESSING"
      BY <2>2 DEF InHand, At, c
    <3>2. dispatched[e] <= faults /\ processor'[p].pc = "done"
      BY <1>k, <2>1, <2>2, <2>5 DEF At
    <3>3. dispatched'[e] \in {dispatched[e], dispatched[e] + 1}
      BY <1>t, <2>3, <2>5
    <3> QED BY <1>e, <2>2, <2>5, <3>1, <3>2, <3>3
  <2> QED BY <2>4, <2>5
<1>5. CASE Done(p)
  <2>1. Allowed(row[c].status, "COMPLETED")
    BY <1>5 DEF Done, Check, InHand, At, Allowed, c
  <2> QED BY <1>5, <1>f, <1>g, <1>k, <1>l, <2>1 DEF Done, Check, At, c
<1>6. CASE DoneWrite(p)
  <2>1. At(p, "doneWrite") /\ ~At(p, "idle") /\ UNCHANGED dispatched
    BY <1>6 DEF DoneWrite, Write, At
  <2>2. CASE /\ row' = [row EXCEPT ![c] = [@ EXCEPT !.status = "COMPLETED"]]
             /\ NextEvent(p) /\ UNCHANGED faults
    <3>1. row'[c].status = "COMPLETED" /\ (e # c => row'[e] = row[e])
      BY <1>w, <1>e, <2>1, <2>2
    <3>2. processor'[p].pc = "claim" /\ c' = e => e \in processor[p].batch /\ e # c
      BY <1>y, <2>1, <2>2
    <3>3. processor'[p].pc \in {"idle", "claim"}
      BY <1>y, <2>1, <2>2
    <3> QED BY <1>k, <2>1, <2>2, <3>1, <3>2, <3>3
  <2>3. CASE Fault /\ Goto(p, "retry")
    BY <1>f, <1>l, <2>1, <2>3
  <2> QED BY <1>6, <2>2, <2>3 DEF DoneWrite, Write, c
<1>7. CASE Retry(p)
  BY <1>7, <1>f, <1>g, <1>k, <1>l, <1>x DEF Retry, Check, At
<1>8. CASE RetryWrite(p)
  <2>1. At(p, "retryWrite") /\ ~At(p, "idle") /\ UNCHANGED dispatched
    BY <1>8 DEF RetryWrite, Write, At
  <2>2. CASE /\ row' = [row EXCEPT ![c] = [@ EXCEPT !.status = NewStatus(p)]]
             /\ NextEvent(p) /\ UNCHANGED faults
    <3>1. e # c => row'[e] = row[e]
      BY <1>w, <2>1, <2>2, <1>e
    <3>2. e = c => dispatched[e] <= faults
      BY <1>k, <2>1 DEF At
    <3>3. processor'[p].pc = "claim" /\ c' = e => e \in processor[p].batch /\ e # c
      BY <1>y, <2>1, <2>2
    <3>4. processor'[p].pc \in {"idle", "claim"}
      BY <1>y, <2>1, <2>2
    <3> QED BY <1>k, <2>1, <2>2, <3>1, <3>2, <3>3, <3>4
  <2>3. CASE Fault /\ Abort(p)
    BY <1>f, <1>l, <1>x, <2>1, <2>3
  <2> QED BY <1>8, <2>2, <2>3 DEF RetryWrite, Write, c
<1> QED BY <1>1, <1>2, <1>3, <1>4, <1>5, <1>6, <1>7, <1>8 DEF ProcessorStep

(* The only row a processor writes is that of the event in hand, and only   *)
(* while that is neither completed nor failed.                              *)
LEMMA RowStep ==
  ASSUME OutboxAssumption, TypeOK, InHand, NEW p, Processors = {p}, ProcessorStep(p)
  PROVE  \/ UNCHANGED row
         \/ /\ Current(p) \in Events /\ row[Current(p)].status \in {"PENDING", "PROCESSING"}
            /\ \E s \in OutboxStatus :
                 row' = [row EXCEPT ![Current(p)] = [@ EXCEPT !.status = s]]
<1> DEFINE c == Current(p)
<1>a. ~At(p, "idle") => c \in Events
  BY CurrentFirst
<1>h. /\ At(p, "claimWrite") => row[c].status = "PENDING"
      /\ At(p, "doneWrite") => row[c].status = "PROCESSING"
      /\ At(p, "retryWrite") => row[c].status \in {"PENDING", "PROCESSING"}
  BY DEF InHand, At
<1>1. CASE ClaimWrite(p)
  BY <1>1, <1>a, <1>h DEF ClaimWrite, Write, At, OutboxStatus
<1>2. CASE DoneWrite(p)
  BY <1>2, <1>a, <1>h DEF DoneWrite, Write, At, OutboxStatus
<1>3. CASE RetryWrite(p)
  <2>1. NewStatus(p) \in OutboxStatus
    BY DEF NewStatus, OutboxStatus
  <2> QED BY <1>3, <1>a, <1>h, <2>1 DEF RetryWrite, Write, At
<1>4. CASE Poll(p) \/ Claim(p) \/ Dispatch(p) \/ Done(p) \/ Retry(p)
  BY <1>4 DEF Poll, Claim, Dispatch, Done, Retry, Check
<1> QED BY <1>1, <1>2, <1>3, <1>4 DEF ProcessorStep

(* No action of the processor takes a record back.                          *)
LEMMA RecordedStep ==
  ASSUME OutboxAssumption, TypeOK, InHand, Recorded,
         NEW p, Processors = {p}, ProcessorStep(p)
  PROVE  Recorded'
<1> SUFFICES ASSUME NEW e \in Events
             PROVE  row'[e].status = "none" <=> row[e].status = "none"
  BY DEF Recorded
<1>1. CASE UNCHANGED row
  BY <1>1
<1>2. ASSUME NEW c \in Events, row[c].status \in {"PENDING", "PROCESSING"},
             NEW s \in OutboxStatus, row' = [row EXCEPT ![c] = [@ EXCEPT !.status = s]]
      PROVE  row'[e].status = "none" <=> row[e].status = "none"
  BY <1>2, OnlyWrite DEF OutboxStatus
<1> QED BY <1>1, <1>2, RowStep

(* What is older than a pending event that a poll takes, and pending, is    *)
(* taken too.                                                               *)
LEMMA PollTakesOlder ==
  ASSUME OutboxAssumption, NEW e \in FirstPending, NEW d \in Pending, d < e
  PROVE  d \in FirstPending
<1> DEFINE Older(x) == {y \in Pending : y < x}
<1>1. Pending \in SUBSET Nat /\ IsFiniteSet(Pending) /\ BatchLimit \in Nat
  <2>1. Pending \in SUBSET Events
    BY DEF Pending
  <2> QED BY <2>1, FS_Subset DEF OutboxAssumption
<1>2. e \in Pending /\ Cardinality(Older(e)) < BatchLimit
  BY DEF FirstPending
<1>3. Older(d) \in SUBSET Older(e)
  <2>1. \A y \in Pending : y \in Nat /\ d \in Nat /\ e \in Nat
    BY <1>1, <1>2
  <2>2. \A y \in Pending : y < d => y < e
    BY <2>1
  <2> QED BY <2>2
<1>4. IsFiniteSet(Older(e)) /\ IsFiniteSet(Older(d)) /\ Cardinality(Older(d)) <= Cardinality(Older(e))
  <2>1. Older(e) \in SUBSET Pending
    OBVIOUS
  <2>2. IsFiniteSet(Older(e))
    BY <1>1, <2>1, FS_Subset
  <2> HIDE DEF Older
  <2> QED BY <1>3, <2>2, FS_Subset
<1>5. Cardinality(Older(e)) \in Nat /\ Cardinality(Older(d)) \in Nat
  <2> HIDE DEF Older
  <2> QED BY <1>4, FS_CardinalityType
<1>6. Cardinality(Older(d)) < BatchLimit
  <2> HIDE DEF Older
  <2> QED BY <1>1, <1>2, <1>4, <1>5
<1> QED BY <1>6 DEF FirstPending, Pending

(* Every action of the processor keeps the order while nothing fails.       *)
LEMMA OrderlyStep ==
  ASSUME OutboxAssumption, TypeOK, InHand, Recorded, Orderly,
         NEW p, Processors = {p}, ProcessorStep(p)
  PROVE  Orderly'
<1> DEFINE c == Current(p)
           B == processor[p].batch
           H == Events \ Unhandled
<1>a. ~At(p, "idle") => c \in Events /\ c \in B /\ \A d \in B : c <= d
  BY CurrentFirst
<1>t. /\ faults \in Nat /\ B \in SUBSET Events /\ (At(p, "idle") <=> B = {})
      /\ \A e \in Events : e \in Nat
      /\ \A e \in Events : row[e].status \in OutboxStatus \cup {"none"}
  BY DEF TypeOK, OutboxAssumption, At
<1>i. SUFFICES
        ASSUME faults = 0, ~Fault, crashes = 0
        PROVE  /\ processor'[p].pc \in {"retry", "retryWrite"} =>
                    c' \in Unhandled /\ row'[c'].status = "PROCESSING"
               /\ \A e \in H :
                    \/ row'[e].status \in {"none", "PENDING", "COMPLETED"}
                    \/ processor'[p].pc \in {"dispatch", "done", "doneWrite"} /\ e = c'
               /\ \A d, e \in H : d < e =>
                    /\ row'[e].status = "COMPLETED" => row'[d].status = "COMPLETED"
                    /\ e \in B' => d \in B' \/ row'[d].status = "COMPLETED"
  <2>1. (faults' = faults \/ Fault) /\ crashes' = crashes
    BY DEF ProcessorStep, Poll, Claim, ClaimWrite, Dispatch, Done, DoneWrite, Retry, RetryWrite,
           Check, Write
  <2>2. faults' = 0 => faults = 0 /\ ~Fault
    BY <1>t, <2>1 DEF Fault
  <2> QED BY <2>1, <2>2 DEF Orderly
<1>o. /\ processor[p].pc \in {"retry", "retryWrite"} =>
           c \in Unhandled /\ row[c].status = "PROCESSING"
      /\ \A e \in H :
           \/ row[e].status \in {"none", "PENDING", "COMPLETED"}
           \/ processor[p].pc \in {"dispatch", "done", "doneWrite"} /\ e = c
      /\ \A d, e \in H : d < e =>
           /\ row[e].status = "COMPLETED" => row[d].status = "COMPLETED"
           /\ e \in B => d \in B \/ row[d].status = "COMPLETED"
  BY <1>i DEF Orderly
<1>h. /\ processor[p].pc \in {"claim", "claimWrite"} => row[c].status = "PENDING"
      /\ processor[p].pc \in {"dispatch", "done", "doneWrite"} => row[c].status = "PROCESSING"
  BY DEF InHand
<1>g. ASSUME NEW pc, Goto(p, pc)
      PROVE  processor'[p].pc = pc /\ B' = B /\ c' = c
  BY <1>g, OnlyGoto
<1>y. ASSUME NextEvent(p), ~At(p, "idle")
      PROVE  processor'[p].pc \in {"idle", "claim"} /\ B' = B \ {c}
  BY <1>y, OnlyNextEvent
<1>w. ASSUME NEW s, ~At(p, "idle"), row' = [row EXCEPT ![c] = [@ EXCEPT !.status = s]]
      PROVE  row'[c].status = s /\ \A e \in Events : e # c => row'[e] = row[e]
  BY <1>a, <1>w, OnlyWrite
<1>c. c = Current(p)
  OBVIOUS
<1> HIDE DEF c, B
<1>1. CASE Poll(p)
  <2>1. processor'[p].pc = "claim" /\ B' = FirstPending /\ B = {} /\ At(p, "idle") /\ row' = row
    BY <1>1, <1>t DEF Poll, TypeOK, B
  <2>2. \A e \in H : row[e].status \in {"none", "PENDING", "COMPLETED"}
    BY <1>o, <2>1 DEF At
  <2>3. ASSUME NEW d \in H, NEW e \in H, d < e, e \in FirstPending
        PROVE  d \in FirstPending \/ row[d].status = "COMPLETED"
    <3>1. row[e].status = "PENDING"
      BY <2>3 DEF FirstPending, Pending
    <3>2. row[d].status # "none"
      BY <2>3, <3>1 DEF Recorded
    <3>3. CASE row[d].status = "PENDING"
      <4>1. d \in Pending
        BY <3>3 DEF Pending
      <4> QED BY <2>3, <4>1, PollTakesOlder
    <3> QED BY <2>2, <3>2, <3>3
  <2> QED BY <1>o, <2>1, <2>2, <2>3
<1>2. CASE Claim(p)
  <2>1. Allowed(row[c].status, "PROCESSING")
    BY <1>2, <1>h DEF Claim, Check, At, Allowed
  <2>2. At(p, "claim") /\ Goto(p, "claimWrite") /\ UNCHANGED row
    BY <1>2, <1>i, <1>c, <2>1 DEF Claim, Check
  <2>3. processor'[p].pc = "claimWrite" /\ B' = B /\ c' = c
    BY <1>g, <2>2
  <2>4. \A e \in H : row[e].status \in {"none", "PENDING", "COMPLETED"}
    BY <1>o, <2>2 DEF At
  <2> QED BY <1>o, <2>2, <2>3, <2>4
<1>3. CASE ClaimWrite(p)
  <2>1. /\ At(p, "claimWrite") /\ Goto(p, "dispatch")
        /\ row' = [row EXCEPT ![c] = [@ EXCEPT !.status = "PROCESSING"]]
    BY <1>3, <1>i, <1>c DEF ClaimWrite, Write
  <2>2. row'[c].status = "PROCESSING" /\ \A e \in Events : e # c => row'[e] = row[e]
    BY <1>w, <2>1 DEF At
  <2>3. processor'[p].pc = "dispatch" /\ B' = B /\ c' = c
    BY <1>g, <2>1
  <2>4. row[c].status = "PENDING"
    BY <1>h, <2>1 DEF At
  <2>5. \A e \in H : row'[e].status = "COMPLETED" <=> row[e].status = "COMPLETED"
    BY <2>2, <2>4
  <2>6. \A e \in H : e # c => row[e].status \in {"none", "PENDING", "COMPLETED"}
    BY <1>o
  <2> QED BY <1>o, <2>2, <2>3, <2>5, <2>6
<1>4. CASE Dispatch(p)
  <2>1. /\ At(p, "dispatch") /\ UNCHANGED row
        /\ Goto(p, IF c \in Unhandled THEN "retry" ELSE "done")
    BY <1>4, <1>c DEF Dispatch
  <2>2. /\ B' = B /\ c' = c
        /\ processor'[p].pc = IF c \in Unhandled THEN "retry" ELSE "done"
    BY <1>g, <2>1
  <2> QED BY <1>h, <1>o, <1>a, <2>1, <2>2 DEF At
<1>5. CASE Done(p)
  <2>1. Allowed(row[c].status, "COMPLETED")
    BY <1>5, <1>h DEF Done, Check, At, Allowed
  <2>2. At(p, "done") /\ Goto(p, "doneWrite") /\ UNCHANGED row
    BY <1>5, <1>i, <1>c, <2>1 DEF Done, Check
  <2> QED BY <1>g, <1>o, <2>2 DEF At
<1>6. CASE DoneWrite(p)
  <2>1. /\ At(p, "doneWrite") /\ ~At(p, "idle") /\ NextEvent(p)
        /\ row' = [row EXCEPT ![c] = [@ EXCEPT !.status = "COMPLETED"]]
    BY <1>6, <1>i, <1>c DEF DoneWrite, Write, At
  <2>2. row'[c].status = "COMPLETED" /\ \A e \in Events : e # c => row'[e] = row[e]
    BY <1>w, <2>1
  <2>3. processor'[p].pc \in {"idle", "claim"} /\ B' = B \ {c}
    BY <1>y, <2>1
  <2>4. c \in Events /\ c \in B /\ \A d \in Events : d < c => d \notin B
    <3>1. c \in Events /\ c \in B /\ \A d \in B : c <= d
      BY <1>a, <2>1
    <3> QED BY <1>t, <3>1
  <2>5. ASSUME NEW d \in H, NEW e \in H, d < e
        PROVE  /\ row'[e].status = "COMPLETED" => row'[d].status = "COMPLETED"
               /\ e \in B' => d \in B' \/ row'[d].status = "COMPLETED"
    <3>1. ASSUME e \in B PROVE d \in B \/ row[d].status = "COMPLETED"
      BY <1>o, <2>5, <3>1
    <3>2. ASSUME row[e].status = "COMPLETED" PROVE row[d].status = "COMPLETED"
      BY <1>o, <2>5, <3>2
    <3>3. CASE e = c
      BY <2>2, <2>3, <2>4, <2>5, <3>1, <3>3
    <3>4. CASE e # c
      BY <2>2, <2>3, <3>1, <3>2, <3>4
    <3> QED BY <3>3, <3>4
  <2>6. \A e \in H : row'[e].status \in {"none", "PENDING", "COMPLETED"}
    BY <1>o, <2>2
  <2> QED BY <2>3, <2>5, <2>6
<1>7. CASE Retry(p)
  <2>1. Allowed(row[c].status, NewStatus(p))
    BY <1>7, <1>o DEF Retry, Check, At, Allowed, NewStatus
  <2>2. At(p, "retry") /\ Goto(p, "retryWrite") /\ UNCHANGED row
    BY <1>7, <1>i, <1>c, <2>1 DEF Retry, Check
  <2> QED BY <1>g, <1>o, <2>2 DEF At
<1>8. CASE RetryWrite(p)
  <2>1. /\ At(p, "retryWrite") /\ ~At(p, "idle") /\ NextEvent(p)
        /\ row' = [row EXCEPT ![c] = [@ EXCEPT !.status = NewStatus(p)]]
    BY <1>8, <1>i, <1>c DEF RetryWrite, Write, At
  <2>2. c \in Unhandled /\ \A e \in Events : e # c => row'[e] = row[e]
    BY <1>w, <1>o, <2>1 DEF At
  <2>3. processor'[p].pc \in {"idle", "claim"} /\ B' = B \ {c}
    BY <1>y, <2>1
  <2>4. \A e \in H : e # c /\ row'[e] = row[e] /\ (e \in B' <=> e \in B)
    BY <2>2, <2>3
  <2> QED BY <1>o, <2>1, <2>3, <2>4 DEF At
<1> QED BY <1>1, <1>2, <1>3, <1>4, <1>5, <1>6, <1>7, <1>8 DEF ProcessorStep

-------------------------------------------------------------------------------
(* The invariant is inductive: the steps that are not the processor's own.  *)
LEMMA CreateStep ==
  ASSUME OutboxAssumption, TypeOK, InHand, HandedOver, Recorded, Orderly,
         NEW p, Processors = {p}, NEW e \in Events, Create(e)
  PROVE  InHand' /\ HandedOver' /\ Recorded' /\ Orderly'
<1>t. /\ faults \in Nat /\ dispatched \in [Events -> Nat] /\ processor[p].batch \in SUBSET Events
      /\ \A d \in Events : d \in Nat
  BY DEF TypeOK, OutboxAssumption
<1>1. /\ UNCHANGED <<processor, dispatched, faults, crashes>>
      /\ row[e].status = "none" /\ row'[e].status = "PENDING"
      /\ \A d \in Events : d # e => row'[d] = row[d]
      /\ \A d \in Events : d < e => row[d].status # "none"
  BY OnlyWrite DEF Create
<1>2. Current(p)' = Current(p)
  BY <1>1 DEF Current
<1>3. ~At(p, "idle") => Current(p) \in Events /\ row[Current(p)].status # "none"
  <2>1. ~At(p, "idle") => Current(p) \in Events
    BY CurrentFirst
  <2>2. processor[p].pc \in Step
    BY DEF TypeOK
  <2> QED BY <2>1, <2>2 DEF InHand, At, Step
<1>4. InHand'
  <2>1. \A d \in processor[p].batch : d # Current(p) => row'[d].status = "PENDING"
    BY <1>1, <1>t DEF InHand
  <2>2. ~At(p, "idle") => row'[Current(p)] = row[Current(p)]
    BY <1>1, <1>3
  <2>3. processor' = processor /\ Processors = {p}
    BY <1>1
  <2> QED BY <1>2, <2>1, <2>2, <2>3 DEF InHand, At
<1>5. HandedOver'
  BY <1>1, <1>2 DEF HandedOver, At
<1>6. Recorded'
  BY <1>1, <1>t DEF Recorded
<1>7. Orderly'
  <2>1. SUFFICES ASSUME faults = 0, crashes = 0 PROVE Orderly'
    BY <1>1 DEF Orderly
  <2>2. processor[p].pc \in {"retry", "retryWrite"} => row'[Current(p)] = row[Current(p)]
    BY <1>1, <1>3 DEF At
  <2>3. \A d \in Events : row'[d].status = "COMPLETED" <=> row[d].status = "COMPLETED"
    BY <1>1
  <2> QED BY <1>1, <1>2, <2>1, <2>2, <2>3 DEF Orderly
<1> QED BY <1>4, <1>5, <1>6, <1>7

(* A crash empties the hands of the processor and leaves the rows.          *)
LEMMA CrashStep ==
  ASSUME OutboxAssumption, TypeOK, InHand, HandedOver, Recorded, Orderly,
         NEW p, Processors = {p}, Crash(p)
  PROVE  InHand' /\ HandedOver' /\ Recorded' /\ Orderly'
<1>1. /\ processor'[p].pc = "idle" /\ processor'[p].batch = {}
      /\ UNCHANGED <<row, dispatched, faults>> /\ crashes' # 0
  BY OnlyAbort DEF Crash, TypeOK
<1> QED BY <1>1 DEF InHand, HandedOver, Recorded, Orderly, At

(* While one processor runs the outbox, its invariant holds.                *)
THEOREM Invariant ==
  ASSUME OutboxAssumption, NEW p, Processors = {p}
  PROVE  Spec => []IInv
<1>1. Init => InHand /\ HandedOver /\ Recorded /\ Orderly
  BY DEF Init, InHand, HandedOver, Recorded, Orderly, At, Asleep, OutboxAssumption
<1>2. TypeOK /\ InHand /\ HandedOver /\ Recorded /\ Orderly /\ [Next]_vars =>
        (InHand /\ HandedOver /\ Recorded /\ Orderly)'
  <2> SUFFICES ASSUME TypeOK, InHand, HandedOver, Recorded, Orderly, [Next]_vars
               PROVE  (InHand /\ HandedOver /\ Recorded /\ Orderly)'
    OBVIOUS
  <2>1. CASE \E e \in Events : Create(e)
    BY <2>1, CreateStep
  <2>2. CASE ProcessorStep(p)
    BY <2>2, InHandStep, HandedOverStep, RecordedStep, OrderlyStep
  <2>3. CASE Crash(p)
    BY <2>3, CrashStep
  <2>4. CASE UNCHANGED vars
    BY <2>4 DEF vars, InHand, HandedOver, Recorded, Orderly, At, Current
  <2> QED BY <2>1, <2>2, <2>3, <2>4 DEF Next
<1>3. Spec => []TypeOK
  BY TypeCorrect
<1> QED BY <1>1, <1>2, <1>3, PTL DEF Spec, IInv

(* OncePerFault: one processor hands an event to its handler once, and once *)
(* more for each database call that failed, however often it crashes.       *)
THEOREM HandedOverOncePerFault ==
  ASSUME OutboxAssumption, NEW p, Processors = {p}
  PROVE  Spec => []OncePerFault
<1>1. IInv => OncePerFault
  BY DEF IInv, HandedOver, OncePerFault
<1> QED BY <1>1, Invariant, PTL

(* InOrder: while no call fails and no process dies, the events that have a *)
(* handler are completed in the order in which they were recorded.          *)
THEOREM CompletedInOrder ==
  ASSUME OutboxAssumption, NEW p, Processors = {p}
  PROVE  Spec => []InOrder
<1>1. IInv => InOrder
  BY DEF IInv, Orderly, InOrder
<1> QED BY <1>1, Invariant, PTL

(* Delivers: one processor implements OutboxDelivery, where what was        *)
(* handled or has failed stays so: every write of a status settles the      *)
(* event in hand or leaves it pending.                                      *)
THEOREM ImplementsDelivery ==
  ASSUME OutboxAssumption, NEW p, Processors = {p}
  PROVE  Spec => Delivers
<1> DEFINE Outcome(s) == CASE s = "none" -> "absent"
                            [] s = "COMPLETED" -> "handled"
                            [] s = "FAILED" -> "failed"
                            [] OTHER -> "pending"
           outcome == [e \in Events |-> Outcome(row[e].status)]
<1>1. Init => Delivery!Init
  BY DEF Init, Delivery!Init
<1>2. ASSUME IInv, NEW c \in Events, row[c].status \in {"none", "PENDING", "PROCESSING"},
             NEW s \in OutboxStatus, row' = [row EXCEPT ![c] = [@ EXCEPT !.status = s]],
             row[c].status = "none" => s = "PENDING"
      PROVE  [Delivery!Next]_outcome
  <2>1. row'[c].status = s /\ \A e \in Events : e # c => row'[e] = row[e]
    BY <1>2, OnlyWrite DEF IInv
  <2>2. outcome' = [outcome EXCEPT ![c] = Outcome(s)]
    <3>1. outcome' = [e \in Events |-> Outcome(row'[e].status)]
      OBVIOUS
    <3>2. \A e \in Events : Outcome(row'[e].status) = IF e = c THEN Outcome(s) ELSE outcome[e]
      BY <2>1
    <3> HIDE DEF Outcome
    <3> QED BY <3>1, <3>2
  <2>3. CASE row[c].status = "none"
    <3>1. outcome[c] = "absent" /\ Outcome(s) = "pending"
      BY <1>2, <2>3
    <3> HIDE DEF Outcome, outcome
    <3>2. Delivery!Record(c)
      BY <2>2, <3>1 DEF Delivery!Record, outcome, Outcome
    <3> QED BY <3>2 DEF Delivery!Next, outcome, Outcome
  <2>4. CASE row[c].status # "none" /\ s \in {"PENDING", "PROCESSING"}
    <3>1. outcome[c] = Outcome(s)
      BY <1>2, <2>4
    <3>2. outcome' = outcome
      <4> HIDE DEF Outcome
      <4> QED BY <2>2, <3>1
    <3> QED BY <3>2
  <2>5. CASE row[c].status # "none" /\ s \in {"COMPLETED", "FAILED"}
    <3>1. outcome[c] = "pending" /\ Outcome(s) \in {"handled", "failed"}
      BY <1>2, <2>5
    <3> HIDE DEF Outcome, outcome
    <3>2. Delivery!Settle(c)
      BY <2>2, <3>1 DEF Delivery!Settle, outcome, Outcome
    <3> QED BY <3>2 DEF Delivery!Next, outcome, Outcome
  <2> QED BY <2>3, <2>4, <2>5 DEF OutboxStatus
<1>3. IInv /\ [Next]_vars => [Delivery!Next]_outcome
  <2> SUFFICES ASSUME IInv, [Next]_vars PROVE [Delivery!Next]_outcome
    OBVIOUS
  <2>1. CASE \E e \in Events : Create(e)
    BY <1>2, <2>1 DEF Create, OutboxStatus
  <2>2. CASE UNCHANGED row
    BY <2>2
  <2>3. CASE ProcessorStep(p)
    <3>1. UNCHANGED row \/ \E s \in OutboxStatus :
            /\ Current(p) \in Events /\ row[Current(p)].status \in {"PENDING", "PROCESSING"}
            /\ row' = [row EXCEPT ![Current(p)] = [@ EXCEPT !.status = s]]
      BY <2>3, RowStep DEF IInv
    <3> QED BY <1>2, <2>2, <3>1
  <2>4. CASE Crash(p) \/ UNCHANGED vars
    BY <2>2, <2>4 DEF Crash, vars
  <2> QED BY <2>1, <2>3, <2>4 DEF Next
<1> QED BY <1>1, <1>3, Invariant, PTL DEF Spec, Delivers, Delivery!Spec
===============================================================================
