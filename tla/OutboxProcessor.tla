---------------------------- MODULE OutboxProcessor ----------------------------
(***************************************************************************)
(* The outbox table and the processors that poll it.  A processor handles   *)
(* one batch at a time (isProcessing), event after event; every change of   *)
(* status is a read that checks the transition, then a write.  Two          *)
(* processors exist only while an old process and its successor overlap.    *)
(*                                                                         *)
(* Events are numbered in the order of createdAt.                           *)
(***************************************************************************)
EXTENDS Naturals, FiniteSets

CONSTANTS
  Events,         \* the events that may be recorded, in order
  Unhandled,      \* those whose type the dispatcher has no handler for
  Processors,     \* the processes that run an OutboxProcessorService
  BatchLimit,     \* events taken by one poll (10 in the code)
  MaxRetries,     \* 3 in the code
  DispatchedCap,  \* bound of this model on the count of dispatches
  MaxFaults,      \* bound of this model on failed database calls
  MaxCrashes      \* bound of this model on crashes

ASSUME OutboxAssumption ==
  /\ Events \subseteq Nat /\ IsFiniteSet(Events)
  /\ Unhandled \subseteq Events
  /\ BatchLimit \in Nat \ {0}
  /\ {MaxRetries, DispatchedCap, MaxFaults, MaxCrashes} \subseteq Nat

VARIABLES
  row,         \* row[e]: the outbox row of event e
  processor,   \* processor[p]: its batch, and where it stands with it
  dispatched,  \* history: how often each event was handed to the dispatcher
  faults, crashes

vars == <<row, processor, dispatched, faults, crashes>>

-------------------------------------------------------------------------------
OutboxStatus == {"PENDING", "PROCESSING", "COMPLETED", "FAILED"}

(* Steps of processOutboxEvents: updateStatus is a check and a write, for   *)
(* PROCESSING (claim), COMPLETED (done) and the catch block (retry).        *)
Step == {"idle", "claim", "claimWrite", "dispatch", "done", "doneWrite", "retry", "retryWrite"}

Asleep == [pc |-> "idle", batch |-> {}]

(* Every variable keeps its type, and a processor is idle exactly when it   *)
(* has no batch.                                                            *)
TypeOK ==
  /\ row \in [Events -> [status: OutboxStatus \cup {"none"}, retryCount: 0..MaxRetries]]
  /\ processor \in [Processors -> [pc: Step, batch: SUBSET Events]]
  /\ \A p \in Processors : processor[p].pc = "idle" <=> processor[p].batch = {}
  /\ dispatched \in [Events -> 0..DispatchedCap]
  /\ faults \in 0..MaxFaults /\ crashes \in 0..MaxCrashes

Init ==
  /\ row = [e \in Events |-> [status |-> "none", retryCount |-> 0]]
  /\ processor = [p \in Processors |-> Asleep]
  /\ dispatched = [e \in Events |-> 0]
  /\ faults = 0 /\ crashes = 0

-------------------------------------------------------------------------------
At(p, pc) == processor[p].pc = pc
Current(p) == CHOOSE e \in processor[p].batch : \A d \in processor[p].batch : e <= d

Goto(p, pc) == processor' = [processor EXCEPT ![p] = [@ EXCEPT !.pc = pc]]
Abort(p) == processor' = [processor EXCEPT ![p] = Asleep]

NextEvent(p) ==
  processor' = [processor EXCEPT ![p] =
                  IF @.batch = {Current(p)} THEN Asleep
                  ELSE [pc |-> "claim", batch |-> @.batch \ {Current(p)}]]

Fault == faults < MaxFaults /\ faults' = faults + 1

(* Mutant: a terminal status may be left again. *)
Allowed_FromTerminal(from, to) == from # to

(* validateStatusTransition *)
Allowed(from, to) ==
  \/ from = to
  \/ from = "PENDING" /\ to = "PROCESSING"
  \/ from = "PROCESSING" /\ to \in {"COMPLETED", "PENDING", "FAILED"}

(* updateStatus, first half: the row is read and the transition checked.    *)
Check(p, at, to, pass, fail) ==
  /\ At(p, at)
  /\ \/ Allowed(row[Current(p)].status, to) /\ pass /\ UNCHANGED faults
     \/ ~Allowed(row[Current(p)].status, to) /\ fail /\ UNCHANGED faults
     \/ Fault /\ fail
  /\ UNCHANGED <<row, dispatched, crashes>>

(* Second half: the write, whatever the row holds by now.  A write that     *)
(* fails may have reached the database all the same.                        *)
Write(p, at, to, pass, fail) ==
  LET written == [row EXCEPT ![Current(p)] = [@ EXCEPT !.status = to]] IN
    /\ At(p, at)
    /\ \/ row' = written /\ pass /\ UNCHANGED faults
       \/ Fault /\ fail /\ row' \in {row, written}
    /\ UNCHANGED <<dispatched, crashes>>

-------------------------------------------------------------------------------
(* createEvent, in the transaction of whoever records the event. *)
Create(e) ==
  /\ row[e].status = "none" /\ \A d \in Events : d < e => row[d].status # "none"
  /\ row' = [row EXCEPT ![e] = [@ EXCEPT !.status = "PENDING"]]
  /\ UNCHANGED <<processor, dispatched, faults, crashes>>

Pending == {e \in Events : row[e].status = "PENDING"}

(* Mutant: the newest pending events are taken. *)
FirstPending_Newest ==
  {e \in Pending : Cardinality({d \in Pending : d > e}) < BatchLimit}

(* findPendingEvents: the oldest ones. *)
FirstPending == {e \in Pending : Cardinality({d \in Pending : d < e}) < BatchLimit}

(* The timer fires; while a batch is in hand it does nothing. *)
Poll(p) ==
  /\ At(p, "idle") /\ Pending # {}
  /\ processor' = [processor EXCEPT ![p] = [pc |-> "claim", batch |-> FirstPending]]
  /\ UNCHANGED <<row, dispatched, faults, crashes>>

Claim(p) == Check(p, "claim", "PROCESSING", Goto(p, "claimWrite"), Goto(p, "retry"))

(* Mutant: the claim is not written down. *)
ClaimWrite_InMemory(p) ==
  At(p, "claimWrite") /\ Goto(p, "dispatch") /\ UNCHANGED <<row, dispatched, faults, crashes>>

ClaimWrite(p) == Write(p, "claimWrite", "PROCESSING", Goto(p, "dispatch"), Goto(p, "retry"))

(* dispatchEvent: a deprecated type is skipped, any other throws. *)
Dispatch(p) ==
  /\ At(p, "dispatch")
  /\ dispatched' = [dispatched EXCEPT ![Current(p)] = IF @ < DispatchedCap THEN @ + 1 ELSE @]
  /\ Goto(p, IF Current(p) \in Unhandled THEN "retry" ELSE "done")
  /\ UNCHANGED <<row, faults, crashes>>

Done(p) == Check(p, "done", "COMPLETED", Goto(p, "doneWrite"), Goto(p, "retry"))

(* Mutant: a failed write of COMPLETED is taken for done. *)
DoneWrite_Trusts(p) == Write(p, "doneWrite", "COMPLETED", NextEvent(p), NextEvent(p))

DoneWrite(p) == Write(p, "doneWrite", "COMPLETED", NextEvent(p), Goto(p, "retry"))

(* The status the catch block writes.  No code increments the column.       *)
NewStatus(p) ==
  IF row[Current(p)].retryCount + 1 >= MaxRetries THEN "FAILED" ELSE "PENDING"

(* An error in the catch block leaves the loop: the batch is dropped.       *)
Retry(p) == Check(p, "retry", NewStatus(p), Goto(p, "retryWrite"), Abort(p))

RetryWrite(p) == Write(p, "retryWrite", NewStatus(p), NextEvent(p), Abort(p))

(* The process dies, or its shutdown gives up waiting. *)
Crash(p) ==
  /\ ~At(p, "idle") /\ crashes < MaxCrashes /\ crashes' = crashes + 1
  /\ Abort(p)
  /\ UNCHANGED <<row, dispatched, faults>>

ProcessorStep(p) ==
  \/ Poll(p) \/ Claim(p) \/ ClaimWrite(p) \/ Dispatch(p) \/ Done(p) \/ DoneWrite(p)
  \/ Retry(p) \/ RetryWrite(p)

Next ==
  \/ \E e \in Events : Create(e)
  \/ \E p \in Processors : ProcessorStep(p) \/ Crash(p)

Spec == Init /\ [][Next]_vars

(* Every awaited call answers or fails, and the timer keeps firing. *)
FairSpec == Spec /\ \A p \in Processors : WF_vars(ProcessorStep(p))

-------------------------------------------------------------------------------
Delivery ==
  INSTANCE OutboxDelivery WITH
    outcome <- [e \in Events |-> CASE row[e].status = "none" -> "absent"
                                   [] row[e].status = "COMPLETED" -> "handled"
                                   [] row[e].status = "FAILED" -> "failed"
                                   [] OTHER -> "pending"]

(* One processor delivers: whatever calls fail and whenever it dies, an     *)
(* event that was handled or given up is never taken up again.              *)
Delivers == Delivery!Spec

(* One processor hands a handled event over once, and once more for each    *)
(* database call that failed - never because of a crash.                    *)
OncePerFault == \A e \in Events \ Unhandled : dispatched[e] <= 1 + faults

(* While nothing fails, one processor completes the handled events in the   *)
(* order in which they were recorded.                                       *)
InOrder ==
  faults = 0 /\ crashes = 0 =>
    \A d, e \in Events \ Unhandled :
      d < e /\ row[e].status = "COMPLETED" => row[d].status = "COMPLETED"

(* An event with a handler is handled in the end, though its own batch or   *)
(* an earlier one met a failed call and events nobody handles keep coming   *)
(* back, as long as they do not fill a batch.  A second failed call, or a   *)
(* crash, may leave it PROCESSING, which no poll looks for.                 *)
HandledInTheEnd ==
  Cardinality(Unhandled) < BatchLimit =>
    \A e \in Events \ Unhandled :
      row[e].status = "PENDING" ~> row[e].status = "COMPLETED" \/ faults > 1 \/ crashes > 0
===============================================================================
