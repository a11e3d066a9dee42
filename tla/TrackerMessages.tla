---------------------------- MODULE TrackerMessages ----------------------------
(***************************************************************************)
(* What a user is told of a scrape: TrackerNotificationService, and the     *)
(* circuit breaker of DiscordMessageService behind it, which all messages   *)
(* of a process share.  Between two calls of Discord a notification runs    *)
(* alone; any call may fail, and what it sent may have arrived all the      *)
(* same.  One whose tracker or user is gone sends nothing and is left out.  *)
(***************************************************************************)
EXTENDS Integers, FiniteSets

CONSTANTS
  Requests,    \* notifications in hand at once
  Threshold,   \* failures that open the circuit (5)
  Timeout,     \* ticks it stays open (60 s)
  MaxTime      \* bound of this model on the clock

MessagesAssumption ==
  IsFiniteSet(Requests) /\ {Threshold, Timeout, MaxTime} \subseteq Nat \ {0}

VARIABLES
  now,
  circuit,     \* circuitOpen, failureCount and lastFailureTime (0 for null)
  request,     \* request[r]: the call a notification waits for
  copies,      \* history: copies[r], how often the user was told of it
  unanswered,  \* history: notifications of which an answer was lost
  failing      \* history: calls that failed since the last that did not

vars == <<now, circuit, request, copies, unanswered, failing>>

-------------------------------------------------------------------------------
Closed == [open |-> FALSE, failures |-> 0, last |-> 0]
Idle == [pc |-> "idle"]
Step == {"follow-up", "channel", "message"}
At(r, pc) == request[r].pc = pc
Goto(r, pc) == request' = [request EXCEPT ![r] = [pc |-> pc]]

(* isCircuitOpen, recordFailure, recordSuccess. *)
Checked(c) ==
  IF c.open /\ c.last # 0 /\ now - c.last > Timeout
  THEN [c EXCEPT !.open = FALSE, !.failures = 0] ELSE c

Failed(c) ==
  [open |-> c.open \/ c.failures + 1 >= Threshold, failures |-> c.failures + 1, last |-> now]

(* Mutant: only an open circuit forgets its failures. *)
Succeeded_WhenOpen(c) ==
  [open |-> FALSE, failures |-> IF c.open THEN 0 ELSE c.failures, last |-> 0]

Succeeded(c) == [open |-> c.open /\ c.failures = 0, failures |-> 0, last |-> 0]

Becomes(c, fails) ==
  /\ circuit' = c
  /\ failing' = IF c.failures = 0 THEN 0 ELSE failing + fails

Succeeds(c) == circuit' = c /\ failing' = 0

Told(r) == copies' = [copies EXCEPT ![r] = @ + 1]
Lost(r) == unanswered' = unanswered \cup {r} /\ Told(r)
Untold == UNCHANGED <<copies, unanswered>>

Init ==
  /\ now = 1 /\ circuit = Closed
  /\ request = [r \in Requests |-> Idle]
  /\ copies = [r \in Requests |-> 0] /\ unanswered = {} /\ failing = 0

Tick == now < MaxTime /\ now' = now + 1 /\ UNCHANGED <<circuit, request, copies, unanswered, failing>>

-------------------------------------------------------------------------------
(* sendDirectMessage, up to its first call.  An error of it, as of an open  *)
(* circuit, ends the notification: it is logged and nothing else.           *)
SendDirectMessage(r, c, fails) ==
  /\ Becomes(Checked(c), fails)
  /\ Goto(r, IF Checked(c).open THEN "idle" ELSE "channel")

(* A notification begins: of another scrape than the last one of r.         *)
Begin(r) ==
  /\ At(r, "idle")
  /\ copies' = [copies EXCEPT ![r] = 0] /\ unanswered' = unanswered \ {r} /\ UNCHANGED now

NotifyComplete(r) == Begin(r) /\ SendDirectMessage(r, circuit, 0)

(* Of a failure by the interaction the registration came from, if it is     *)
(* known, and otherwise, or if that fails, by a direct message.             *)
NotifyFailed(r, token) ==
  /\ Begin(r)
  /\ IF token /\ ~Checked(circuit).open
     THEN Becomes(Checked(circuit), 0) /\ Goto(r, "follow-up")
     ELSE SendDirectMessage(r, circuit, 0)

(* Mutant: the direct message follows whether or not the other got through. *)
FollowUp_Both(r) ==
  /\ At(r, "follow-up") /\ UNCHANGED now
  /\ \/ Told(r) /\ UNCHANGED unanswered /\ SendDirectMessage(r, Succeeded(circuit), 0)
     \/ Lost(r) /\ SendDirectMessage(r, Failed(circuit), 1)

(* An interaction that has expired (404, 400) is no failure of Discord.     *)
FollowUp(r) ==
  /\ At(r, "follow-up") /\ UNCHANGED now
  /\ \/ Told(r) /\ UNCHANGED unanswered /\ Succeeds(Succeeded(circuit)) /\ Goto(r, "idle")
     \/ Untold /\ SendDirectMessage(r, circuit, 0)
     \/ (Lost(r) \/ Untold) /\ SendDirectMessage(r, Failed(circuit), 1)

(* The channel is made: sendMessage looks at the circuit again.  What fails *)
(* inside is counted there and once more by sendDirectMessage, and so is a  *)
(* circuit that has opened meanwhile.                                       *)
Channel(r) ==
  /\ At(r, "channel") /\ Untold /\ UNCHANGED now
  /\ LET c == Checked(circuit)
     IN  \/ IF c.open THEN Becomes(Failed(c), 0) /\ Goto(r, "idle")
                      ELSE Becomes(c, 0) /\ Goto(r, "message")
         \/ Becomes(Failed(Failed(circuit)), 1) /\ Goto(r, "idle")

SendMessage(r) ==
  /\ At(r, "message") /\ Goto(r, "idle") /\ UNCHANGED now
  /\ \/ Told(r) /\ UNCHANGED unanswered /\ Succeeds(Succeeded(Succeeded(circuit)))
     \/ (Lost(r) \/ Untold) /\ Becomes(Failed(Failed(circuit)), 1)

Next ==
  \/ Tick
  \/ \E r \in Requests :
       \/ NotifyComplete(r) \/ (\E token \in BOOLEAN : NotifyFailed(r, token))
       \/ FollowUp(r) \/ Channel(r) \/ SendMessage(r)

Spec == Init /\ [][Next]_vars

-------------------------------------------------------------------------------
TypeOK ==
  /\ now \in 1..MaxTime
  /\ circuit \in [open : BOOLEAN, failures : Nat, last : 0..MaxTime]
  /\ request \in [Requests -> [pc : Step \cup {"idle"}]]
  /\ copies \in [Requests -> Nat] /\ unanswered \subseteq Requests /\ failing \in Nat

(* The circuit is open only after calls have failed with none succeeding    *)
(* between them, at least half as many as the threshold says since each may *)
(* count twice; and it can close, for the time of the last failure is known.*)
OpenForCause ==
  circuit.open => /\ circuit.failures >= Threshold /\ circuit.last # 0
                  /\ 2 * failing >= Threshold

(* A user is told of one scrape twice only if the answer to the first       *)
(* message was lost.                                                        *)
ToldTwiceByLossOnly == \A r \in Requests : copies[r] > 1 => r \in unanswered
===============================================================================
