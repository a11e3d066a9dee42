------------------------------ MODULE ScrapeRate ------------------------------
(***************************************************************************)
(* enforceRateLimit of TrackerScraperService, which every request to        *)
(* FlareSolverr passes: a counter per window of Window ticks, and a least   *)
(* distance to the last request.  One process has many calls in hand: the   *)
(* queue's concurrency (5), times the three historical seasons of a first   *)
(* scrape, which are fetched all at once and pass the limit twice each.     *)
(* Between two awaits a call runs alone; timers may fire late.  A request   *)
(* that fails is tried again without coming by here; that is left out.      *)
(***************************************************************************)
EXTENDS Integers, FiniteSets, Functions

CONSTANTS
  Calls,     \* calls in hand at once
  Limit,     \* rateLimitPerMinute (60)
  Window,    \* ticks in a minute
  MaxTime    \* bound of this model on the clock

RateAssumption ==
  {Limit, Window, MaxTime} \subseteq Nat \ {0} /\ Window % Limit = 0

VARIABLES
  now,
  windowStart,  \* rateLimitWindowStart
  count,        \* requestCount
  last,         \* lastRequestTime, 0 if there was none
  call,         \* call[c]: what it waits for
  sent,         \* history: sent[n], how many requests went out at time n
  crowd         \* history: a call came to the limit while another was waiting at it

vars == <<now, windowStart, count, last, call, sent, crowd>>

-------------------------------------------------------------------------------
MinDelay == Window \div Limit
Times == 1..MaxTime

(* A call: the gates it has still to pass, the time it read on entering the *)
(* one it stands at, and until when its timer runs.                         *)
Call == [pc: {"idle", "next", "window", "delay"}, gates: 0..2,
         entered: 0..MaxTime, until: 0..2 * MaxTime + Window]
Idle == [pc |-> "idle", gates |-> 0, entered |-> 0, until |-> 0]
Waiting(c) == call[c].pc \in {"window", "delay"}

Init ==
  /\ now = 1 /\ windowStart = 1 /\ count = 0 /\ last = 0
  /\ call = [c \in Calls |-> Idle]
  /\ sent = [n \in Times |-> 0] /\ crowd = FALSE

Tick ==
  /\ now < MaxTime /\ now' = now + 1
  /\ UNCHANGED <<windowStart, count, last, call, sent, crowd>>

(* Mutant: the time of the entry is noted instead of the time of passing. *)
Pass_AtEntry(c, gates, entered, before) ==
  /\ last' = entered /\ count' = before + 1
  /\ call' = [call EXCEPT ![c] = [Idle EXCEPT !.pc = IF gates > 1 THEN "next" ELSE "idle",
                                             !.gates = gates - 1]]
  /\ sent' = IF gates > 1 THEN sent ELSE [sent EXCEPT ![now] = @ + 1]

(* The end of enforceRateLimit: behind the last gate goes the request. *)
Pass(c, gates, entered, before) ==
  /\ last' = now /\ count' = before + 1
  /\ call' = [call EXCEPT ![c] = [Idle EXCEPT !.pc = IF gates > 1 THEN "next" ELSE "idle",
                                             !.gates = gates - 1]]
  /\ sent' = IF gates > 1 THEN sent ELSE [sent EXCEPT ![now] = @ + 1]

(* The distance to the last request, measured from the time of the entry. *)
Space(c, gates, entered, before) ==
  IF last > 0 /\ entered - last < MinDelay
  THEN /\ call' = [call EXCEPT ![c] = [pc |-> "delay", gates |-> gates, entered |-> entered,
                                       until |-> now + MinDelay - (entered - last)]]
       /\ count' = before /\ UNCHANGED <<last, sent>>
  ELSE Pass(c, gates, entered, before)

(* A request comes to the limit: the first gate of a base scrape (one) or   *)
(* of a historical season (two), or the second gate.                        *)
Enter(c, gates) ==
  LET fresh == now - windowStart >= Window
      start == IF fresh THEN now ELSE windowStart
      before == IF fresh THEN 0 ELSE count
  IN /\ \/ call[c].pc = "idle" /\ gates \in {1, 2}
        \/ call[c].pc = "next" /\ gates = call[c].gates
     /\ windowStart' = start
     /\ crowd' = (crowd \/ \E other \in Calls : Waiting(other))
     /\ IF before >= Limit
        THEN /\ call' = [call EXCEPT ![c] = [pc |-> "window", gates |-> gates, entered |-> now,
                                             until |-> start + Window]]
             /\ count' = before /\ UNCHANGED <<last, sent>>
        ELSE Space(c, gates, now, before)
     /\ UNCHANGED now

(* The wait for the next window is over, or the wait for the distance. *)
OpenWindow(c) ==
  /\ call[c].pc = "window" /\ now >= call[c].until
  /\ windowStart' = now
  /\ Space(c, call[c].gates, call[c].entered, 0)
  /\ UNCHANGED <<now, crowd>>

EndDelay(c) ==
  /\ call[c].pc = "delay" /\ now >= call[c].until
  /\ Pass(c, call[c].gates, call[c].entered, count)
  /\ UNCHANGED <<now, windowStart, crowd>>

Next ==
  \/ Tick
  \/ \E c \in Calls : OpenWindow(c) \/ EndDelay(c) \/ \E gates \in {1, 2} : Enter(c, gates)

Spec == Init /\ [][Next]_vars

-------------------------------------------------------------------------------
TypeOK ==
  /\ now \in Times /\ windowStart \in Times /\ last \in 0..MaxTime
  /\ count \in Nat /\ call \in [Calls -> Call]
  /\ sent \in [Times -> Nat] /\ crowd \in BOOLEAN

SentIn(first, final) ==
  FoldFunctionOnSet(+, 0, sent, {n \in Times : first <= n /\ n <= final})

(* What the README and the comment on enforceRateLimit promise: never more  *)
(* than Limit requests in the span of a window.                             *)
RateKept == \A n \in Times : SentIn(n, n + Window - 1) <= Limit

(* Requests whose calls did not meet at the limit keep their distance, and  *)
(* with it the rate: what the counter and the distance are worth is lost    *)
(* only where calls wait together, since each goes by what it read on       *)
(* entry.                                                                   *)
SpacedByOverlapOnly ==
  ~crowd => \A n \in Times : sent[n] > 0 =>
              sent[n] = 1 /\ \A m \in Times : sent[m] > 0 /\ m < n => n - m >= MinDelay
=============================================================================
