------------------------------ MODULE DiscordReads ------------------------------
(***************************************************************************)
(* What DiscordBotService says of one guild: whether a role or a channel is *)
(* there, or somebody is its member.  Most of it is remembered for Ttl; a   *)
(* call takes at most CallTimeout and is tried RetryAttempts times again;   *)
(* the validations say no where the other operations say that Discord is    *)
(* unavailable.  kind, one of the three, is what a behaviour is about.      *)
(***************************************************************************)
EXTENDS Integers, FiniteSets

CONSTANTS
  Requests,
  Ttl,            \* cacheTtl, in ticks (5 min)
  CallTimeout,    \* requestTimeout, in ticks (10 s)
  RetryAttempts,  \* discord.retryAttempts (3)
  MaxTime         \* bound of this model on the clock

ReadsAssumption ==
  IsFiniteSet(Requests) /\ {Ttl, RetryAttempts} \subseteq Nat /\ {CallTimeout, MaxTime} \subseteq Nat \ {0}

VARIABLES
  kind,
  now,
  truth,    \* truth[n]: whether at time n it was there
  cached,   \* the cache's entry
  request   \* request[r]: the call a request waits for, or its answer

vars == <<kind, now, truth, cached, request>>

-------------------------------------------------------------------------------
Unknown == "unknown"
Nothing == [value |-> FALSE, until |-> 0]
Idle == [pc |-> "idle"]

(* A call: whether its answer is remembered and failures mean no, when this *)
(* try went out and what Discord has answered to it.                        *)
Sent(remembers, safe, tries) ==
  [pc |-> "sent", remembers |-> remembers, safe |-> safe, tries |-> tries, since |-> now,
   heard |-> Unknown]
Answered(value, failed) == [pc |-> "answered", value |-> value, failed |-> failed]

At(r, pc) == request[r].pc = pc
Goto(r, q) == request' = [request EXCEPT ![r] = q]

Init ==
  /\ kind \in {"role", "channel", "member"}
  /\ now = 1 /\ cached = Nothing
  /\ truth \in {[n \in 1..MaxTime |-> n = 1 /\ there] : there \in BOOLEAN}
  /\ request = [r \in Requests |-> Idle]

(* Time passes, and with it what is there may change.  An answer is given   *)
(* at once, or it would say less than its time; a try ends by its timeout.  *)
Tick ==
  /\ now < MaxTime /\ now' = now + 1
  /\ \A r \in Requests : ~At(r, "answered")
                     /\ (At(r, "sent") => now - request[r].since < CallTimeout)
  /\ \E there \in BOOLEAN : truth' = [truth EXCEPT ![now + 1] = there]
  /\ UNCHANGED <<kind, cached, request>>

-------------------------------------------------------------------------------
Ask(r, k, remembers, safe) ==
  /\ kind = k /\ At(r, "idle")
  /\ Goto(r, IF remembers /\ now <= cached.until THEN Answered(cached.value, FALSE)
             ELSE Sent(remembers, safe, 0))
  /\ UNCHANGED <<kind, now, truth, cached>>

GetGuildRoles(r) == Ask(r, "role", TRUE, FALSE)
GetGuildChannels(r) == Ask(r, "channel", TRUE, FALSE)
GetGuildMemberByUserId(r) == Ask(r, "member", TRUE, FALSE)
ValidateRoleIds(r) == Ask(r, "role", TRUE, TRUE)
ValidateChannelIds(r) == Ask(r, "channel", TRUE, TRUE)
ValidateRoleId(r) == Ask(r, "role", FALSE, TRUE)
ValidateChannelId(r) == Ask(r, "channel", FALSE, TRUE)

(* Discord answers by what is there at that time. *)
Respond(r) ==
  /\ At(r, "sent") /\ request[r].heard = Unknown
  /\ Goto(r, [request[r] EXCEPT !.heard = IF truth[now] THEN "there" ELSE "not there"])
  /\ UNCHANGED <<kind, now, truth, cached>>

(* That nobody of this id is a member is an error (404): it is tried again  *)
(* like any other, and believed the last time.                              *)
Again(r) == request[r].tries < RetryAttempts
Believed(r) == kind = "member" /\ request[r].heard = "not there" => ~Again(r)

(* Mutant: an entry never expires. *)
Entry_ForEver(value) == [value |-> value, until |-> MaxTime]

Entry(value) == [value |-> value, until |-> now + Ttl]

Receive(r) ==
  LET q == request[r]
  IN  /\ At(r, "sent") /\ q.heard # Unknown /\ Believed(r)
      /\ cached' = IF q.remembers THEN Entry(q.heard = "there") ELSE cached
      /\ Goto(r, Answered(q.heard = "there", FALSE))
      /\ UNCHANGED <<kind, now, truth>>

(* The try failed, by an error or the timeout.                              *)
Retry(r) ==
  /\ At(r, "sent") /\ Again(r)
  /\ Goto(r, Sent(request[r].remembers, request[r].safe, request[r].tries + 1))
  /\ UNCHANGED <<kind, now, truth, cached>>

(* handleDiscordApiError: Discord is unavailable, or the validations' no.   *)
GiveUp(r) ==
  /\ At(r, "sent") /\ ~Again(r)
  /\ Goto(r, IF request[r].safe THEN Answered(FALSE, TRUE) ELSE Idle)
  /\ UNCHANGED <<kind, now, truth, cached>>

Return(r) == At(r, "answered") /\ Goto(r, Idle) /\ UNCHANGED <<kind, now, truth, cached>>

Next ==
  \/ Tick
  \/ \E r \in Requests :
       \/ GetGuildRoles(r) \/ GetGuildChannels(r) \/ GetGuildMemberByUserId(r)
       \/ ValidateRoleIds(r) \/ ValidateChannelIds(r) \/ ValidateRoleId(r) \/ ValidateChannelId(r)
       \/ Respond(r) \/ Receive(r) \/ Retry(r) \/ GiveUp(r) \/ Return(r)

Spec == Init /\ [][Next]_vars

-------------------------------------------------------------------------------
TypeOK ==
  /\ kind \in {"role", "channel", "member"} /\ now \in 1..MaxTime
  /\ truth \in [1..MaxTime -> BOOLEAN]
  /\ cached \in [value : BOOLEAN, until : Nat]
  /\ \A r \in Requests : request[r].pc \in {"idle", "sent", "answered"}

(* Whatever is answered without a failure was so no longer ago than an      *)
(* entry lives and a call takes together, however calls overlap; a          *)
(* failure is never taken for a yes.                                        *)
TrueRecently ==
  \A r \in Requests : At(r, "answered") =>
    IF request[r].failed THEN ~request[r].value
    ELSE \E n \in 1..now : now - n <= Ttl + CallTimeout /\ truth[n] = request[r].value
===============================================================================
