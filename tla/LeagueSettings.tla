----------------------------- MODULE LeagueSettings -----------------------------
(***************************************************************************)
(* The settings of one league: LeagueSettingsService over the row and the   *)
(* cache each process keeps in memory.  A read fills the cache with what it *)
(* has loaded; an update reads in the same way, merges, stores the whole    *)
(* configuration and clears the cache of its own process.  Every call is a  *)
(* step; no lock spans two of them.                                         *)
(***************************************************************************)
EXTENDS LeagueConfig, FiniteSets

CONSTANTS
  Requests, Processes,
  Patches,   \* the configurations an update may ask for
  Legacy     \* rows from before the metadata: whatever they were then

SettingsAssumption ==
  /\ IsFiniteSet(Requests) /\ IsFiniteSet(Processes) /\ Processes # {}
  /\ \A p \in Patches : Acceptable(p)
  /\ \A c \in Legacy : NeedsMigration(c) /\ DOMAIN c = Fields

VARIABLES
  exists,    \* the league is there
  row,       \* {} or the stored configuration, as a singleton
  cache,     \* cache[n]: the same, as process n remembers it
  request,   \* request[r]: where it stands, for whom and what it holds
  doubtful   \* history: processes that may remember what was written over

vars == <<exists, row, cache, request, doubtful>>

-------------------------------------------------------------------------------
Idle == [pc |-> "idle"]

(* From the moment it has looked at the row, or found it missing, until it  *)
(* has stored its own: what it holds may be written over meanwhile.         *)
Holding == {"missing", "upsert", "migrate", "fill", "organize", "persist"}
Step == {"cache", "load", "clear"} \cup Holding

Holds(q, n) == q.pc \in Holding /\ q.at = n
At(r, pc) == request[r].pc = pc
Of(r) == request[r].at

Accept(r, n, patch) ==
  request' = [request EXCEPT ![r] = [pc |-> "cache", at |-> n, patch |-> patch, copy |-> Unset]]
Goto(r, pc, copy) ==
  request' = [request EXCEPT ![r] = [pc |-> pc, at |-> @.at, patch |-> @.patch, copy |-> copy]]
End(r) == request' = [request EXCEPT ![r] = Idle]

(* The doubt about a process ends when it remembers nothing and has no      *)
(* request that holds a copy.                                               *)
Doubt(new) ==
  doubtful' = {n \in doubtful \cup new :
                 cache'[n] # {} \/ \E q \in Requests : Holds(request'[q], n)}

(* Whoever remembers or holds something while r writes the row.             *)
Behind(r) == {n \in Processes : cache[n] # {} \/ \E q \in Requests \ {r} : Holds(request[q], n)}

Init ==
  /\ exists \in BOOLEAN
  /\ row \in {{}} \cup (IF exists THEN {{c} : c \in Legacy} ELSE {})
  /\ cache = [n \in Processes |-> {}]
  /\ request = [r \in Requests |-> Idle]
  /\ doubtful = {}

-------------------------------------------------------------------------------
(* createWithSettings: the league and its settings in one transaction.      *)
Create ==
  /\ ~exists /\ row = {}
  /\ exists' = TRUE /\ row' = {Defaults}
  /\ UNCHANGED <<cache, request, doubtful>>

(* The league is removed; its settings are no relation of it and stay.      *)
Remove ==
  /\ exists /\ exists' = FALSE
  /\ UNCHANGED <<row, cache, request, doubtful>>

Read(r, n) ==
  /\ At(r, "idle") /\ Accept(r, n, {})
  /\ UNCHANGED <<exists, row, cache, doubtful>>

(* updateSettings of a league that is there.                                *)
Update(r, n, patch) ==
  /\ At(r, "idle") /\ exists /\ Accept(r, n, {patch})
  /\ UNCHANGED <<exists, row, cache, doubtful>>

(* Mutant: the update is validated without what it is merged into. *)
Accepts_PatchOnly(c, patch) == Valid(Merge(Unset, patch))

(* validate, of the merged configuration.                                   *)
Accepts(c, patch) == Valid(Merge(c, patch))

(* getSettings returns c: to the client, or to the update that asked, which *)
(* goes on to require organizations or to store at once.                    *)
Return(r, c) ==
  \/ (\A patch \in request[r].patch : ~Accepts(c, patch)) /\ End(r)
  \/ \E patch \in request[r].patch :
       LET merged == Merge(c, patch)
           turnsOn == c["requireOrganization"] # {TRUE} /\ merged["requireOrganization"] = {TRUE}
       IN  Accepts(c, patch) /\ Goto(r, IF turnsOn THEN "organize" ELSE "persist", merged)

LookUp(r) ==
  /\ At(r, "cache")
  /\ IF cache[Of(r)] = {} THEN Goto(r, "load", Unset)
     ELSE \E c \in cache[Of(r)] : Return(r, c)
  /\ UNCHANGED <<exists, row, cache>>
  /\ Doubt({})

Load(r) ==
  /\ At(r, "load")
  /\ \/ row = {} /\ Goto(r, "missing", Unset)
     \/ \E c \in row : IF NeedsMigration(c) THEN Goto(r, "migrate", Migrate(c))
                       ELSE Goto(r, "fill", Merge(Defaults, c))
  /\ UNCHANGED <<exists, row, cache, doubtful>>

(* Only a league that is there is given the settings it lacks.              *)
Missing(r) ==
  /\ At(r, "missing")
  /\ IF exists THEN Goto(r, "upsert", Defaults) ELSE End(r)
  /\ UNCHANGED <<exists, row, cache>>
  /\ Doubt({})

(* The upsert, and the write of a migrated configuration: over whatever is  *)
(* stored by now.                                                           *)
Upgrade(r) ==
  /\ request[r].pc \in {"upsert", "migrate"}
  /\ row' = {request[r].copy}
  /\ Goto(r, "fill", Merge(Defaults, request[r].copy))
  /\ UNCHANGED <<exists, cache>>
  /\ Doubt(Behind(r))

Fill(r) ==
  /\ At(r, "fill")
  /\ cache' = [cache EXCEPT ![Of(r)] = {request[r].copy}]
  /\ Return(r, request[r].copy)
  /\ UNCHANGED <<exists, row>>
  /\ Doubt({})

(* handleRequireOrganizationChange, the work of Organizations, succeeds.    *)
Organize(r) ==
  /\ At(r, "organize") /\ Goto(r, "persist", request[r].copy)
  /\ UNCHANGED <<exists, row, cache, doubtful>>

(* An update of a row that is there. *)
Persist(r) ==
  /\ At(r, "persist") /\ row # {}
  /\ row' = {request[r].copy}
  /\ Goto(r, "clear", Unset)
  /\ UNCHANGED <<exists, cache>>
  /\ Doubt(Behind(r))

(* Mutant: the cache is not cleared. *)
Clear_Never(r) ==
  /\ At(r, "clear") /\ End(r)
  /\ doubtful' = doubtful \ {Of(r)}
  /\ UNCHANGED <<exists, row, cache>>

Clear(r) ==
  /\ At(r, "clear") /\ End(r)
  /\ cache' = [cache EXCEPT ![Of(r)] = {}]
  /\ UNCHANGED <<exists, row>>
  /\ Doubt({})

(* A call fails: what it has written stays, and the cache as it is.         *)
Fail(r) ==
  /\ ~At(r, "idle") /\ End(r)
  /\ UNCHANGED <<exists, row, cache>>
  /\ Doubt({})

-------------------------------------------------------------------------------
(* An entry lives five minutes. *)
Expire(n) ==
  /\ cache[n] # {} /\ cache' = [cache EXCEPT ![n] = {}]
  /\ UNCHANGED <<exists, row, request>>
  /\ Doubt({})

Restart(n) ==
  /\ cache' = [cache EXCEPT ![n] = {}]
  /\ request' = [r \in Requests |-> IF ~At(r, "idle") /\ Of(r) = n THEN Idle ELSE request[r]]
  /\ UNCHANGED <<exists, row>>
  /\ Doubt({})

Arrive(r) == \E n \in Processes : Read(r, n) \/ \E p \in Patches : Update(r, n, p)

Proceed(r) ==
  \/ LookUp(r) \/ Load(r) \/ Missing(r) \/ Upgrade(r) \/ Fill(r)
  \/ Organize(r) \/ Persist(r) \/ Clear(r) \/ Fail(r)

Next ==
  \/ Create \/ Remove
  \/ \E r \in Requests : Arrive(r) \/ Proceed(r)
  \/ \E n \in Processes : Expire(n) \/ Restart(n)

Spec == Init /\ [][Next]_vars

-------------------------------------------------------------------------------
(* What a row says once getSettings has migrated and completed it.          *)
Seen(c) == Merge(Defaults, IF NeedsMigration(c) THEN Migrate(c) ELSE c)

(* Rows and copies are configurations, a league that was made with its      *)
(* settings keeps them, and only a process that remembers or holds          *)
(* something is in doubt.                                                   *)
TypeOK ==
  /\ exists \in BOOLEAN /\ Cardinality(row) <= 1
  /\ \A c \in row : DOMAIN c = Fields
  /\ DOMAIN cache = Processes
  /\ \A n \in Processes : Cardinality(cache[n]) <= 1 /\ \A c \in cache[n] : ~NeedsMigration(c)
  /\ \A r \in Requests : request[r].pc \in {"idle"} \cup Step
  /\ \A n \in doubtful : cache[n] # {} \/ \E r \in Requests : Holds(request[r], n)
  /\ \A r \in Requests : request[r].pc \in {"fill", "organize", "persist"} => row # {}

(* Whatever an update stores has been validated as a whole, however many    *)
(* updates race and whatever each of them was merged into; only a row from  *)
(* before the metadata, or its migration, was never looked at.              *)
StoredValid ==
  \A c \in row : Valid(c) \/ c \in Legacy \/ \E d \in Legacy : c = Migrate(d)

(* A process answers with something other than the row only if the row was  *)
(* written while it remembered or held what it had read before, and until   *)
(* it has forgotten that: at most a cache lifetime after its requests end.  *)
StaleByOverlapOnly ==
  \A n \in Processes \ doubtful : \A c \in cache[n] : \E d \in row : c = Seen(d)

(* An update changes what it was asked to change and nothing else, unless   *)
(* it merged into something its process was in doubt about: then it takes   *)
(* back what another update has stored.                                     *)
Keeps ==
  \A c \in row, d \in row' :
    \/ d = c \/ d = Migrate(c)
    \/ \E r \in Requests : ~At(r, "idle") /\ Of(r) \in doubtful /\ d = request[r].copy
    \/ \E r \in Requests :
         At(r, "persist") /\ \A f \in Fields : d[f] # Seen(c)[f] =>
                               \E patch \in request[r].patch : patch[f] # {} /\ d[f] = patch[f]

UpdatesKept == [][Keeps]_vars
===============================================================================
