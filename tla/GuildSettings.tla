----------------------------- MODULE GuildSettings -----------------------------
(***************************************************************************)
(* The settings of one guild: GuildSettingsService over the row, the cache  *)
(* of the process and the activity log.  An update is merged into what the  *)
(* row says, not the cache, and stored in one transaction with its entry in *)
(* the activity log.                                                        *)
(***************************************************************************)
EXTENDS GuildConfig, FiniteSets

CONSTANTS
  Requests,
  Patches,   \* the configurations an update may ask for
  Legacy     \* rows of older schema versions

GuildSettingsAssumption ==
  /\ IsFiniteSet(Requests)
  /\ \A p \in Patches : Acceptable(p)
  /\ \A c \in Legacy : NeedsMigration(c) /\ DOMAIN c = Fields

VARIABLES
  exists,      \* the guild is there
  row,         \* {} or the stored configuration, as a singleton
  cache,       \* the same, as the process remembers it
  request,     \* request[r]: where it stands and what it holds
  told,        \* history: what the activity log says, replayed from the first row
  overlapped,  \* history: a row was stored while another request held one
  doubtful     \* history: the process may remember what was written over

vars == <<exists, row, cache, request, told, overlapped, doubtful>>

-------------------------------------------------------------------------------
Idle == [pc |-> "idle"]

(* A request that holds what it has made of the row, or of its absence.     *)
Holding == {"missing", "upsert", "migrate", "forget", "fill", "persist", "roles"}
Step == {"cache", "load", "validate", "merge", "reset", "clear", "sync"} \cup Holding

At(r, pc) == request[r].pc = pc
Others(r) == \E q \in Requests \ {r} : request[q].pc \in Holding

Accept(r, pc, patch) == request' = [request EXCEPT ![r] = [pc |-> pc, patch |-> patch, copy |-> Unset]]
Goto(r, pc, copy) == request' = [request EXCEPT ![r] = [@ EXCEPT !.pc = pc, !.copy = copy]]
End(r) == request' = [request EXCEPT ![r] = Idle]

Doubt(new) ==
  doubtful' = ((doubtful \/ new) /\ (cache' # {} \/ \E q \in Requests : request'[q].pc \in Holding))

Init ==
  /\ exists \in BOOLEAN
  /\ row \in {{}} \cup (IF exists THEN {{c} : c \in Legacy \cup {Defaults}} ELSE {})
  /\ cache = {}
  /\ request = [r \in Requests |-> Idle]
  /\ told = IF row = {} THEN Defaults ELSE CHOOSE c \in row : TRUE
  /\ overlapped = FALSE /\ doubtful = FALSE

-------------------------------------------------------------------------------
(* A guild joins, or is removed; settings are no relation of it.            *)
Come == exists' = ~exists /\ UNCHANGED <<row, cache, request, told, overlapped, doubtful>>

Read(r) ==
  /\ At(r, "idle") /\ Accept(r, "cache", Unset)
  /\ UNCHANGED <<exists, row, cache, told, overlapped, doubtful>>

LookUp(r) ==
  /\ At(r, "cache")
  /\ IF cache = {} THEN Goto(r, "load", Unset) ELSE End(r)
  /\ UNCHANGED <<exists, row, cache, told, overlapped>>
  /\ Doubt(FALSE)

Load(r) ==
  /\ At(r, "load")
  /\ \/ row = {} /\ Goto(r, "missing", Unset)
     \/ \E c \in row : IF NeedsMigration(c) THEN Goto(r, "migrate", Migrate(c))
                       ELSE Goto(r, "fill", Merge(Defaults, c))
  /\ UNCHANGED <<exists, row, cache, told, overlapped, doubtful>>

(* A guild that is not there is not given settings.                         *)
Missing(r) ==
  /\ At(r, "missing")
  /\ IF exists THEN Goto(r, "upsert", Defaults) ELSE End(r)
  /\ UNCHANGED <<exists, row, cache, told, overlapped>>
  /\ Doubt(FALSE)

(* The row that was missing, or its migration: over what is stored by now.  *)
(* Neither is logged: the story of the row begins anew.                     *)
Upgrade(r) ==
  /\ request[r].pc \in {"upsert", "migrate"}
  /\ row' = {request[r].copy} /\ told' = request[r].copy
  /\ overlapped' = Others(r)
  /\ Goto(r, IF At(r, "migrate") THEN "forget" ELSE "fill", request[r].copy)
  /\ UNCHANGED <<exists, cache>>
  /\ Doubt(cache # {} \/ Others(r))

(* The cache is cleared after a migration ... *)
Forget(r) ==
  /\ At(r, "forget") /\ cache' = {}
  /\ Goto(r, "fill", request[r].copy)
  /\ UNCHANGED <<exists, row, told, overlapped>>
  /\ Doubt(FALSE)

(* ... and filled with what was read, completed. *)
Fill(r) ==
  /\ At(r, "fill") /\ End(r)
  /\ cache' = {Merge(Defaults, request[r].copy)}
  /\ UNCHANGED <<exists, row, told, overlapped>>
  /\ Doubt(FALSE)

-------------------------------------------------------------------------------
(* updateSettings: validated first, which asks Discord for each channel.    *)
Update(r, patch) ==
  /\ At(r, "idle") /\ Accept(r, "validate", patch)
  /\ UNCHANGED <<exists, row, cache, told, overlapped, doubtful>>

Validate(r) ==
  /\ At(r, "validate")
  /\ IF Valid(request[r].patch) THEN Goto(r, "merge", Unset) ELSE End(r)
  /\ UNCHANGED <<exists, row, cache, told, overlapped, doubtful>>

(* Mutant: what is cached is taken for what is stored. *)
Current_Cached == IF cache # {} THEN cache ELSE IF row = {} THEN {Defaults} ELSE row

(* What an update is merged into, in whatever schema version it is.         *)
Current == IF row = {} THEN {Defaults} ELSE row

MergeInto(r) ==
  /\ At(r, "merge")
  /\ \E c \in Current : Goto(r, "persist", Merge(c, request[r].patch))
  /\ UNCHANGED <<exists, row, cache, told, overlapped, doubtful>>

(* The row, which must be there, and its log entry, in one transaction.     *)
Persist(r) ==
  /\ At(r, "persist") /\ row # {}
  /\ row' = {request[r].copy} /\ told' = Merge(told, request[r].patch)
  /\ overlapped' = (overlapped \/ Others(r))
  /\ Goto(r, "clear", Unset)
  /\ UNCHANGED <<exists, cache>>
  /\ Doubt(cache # {} \/ Others(r))

(* resetSettings, in one transaction with its entry as well.                *)
Reset(r) ==
  /\ At(r, "idle") /\ Accept(r, "reset", Unset)
  /\ UNCHANGED <<exists, row, cache, told, overlapped, doubtful>>

ResetRow(r) ==
  /\ At(r, "reset") /\ row # {}
  /\ row' = {Defaults} /\ told' = Defaults
  /\ overlapped' = Others(r)
  /\ Goto(r, "clear", Unset)
  /\ UNCHANGED <<exists, cache>>
  /\ Doubt(cache # {} \/ Others(r))

(* syncGuildWithMembers: its transaction makes the guild, reads the row and *)
(* stores it whole with other admin roles, or, given no roles, stores only  *)
(* the row that was missing.  It neither clears the cache nor tells the log.*)
Sync(r) ==
  /\ At(r, "idle") /\ Accept(r, "sync", Unset)
  /\ UNCHANGED <<exists, row, cache, told, overlapped, doubtful>>

SyncRead(r) ==
  /\ At(r, "sync")
  /\ \E c \in Current : Goto(r, "roles", c)
  /\ UNCHANGED <<exists, row, cache, told, overlapped, doubtful>>

SyncRoles(r) ==
  /\ At(r, "roles") /\ End(r)
  /\ exists' = TRUE
  /\ row' \in {{request[r].copy}, row} \ {{}}
  /\ told' = IF row = {} THEN request[r].copy ELSE told
  /\ overlapped' = (overlapped \/ (row' # row /\ Others(r)))
  /\ UNCHANGED cache
  /\ Doubt(row' # row /\ (cache # {} \/ Others(r)))

Clear(r) ==
  /\ At(r, "clear") /\ End(r)
  /\ cache' = {}
  /\ UNCHANGED <<exists, row, told, overlapped>>
  /\ Doubt(FALSE)

(* A call fails, or its transaction, which then has stored nothing.         *)
Fail(r) ==
  /\ ~At(r, "idle") /\ End(r)
  /\ UNCHANGED <<exists, row, cache, told, overlapped>>
  /\ Doubt(FALSE)

(* An entry expires, or the process starts anew. *)
Expire ==
  /\ cache # {} /\ cache' = {}
  /\ UNCHANGED <<exists, row, request, told, overlapped>>
  /\ Doubt(FALSE)

Restart ==
  /\ cache' = {} /\ request' = [r \in Requests |-> Idle] /\ doubtful' = FALSE
  /\ UNCHANGED <<exists, row, told, overlapped>>

Arrive(r) == Read(r) \/ Reset(r) \/ Sync(r) \/ \E patch \in Patches : Update(r, patch)

Proceed(r) ==
  \/ LookUp(r) \/ Load(r) \/ Missing(r) \/ Upgrade(r) \/ Forget(r) \/ Fill(r)
  \/ Validate(r) \/ MergeInto(r) \/ Persist(r) \/ ResetRow(r)
  \/ SyncRead(r) \/ SyncRoles(r) \/ Clear(r) \/ Fail(r)

Next == Come \/ Expire \/ Restart \/ \E r \in Requests : Arrive(r) \/ Proceed(r)

Spec == Init /\ [][Next]_vars

-------------------------------------------------------------------------------
(* A row that was there stays, and is of the current version once it has    *)
(* been read.                                                               *)
TypeOK ==
  /\ exists \in BOOLEAN /\ overlapped \in BOOLEAN /\ doubtful \in BOOLEAN
  /\ DOMAIN told = Fields
  /\ Cardinality(row) <= 1 /\ \A c \in row : DOMAIN c = Fields
  /\ Cardinality(cache) <= 1 /\ \A c \in cache : ~NeedsMigration(c)
  /\ \A r \in Requests : request[r].pc \in {"idle"} \cup Step
  /\ \A r \in Requests : request[r].pc \in {"forget", "fill", "clear"} => row # {}

(* The activity log explains the settings: replayed from the first row, or  *)
(* from its migration, its entries give what is stored, unless a row was    *)
(* stored while another request held an older one.                          *)
LogTellsRow == \A c \in row : overlapped \/ c = told

(* The process answers with something other than the row only if the row    *)
(* was written while it remembered or held what it had read before.         *)
AnswersBehindByOverlapOnly ==
  doubtful \/ \A c \in cache : \E d \in row : c = Merge(Defaults, d)
===============================================================================
