---------------------------- MODULE ServicesProofs ----------------------------
(***************************************************************************)
(* Proofs about the smaller services, one section for each, as MCServices   *)
(* has them: of any one of them, whichever it is, and for all values of     *)
(* their constants.  The settings of a league come first, with theorems of  *)
(* their own specification; the invariant of any other service, and its     *)
(* lemmas, carry the service's name; the theorems about ServicesSpec come   *)
(* last.                                                                    *)
(***************************************************************************)
EXTENDS MCServices, FiniteSetTheorems, SequenceTheorems, TLAPS

-------------------------------------------------------------------------------
(* What the operators on configurations return.                             *)
Current(c) == c["version"] = {CURRENT_SCHEMA_VERSION}

(* A merge has every field, and the version of its target.                  *)
LEMMA MergeReturns ==
  ASSUME NEW target, NEW source
  PROVE  /\ DOMAIN Merge(target, source) = Fields
         /\ Merge(target, source)["version"] = target["version"]
         /\ \A f \in Fields :
              Merge(target, source)[f] # target[f] =>
                source[f] # {} /\ Merge(target, source)[f] = source[f]
BY DEF Merge, Fields

(* The defaults have every field and the current version.                   *)
LEMMA DefaultsCurrent == DOMAIN Defaults = Fields /\ Current(Defaults)
BY DEF Defaults, Unset, Current, Fields

(* A migrated configuration is one of the current version.                  *)
LEMMA MigrateReturns ==
  ASSUME NEW c
  PROVE  DOMAIN Migrate(c) = Fields /\ Current(Migrate(c))
BY DEF Migrate, Merge, Current, Fields

(* A configuration of the current version is not migrated again.            *)
LEMMA CurrentNeedsNone == ASSUME NEW c, Current(c) PROVE ~NeedsMigration(c)
BY DEF Current, NeedsMigration, CURRENT_SCHEMA_VERSION

(* What a reader sees: the current version, filled up with the defaults.    *)
LEMMA SeenReturns ==
  /\ Seen(Defaults) = Defaults
  /\ \A c : Current(Seen(c))
  /\ \A c : Current(c) => Seen(c) = Merge(Defaults, c)
<1>1. Merge(Defaults, Defaults) = Defaults
  BY DEF Merge, Defaults, Unset
<1>2. \A c : Current(c) => Seen(c) = Merge(Defaults, c)
  BY CurrentNeedsNone DEF Seen
<1>3. \A c : Current(Seen(c))
  BY MergeReturns, DefaultsCurrent DEF Seen, Current
<1> QED BY <1>1, <1>2, <1>3, DefaultsCurrent

(* The defaults pass the validation.                                        *)
LEMMA DefaultsValid == Valid(Defaults)
<1>1. /\ Defaults["minPlayers"] = {2} /\ Defaults["isSkillBased"] = {FALSE}
      /\ \A f \in Fields \ {"minPlayers", "requireOrganization", "isSkillBased", "version"} :
           Defaults[f] = {}
  BY DEF Defaults, Unset, Fields, Counts, Levels, Switches, Dates, Required
<1>2. ValidMembership(Defaults)
  BY <1>1 DEF ValidMembership, AtLeast, Ordered, Before, Fields, Counts, Levels, Switches, Dates
<1>3. ValidSkillRequirements(Defaults)
  BY <1>1 DEF ValidSkillRequirements, Fields, Required
<1>4. ValidSkill(Defaults)
  BY <1>1 DEF ValidSkill
<1> QED BY <1>2, <1>3, <1>4 DEF Valid

-------------------------------------------------------------------------------
(* The shapes of the variables.                                             *)
IsRequest(q) ==
  \/ q = Idle
  \/ /\ q = [pc |-> q.pc, at |-> q.at, patch |-> q.patch, copy |-> q.copy]
     /\ q.pc \in Step /\ q.at \in Processes

Shapes ==
  /\ exists \in BOOLEAN
  /\ \A c, d \in row : c = d
  /\ cache = [n \in Processes |-> cache[n]]
  /\ \A n \in Processes : \A c, d \in cache[n] : c = d
  /\ request = [r \in Requests |-> request[r]]
  /\ \A r \in Requests : IsRequest(request[r])
  /\ doubtful \subseteq Processes
  /\ \A n \in doubtful : cache[n] # {} \/ \E r \in Requests : Holds(request[r], n)

(* What a row may be: validated, or as it was before the metadata.          *)
Stored(c) ==
  /\ DOMAIN c = Fields
  /\ Current(c) \/ c \in Legacy
  /\ Valid(c) \/ c \in Legacy \/ \E d \in Legacy : c = Migrate(d)

(* What a request holds that will be stored may be a row ...                *)
HeldOK(q) ==
  /\ q.pc = "upsert" => q.copy = Defaults
  /\ q.pc = "migrate" => \E d \in Legacy : q.copy = Migrate(d)
  /\ q.pc = "fill" => Current(q.copy) /\ row # {}
  /\ q.pc \in {"organize", "persist"} =>
       /\ DOMAIN q.copy = Fields /\ Current(q.copy) /\ Valid(q.copy) /\ row # {}

(* ... and of a process that is not in doubt it is made of the row.         *)
HeldFresh(q) ==
  /\ q.pc \in {"missing", "upsert"} => \A c \in row : c = Defaults
  /\ q.pc = "migrate" => \E d \in row : q.copy = Migrate(d)
  /\ q.pc = "fill" => \E d \in row : q.copy = Seen(d)
  /\ q.pc \in {"organize", "persist"} =>
       \E d \in row : \E patch \in q.patch : q.copy = Merge(Seen(d), patch)

Contents ==
  /\ \A c \in row : Stored(c)
  /\ \A n \in Processes : \A c \in cache[n] : Current(c) /\ row # {}
  /\ \A r \in Requests : HeldOK(request[r])

Fresh ==
  /\ StaleByOverlapOnly
  /\ \A r \in Requests : ~At(r, "idle") /\ Of(r) \notin doubtful => HeldFresh(request[r])

IInv == Shapes /\ Contents /\ Fresh

-------------------------------------------------------------------------------
(* The ways on of a request.                                                *)
LEMMA AcceptShape ==
  ASSUME Shapes, NEW r \in Requests, NEW n \in Processes, NEW patch, Accept(r, n, patch)
  PROVE  /\ request' = [q \in Requests |-> request'[q]]
         /\ \A q \in Requests : q # r => request'[q] = request[q]
         /\ IsRequest(request'[r]) /\ request'[r].pc = "cache" /\ request'[r].at = n
BY DEF Shapes, Accept, IsRequest, Step

(* A request that goes on: where it is then, and nobody else moved.         *)
LEMMA GotoShape ==
  ASSUME Shapes, NEW r \in Requests, ~At(r, "idle"), NEW pc \in Step, NEW copy,
         Goto(r, pc, copy)
  PROVE  /\ request' = [q \in Requests |-> request'[q]]
         /\ \A q \in Requests : q # r => request'[q] = request[q]
         /\ IsRequest(request'[r]) /\ request'[r].pc = pc /\ request'[r].copy = copy
         /\ request'[r].at = request[r].at /\ request'[r].patch = request[r].patch
<1>1. /\ request[r] = [pc |-> request[r].pc, at |-> request[r].at,
                       patch |-> request[r].patch, copy |-> request[r].copy]
      /\ request[r].at \in Processes
  BY DEF Shapes, IsRequest, At, Idle
<1>2. request' = [request EXCEPT ![r] = [pc |-> pc, at |-> request[r].at,
                                         patch |-> request[r].patch, copy |-> copy]]
  BY DEF Goto
<1>3. request'[r] = [pc |-> pc, at |-> request[r].at, patch |-> request[r].patch, copy |-> copy]
  BY <1>2 DEF Shapes
<1> QED BY <1>1, <1>2, <1>3 DEF Shapes, IsRequest

(* A request that ends holds nothing, and nobody else moved.                *)
LEMMA EndShape ==
  ASSUME Shapes, NEW r \in Requests, End(r)
  PROVE  /\ request' = [q \in Requests |-> request'[q]]
         /\ \A q \in Requests : q # r => request'[q] = request[q]
         /\ IsRequest(request'[r]) /\ request'[r].pc = "idle"
BY DEF Shapes, End, IsRequest, Idle

(* A request that has come is one of a process.                             *)
LEMMA OfProcess ==
  ASSUME Shapes, NEW r \in Requests, ~At(r, "idle")
  PROVE  Of(r) \in Processes
BY DEF Shapes, IsRequest, At, Of, Idle

(* Doubt starts where it is called for, and ends only with what was         *)
(* remembered or held.                                                      *)
LEMMA DoubtShape ==
  ASSUME Shapes, NEW new \in SUBSET Processes, Doubt(new)
  PROVE  /\ doubtful' \subseteq Processes /\ doubtful' \subseteq doubtful \cup new
         /\ \A n \in doubtful' : cache'[n] # {} \/ \E r \in Requests : Holds(request'[r], n)
         /\ \A n \in doubtful \cup new :
              n \notin doubtful' => cache'[n] = {} /\ \A r \in Requests : ~Holds(request'[r], n)
BY DEF Shapes, Doubt

(* A request that holds nothing owes nothing to the row.                    *)
LEMMA NothingHeld ==
  ASSUME NEW q, q.pc \notin Holding
  PROVE  HeldOK(q) /\ HeldFresh(q)
BY DEF HeldOK, HeldFresh, Holding

-------------------------------------------------------------------------------
(* A step that writes no row keeps the invariant, if what it puts into the  *)
(* caches and the requests is right.                                        *)
LEMMA Quiet ==
  ASSUME IInv, exists' \in BOOLEAN, row' = row,
         cache' = [n \in Processes |-> cache'[n]],
         \A n \in Processes :
           \/ cache'[n] = cache[n] \/ cache'[n] = {}
           \/ \E c : /\ cache'[n] = {c} /\ Current(c) /\ row # {}
                     /\ n \notin doubtful => \E d \in row : c = Seen(d),
         request' = [q \in Requests |-> request'[q]],
         \A q \in Requests :
           \/ request'[q] = request[q]
           \/ /\ IsRequest(request'[q]) /\ HeldOK(request'[q])
              /\ request'[q].pc # "idle" /\ request'[q].at \notin doubtful =>
                   HeldFresh(request'[q]),
         \/ Doubt({})
         \/ /\ doubtful' = doubtful /\ cache' = cache
            /\ \A q \in Requests, n \in Processes : Holds(request[q], n) => Holds(request'[q], n)
  PROVE  IInv'
<1>1. /\ doubtful' \subseteq doubtful
      /\ \A n \in doubtful' : cache'[n] # {} \/ \E r \in Requests : Holds(request'[r], n)
      /\ \A n \in doubtful : n \notin doubtful' =>
           cache'[n] = {} /\ \A r \in Requests : ~Holds(request'[r], n)
  <2>1. CASE Doubt({})
    BY <2>1, DoubtShape DEF IInv
  <2>2. CASE /\ doubtful' = doubtful /\ cache' = cache
             /\ \A q \in Requests, n \in Processes : Holds(request[q], n) => Holds(request'[q], n)
    BY <2>2 DEF IInv, Shapes
  <2> QED BY <2>1, <2>2
<1>2. Shapes'
  <2>1. \A n \in Processes : \A c, d \in cache'[n] : c = d
    BY DEF IInv, Shapes
  <2>2. \A q \in Requests : IsRequest(request'[q])
    BY DEF IInv, Shapes
  <2> QED BY <1>1, <2>1, <2>2 DEF IInv, Shapes, IsRequest
<1>3. Contents'
  <2>1. \A c \in row' : Stored(c)
    BY DEF IInv, Contents
  <2>2. \A n \in Processes : \A c \in cache'[n] : Current(c) /\ row' # {}
    BY DEF IInv, Contents
  <2>3. \A q \in Requests : HeldOK(request'[q])
    BY DEF IInv, Contents
  <2>4. \A q \in Requests : HeldOK(request[q])'
    BY <2>3 DEF HeldOK
  <2> QED BY <2>1, <2>2, <2>4 DEF Contents, Stored
<1>4. Fresh'
  <2>1. \A n \in Processes \ doubtful' : \A c \in cache'[n] : \E d \in row : c = Seen(d)
    BY <1>1 DEF IInv, Fresh, StaleByOverlapOnly
  <2>2. ASSUME NEW q \in Requests, request'[q].pc # "idle", request'[q].at \notin doubtful'
        PROVE  HeldFresh(request'[q])
    <3>1. CASE request'[q].at \in doubtful
      <4>1. request'[q].pc \notin Holding
        BY <1>1, <2>2, <3>1 DEF Holds
      <4> QED BY <4>1, NothingHeld
    <3>2. CASE request'[q].at \notin doubtful
      BY <2>2, <3>2 DEF IInv, Fresh, At, Of
    <3> QED BY <3>1, <3>2
  <2>3. \A q \in Requests : (~At(q, "idle") /\ Of(q) \notin doubtful => HeldFresh(request[q]))'
    BY <2>2 DEF At, Of, HeldFresh, Seen, Merge
  <2> QED BY <2>1, <2>3 DEF Fresh, StaleByOverlapOnly
<1> QED BY <1>2, <1>3, <1>4 DEF IInv

(* A request that writes the row leaves everyone else who remembers or      *)
(* holds something in doubt.                                                *)
LEMMA Write ==
  ASSUME IInv, NEW r \in Requests, NEW c, row' = {c}, Stored(c),
         UNCHANGED <<exists, cache>>, Doubt(Behind(r)),
         request' = [q \in Requests |-> request'[q]],
         \A q \in Requests : q # r => request'[q] = request[q],
         IsRequest(request'[r]), request'[r].at = request[r].at,
         \/ request'[r].pc = "clear"
         \/ request'[r].pc = "fill" /\ Current(request'[r].copy) /\ request'[r].copy = Seen(c)
  PROVE  IInv'
<1>1. Behind(r) \in SUBSET Processes
  BY DEF Behind
<1>2. /\ doubtful' \subseteq Processes
      /\ \A n \in doubtful' : cache'[n] # {} \/ \E q \in Requests : Holds(request'[q], n)
      /\ \A n \in doubtful \cup Behind(r) : n \notin doubtful' =>
           cache'[n] = {} /\ \A q \in Requests : ~Holds(request'[q], n)
  BY <1>1, DoubtShape DEF IInv
<1>3. Shapes'
  <2>1. \A q \in Requests : IsRequest(request'[q])
    BY DEF IInv, Shapes
  <2> QED BY <1>2, <2>1 DEF IInv, Shapes, IsRequest
<1>4. Contents'
  <2>1. \A q \in Requests : HeldOK(request[q])'
    <3>1. ASSUME NEW q \in Requests, q # r
          PROVE  HeldOK(request[q])'
      BY <3>1 DEF IInv, Contents, HeldOK
    <3>2. HeldOK(request[r])'
      BY DEF HeldOK
    <3> QED BY <3>1, <3>2
  <2> QED BY <2>1 DEF IInv, Contents, Stored
<1>5. Fresh'
  <2>1. \A n \in Processes \ doubtful' : cache'[n] = {}
    BY <1>2 DEF Behind
  <2>2. ASSUME NEW q \in Requests, q # r, request'[q].pc # "idle", request'[q].at \notin doubtful'
        PROVE  request'[q].pc \notin Holding
    <3>1. request'[q].at \in Processes /\ request'[q] = request[q]
      BY <2>2, <1>3 DEF Shapes, IsRequest, Idle
    <3> QED BY <1>2, <2>2, <3>1 DEF Behind, Holds
  <2>3. \A q \in Requests : (~At(q, "idle") /\ Of(q) \notin doubtful => HeldFresh(request[q]))'
    <3>1. ASSUME NEW q \in Requests, q # r, request'[q].pc # "idle",
                 request'[q].at \notin doubtful'
          PROVE  HeldFresh(request[q])'
      BY <2>2, <3>1 DEF HeldFresh, Holding
    <3>2. HeldFresh(request[r])'
      BY DEF HeldFresh
    <3> QED BY <3>1, <3>2 DEF At, Of
  <2> QED BY <2>1, <2>3 DEF Fresh, StaleByOverlapOnly
<1> QED BY <1>3, <1>4, <1>5 DEF IInv

(* What getSettings returns ends a read, and goes on, merged, in an update  *)
(* that may be stored.                                                      *)
LEMMA ReturnShape ==
  ASSUME Shapes, NEW r \in Requests, ~At(r, "idle"), row # {},
         NEW c, Current(c), Of(r) \notin doubtful => \E d \in row : c = Seen(d), Return(r, c)
  PROVE  /\ request' = [q \in Requests |-> request'[q]]
         /\ \A q \in Requests : q # r => request'[q] = request[q]
         /\ IsRequest(request'[r]) /\ HeldOK(request'[r])
         /\ request'[r].pc # "idle" /\ request'[r].at \notin doubtful => HeldFresh(request'[r])
<1>1. CASE End(r)
  <2>1. request'[r].pc \notin Holding
    BY <1>1, EndShape DEF Holding
  <2> QED BY <1>1, <2>1, EndShape, NothingHeld
<1>2. CASE ~End(r)
  <2>1. PICK patch \in request[r].patch, pc \in {"organize", "persist"} :
          Accepts(c, patch) /\ Goto(r, pc, Merge(c, patch))
    BY <1>2 DEF Return
  <2>2. pc \in Step
    BY DEF Step, Holding
  <2>3. /\ request' = [q \in Requests |-> request'[q]]
        /\ \A q \in Requests : q # r => request'[q] = request[q]
        /\ IsRequest(request'[r]) /\ request'[r].pc = pc
        /\ request'[r].copy = Merge(c, patch)
        /\ request'[r].at = request[r].at /\ request'[r].patch = request[r].patch
    BY <2>1, <2>2, GotoShape
  <2>4. /\ DOMAIN Merge(c, patch) = Fields /\ Current(Merge(c, patch))
        /\ Valid(Merge(c, patch))
    BY <2>1, MergeReturns DEF Current, Accepts
  <2>5. HeldOK(request'[r])
    BY <2>1, <2>3, <2>4 DEF HeldOK
  <2>6. ASSUME request'[r].at \notin doubtful
        PROVE  HeldFresh(request'[r])
    <3>1. PICK d \in row : c = Seen(d)
      BY <2>3, <2>6 DEF Of
    <3>2. patch \in request'[r].patch /\ request'[r].copy = Merge(Seen(d), patch)
      BY <2>3, <3>1
    <3> QED BY <2>1, <2>3, <3>2 DEF HeldFresh
  <2> QED BY <2>3, <2>5, <2>6
<1> QED BY <1>1, <1>2

-------------------------------------------------------------------------------
(* The actions keep the invariant.                                          *)
LEMMA InitOK == ASSUME SettingsAssumption, Init PROVE IInv
<1>1. \A c \in Legacy : Stored(c)
  BY DEF SettingsAssumption, Stored
<1> QED BY <1>1, NothingHeld DEF Init, IInv, Shapes, Contents, Fresh, StaleByOverlapOnly,
                                 IsRequest, Idle, At, HeldOK

(* A new league has the defaults, and nobody has cached it.                 *)
LEMMA CreateOK == ASSUME IInv, Create PROVE IInv'
<1>1. Stored(Defaults)
  BY DefaultsCurrent, DefaultsValid DEF Stored
<1>2. Shapes'
  BY DEF IInv, Shapes, Create, IsRequest
<1>3. Contents'
  BY <1>1 DEF IInv, Contents, Create, HeldOK, Stored
<1>4. \A n \in Processes \ doubtful : cache[n] = {}
  BY DEF IInv, Fresh, StaleByOverlapOnly, Create
<1>5. ASSUME NEW r \in Requests, ~At(r, "idle"), Of(r) \notin doubtful
      PROVE  HeldFresh(request[r])'
  <2>1. HeldFresh(request[r])
    BY <1>5 DEF IInv, Fresh
  <2>2. row = {} /\ row' = {Defaults} /\ request' = request
    BY DEF Create
  <2> QED BY <2>1, <2>2 DEF HeldFresh
<1>6. Fresh'
  BY <1>4, <1>5 DEF Fresh, StaleByOverlapOnly, Create, At, Of
<1> QED BY <1>2, <1>3, <1>6 DEF IInv

(* A league that is removed.                                                *)
LEMMA RemoveOK == ASSUME IInv, Remove PROVE IInv'
BY Quiet DEF Remove, IInv, Shapes

(* A request that arrives holds nothing yet.                                *)
LEMMA ArriveOK == ASSUME IInv, NEW r \in Requests, Arrive(r) PROVE IInv'
<1>1. PICK n \in Processes : At(r, "idle") /\ \E patch : Accept(r, n, patch)
  BY DEF Arrive, Read, Update
<1>2. /\ request' = [q \in Requests |-> request'[q]]
      /\ \A q \in Requests : q # r => request'[q] = request[q]
      /\ IsRequest(request'[r]) /\ request'[r].pc = "cache" /\ request'[r].at = n
  BY <1>1, AcceptShape DEF IInv
<1>3. HeldOK(request'[r]) /\ HeldFresh(request'[r])
  BY <1>2, NothingHeld DEF Holding
<1>4. \A q \in Requests, m \in Processes : Holds(request[q], m) => Holds(request'[q], m)
  BY <1>1, <1>2 DEF Holds, At, Holding
<1>5. UNCHANGED <<exists, row, cache, doubtful>>
  BY DEF Arrive, Read, Update
<1> QED BY <1>2, <1>3, <1>4, <1>5, Quiet DEF IInv, Shapes

(* A lookup returns what the cache of its process has, or goes to the row.  *)
LEMMA LookUpOK == ASSUME IInv, NEW r \in Requests, LookUp(r) PROVE IInv'
<1>1. ~At(r, "idle") /\ UNCHANGED <<exists, row, cache>> /\ Doubt({}) /\ Of(r) \in Processes
  BY OfProcess DEF LookUp, At, IInv
<1>2. CASE cache[Of(r)] = {}
  <2>1. Goto(r, "load", Unset) /\ "load" \in Step
    BY <1>2 DEF LookUp, Step
  <2>2. /\ request' = [q \in Requests |-> request'[q]]
        /\ \A q \in Requests : q # r => request'[q] = request[q]
        /\ IsRequest(request'[r]) /\ request'[r].pc = "load"
    BY <1>1, <2>1, GotoShape DEF IInv
  <2>3. HeldOK(request'[r]) /\ HeldFresh(request'[r])
    BY <2>2, NothingHeld DEF Holding
  <2> QED BY <1>1, <2>2, <2>3, Quiet DEF IInv, Shapes
<1>3. CASE cache[Of(r)] # {}
  <2>1. PICK c \in cache[Of(r)] : Return(r, c)
    BY <1>3 DEF LookUp
  <2>2. /\ Current(c) /\ row # {}
        /\ Of(r) \notin doubtful => \E d \in row : c = Seen(d)
    BY <1>1 DEF IInv, Contents, Fresh, StaleByOverlapOnly
  <2>3. /\ request' = [q \in Requests |-> request'[q]]
        /\ \A q \in Requests : q # r => request'[q] = request[q]
        /\ IsRequest(request'[r]) /\ HeldOK(request'[r])
        /\ request'[r].pc # "idle" /\ request'[r].at \notin doubtful => HeldFresh(request'[r])
    BY <1>1, <2>1, <2>2, ReturnShape DEF IInv
  <2> QED BY <1>1, <2>3, Quiet DEF IInv, Shapes
<1> QED BY <1>2, <1>3

(* What is loaded is the row; a read of it may be overtaken from here on.   *)
LEMMA LoadOK == ASSUME SettingsAssumption, IInv, NEW r \in Requests, Load(r) PROVE IInv'
<1>1. /\ ~At(r, "idle") /\ UNCHANGED <<exists, row, cache, doubtful>>
      /\ ~\E n \in Processes : Holds(request[r], n)
  BY DEF Load, At, Holds, Holding
<1>2. PICK pc \in {"missing", "migrate", "fill"} : \E copy :
        /\ Goto(r, pc, copy)
        /\ pc = "missing" => row = {}
        /\ pc = "migrate" => \E c \in row : NeedsMigration(c) /\ copy = Migrate(c)
        /\ pc = "fill" => \E c \in row : ~NeedsMigration(c) /\ copy = Merge(Defaults, c)
  BY DEF Load
<1>3. PICK copy :
        /\ Goto(r, pc, copy)
        /\ pc = "missing" => row = {}
        /\ pc = "migrate" => \E c \in row : NeedsMigration(c) /\ copy = Migrate(c)
        /\ pc = "fill" => \E c \in row : ~NeedsMigration(c) /\ copy = Merge(Defaults, c)
  BY <1>2
<1>4. pc \in Step
  BY DEF Step, Holding
<1>5. /\ request' = [q \in Requests |-> request'[q]]
      /\ \A q \in Requests : q # r => request'[q] = request[q]
      /\ IsRequest(request'[r]) /\ request'[r].pc = pc /\ request'[r].copy = copy
      /\ request'[r].at = request[r].at /\ request'[r].patch = request[r].patch
  BY <1>1, <1>3, <1>4, GotoShape DEF IInv
<1>6. \A c \in row : NeedsMigration(c) => c \in Legacy
  BY CurrentNeedsNone DEF IInv, Contents, Stored
<1>7. \A c \in row : ~NeedsMigration(c) =>
        Merge(Defaults, c) = Seen(c) /\ Current(Merge(Defaults, c))
  BY MergeReturns, DefaultsCurrent DEF Seen, Current
<1>8. HeldOK(request'[r])
  BY <1>3, <1>5, <1>6, <1>7 DEF HeldOK
<1>9. HeldFresh(request'[r])
  BY <1>3, <1>5, <1>7 DEF HeldFresh
<1>10. \A q \in Requests, n \in Processes : Holds(request[q], n) => Holds(request'[q], n)
  BY <1>1, <1>5
<1> QED BY <1>1, <1>5, <1>8, <1>9, <1>10, Quiet DEF IInv, Shapes

(* A request that ends, whatever caches it empties.                         *)
LEMMA EndOK ==
  ASSUME IInv, NEW r \in Requests, End(r), row' = row, exists' \in BOOLEAN, Doubt({}),
         cache' = [n \in Processes |-> cache'[n]],
         \A n \in Processes : cache'[n] = cache[n] \/ cache'[n] = {}
  PROVE  IInv'
<1>1. /\ request' = [q \in Requests |-> request'[q]]
      /\ \A q \in Requests : q # r => request'[q] = request[q]
      /\ IsRequest(request'[r]) /\ request'[r].pc = "idle"
  BY EndShape DEF IInv
<1>2. HeldOK(request'[r]) /\ HeldFresh(request'[r])
  BY <1>1, NothingHeld DEF Holding
<1> QED BY <1>1, <1>2, Quiet

(* A request for a league that is not there, or has no settings row.        *)
LEMMA MissingOK == ASSUME IInv, NEW r \in Requests, Missing(r) PROVE IInv'
<1>1. ~At(r, "idle") /\ UNCHANGED <<exists, row, cache>> /\ Doubt({})
  BY DEF Missing, At
<1>2. CASE exists
  <2>1. Goto(r, "upsert", Defaults) /\ "upsert" \in Step
    BY <1>2 DEF Missing, Step, Holding
  <2>2. /\ request' = [q \in Requests |-> request'[q]]
        /\ \A q \in Requests : q # r => request'[q] = request[q]
        /\ IsRequest(request'[r]) /\ request'[r].pc = "upsert" /\ request'[r].copy = Defaults
        /\ request'[r].at = request[r].at
    BY <1>1, <2>1, GotoShape DEF IInv
  <2>3. HeldOK(request'[r])
    BY <2>2 DEF HeldOK
  <2>4. request'[r].at \notin doubtful => HeldFresh(request'[r])
    BY <1>1, <2>2 DEF IInv, Fresh, HeldFresh, Missing, At, Of
  <2> QED BY <1>1, <2>2, <2>3, <2>4, Quiet DEF IInv, Shapes
<1>3. CASE ~exists
  <2>1. End(r)
    BY <1>3 DEF Missing
  <2> QED BY <1>1, <2>1, EndOK DEF IInv, Shapes
<1> QED BY <1>2, <1>3

(* An upgrade writes what the request had read: it is stored, and valid.    *)
LEMMA UpgradeOK ==
  ASSUME SettingsAssumption, IInv, NEW r \in Requests, Upgrade(r) PROVE IInv'
<1> DEFINE copy == request[r].copy
<1>1. ~At(r, "idle") /\ UNCHANGED <<exists, cache>> /\ Doubt(Behind(r)) /\ row' = {copy}
  BY DEF Upgrade, At
<1>2. copy = Defaults \/ \E d \in Legacy : copy = Migrate(d)
  BY DEF Upgrade, IInv, Contents, HeldOK
<1>3. Stored(copy) /\ Current(copy)
  BY <1>2, DefaultsCurrent, DefaultsValid, MigrateReturns DEF Stored
<1>4. Seen(copy) = Merge(Defaults, copy) /\ Current(Merge(Defaults, copy))
  BY <1>3, SeenReturns
<1>5. Goto(r, "fill", Merge(Defaults, copy)) /\ "fill" \in Step
  BY DEF Upgrade, Step, Holding
<1>6. /\ request' = [q \in Requests |-> request'[q]]
      /\ \A q \in Requests : q # r => request'[q] = request[q]
      /\ IsRequest(request'[r]) /\ request'[r].pc = "fill"
      /\ request'[r].copy = Merge(Defaults, copy) /\ request'[r].at = request[r].at
  BY <1>1, <1>5, GotoShape DEF IInv
<1> HIDE DEF copy
<1> QED BY <1>1, <1>3, <1>4, <1>6, Write

(* A cache that is filled with what the request holds.                      *)
LEMMA FillOK == ASSUME IInv, NEW r \in Requests, Fill(r) PROVE IInv'
<1> DEFINE c == request[r].copy
<1>1. /\ ~At(r, "idle") /\ UNCHANGED <<exists, row>> /\ Doubt({}) /\ Return(r, c)
      /\ cache' = [cache EXCEPT ![Of(r)] = {c}]
  BY DEF Fill, At
<1>2. /\ Current(c) /\ row # {}
      /\ Of(r) \notin doubtful => \E d \in row : c = Seen(d)
  BY <1>1 DEF IInv, Contents, Fresh, Fill, HeldOK, HeldFresh, At, Of
<1> HIDE DEF c
<1>3. /\ request' = [q \in Requests |-> request'[q]]
      /\ \A q \in Requests : q # r => request'[q] = request[q]
      /\ IsRequest(request'[r]) /\ HeldOK(request'[r])
      /\ request'[r].pc # "idle" /\ request'[r].at \notin doubtful => HeldFresh(request'[r])
  BY <1>1, <1>2, ReturnShape DEF IInv
<1>4. /\ cache' = [n \in Processes |-> cache'[n]]
      /\ \A n \in Processes : cache'[n] = cache[n] \/ (n = Of(r) /\ cache'[n] = {c})
  BY <1>1 DEF IInv, Shapes
<1> QED BY <1>1, <1>2, <1>3, <1>4, Quiet DEF IInv, Shapes

(* An update that turns the requirement on organizes before it writes.      *)
LEMMA OrganizeOK == ASSUME IInv, NEW r \in Requests, Organize(r) PROVE IInv'
<1>1. /\ ~At(r, "idle") /\ UNCHANGED <<exists, row, cache, doubtful>>
      /\ Goto(r, "persist", request[r].copy) /\ "persist" \in Step /\ "persist" \in Holding
  BY DEF Organize, At, Step, Holding
<1>2. /\ request' = [q \in Requests |-> request'[q]]
      /\ \A q \in Requests : q # r => request'[q] = request[q]
      /\ IsRequest(request'[r]) /\ request'[r].pc = "persist"
      /\ request'[r].copy = request[r].copy
      /\ request'[r].at = request[r].at /\ request'[r].patch = request[r].patch
  BY <1>1, GotoShape DEF IInv
<1>3. HeldOK(request'[r])
  BY <1>2 DEF IInv, Contents, HeldOK, Organize, At
<1>4. request'[r].at \notin doubtful => HeldFresh(request'[r])
  BY <1>1, <1>2 DEF IInv, Fresh, HeldFresh, Organize, At, Of
<1>5. \A q \in Requests, n \in Processes : Holds(request[q], n) => Holds(request'[q], n)
  BY <1>1, <1>2 DEF Holds
<1> QED BY <1>1, <1>2, <1>3, <1>4, <1>5, Quiet DEF IInv, Shapes

(* An update writes the row, and all others that hold it are in doubt.      *)
LEMMA PersistOK == ASSUME IInv, NEW r \in Requests, Persist(r) PROVE IInv'
<1> DEFINE copy == request[r].copy
<1>1. /\ ~At(r, "idle") /\ UNCHANGED <<exists, cache>> /\ Doubt(Behind(r)) /\ row' = {copy}
      /\ Goto(r, "clear", Unset) /\ "clear" \in Step
  BY DEF Persist, At, Step
<1>2. Stored(copy)
  BY DEF Persist, At, IInv, Contents, HeldOK, Stored
<1>3. /\ request' = [q \in Requests |-> request'[q]]
      /\ \A q \in Requests : q # r => request'[q] = request[q]
      /\ IsRequest(request'[r]) /\ request'[r].pc = "clear" /\ request'[r].at = request[r].at
  BY <1>1, GotoShape DEF IInv
<1> HIDE DEF copy
<1> QED BY <1>1, <1>2, <1>3, Write

(* The writer clears the cache of its own process.                          *)
LEMMA ClearOK == ASSUME IInv, NEW r \in Requests, Clear(r) PROVE IInv'
BY EndOK DEF Clear, IInv, Shapes

(* A call that fails ends the request.                                      *)
LEMMA FailOK == ASSUME IInv, NEW r \in Requests, Fail(r) PROVE IInv'
BY EndOK DEF Fail, IInv, Shapes

(* A cache that expires.                                                    *)
LEMMA ExpireOK == ASSUME IInv, NEW n \in Processes, Expire(n) PROVE IInv'
BY Quiet DEF Expire, IInv, Shapes

(* A restart empties a cache and forgets the requests of the process.       *)
LEMMA RestartOK == ASSUME IInv, NEW n \in Processes, Restart(n) PROVE IInv'
<1>1. HeldOK(Idle) /\ IsRequest(Idle) /\ Idle.pc = "idle"
  BY NothingHeld DEF Idle, Holding, IsRequest
<1> QED BY <1>1, Quiet DEF Restart, IInv, Shapes

(* No step, nor a stutter, breaks the invariant.                            *)
LEMMA StepOK == ASSUME SettingsAssumption, IInv, [Next]_vars PROVE IInv'
<1>1. ASSUME NEW r \in Requests, Proceed(r)
      PROVE  IInv'
  BY <1>1, LookUpOK, LoadOK, MissingOK, UpgradeOK, FillOK, OrganizeOK, PersistOK, ClearOK, FailOK
     DEF Proceed
<1>2. CASE UNCHANGED vars
  BY <1>2 DEF vars, IInv, Shapes, Contents, Fresh, StaleByOverlapOnly, HeldOK, HeldFresh, At, Of,
              IsRequest, Stored, Holds
<1> QED BY <1>1, <1>2, CreateOK, RemoveOK, ArriveOK, ExpireOK, RestartOK DEF Next

-------------------------------------------------------------------------------
(* The results, for any requests, processes, updates and old rows that the  *)
(* assumption admits.                                                       *)

(* The parts of the inductive invariant always hold.                        *)
THEOREM Invariant == ASSUME SettingsAssumption PROVE Spec => []IInv
<1>1. SettingsAssumption /\ Init => IInv
  BY InitOK
<1>2. SettingsAssumption /\ IInv /\ [Next]_vars => IInv'
  BY StepOK
<1> QED BY <1>1, <1>2, PTL DEF Spec

(* A set without two members has at most one.                               *)
LEMMA AtMostOne == ASSUME NEW S, \A c, d \in S : c = d PROVE Cardinality(S) <= 1
<1>1. CASE S = {}
  BY <1>1, FS_EmptySet
<1>2. CASE S # {}
  <2>1. PICK c : S = {c}
    BY <1>2
  <2>2. Cardinality({c}) = 1
    BY FS_Singleton
  <2> QED BY <2>1, <2>2
<1> QED BY <1>1, <1>2

(* The invariant types the variables.                                       *)
LEMMA SettingsTyped == IInv => TypeOK
<1> SUFFICES ASSUME IInv PROVE TypeOK
  OBVIOUS
<1>1. /\ exists \in BOOLEAN /\ Cardinality(row) <= 1
      /\ \A c \in row : DOMAIN c = Fields
      /\ DOMAIN cache = Processes
  BY AtMostOne DEF IInv, Shapes, Contents, Stored
<1>2. \A n \in Processes : Cardinality(cache[n]) <= 1 /\ \A c \in cache[n] : ~NeedsMigration(c)
  BY AtMostOne, CurrentNeedsNone DEF IInv, Shapes, Contents
<1>3. \A r \in Requests : request[r].pc \in {"idle"} \cup Step
  BY DEF IInv, Shapes, IsRequest, Idle
<1>4. \A n \in doubtful : cache[n] # {} \/ \E r \in Requests : Holds(request[r], n)
  BY DEF IInv, Shapes
<1>5. \A r \in Requests : request[r].pc \in {"fill", "organize", "persist"} => row # {}
  BY DEF IInv, Contents, HeldOK
<1> QED BY <1>1, <1>2, <1>3, <1>4, <1>5 DEF TypeOK

(* Rows and caches hold at most one configuration, rows are complete, what  *)
(* a process remembers needs no migration, and only a process that has      *)
(* something in hand or in mind is in doubt.                                *)
THEOREM TypeCorrect == ASSUME SettingsAssumption PROVE Spec => []TypeOK
BY SettingsTyped, Invariant, PTL

(* What is stored was validated, or is from before, and a process that is   *)
(* not in doubt remembers what is stored.                                   *)
LEMMA SettingsClaims == IInv => StoredValid /\ StaleByOverlapOnly
<1>1. IInv => StoredValid
  BY DEF IInv, Contents, Stored, StoredValid
<1>2. IInv => StaleByOverlapOnly
  BY DEF IInv, Fresh
<1> QED BY <1>1, <1>2

(* Whatever an update stores has been validated as a whole, however many    *)
(* updates race; only a row from before the metadata, or its migration, was *)
(* never looked at.                                                         *)
THEOREM EveryStoredIsValid == ASSUME SettingsAssumption PROVE Spec => []StoredValid
BY SettingsClaims, Invariant, PTL

(* A process answers with something other than the row only if the row was  *)
(* written while it remembered or held what it had read before.             *)
THEOREM StaleOnlyByOverlap == ASSUME SettingsAssumption PROVE Spec => []StaleByOverlapOnly
BY SettingsClaims, Invariant, PTL

(* Each way to write the row: a migration or an update.                     *)
LEMMA SettingsKeep == IInv /\ [Next]_vars => [Keeps]_vars
<1>1. ASSUME IInv, NEW r \in Requests, Upgrade(r)
      PROVE  Keeps
  <2>1. ~At(r, "idle") /\ row' = {request[r].copy}
    BY <1>1 DEF Upgrade, At
  <2>2. CASE Of(r) \in doubtful
    BY <2>1, <2>2 DEF Keeps
  <2>3. CASE Of(r) \notin doubtful
    <3>1. \A c \in row : request[r].copy = c \/ request[r].copy = Migrate(c)
      BY <1>1, <2>1, <2>3 DEF IInv, Shapes, Contents, Fresh, HeldOK, HeldFresh, Upgrade
    <3> QED BY <2>1, <3>1 DEF Keeps
  <2> QED BY <2>2, <2>3
<1>2. ASSUME IInv, NEW r \in Requests, Persist(r)
      PROVE  Keeps
  <2>1. ~At(r, "idle") /\ At(r, "persist") /\ row' = {request[r].copy}
    BY <1>2 DEF Persist, At
  <2>2. CASE Of(r) \in doubtful
    BY <2>1, <2>2 DEF Keeps
  <2>3. CASE Of(r) \notin doubtful
    <3>1. HeldFresh(request[r])
      BY <1>2, <2>1, <2>3 DEF IInv, Fresh
    <3>2. PICK e \in row : \E p \in request[r].patch : request[r].copy = Merge(Seen(e), p)
      BY <2>1, <3>1 DEF HeldFresh, At
    <3>3. PICK patch \in request[r].patch : request[r].copy = Merge(Seen(e), patch)
      BY <3>2
    <3>4. \A c \in row : c = e
      BY <1>2 DEF IInv, Shapes
    <3>5. \A f \in Fields : request[r].copy[f] # Seen(e)[f] =>
            patch[f] # {} /\ request[r].copy[f] = patch[f]
      <4>1. \A f \in Fields : Merge(Seen(e), patch)[f] # Seen(e)[f] =>
              patch[f] # {} /\ Merge(Seen(e), patch)[f] = patch[f]
        BY MergeReturns
      <4> QED BY <3>3, <4>1
    <3> QED BY <2>1, <3>4, <3>5 DEF Keeps
  <2> QED BY <2>2, <2>3
<1>3. IInv /\ [Next]_vars => [Keeps]_vars
  <2> SUFFICES ASSUME IInv, Next PROVE Keeps
    OBVIOUS
  <2>1. CASE row' = row
    BY <2>1 DEF Keeps, IInv, Shapes
  <2>2. CASE row' # row
    <3>1. Create \/ \E r \in Requests : Upgrade(r) \/ Persist(r)
      BY <2>2 DEF Next, Remove, Arrive, Read, Update, Proceed, LookUp, Load, Missing, Fill,
                  Organize, Clear, Fail, Expire, Restart
    <3>2. CASE Create
      BY <3>2 DEF Create, Keeps
    <3> QED BY <1>1, <1>2, <3>1, <3>2
  <2> QED BY <2>1, <2>2
<1> QED BY <1>3

(* A write changes the row by what it was asked to change and nothing else, *)
(* unless its process was in doubt about what it merged into.               *)
THEOREM KeptUnlessDoubtful == ASSUME SettingsAssumption PROVE Spec => UpdatesKept
BY SettingsKeep, Invariant, PTL DEF Spec, UpdatesKept

-------------------------------------------------------------------------------
(* What an instance counts is what the library's theorems are about.        *)
LEMMA SameCounts ==
  /\ \A S : TR!Cardinality(S) = Cardinality(S)
  /\ \A S : GS!Cardinality(S) = Cardinality(S)
  /\ \A S : RO!Cardinality(S) = Cardinality(S)
  /\ \A S : RO!IsFiniteSet(S) <=> IsFiniteSet(S)
<1>1. \A S : TR!Cardinality(S) = Cardinality(S)
  BY DEF Cardinality, TR!Cardinality
<1>2. \A S : GS!Cardinality(S) = Cardinality(S)
  BY DEF Cardinality, GS!Cardinality
<1>3. \A S : RO!Cardinality(S) = Cardinality(S)
  BY DEF Cardinality, RO!Cardinality
<1>4. \A S : RO!IsFiniteSet(S) <=> IsFiniteSet(S)
  BY DEF IsFiniteSet, RO!IsFiniteSet
<1> QED BY <1>1, <1>2, <1>3, <1>4

-------------------------------------------------------------------------------
(* From its issue until it is stored a pair is in the hands of the one      *)
(* request that it was issued to.                                           *)
TokensOwn == {"profile", "store", "write"}

TokensRequest(q) ==
  \/ q = TL!Idle
  \/ /\ q = [pc |-> q.pc, pair |-> q.pair, tries |-> q.tries]
     /\ q.pc \in TL!Step /\ q.pair \in 0..issued

TokensTypes ==
  /\ issued \in 0..MaxPairs /\ usable \cup valid \cup lost \subseteq 1..issued
  /\ next \in [TL!Pairs -> 0..issued] /\ \A n \in TL!Pairs : next[n] # 0 => n <= issued
  /\ user \in BOOLEAN /\ out \in BOOLEAN
  /\ access = refresh /\ refresh \in 0..issued /\ (~user => refresh = 0)
  /\ request = [r \in Requests |-> request[r]]
  /\ \A r \in Requests : TokensRequest(request[r])

(* Nothing is known of a pair in hand but that Discord accepts it, unless   *)
(* it was revoked; nobody else has it, and it is not stored.                *)
TokensInHand ==
  \A r \in Requests : request[r].pc \in TokensOwn =>
    /\ TL!Held(r) \in usable \cup lost /\ TL!Held(r) # refresh
    /\ \A q \in Requests \ {r} : request[q].pc # "idle" => TL!Held(q) # TL!Held(r)

TokensInv == TokensTypes /\ TokensInHand /\ TL!LockedOutByLossOnly

-------------------------------------------------------------------------------
(* The ways on of a request.                                                *)
LEMMA TokensGotoShape ==
  ASSUME TokensTypes, NEW r \in Requests, NEW pc \in TL!Step, NEW pair \in 0..issued', TL!Goto(r, pc, pair)
  PROVE  /\ request' = [q \in Requests |-> request'[q]]
         /\ \A q \in Requests : q # r => request'[q] = request[q]
         /\ request'[r] = [pc |-> pc, pair |-> pair, tries |-> 0]
         /\ TokensRequest(request[r])'
<1>1. request'[r] = [pc |-> pc, pair |-> pair, tries |-> 0]
  BY DEF TokensTypes, TL!Goto
<1> QED BY <1>1 DEF TokensTypes, TL!Goto, TokensRequest

(* A request that ends, and nobody else moved.                              *)
LEMMA TokensEndShape ==
  ASSUME TokensTypes, NEW r \in Requests, TL!End(r)
  PROVE  /\ request' = [q \in Requests |-> request'[q]]
         /\ \A q \in Requests : q # r => request'[q] = request[q]
         /\ TokensRequest(request[r])' /\ request'[r].pc = "idle"
BY DEF TokensTypes, TL!End, TokensRequest, TL!Idle

(* What a request holds was issued.                                         *)
LEMMA TokensHeldIssued ==
  ASSUME TokensTypes, NEW r \in Requests, request[r].pc # "idle"
  PROVE  request[r].pc \in TL!Step /\ TL!Held(r) \in 0..issued
BY DEF TokensTypes, TokensRequest, TL!Idle, TL!Held

(* A step of one request changes neither what Discord knows nor what is     *)
(* stored: the invariant is kept if it goes on with the pair that is its    *)
(* own, or with one that is nobody's.                                       *)
LEMMA TokensMoves ==
  ASSUME TokensInv, NEW r \in Requests, UNCHANGED <<TL!discord, user, access, refresh, lost>>,
         out' \in BOOLEAN, request' = [q \in Requests |-> request'[q]],
         \A q \in Requests : q # r => request'[q] = request[q],
         TokensRequest(request[r])', ~TL!At(r, "write"),
         request'[r].pc # "write",
         \/ request'[r].pc = "idle"
         \/ request[r].pc \in TokensOwn /\ request'[r].pair = request[r].pair
         \/ request'[r].pc \notin TokensOwn /\ request'[r].pair = refresh
         \/ /\ request'[r].pc \notin TokensOwn /\ request[r].pc \notin TokensOwn \cup {"idle"}
            /\ request'[r].pair = request[r].pair
  PROVE  TokensInv'
<1>1. TokensTypes'
  BY DEF TokensInv, TokensTypes, TokensRequest, TL!discord
<1>2. TokensInHand'
  <2>1. request'[r].pc \in TokensOwn =>
          request[r].pc \in TokensOwn /\ request'[r].pair = request[r].pair
    BY DEF TokensOwn
  <2>2. request'[r].pc # "idle" =>
          \/ request[r].pc # "idle" /\ request'[r].pair = request[r].pair
          \/ request'[r].pair = refresh
    BY DEF TokensOwn
  <2> QED BY <2>1, <2>2 DEF TokensInv, TokensInHand, TL!Held, TL!discord, TokensOwn
<1>3. TL!LockedOutByLossOnly'
  BY DEF TokensInv, TL!LockedOutByLossOnly, TL!At, TL!Held, TL!discord
<1> QED BY <1>1, <1>2, <1>3 DEF TokensInv

-------------------------------------------------------------------------------
(* The actions keep the invariant.                                          *)
LEMMA TokensInit == ASSUME TL!TokenAssumption, TL!Init PROVE TokensInv
<1>1. TokensTypes
  <2>1. issued \in 0..MaxPairs /\ refresh \in 0..issued
    BY DEF TL!TokenAssumption, TL!Init
  <2>2. next \in [TL!Pairs -> 0..issued]
    BY DEF TL!Init
  <2>3. \A r \in Requests : TokensRequest(request[r])
    BY DEF TL!Init, TokensRequest
  <2> QED BY <2>1, <2>2, <2>3 DEF TL!Init, TokensTypes
<1>2. TokensInHand
  BY DEF TL!Init, TokensInHand, TL!Idle, TokensOwn
<1>3. TL!LockedOutByLossOnly
  BY DEF TL!Init, TL!LockedOutByLossOnly
<1> QED BY <1>1, <1>2, <1>3 DEF TokensInv

(* Discord alone.                                                           *)
LEMMA TokensExpire == ASSUME TokensInv, NEW n \in TL!Pairs, TL!Expire(n) PROVE TokensInv'
BY DEF TL!Expire, TokensInv, TokensTypes, TokensInHand, TL!LockedOutByLossOnly, TokensRequest, TL!Held, TL!At

(* Who withdraws his authorization loses every token that was issued.       *)
LEMMA TokensDeauthorize == ASSUME TokensInv, TL!Deauthorize PROVE TokensInv'
<1>1. TokensTypes'
  BY DEF TL!Deauthorize, TokensInv, TokensTypes, TokensRequest
<1>2. /\ lost' = lost \cup 1..issued /\ usable' = {}
      /\ UNCHANGED <<issued, next, refresh, request>>
  BY DEF TL!Deauthorize
<1>3. TokensInHand'
  BY <1>2 DEF TokensInv, TokensTypes, TokensInHand, TL!Held
<1>4. TL!LockedOutByLossOnly'
  BY <1>2 DEF TokensInv, TokensTypes, TL!LockedOutByLossOnly
<1> QED BY <1>1, <1>3, <1>4 DEF TokensInv

(* A user that is deleted takes his tokens with him.                        *)
LEMMA TokensDeleteUser == ASSUME TL!TokenAssumption, TokensInv, TL!DeleteUser PROVE TokensInv'
<1>1. TokensTypes'
  <2>1. \A r \in Requests : TokensRequest(request[r])'
    BY DEF TL!DeleteUser, TokensInv, TokensTypes, TokensRequest, TL!discord
  <2>2. issued \in Nat /\ UNCHANGED issued
    BY DEF TL!TokenAssumption, TL!DeleteUser, TokensInv, TokensTypes, TL!discord
  <2>3. refresh' = 0 /\ user' = FALSE
    BY DEF TL!DeleteUser
  <2>4. refresh' \in 0..issued'
    BY <2>2, <2>3
  <2> QED BY <2>1, <2>3, <2>4 DEF TL!DeleteUser, TokensInv, TokensTypes, TL!discord
<1>2. TokensInHand'
  <2>1. \A r \in Requests : request[r].pc \in TokensOwn => TL!Held(r) # 0
    BY DEF TokensInv, TokensTypes, TokensInHand
  <2> QED BY <2>1 DEF TL!DeleteUser, TokensInv, TokensInHand, TL!Held, TL!discord
<1>3. TL!LockedOutByLossOnly'
  BY DEF TL!DeleteUser, TL!LockedOutByLossOnly
<1> QED BY <1>1, <1>2, <1>3 DEF TokensInv

(* Signing in.                                                              *)
LEMMA TokensExchangeCode ==
  ASSUME TL!TokenAssumption, TokensInv, NEW r \in Requests, TL!ExchangeCode(r) PROVE TokensInv'
<1>1. /\ TL!At(r, "idle") /\ issued < MaxPairs /\ issued' = issued + 1
      /\ valid' = valid \cup {issued + 1} /\ usable' = usable \cup {issued + 1}
      /\ TL!Goto(r, "profile", issued + 1) /\ UNCHANGED <<next, user, access, refresh, lost, out>>
  BY DEF TL!ExchangeCode, TL!Issue
<1>2. issued \in Nat /\ issued + 1 \in 1..MaxPairs /\ issued + 1 \in 0..issued'
  BY <1>1 DEF TL!TokenAssumption, TokensInv, TokensTypes
<1>3. "profile" \in TL!Step
  BY DEF TL!Step
<1>4. /\ request' = [q \in Requests |-> request'[q]]
      /\ \A q \in Requests : q # r => request'[q] = request[q]
      /\ request'[r] = [pc |-> "profile", pair |-> issued + 1, tries |-> 0]
      /\ TokensRequest(request[r])'
  BY <1>1, <1>2, <1>3, TokensGotoShape DEF TokensInv
<1>5. TokensTypes'
  <2>1. \A q \in Requests : TokensRequest(request[q])'
    BY <1>1, <1>2, <1>4 DEF TokensInv, TokensTypes, TokensRequest
  <2>2. /\ issued' \in 0..MaxPairs /\ usable' \cup valid' \cup lost' \subseteq 1..issued'
        /\ next' \in [TL!Pairs -> 0..issued'] /\ \A n \in TL!Pairs : next'[n] # 0 => n <= issued'
    BY <1>1, <1>2 DEF TokensInv, TokensTypes, TL!TokenAssumption, TL!Pairs
  <2> QED BY <1>1, <1>2, <1>4, <2>1, <2>2 DEF TokensInv, TokensTypes
<1>6. TokensInHand'
  <2>1. \A q \in Requests : q # r /\ request[q].pc # "idle" => TL!Held(q) # issued + 1
    BY <1>2, TokensHeldIssued DEF TokensInv
  <2>2. refresh # issued + 1
    BY <1>2 DEF TokensInv, TokensTypes
  <2>3. \A q \in Requests : TL!Held(q)' = request'[q].pair
    BY DEF TL!Held
  <2>4. ASSUME NEW q \in Requests, request'[q].pc \in TokensOwn
        PROVE  /\ TL!Held(q)' \in usable' \cup lost' /\ TL!Held(q)' # refresh'
               /\ \A o \in Requests \ {q} : request'[o].pc # "idle" => TL!Held(o)' # TL!Held(q)'
    <3>1. CASE q = r
      BY <1>1, <1>4, <2>1, <2>2, <2>3, <3>1 DEF TL!Held
    <3>2. CASE q # r
      BY <1>1, <1>4, <2>1, <2>3, <2>4, <3>2 DEF TokensInv, TokensInHand, TL!Held, TokensOwn
    <3> QED BY <3>1, <3>2
  <2> QED BY <2>4 DEF TokensInHand
<1>7. TL!LockedOutByLossOnly'
  BY <1>1, <1>4 DEF TokensInv, TL!LockedOutByLossOnly, TL!At, TL!Held
<1> QED BY <1>5, <1>6, <1>7 DEF TokensInv

(* The profile is read between the code exchange and the first write.       *)
LEMMA TokensGetUserProfile ==
  ASSUME TokensInv, NEW r \in Requests, TL!GetUserProfile(r)
  PROVE  TokensInv'
<1>1. /\ TL!At(r, "profile") /\ TL!Goto(r, "store", TL!Held(r))
      /\ UNCHANGED <<TL!discord, user, access, refresh, lost, out>>
  BY DEF TL!GetUserProfile
<1>2. TL!Held(r) \in 0..issued' /\ "store" \in TL!Step
  BY <1>1, TokensHeldIssued DEF TokensInv, TL!discord, TL!At, TL!Step
<1>3. /\ request' = [q \in Requests |-> request'[q]]
      /\ \A q \in Requests : q # r => request'[q] = request[q]
      /\ request'[r] = [pc |-> "store", pair |-> TL!Held(r), tries |-> 0]
      /\ TokensRequest(request[r])'
  BY <1>1, <1>2, TokensGotoShape DEF TokensInv
<1> QED BY <1>1, <1>3, TokensMoves DEF TokensInv, TokensTypes, TL!At, TokensOwn, TL!Held

(* The pair in hand is stored: it can be used, or was revoked.              *)
LEMMA TokensStore ==
  ASSUME TokensInv, NEW r \in Requests, request[r].pc \in {"store", "write"}, TL!End(r),
         UNCHANGED <<TL!discord, lost>>, out' \in BOOLEAN,
         \/ user' = TRUE /\ access' = TL!Held(r) /\ refresh' = TL!Held(r)
         \/ ~user /\ UNCHANGED <<user, access, refresh>>
  PROVE  TokensInv'
<1>1. /\ request' = [q \in Requests |-> request'[q]]
      /\ \A q \in Requests : q # r => request'[q] = request[q]
      /\ TokensRequest(request[r])' /\ request'[r].pc = "idle"
  BY TokensEndShape DEF TokensInv
<1>2. TL!Held(r) \in 0..issued /\ TL!Held(r) \in usable \cup lost
  BY TokensHeldIssued DEF TokensInv, TokensInHand, TokensOwn
<1>3. TokensTypes'
  <2>1. \A q \in Requests : TokensRequest(request[q])'
    BY <1>1 DEF TokensInv, TokensTypes, TokensRequest, TL!discord
  <2> QED BY <1>1, <1>2, <2>1 DEF TokensInv, TokensTypes, TL!discord
<1>4. TokensInHand'
  <2>1. \A q \in Requests : q # r /\ request[q].pc \in TokensOwn => TL!Held(q) # TL!Held(r)
    BY DEF TokensInv, TokensInHand, TokensOwn
  <2> QED BY <1>1, <2>1 DEF TokensInv, TokensInHand, TL!Held, TL!discord, TokensOwn
<1>5. TL!LockedOutByLossOnly'
  BY <1>2 DEF TokensInv, TokensTypes, TL!LockedOutByLossOnly, TL!discord
<1> QED BY <1>3, <1>4, <1>5 DEF TokensInv

(* The login writes the pair it was given.                                  *)
LEMMA TokensUpsertFromOAuth ==
  ASSUME TokensInv, NEW r \in Requests, TL!UpsertFromOAuth(r)
  PROVE  TokensInv'
BY TokensStore DEF TL!UpsertFromOAuth, TL!At

(* A refresh writes the pair it was given.                                  *)
LEMMA TokensWriteTokens == ASSUME TokensInv, NEW r \in Requests, TL!WriteTokens(r) PROVE TokensInv'
<1>1. user \in BOOLEAN /\ out \in BOOLEAN
  BY DEF TokensInv, TokensTypes
<1>2. /\ request[r].pc = "write" /\ TL!End(r) /\ UNCHANGED <<TL!discord, lost, user>>
      /\ out' \in BOOLEAN
      /\ \/ user' = TRUE /\ access' = TL!Held(r) /\ refresh' = TL!Held(r)
         \/ ~user /\ UNCHANGED <<user, access, refresh>>
  BY <1>1 DEF TL!WriteTokens, TL!At
<1> QED BY <1>2, TokensStore

(* Lookup and logout.                                                       *)
LEMMA TokensGetValid == ASSUME TokensInv, NEW r \in Requests, TL!GetValid(r) PROVE TokensInv'
<1>1. /\ TL!At(r, "idle") /\ TL!Goto(r, "check", access)
      /\ UNCHANGED <<TL!discord, user, access, refresh, lost, out>>
  BY DEF TL!GetValid
<1>2. access = refresh /\ access \in 0..issued' /\ "check" \in TL!Step
  BY <1>1 DEF TokensInv, TokensTypes, TL!discord, TL!Step
<1>3. /\ request' = [q \in Requests |-> request'[q]]
      /\ \A q \in Requests : q # r => request'[q] = request[q]
      /\ request'[r] = [pc |-> "check", pair |-> access, tries |-> 0]
      /\ TokensRequest(request[r])'
  BY <1>1, <1>2, TokensGotoShape DEF TokensInv
<1> QED BY <1>1, <1>2, <1>3, TokensMoves DEF TokensInv, TokensTypes, TL!At, TokensOwn

(* A request ends that was not about to store what replaced the token.      *)
LEMMA TokensEnd ==
  ASSUME TokensInv, NEW r \in Requests, TL!End(r), ~TL!At(r, "write"), out' \in BOOLEAN,
         UNCHANGED <<TL!discord, user, access, refresh, lost>>
  PROVE  TokensInv'
<1>1. /\ request' = [q \in Requests |-> request'[q]]
      /\ \A q \in Requests : q # r => request'[q] = request[q]
      /\ TokensRequest(request[r])' /\ request'[r].pc = "idle"
  BY TokensEndShape DEF TokensInv
<1> QED BY <1>1, TokensMoves

(* The guard looks at the token, and writes nothing.                        *)
LEMMA TokensValidateToken ==
  ASSUME TokensInv, NEW r \in Requests, TL!ValidateToken(r)
  PROVE  TokensInv'
<1>1. TL!At(r, "check") /\ UNCHANGED <<TL!discord, user, access, refresh, lost, out>>
  BY DEF TL!ValidateToken
<1>2. ~TL!At(r, "write") /\ out' \in BOOLEAN
  BY <1>1 DEF TL!At, TokensInv, TokensTypes
<1>3. CASE TL!End(r)
  BY <1>1, <1>2, <1>3, TokensEnd
<1>4. CASE TL!Goto(r, "reread", TL!Held(r))
  <2>1. TL!Held(r) \in 0..issued' /\ "reread" \in TL!Step
    BY <1>1, TokensHeldIssued DEF TokensInv, TL!discord, TL!At, TL!Step
  <2>2. /\ request' = [q \in Requests |-> request'[q]]
        /\ \A q \in Requests : q # r => request'[q] = request[q]
        /\ request'[r] = [pc |-> "reread", pair |-> TL!Held(r), tries |-> 0]
        /\ TokensRequest(request[r])'
    BY <1>4, <2>1, TokensGotoShape DEF TokensInv
  <2> QED BY <1>1, <1>2, <2>2, TokensMoves DEF TL!At, TokensOwn, TL!Held
<1> QED BY <1>3, <1>4 DEF TL!ValidateToken

(* The refresh token is read again before it is sent.                       *)
LEMMA TokensReadRefresh == ASSUME TokensInv, NEW r \in Requests, TL!ReadRefresh(r) PROVE TokensInv'
<1>1. TL!At(r, "reread") /\ UNCHANGED <<TL!discord, user, access, refresh, lost, out>>
  BY DEF TL!ReadRefresh
<1>2. ~TL!At(r, "write") /\ out' \in BOOLEAN
  BY <1>1 DEF TL!At, TokensInv, TokensTypes
<1>3. CASE TL!End(r)
  BY <1>1, <1>2, <1>3, TokensEnd
<1>4. CASE TL!Goto(r, "post", refresh)
  <2>1. refresh \in 0..issued' /\ "post" \in TL!Step
    BY <1>1 DEF TokensInv, TokensTypes, TL!discord, TL!Step
  <2>2. /\ request' = [q \in Requests |-> request'[q]]
        /\ \A q \in Requests : q # r => request'[q] = request[q]
        /\ request'[r] = [pc |-> "post", pair |-> refresh, tries |-> 0]
        /\ TokensRequest(request[r])'
    BY <1>4, <2>1, TokensGotoShape DEF TokensInv
  <2> QED BY <1>1, <1>2, <2>2, TokensMoves DEF TL!At, TokensOwn
<1> QED BY <1>3, <1>4 DEF TL!ReadRefresh

(* A logout has the token in hand that the row had.                         *)
LEMMA TokensLogout == ASSUME TokensInv, NEW r \in Requests, TL!Logout(r) PROVE TokensInv'
<1>1. TL!At(r, "idle") /\ UNCHANGED <<TL!discord, user, access, refresh, lost, out>>
  BY DEF TL!Logout
<1>2. PICK pc \in {"clear", "revoke"} : TL!Goto(r, pc, access)
  BY DEF TL!Logout
<1>3. access = refresh /\ access \in 0..issued' /\ pc \in TL!Step /\ out' \in BOOLEAN
  BY <1>1 DEF TokensInv, TokensTypes, TL!discord, TL!Step
<1>4. /\ request' = [q \in Requests |-> request'[q]]
      /\ \A q \in Requests : q # r => request'[q] = request[q]
      /\ request'[r] = [pc |-> pc, pair |-> access, tries |-> 0]
      /\ TokensRequest(request[r])'
  BY <1>2, <1>3, TokensGotoShape DEF TokensInv
<1> QED BY <1>1, <1>3, <1>4, TokensMoves DEF TL!At, TokensOwn

(* A logout clears the row.                                                 *)
LEMMA TokensClearTokens == ASSUME TokensInv, NEW r \in Requests, TL!ClearTokens(r) PROVE TokensInv'
BY TokensEnd DEF TL!ClearTokens, TL!At

(* Discord forgets tokens: those are the revoked ones.                      *)
LEMMA TokensRevoke == ASSUME TokensInv, NEW r \in Requests, TL!Revoke(r) PROVE TokensInv'
<1>1. /\ TL!At(r, "revoke") /\ TL!Goto(r, "clear", TL!Held(r))
      /\ UNCHANGED <<issued, next, user, access, refresh, out>>
  BY DEF TL!Revoke
<1>2. TL!Held(r) \in 0..issued' /\ "clear" \in TL!Step
  BY <1>1, TokensHeldIssued DEF TokensInv, TL!At, TL!Step
<1>3. /\ request' = [q \in Requests |-> request'[q]]
      /\ \A q \in Requests : q # r => request'[q] = request[q]
      /\ request'[r] = [pc |-> "clear", pair |-> TL!Held(r), tries |-> 0]
      /\ TokensRequest(request[r])'
  BY <1>1, <1>2, TokensGotoShape DEF TokensInv
<1>4. /\ usable' \subseteq usable /\ valid' \subseteq valid /\ lost \subseteq lost'
      /\ usable \cup lost \subseteq usable' \cup lost' /\ lost' \subseteq lost \cup 1..issued
  BY DEF TL!Revoke
<1>5. TokensTypes'
  <2>1. \A q \in Requests : TokensRequest(request[q])'
    BY <1>1, <1>3 DEF TokensInv, TokensTypes, TokensRequest
  <2>2. usable' \cup valid' \cup lost' \subseteq 1..issued'
    BY <1>1, <1>4 DEF TokensInv, TokensTypes
  <2> QED BY <1>1, <1>3, <2>1, <2>2 DEF TokensInv, TokensTypes
<1>6. TokensInHand'
  <2>1. \A q \in Requests : TL!Held(q)' = TL!Held(q)
    BY <1>3 DEF TL!Held
  <2>2. \A q \in Requests : request'[q].pc \in TokensOwn => request[q].pc \in TokensOwn
    BY <1>1, <1>3 DEF TokensOwn
  <2>3. \A q \in Requests : request'[q].pc # "idle" => request[q].pc # "idle"
    BY <1>1, <1>3 DEF TL!At
  <2> QED BY <1>1, <1>4, <2>1, <2>2, <2>3 DEF TokensInv, TokensInHand
<1>7. TL!LockedOutByLossOnly'
  BY <1>1, <1>3, <1>4 DEF TokensInv, TL!LockedOutByLossOnly, TL!At, TL!Held
<1> QED BY <1>5, <1>6, <1>7 DEF TokensInv

(* Whoever is about to store what replaced the token is lost with it.       *)
LEMMA TokensFail ==
  ASSUME TL!TokenAssumption, TokensInv, NEW r \in Requests, TL!Fail(r)
  PROVE  TokensInv'
<1>1. TL!End(r) /\ UNCHANGED <<TL!discord, user, access, refresh, out>>
  BY DEF TL!Fail
<1>2. CASE ~TL!At(r, "write")
  BY <1>1, <1>2, TokensEnd DEF TL!Fail, TokensInv, TokensTypes
<1>3. CASE TL!At(r, "write")
  <2>1. lost' = lost \cup TL!Replaced(TL!Held(r))
    BY <1>3 DEF TL!Fail
  <2>2. /\ request' = [q \in Requests |-> request'[q]]
        /\ \A q \in Requests : q # r => request'[q] = request[q]
        /\ TokensRequest(request[r])' /\ request'[r].pc = "idle"
    BY <1>1, TokensEndShape DEF TokensInv
  <2>3. TL!Replaced(TL!Held(r)) \subseteq 1..issued
    <3>1. TL!Held(r) # 0
      BY <1>3 DEF TokensInv, TokensTypes, TokensInHand, TokensOwn, TL!At
    <3> QED BY <3>1 DEF TokensInv, TokensTypes, TL!Replaced, TL!Pairs
  <2>4. TokensTypes'
    <3>1. \A q \in Requests : TokensRequest(request[q])'
      BY <1>1, <2>2 DEF TokensInv, TokensTypes, TokensRequest, TL!discord
    <3> QED BY <1>1, <2>1, <2>2, <2>3, <3>1 DEF TokensInv, TokensTypes, TL!discord
  <2>5. TokensInHand'
    BY <1>1, <2>1, <2>2 DEF TokensInv, TokensInHand, TL!Held, TokensOwn, TL!discord
  <2>6. TL!LockedOutByLossOnly'
    <3>1. ASSUME refresh # 0, TL!Held(r) = next[refresh]
          PROVE  refresh \in lost'
      <4>1. refresh \in TL!Pairs
        BY <3>1 DEF TL!TokenAssumption, TokensInv, TokensTypes, TL!Pairs
      <4> QED BY <2>1, <3>1, <4>1 DEF TL!Replaced
    <3> QED BY <1>1, <2>1, <2>2, <3>1 DEF TokensInv, TL!LockedOutByLossOnly, TL!At, TL!Held, TL!discord
  <2> QED BY <2>4, <2>5, <2>6 DEF TokensInv
<1> QED BY <1>2, <1>3

(* Discord replaces a pair: the new one is nobody's but the request's.      *)
LEMMA TokensRotate ==
  ASSUME TL!TokenAssumption, TokensInv, NEW r \in Requests, TL!At(r, "post"), TL!Rotate(r),
         UNCHANGED <<user, access, refresh, out>>,
         \/ TL!Goto(r, "write", issued + 1) /\ UNCHANGED lost
         \/ /\ lost' = lost \cup {TL!Held(r)}
            /\ request' = [request EXCEPT ![r] =
                             IF @.tries < MaxRetries
                             THEN [pc |-> "post", pair |-> @.pair, tries |-> @.tries + 1]
                             ELSE TL!Idle]
  PROVE  TokensInv'
<1>1. /\ TL!Held(r) \in usable /\ issued < MaxPairs /\ issued' = issued + 1
      /\ valid' = valid \cup {issued + 1}
      /\ usable \ {TL!Held(r)} \subseteq usable' /\ issued + 1 \in usable'
      /\ usable' \subseteq usable \cup {issued + 1}
      /\ next' = [next EXCEPT ![TL!Held(r)] = issued + 1]
  <2>1. /\ TL!Held(r) \in usable /\ TL!Issue /\ issued + 1 \notin usable
        /\ next' = [next EXCEPT ![TL!Held(r)] = issued + 1]
    BY DEF TL!Rotate, TokensInv, TokensTypes, TL!TokenAssumption
  <2>2. PICK keep \in BOOLEAN :
          usable' = (usable \cup {issued + 1}) \ (IF keep THEN {} ELSE {TL!Held(r)})
    BY DEF TL!Rotate
  <2> QED BY <2>1, <2>2 DEF TL!Issue
<1>2. issued \in Nat /\ issued + 1 \in 1..MaxPairs /\ issued + 1 \in 0..issued'
      /\ TL!Held(r) \in 1..issued /\ TL!Held(r) \in TL!Pairs
  BY <1>1 DEF TL!TokenAssumption, TokensInv, TokensTypes, TL!Pairs
<1>3. lost \subseteq lost' /\ lost' \subseteq lost \cup {TL!Held(r)}
  OBVIOUS
<1>4. /\ request' = [q \in Requests |-> request'[q]]
      /\ \A q \in Requests : q # r => request'[q] = request[q]
      /\ TokensRequest(request[r])'
      /\ \/ request'[r].pc = "write" /\ request'[r].pair = issued + 1
         \/ /\ request'[r].pc = "idle" \/ (request'[r].pc = "post" /\ request'[r].pair = TL!Held(r))
            /\ TL!Held(r) \in lost'
  <2>1. CASE TL!Goto(r, "write", issued + 1)
    <3>1. "write" \in TL!Step
      BY DEF TL!Step
    <3>2. /\ request' = [q \in Requests |-> request'[q]]
          /\ \A q \in Requests : q # r => request'[q] = request[q]
          /\ request'[r] = [pc |-> "write", pair |-> issued + 1, tries |-> 0]
          /\ TokensRequest(request[r])'
      BY <1>2, <2>1, <3>1, TokensGotoShape DEF TokensInv
    <3> QED BY <3>2
  <2>2. CASE /\ lost' = lost \cup {TL!Held(r)}
             /\ request' = [request EXCEPT ![r] =
                             IF @.tries < MaxRetries
                             THEN [pc |-> "post", pair |-> @.pair, tries |-> @.tries + 1]
                             ELSE TL!Idle]
    <3>1. PICK q : /\ request' = [request EXCEPT ![r] = q]
                   /\ q = TL!Idle \/ q = [pc |-> "post", pair |-> TL!Held(r), tries |-> request[r].tries + 1]
      BY <2>2 DEF TL!Held
    <3>2. TL!Held(r) \in 0..issued' /\ "post" \in TL!Step /\ TL!Idle.pc = "idle"
      BY <1>1, <1>2 DEF TL!Step, TL!Idle
    <3>3. request'[r] = q
      BY <3>1 DEF TokensInv, TokensTypes
    <3>4. TokensRequest(request[r])'
      BY <3>1, <3>2, <3>3 DEF TokensRequest
    <3>5. \/ request'[r].pc = "idle"
          \/ request'[r].pc = "post" /\ request'[r].pair = TL!Held(r)
      BY <3>1, <3>2, <3>3
    <3>6. /\ request' = [o \in Requests |-> request'[o]]
          /\ \A o \in Requests : o # r => request'[o] = request[o]
      BY <3>1 DEF TokensInv, TokensTypes
    <3> QED BY <2>2, <3>4, <3>5, <3>6
  <2> QED BY <2>1, <2>2
<1>5. TokensTypes'
  <2>1. \A q \in Requests : TokensRequest(request[q])'
    BY <1>1, <1>2, <1>4 DEF TokensInv, TokensTypes, TokensRequest
  <2>2. /\ issued' \in 0..MaxPairs /\ usable' \cup valid' \cup lost' \subseteq 1..issued'
        /\ next' \in [TL!Pairs -> 0..issued'] /\ refresh' \in 0..issued'
        /\ \A n \in TL!Pairs : next'[n] # 0 => n <= issued'
    BY <1>1, <1>2, <1>3 DEF TokensInv, TokensTypes, TL!Pairs
  <2> QED BY <1>4, <2>1, <2>2 DEF TokensInv, TokensTypes
<1>6. TokensInHand'
  <2>1. \A q \in Requests : q # r /\ request[q].pc # "idle" => TL!Held(q) # issued + 1
    BY <1>2, TokensHeldIssued DEF TokensInv
  <2>2. refresh # issued + 1
    BY <1>2 DEF TokensInv, TokensTypes
  <2>3. \A q \in Requests : TL!Held(q)' = request'[q].pair
    BY DEF TL!Held
  <2>4. \A q \in Requests : q # r /\ request[q].pc \in TokensOwn => TL!Held(q) # TL!Held(r)
    BY DEF TokensInv, TokensInHand, TL!At
  <2>5. ASSUME NEW q \in Requests, request'[q].pc \in TokensOwn
        PROVE  /\ TL!Held(q)' \in usable' \cup lost' /\ TL!Held(q)' # refresh'
               /\ \A o \in Requests \ {q} : request'[o].pc # "idle" => TL!Held(o)' # TL!Held(q)'
    <3>1. CASE q = r
      <4>1. request'[r].pc = "write" /\ request'[r].pair = issued + 1
        BY <1>4, <2>5, <3>1 DEF TokensOwn
      <4> QED BY <1>1, <1>4, <2>1, <2>2, <2>3, <3>1, <4>1 DEF TL!Held
    <3>2. CASE q # r
      <4>1. request[q].pc \in TokensOwn /\ TL!Held(q)' = TL!Held(q) /\ TL!Held(q) \in usable \cup lost
        BY <1>4, <2>5, <3>2 DEF TokensInv, TokensInHand, TL!Held
      <4>2. ASSUME NEW o \in Requests \ {q}, request'[o].pc # "idle"
            PROVE  TL!Held(o)' # TL!Held(q)'
        BY <1>4, <2>1, <2>3, <2>4, <3>2, <4>1, <4>2 DEF TokensInv, TokensInHand, TL!Held, TokensOwn
      <4> QED BY <1>1, <1>3, <2>4, <3>2, <4>1, <4>2 DEF TokensInv, TokensInHand
    <3> QED BY <3>1, <3>2
  <2> QED BY <2>5 DEF TokensInHand
<1>7. TL!LockedOutByLossOnly'
  <2>1. CASE refresh = TL!Held(r)
    <3>1. next'[refresh] = issued + 1
      BY <1>1, <1>2, <2>1 DEF TokensInv, TokensTypes
    <3> QED BY <1>4, <2>1, <3>1 DEF TL!LockedOutByLossOnly, TL!At, TL!Held
  <2>2. CASE refresh # TL!Held(r)
    <3>1. next'[refresh] = next[refresh]
      BY <1>1, <2>2 DEF TokensInv, TokensTypes
    <3> QED BY <1>1, <1>3, <1>4, <2>2, <3>1 DEF TokensInv, TL!LockedOutByLossOnly, TL!At, TL!Held
  <2> QED BY <2>1, <2>2
<1> QED BY <1>5, <1>6, <1>7 DEF TokensInv

(* A refresh: Discord rotates the pair, and its answer arrives or is lost.  *)
LEMMA TokensPost ==
  ASSUME TL!TokenAssumption, TokensInv, NEW r \in Requests, TL!Post(r)
  PROVE  TokensInv'
<1>1. CASE TL!Rotate(r) /\ TL!Goto(r, "write", issued + 1) /\ UNCHANGED lost
  BY <1>1, TokensRotate DEF TL!Post
<1>2. CASE /\ TL!Rotate(r) /\ lost' = lost \cup {TL!Held(r)}
           /\ request' = [request EXCEPT ![r] =
                            IF @.tries < MaxRetries
                            THEN [pc |-> "post", pair |-> @.pair, tries |-> @.tries + 1]
                            ELSE TL!Idle]
  BY <1>2, TokensRotate DEF TL!Post
<1>3. CASE TL!Held(r) \notin usable /\ TL!End(r) /\ UNCHANGED <<TL!discord, lost>>
  <2>1. ~TL!At(r, "write") /\ UNCHANGED <<user, access, refresh, out>> /\ out' \in BOOLEAN
    BY DEF TL!Post, TL!At, TokensInv, TokensTypes
  <2> QED BY <1>3, <2>1, TokensEnd
<1> QED BY <1>1, <1>2, <1>3 DEF TL!Post

(* No step, nor a stutter, breaks the invariant.                            *)
LEMMA TokensStep == ASSUME TL!TokenAssumption, TokensInv, [TL!Next]_TL!vars PROVE TokensInv'
<1>1. CASE UNCHANGED TL!vars
  BY <1>1 DEF TL!vars, TL!discord, TokensInv, TokensTypes, TokensInHand, TL!LockedOutByLossOnly, TokensRequest,
     TL!Held, TL!At
<1>2. ASSUME NEW r \in Requests,
             \/ TL!ExchangeCode(r) \/ TL!GetUserProfile(r) \/ TL!UpsertFromOAuth(r)
             \/ TL!GetValid(r) \/ TL!ValidateToken(r) \/ TL!ReadRefresh(r) \/ TL!Post(r) \/ TL!WriteTokens(r)
             \/ TL!Logout(r) \/ TL!Revoke(r) \/ TL!ClearTokens(r) \/ TL!Fail(r)
      PROVE  TokensInv'
  BY <1>2, TokensExchangeCode, TokensGetUserProfile, TokensUpsertFromOAuth, TokensGetValid, TokensValidateToken,
     TokensReadRefresh, TokensPost, TokensWriteTokens, TokensLogout, TokensRevoke, TokensClearTokens, TokensFail
<1> QED BY <1>1, <1>2, TokensExpire, TokensDeauthorize, TokensDeleteUser DEF TL!Next

-------------------------------------------------------------------------------
(* The results, for any number of requests, pairs and retries.              *)

(* What a reader is told of tokens follows.                                 *)
LEMMA TokensClaims == TokensInv => TL!TypeOK /\ TL!LockedOutByLossOnly /\ access = refresh
BY DEF TokensInv, TokensTypes, TL!TypeOK, TokensRequest, TL!Idle

-------------------------------------------------------------------------------
(* Leagues.  What waits to be written holds two statuses, and a change was  *)
(* allowed from the one it has read.                                        *)
LeaguesHeld(q) ==
  \/ q = LE!Idle
  \/ /\ q.pc \in {"edit", "status"} /\ {q.read, q.status} \subseteq LE!LeagueStatus
     /\ q.pc = "status" => LE!Allowed(q.read, q.status)

LeaguesInv ==
  /\ league \in LE!LeagueStatus \cup {"none"}
  /\ request = [r \in Requests |-> request[r]]
  /\ \A r \in Requests : LeaguesHeld(request[r])

(* A league there is none of, and nobody waits to write one.                *)
LEMMA LeaguesInit == LE!Init => LeaguesInv
BY DEF LE!Init, LeaguesInv, LeaguesHeld

(* Whatever is created, edited, changed or removed in between.              *)
LEMMA LeaguesStep == LeaguesInv /\ [LE!Next]_LE!vars => LeaguesInv'
<1> SUFFICES ASSUME LeaguesInv, [LE!Next]_LE!vars PROVE LeaguesInv'
  OBVIOUS
<1>1. ASSUME NEW r \in Requests, LE!End(r), league' \in LE!LeagueStatus \cup {"none"} PROVE LeaguesInv'
  BY <1>1 DEF LeaguesInv, LeaguesHeld, LE!End
<1>2. ASSUME NEW r \in Requests, NEW s \in LE!LeagueStatus, LE!Update(r, s) PROVE LeaguesInv'
  BY <1>2 DEF LeaguesInv, LeaguesHeld, LE!Update
<1>3. ASSUME NEW r \in Requests, NEW s \in LE!LeagueStatus, LE!UpdateStatus(r, s) PROVE LeaguesInv'
  BY <1>3 DEF LeaguesInv, LeaguesHeld, LE!UpdateStatus
<1>4. CASE LE!Remove
  BY <1>4 DEF LeaguesInv, LeaguesHeld, LE!Remove
<1>5. ASSUME NEW s \in LE!LeagueStatus, LE!Create(s) PROVE LeaguesInv'
  BY <1>5 DEF LeaguesInv, LE!Create
<1>6. ASSUME NEW r \in Requests, LE!Write(r) PROVE LeaguesInv'
  BY <1>1, <1>6 DEF LeaguesInv, LeaguesHeld, LE!Write, LE!Idle
<1>7. ASSUME NEW r \in Requests, LE!Fail(r) PROVE LeaguesInv'
  BY <1>1, <1>7 DEF LeaguesInv, LE!Fail
<1>8. CASE UNCHANGED LE!vars
  BY <1>8 DEF LeaguesInv, LE!vars
<1> QED BY <1>2, <1>3, <1>4, <1>5, <1>6, <1>7, <1>8 DEF LE!Next

(* The invariant types the variables.                                       *)
LEMMA LeaguesClaims == LeaguesInv => LE!TypeOK
BY DEF LeaguesInv, LeaguesHeld, LE!TypeOK, LE!Idle

(* An open status is written over a closed one by an edit, or by a change   *)
(* that was allowed, which none is from a closed one.                       *)
LEMMA LeaguesReopen == LeaguesInv /\ [LE!Next]_LE!vars => LE!ReopensDuly
<1> SUFFICES ASSUME LeaguesInv, [LE!Next]_LE!vars, league \in LE!Closed, league' \in LE!LeagueStatus \ LE!Closed
             PROVE  \E r \in Requests : \/ LE!At(r, "edit")
                                        \/ LE!At(r, "status") /\ request[r].read \notin LE!Closed
  BY DEF LE!ReopensDuly
<1>1. PICK r \in Requests : LE!Write(r)
  BY DEF LE!Next, LE!vars, LE!Create, LE!Update, LE!UpdateStatus, LE!Remove, LE!Fail, LE!Closed, LE!LeagueStatus
<1>2. request[r].status \in LE!LeagueStatus \ LE!Closed /\ LeaguesHeld(request[r])
  BY <1>1 DEF LeaguesInv, LE!Write
<1> QED BY <1>1, <1>2 DEF LE!Write, LE!At, LeaguesHeld, LE!Allowed, LE!Closed, LE!LeagueStatus, LE!Idle

-------------------------------------------------------------------------------
(* The scraper's rate.  A wait lasts until the distance to the last request *)
(* is kept, as it was when the call entered; unless calls met at the limit, *)
(* it still is the last one, for nobody else has come by.                   *)
RateHeld(c) ==
  SR!Waiting(c) =>
    /\ \A d \in Requests \ {c} : ~SR!Waiting(d)
    /\ last <= call[c].entered
    /\ call[c].pc = "delay" => last + SR!MinDelay <= call[c].until

RateInv ==
  /\ SR!TypeOK /\ last <= now /\ SR!SpacedByOverlapOnly
  /\ \A n \in SR!Times : sent[n] > 0 => n <= last
  /\ \A c \in Requests : call[c].entered <= now /\ (SR!Waiting(c) => call[c].gates # 0)
  /\ ~crowd => \A c \in Requests : RateHeld(c)

(* The distance is at least one tick, and no more than the window.          *)
LEMMA RateDelay ==
  ASSUME SR!RateAssumption
  PROVE  SR!MinDelay \in Nat /\ 0 < SR!MinDelay /\ SR!MinDelay <= Window
BY DEF SR!RateAssumption, SR!MinDelay

(* A call that has not begun is one.                                        *)
LEMMA RateIdle == ASSUME SR!RateAssumption PROVE SR!Idle \in SR!Call
BY DEF SR!RateAssumption, SR!Idle, SR!Call

(* Before the first request the window has not begun to fill.               *)
LEMMA RateInit == ASSUME SR!RateAssumption PROVE SR!Init => RateInv
<1> SUFFICES ASSUME SR!Init PROVE RateInv
  OBVIOUS
<1>0. MaxTime \in Nat /\ 0 < MaxTime /\ Window \in Nat
  BY DEF SR!RateAssumption
<1>1. SR!Idle \in SR!Call
  BY RateIdle
<1>2. 1 \in SR!Times /\ 0 \in 0..MaxTime
  BY <1>0 DEF SR!Times
<1>3. \A c \in Requests : call[c].entered = 0 /\ call[c].pc = "idle"
  BY DEF SR!Init, SR!Idle
<1>4. call \in [Requests -> SR!Call] /\ sent \in [SR!Times -> Nat] /\ \A n \in SR!Times : sent[n] = 0
  BY <1>1 DEF SR!Init
<1>5. SR!TypeOK
  BY <1>2, <1>4 DEF SR!Init, SR!TypeOK
<1> QED BY <1>3, <1>4, <1>5 DEF SR!Init, RateInv, SR!SpacedByOverlapOnly, RateHeld, SR!Waiting

(* A call that passes keeps its distance if the last request is far enough. *)
LEMMA RatePass ==
  ASSUME SR!RateAssumption, RateInv, NEW c \in Requests, NEW gates \in {1, 2}, NEW entered, NEW before \in Nat,
         SR!Pass(c, gates, entered, before), UNCHANGED now, windowStart' \in SR!Times,
         crowd' \in BOOLEAN, crowd => crowd',
         ~crowd' => /\ last = 0 \/ last + SR!MinDelay <= now
                    /\ \A d \in Requests \ {c} : ~SR!Waiting(d)
  PROVE  RateInv'
<1> DEFINE stop == IF gates > 1 THEN "next" ELSE "idle"
           q == [SR!Idle EXCEPT !.pc = stop, !.gates = gates - 1]
<1>0. SR!MinDelay \in Nat /\ 0 < SR!MinDelay /\ now \in SR!Times /\ MaxTime \in Nat /\ now \in Nat /\ 0 < now
  BY RateDelay DEF RateInv, SR!TypeOK, SR!Times, SR!RateAssumption
<1>1. q \in SR!Call /\ q.pc \in {"next", "idle"} /\ q.entered = 0
  <2>1. SR!Idle \in SR!Call /\ stop \in {"next", "idle"} /\ gates - 1 \in 0..2
    BY <1>0, RateIdle
  <2> HIDE DEF stop
  <2>2. q \in SR!Call /\ q.pc = stop /\ q.entered = SR!Idle.entered
    BY <2>1 DEF SR!Call
  <2> QED BY <2>1, <2>2 DEF SR!Idle
<1>2. /\ call' \in [Requests -> SR!Call] /\ call'[c] = q /\ \A d \in Requests \ {c} : call'[d] = call[d]
      /\ last' = now /\ count' \in Nat /\ last' \in 0..MaxTime
  BY <1>0, <1>1 DEF SR!Pass, RateInv, SR!TypeOK, SR!Times
<1>3. /\ sent' \in [SR!Times -> Nat] /\ sent'[now] \in {sent[now], sent[now] + 1}
      /\ \A n \in SR!Times : n # now => sent'[n] = sent[n]
  BY <1>0 DEF SR!Pass, RateInv, SR!TypeOK
<1>4. SR!TypeOK'
  BY <1>2, <1>3 DEF RateInv, SR!TypeOK
<1>5. \A n \in SR!Times : sent'[n] > 0 => n <= last'
  <2> SUFFICES ASSUME NEW n \in SR!Times, sent'[n] > 0, n # now PROVE n <= now
    BY <1>0, <1>2
  <2>1. n <= last /\ last <= now /\ last \in Nat /\ n \in Nat
    BY <1>3, <1>0 DEF RateInv, SR!TypeOK, SR!Times
  <2> QED BY <1>0, <2>1
<1>6. \A d \in Requests : call'[d].entered <= now' /\ (SR!Waiting(d)' => call'[d].gates # 0)
  <2> HIDE DEF q
  <2> TAKE d \in Requests
  <2>1. CASE d = c
    BY <1>0, <1>1, <1>2, <2>1 DEF SR!Waiting
  <2>2. CASE d # c
    BY <1>0, <1>1, <1>2, <2>2 DEF RateInv, SR!Waiting
  <2> QED BY <2>1, <2>2
<1>7. ~crowd' => \A d \in Requests : ~SR!Waiting(d)'
  BY <1>1, <1>2 DEF SR!Waiting
<1>8. SR!SpacedByOverlapOnly'
  <2> SUFFICES ASSUME ~crowd', NEW n \in SR!Times, sent'[n] > 0
               PROVE  sent'[n] = 1 /\ \A m \in SR!Times : sent'[m] > 0 /\ m < n => n - m >= SR!MinDelay
    BY DEF SR!SpacedByOverlapOnly
  <2>1. \A m \in SR!Times : sent[m] > 0 => m + SR!MinDelay <= now
    BY <1>0 DEF RateInv, SR!TypeOK, SR!Times
  <2>2. sent[now] = 0
    BY <1>0, <2>1 DEF RateInv, SR!TypeOK
  <2>3. CASE n = now
    BY <1>0, <1>3, <2>1, <2>2, <2>3 DEF SR!Times, RateInv, SR!TypeOK
  <2>4. CASE n # now
    BY <1>0, <1>3, <2>1, <2>4 DEF SR!Times, RateInv, SR!TypeOK, SR!SpacedByOverlapOnly
  <2> QED BY <2>3, <2>4
<1> QED BY <1>2, <1>4, <1>5, <1>6, <1>7, <1>8 DEF RateInv, RateHeld

(* Nothing goes out, and a call waits by itself, or not at all.             *)
LEMMA RateWait ==
  ASSUME SR!RateAssumption, RateInv, NEW c \in Requests, NEW q \in SR!Call, call' = [call EXCEPT ![c] = q],
         UNCHANGED <<now, last, sent>>, windowStart' \in SR!Times, count' \in Nat,
         crowd' \in BOOLEAN, crowd => crowd', q.pc \in {"window", "delay"},
         ~crowd' => \A d \in Requests \ {c} : ~SR!Waiting(d),
         q.entered <= now, q.gates # 0, ~crowd' => last <= q.entered,
         ~crowd' /\ q.pc = "delay" => last + SR!MinDelay <= q.until
  PROVE  RateInv'
<1>1. /\ call' \in [Requests -> SR!Call] /\ call'[c] = q /\ \A d \in Requests \ {c} : call'[d] = call[d]
  BY DEF RateInv, SR!TypeOK
<1>2. SR!TypeOK'
  BY <1>1 DEF RateInv, SR!TypeOK
<1>3. SR!SpacedByOverlapOnly'
  BY DEF RateInv, SR!SpacedByOverlapOnly, SR!MinDelay, SR!TypeOK
<1>4. \A d \in Requests : call'[d].entered <= now' /\ (SR!Waiting(d)' => call'[d].gates # 0)
  BY <1>1 DEF RateInv, SR!Waiting
<1>5. ~crowd' => \A d \in Requests : RateHeld(d)'
  BY <1>1 DEF RateHeld, SR!Waiting, SR!MinDelay
<1> QED BY <1>2, <1>3, <1>4, <1>5 DEF RateInv

(* Either way from behind the window.                                       *)
LEMMA RateSpace ==
  ASSUME SR!RateAssumption, RateInv, NEW c \in Requests, NEW gates \in {1, 2}, NEW entered \in Nat,
         NEW before \in Nat,
         SR!Space(c, gates, entered, before), UNCHANGED now, windowStart' \in SR!Times,
         crowd' \in BOOLEAN, crowd => crowd', entered <= now,
         ~crowd' => last <= entered /\ \A d \in Requests \ {c} : ~SR!Waiting(d)
  PROVE  RateInv'
<1>0. /\ SR!MinDelay \in Nat /\ 0 < SR!MinDelay /\ SR!MinDelay <= Window /\ now \in Nat /\ now <= MaxTime
      /\ last \in Nat /\ last <= MaxTime /\ MaxTime \in Nat /\ Window \in Nat
  BY RateDelay DEF RateInv, SR!TypeOK, SR!Times, SR!RateAssumption
<1>1. CASE last > 0 /\ entered - last < SR!MinDelay
  <2> DEFINE q == [pc |-> "delay", gates |-> gates, entered |-> entered,
                   until |-> now + SR!MinDelay - (entered - last)]
  <2>1. q.until \in 0..2 * MaxTime + Window /\ entered \in 0..MaxTime
    BY <1>0, <1>1
  <2>2. q \in SR!Call
    BY <2>1 DEF SR!Call
  <2>3. last + SR!MinDelay <= q.until
    BY <1>0
  <2>4. call' = [call EXCEPT ![c] = q] /\ count' \in Nat /\ UNCHANGED <<last, sent>>
    BY <1>1 DEF SR!Space
  <2>5. q.pc = "delay" /\ q.entered = entered /\ q.gates # 0
    OBVIOUS
  <2> HIDE DEF q
  <2> QED BY <2>2, <2>3, <2>4, <2>5, RateWait
<1>2. CASE ~(last > 0 /\ entered - last < SR!MinDelay)
  <2>1. SR!Pass(c, gates, entered, before)
    BY <1>2 DEF SR!Space
  <2>2. ~crowd' => last = 0 \/ last + SR!MinDelay <= now
    BY <1>0, <1>2
  <2> QED BY <2>1, <2>2, RatePass
<1> QED BY <1>1, <1>2

(* Time passes, calls enter, wait and wake.                                 *)
LEMMA RateStep == ASSUME SR!RateAssumption PROVE RateInv /\ [SR!Next]_SR!vars => RateInv'
<1> SUFFICES ASSUME RateInv, [SR!Next]_SR!vars PROVE RateInv'
  OBVIOUS
<1>0. /\ MaxTime \in Nat /\ Window \in Nat /\ now \in Nat /\ windowStart \in SR!Times /\ now \in SR!Times
      /\ count \in Nat /\ call \in [Requests -> SR!Call] /\ crowd \in BOOLEAN /\ now <= MaxTime
  BY DEF RateInv, SR!TypeOK, SR!Times, SR!RateAssumption
<1>1. CASE SR!Tick
  BY <1>0, <1>1 DEF SR!Tick, RateInv, SR!TypeOK, SR!Times, SR!SpacedByOverlapOnly, SR!MinDelay, RateHeld,
     SR!Waiting, SR!Call
<1>2. ASSUME NEW c \in Requests, NEW gates \in {1, 2}, SR!Enter(c, gates) PROVE RateInv'
  <2> DEFINE start == IF now - windowStart >= Window THEN now ELSE windowStart
             before == IF now - windowStart >= Window THEN 0 ELSE count
             q == [pc |-> "window", gates |-> gates, entered |-> now, until |-> start + Window]
  <2>1. /\ windowStart' = start /\ start \in SR!Times /\ before \in Nat /\ UNCHANGED now
        /\ crowd' = (crowd \/ \E d \in Requests : SR!Waiting(d))
    BY <1>0, <1>2 DEF SR!Enter
  <2>2. /\ crowd' \in BOOLEAN /\ (crowd => crowd') /\ (~crowd' => \A d \in Requests \ {c} : ~SR!Waiting(d))
        /\ last <= now
    BY <1>0, <2>1 DEF RateInv
  <2>3. CASE before >= Limit
    <3>1. call' = [call EXCEPT ![c] = q] /\ count' = before /\ UNCHANGED <<last, sent>>
      BY <1>2, <2>3 DEF SR!Enter
    <3>2. q \in SR!Call
      BY <1>0, <2>1 DEF SR!Call, SR!Times
    <3>3. q.pc = "window" /\ q.entered = now /\ q.gates # 0
      OBVIOUS
    <3> HIDE DEF q, start, before
    <3>4. /\ UNCHANGED <<now, last, sent>> /\ windowStart' \in SR!Times /\ count' \in Nat /\ q.pc \in {"window", "delay"}
          /\ q.entered <= now /\ (~crowd' => last <= q.entered)
          /\ (~crowd' /\ q.pc = "delay" => last + SR!MinDelay <= q.until)
      BY <1>0, <2>1, <2>2, <3>1, <3>3
    <3> QED BY <2>2, <3>1, <3>2, <3>3, <3>4, RateWait
  <2>4. CASE ~(before >= Limit)
    <3>1. SR!Space(c, gates, now, before)
      BY <1>2, <2>4 DEF SR!Enter
    <3> QED BY <1>0, <2>1, <2>2, <3>1, RateSpace
  <2> QED BY <2>3, <2>4
<1>3. ASSUME NEW c \in Requests, SR!OpenWindow(c) PROVE RateInv'
  <2>1. /\ call[c].pc = "window" /\ windowStart' = now /\ UNCHANGED <<now, crowd>>
        /\ SR!Space(c, call[c].gates, call[c].entered, 0)
    BY <1>3 DEF SR!OpenWindow
  <2>2. call[c].entered \in Nat /\ call[c].entered <= now /\ call[c].gates \in {1, 2}
    BY <1>0, <2>1 DEF RateInv, SR!Call, SR!Waiting
  <2>3. ~crowd => last <= call[c].entered /\ \A d \in Requests \ {c} : ~SR!Waiting(d)
    BY <2>1 DEF RateInv, RateHeld, SR!Waiting
  <2> QED BY <1>0, <2>1, <2>2, <2>3, RateSpace
<1>4. ASSUME NEW c \in Requests, SR!EndDelay(c) PROVE RateInv'
  <2>1. /\ call[c].pc = "delay" /\ now >= call[c].until /\ UNCHANGED <<now, windowStart, crowd>>
        /\ SR!Pass(c, call[c].gates, call[c].entered, count)
    BY <1>4 DEF SR!EndDelay
  <2>2. call[c].gates \in {1, 2} /\ call[c].until \in Nat
    BY <1>0, <2>1 DEF RateInv, SR!Call, SR!Waiting
  <2>3. ~crowd => last + SR!MinDelay <= now /\ \A d \in Requests \ {c} : ~SR!Waiting(d)
    BY <1>0, <2>1, <2>2, RateDelay DEF RateInv, RateHeld, SR!Waiting, SR!TypeOK
  <2> QED BY <1>0, <2>1, <2>2, <2>3, RatePass
<1>5. CASE UNCHANGED SR!vars
  BY <1>5 DEF SR!vars, RateInv, SR!TypeOK, SR!SpacedByOverlapOnly, RateHeld, SR!Waiting, SR!MinDelay, SR!Times
<1> QED BY <1>1, <1>2, <1>3, <1>4, <1>5 DEF SR!Next

-------------------------------------------------------------------------------
(* Messages.  While the circuit is closed its count is one of failures in a *)
(* row, each counted twice at most; and a notification that goes on after   *)
(* it has told the user has lost the answer.                                *)
CircuitHeld(c, f) ==
  /\ c.open => c.failures >= Threshold /\ c.last # 0 /\ 2 * f >= Threshold
  /\ ~c.open => c.failures <= 2 * f

MessagesInv ==
  /\ TM!TypeOK /\ CircuitHeld(circuit, failing) /\ TM!ToldTwiceByLossOnly
  /\ \A r \in Requests : copies[r] > 0 /\ ~TM!At(r, "idle") => r \in unanswered

Circuits == [open : BOOLEAN, failures : Nat, last : 0..MaxTime]

(* The circuit is closed, and nobody has been told.                         *)
LEMMA MessagesInit == ASSUME TM!MessagesAssumption PROVE TM!Init => MessagesInv
BY DEF TM!Init, MessagesInv, TM!MessagesAssumption, TM!TypeOK, CircuitHeld, TM!ToldTwiceByLossOnly, TM!At,
   TM!Idle, TM!Closed, TM!Step

(* What a look at the circuit, a failure and a success make of it.          *)
LEMMA MessagesCircuit ==
  ASSUME TM!MessagesAssumption, TM!TypeOK, NEW c \in Circuits, NEW f \in Nat, CircuitHeld(c, f)
  PROVE  /\ TM!Checked(c) \in Circuits
         /\ CircuitHeld(TM!Checked(c), IF TM!Checked(c).failures = 0 THEN 0 ELSE f)
         /\ TM!Failed(c) \in Circuits /\ CircuitHeld(TM!Failed(c), f + 1) /\ TM!Failed(c).failures # 0
         /\ TM!Checked(TM!Failed(c)) = TM!Failed(c)
         /\ TM!Succeeded(c) = TM!Closed /\ TM!Checked(TM!Closed) = TM!Closed /\ TM!Closed \in Circuits /\ CircuitHeld(TM!Closed, 0)
<1>0. /\ Threshold \in Nat /\ 0 < Threshold /\ Timeout \in Nat /\ MaxTime \in Nat /\ now \in 1..MaxTime
      /\ c.open \in BOOLEAN /\ c.failures \in Nat /\ c.last \in 0..MaxTime
  BY DEF TM!MessagesAssumption, TM!TypeOK, Circuits
<1>1. TM!Checked(c) \in Circuits
  BY <1>0 DEF TM!Checked, Circuits
<1>2. CircuitHeld(TM!Checked(c), IF TM!Checked(c).failures = 0 THEN 0 ELSE f)
  BY <1>0 DEF TM!Checked, Circuits, CircuitHeld
<1>3. TM!Failed(c) \in Circuits /\ TM!Failed(c).failures # 0 /\ TM!Failed(c).last = now
  BY <1>0 DEF TM!Failed, Circuits
<1>4. CircuitHeld(TM!Failed(c), f + 1)
  BY <1>0 DEF TM!Failed, Circuits, CircuitHeld
<1>5. TM!Checked(TM!Failed(c)) = TM!Failed(c)
  BY <1>0, <1>3 DEF TM!Checked
<1>6. TM!Succeeded(c) = TM!Closed
  <2>1. (c.open /\ c.failures = 0) = FALSE
    BY <1>0 DEF CircuitHeld
  <2> QED BY <2>1 DEF TM!Succeeded, TM!Closed
<1>7. TM!Checked(TM!Closed) = TM!Closed /\ TM!Closed \in Circuits /\ CircuitHeld(TM!Closed, 0)
  BY <1>0 DEF TM!Checked, TM!Closed, Circuits, CircuitHeld
<1> QED BY <1>1, <1>2, <1>3, <1>4, <1>5, <1>6, <1>7

(* What a step has to show: the circuit it leaves, and what it tells.       *)
LEMMA MessagesKept ==
  ASSUME TM!MessagesAssumption, MessagesInv, UNCHANGED now, NEW r \in Requests,
         NEW pc \in TM!Step \cup {"idle"}, TM!Goto(r, pc),
         circuit' \in Circuits, failing' \in Nat, CircuitHeld(circuit', failing'),
         \/ TM!Untold /\ ~TM!At(r, "idle")
         \/ copies' = [copies EXCEPT ![r] = 0] /\ unanswered' = unanswered \ {r}
         \/ TM!Told(r) /\ UNCHANGED unanswered /\ pc = "idle" /\ ~TM!At(r, "idle")
         \/ TM!Lost(r)
  PROVE  MessagesInv'
<1>1. /\ request' \in [Requests -> [pc : TM!Step \cup {"idle"}]] /\ request'[r] = [pc |-> pc]
      /\ \A d \in Requests \ {r} : request'[d] = request[d]
  BY DEF MessagesInv, TM!TypeOK, TM!Goto
<1>2. /\ copies' \in [Requests -> Nat] /\ unanswered' \subseteq Requests
      /\ \A d \in Requests \ {r} : copies'[d] = copies[d] /\ (d \in unanswered' <=> d \in unanswered)
  BY DEF MessagesInv, TM!TypeOK, TM!Untold, TM!Told, TM!Lost
<1>3. TM!TypeOK'
  BY <1>1, <1>2 DEF MessagesInv, TM!TypeOK, Circuits
<1>4. /\ copies'[r] > 1 => r \in unanswered'
      /\ copies'[r] > 0 /\ pc # "idle" => r \in unanswered'
  BY DEF MessagesInv, TM!TypeOK, TM!Untold, TM!Told, TM!Lost, TM!ToldTwiceByLossOnly
<1>5. TM!ToldTwiceByLossOnly'
  BY <1>2, <1>4 DEF TM!ToldTwiceByLossOnly, MessagesInv
<1>6. \A d \in Requests : copies'[d] > 0 /\ ~TM!At(d, "idle")' => d \in unanswered'
  BY <1>1, <1>2, <1>4 DEF MessagesInv, TM!At
<1> QED BY <1>3, <1>5, <1>6 DEF MessagesInv

(* A message is sent, sent again, told to a channel, refused or lost.       *)
LEMMA MessagesStep ==
  ASSUME TM!MessagesAssumption
  PROVE  MessagesInv /\ [TM!Next]_TM!vars => MessagesInv'
<1> SUFFICES ASSUME MessagesInv, [TM!Next]_TM!vars PROVE MessagesInv'
  OBVIOUS
<1>0. TM!TypeOK /\ circuit \in Circuits /\ failing \in Nat /\ CircuitHeld(circuit, failing)
  BY DEF MessagesInv, TM!TypeOK, Circuits
<1>1. CASE TM!Tick
  BY <1>1 DEF TM!Tick, MessagesInv, TM!TypeOK, TM!MessagesAssumption, TM!ToldTwiceByLossOnly, TM!At
<1> DEFINE C == TM!Checked(circuit)
           F == TM!Failed(circuit)
           Kept == circuit' \in Circuits /\ failing' \in Nat /\ CircuitHeld(circuit', failing')
<1>2. /\ TM!Becomes(C, 0) => Kept
      /\ TM!Becomes(F, 1) => Kept
      /\ TM!Becomes(TM!Failed(F), 1) => Kept
      /\ C.open /\ TM!Becomes(TM!Failed(C), 0) => Kept
      /\ TM!Succeeds(TM!Closed) => Kept
  <2>1. /\ C \in Circuits /\ CircuitHeld(C, IF C.failures = 0 THEN 0 ELSE failing)
        /\ F \in Circuits /\ CircuitHeld(F, failing + 1) /\ F.failures # 0
        /\ TM!Closed \in Circuits /\ CircuitHeld(TM!Closed, 0)
    BY <1>0, MessagesCircuit
  <2>2. TM!Becomes(C, 0) => Kept
    <3> HIDE DEF C
    <3> QED BY <1>0, <2>1 DEF TM!Becomes
  <2>3. TM!Becomes(F, 1) => Kept
    <3> HIDE DEF F
    <3> QED BY <1>0, <2>1 DEF TM!Becomes
  <2>4. TM!Becomes(TM!Failed(F), 1) => Kept
    <3>1. /\ F.failures = circuit.failures + 1 /\ F.open \in BOOLEAN /\ circuit.failures \in Nat
          /\ F.open => F.failures >= Threshold /\ 2 * (failing + 1) >= Threshold
          /\ ~F.open => circuit.failures <= 2 * failing
      BY <1>0, <2>1 DEF Circuits, CircuitHeld, TM!Failed
    <3>2. now \in 1..MaxTime /\ MaxTime \in Nat /\ Threshold \in Nat
      BY <1>0 DEF TM!TypeOK, TM!MessagesAssumption
    <3> HIDE DEF F
    <3>3. TM!Failed(F) \in Circuits /\ TM!Failed(F).failures = F.failures + 1
          /\ CircuitHeld(TM!Failed(F), failing + 1)
      BY <1>0, <2>1, <3>1, <3>2 DEF TM!Failed, Circuits, CircuitHeld
    <3> QED BY <1>0, <3>1, <3>3 DEF TM!Becomes
  <2>5. C.open /\ TM!Becomes(TM!Failed(C), 0) => Kept
    <3> SUFFICES ASSUME C.open, TM!Becomes(TM!Failed(C), 0) PROVE Kept
      OBVIOUS
    <3>1. now \in 1..MaxTime /\ MaxTime \in Nat /\ Threshold \in Nat /\ 0 < Threshold
      BY <1>0 DEF TM!TypeOK, TM!MessagesAssumption
    <3> HIDE DEF C
    <3>2. C.open \in BOOLEAN /\ C.failures \in Nat /\ C.failures >= Threshold /\ 2 * failing >= Threshold
      BY <1>0, <2>1, <3>1 DEF Circuits, CircuitHeld
    <3>3. TM!Failed(C) = [open |-> TRUE, failures |-> C.failures + 1, last |-> now]
      BY <3>2 DEF TM!Failed
    <3>4. TM!Failed(C) \in Circuits /\ TM!Failed(C).failures # 0 /\ CircuitHeld(TM!Failed(C), failing)
      BY <1>0, <3>1, <3>2, <3>3 DEF Circuits, CircuitHeld
    <3> QED BY <1>0, <3>4 DEF TM!Becomes
  <2>6. TM!Succeeds(TM!Closed) => Kept
    BY <2>1 DEF TM!Succeeds
  <2> QED BY <2>2, <2>3, <2>4, <2>5, <2>6
<1> HIDE DEF Kept
<1>3. TM!Checked(F) = F /\ TM!Succeeded(circuit) = TM!Closed /\ TM!Succeeded(TM!Closed) = TM!Closed
  BY <1>0, MessagesCircuit
<1>4. ASSUME NEW r \in Requests, TM!NotifyComplete(r) PROVE MessagesInv'
  <2>1. TM!Becomes(C, 0) /\ UNCHANGED now /\ copies' = [copies EXCEPT ![r] = 0] /\ unanswered' = unanswered \ {r}
    BY <1>4 DEF TM!NotifyComplete, TM!Begin, TM!SendDirectMessage
  <2>2. PICK pc \in TM!Step \cup {"idle"} : TM!Goto(r, pc)
    BY <1>4 DEF TM!NotifyComplete, TM!SendDirectMessage, TM!Step
  <2> QED BY <1>2, <2>1, <2>2, MessagesKept DEF Kept
<1>5. ASSUME NEW r \in Requests, NEW token \in BOOLEAN, TM!NotifyFailed(r, token) PROVE MessagesInv'
  <2>1. TM!Becomes(C, 0) /\ UNCHANGED now /\ copies' = [copies EXCEPT ![r] = 0] /\ unanswered' = unanswered \ {r}
    BY <1>5 DEF TM!NotifyFailed, TM!Begin, TM!SendDirectMessage
  <2>2. PICK pc \in TM!Step \cup {"idle"} : TM!Goto(r, pc)
    BY <1>5 DEF TM!NotifyFailed, TM!SendDirectMessage, TM!Step
  <2> QED BY <1>2, <2>1, <2>2, MessagesKept DEF Kept
<1>6. ASSUME NEW r \in Requests, TM!FollowUp(r) PROVE MessagesInv'
  <2>1. TM!At(r, "follow-up") /\ ~TM!At(r, "idle") /\ UNCHANGED now
    BY <1>6 DEF TM!FollowUp, TM!At
  <2>2. CASE TM!Told(r) /\ UNCHANGED unanswered /\ TM!Succeeds(TM!Succeeded(circuit)) /\ TM!Goto(r, "idle")
    BY <1>2, <1>3, <2>1, <2>2, MessagesKept DEF Kept
  <2>3. CASE TM!Untold /\ TM!SendDirectMessage(r, circuit, 0)
    <3>1. TM!Becomes(C, 0)
      BY <2>3 DEF TM!SendDirectMessage
    <3>2. PICK pc \in TM!Step \cup {"idle"} : TM!Goto(r, pc)
      BY <2>3 DEF TM!SendDirectMessage, TM!Step
    <3> QED BY <1>2, <2>1, <2>3, <3>1, <3>2, MessagesKept DEF Kept
  <2>4. CASE (TM!Lost(r) \/ TM!Untold) /\ TM!SendDirectMessage(r, F, 1)
    <3>1. TM!Becomes(F, 1)
      BY <1>3, <2>4 DEF TM!SendDirectMessage
    <3>2. PICK pc \in TM!Step \cup {"idle"} : TM!Goto(r, pc)
      BY <2>4 DEF TM!SendDirectMessage, TM!Step
    <3> QED BY <1>2, <2>1, <2>4, <3>1, <3>2, MessagesKept DEF Kept
  <2> QED BY <1>6, <2>2, <2>3, <2>4 DEF TM!FollowUp
<1>7. ASSUME NEW r \in Requests, TM!Channel(r) PROVE MessagesInv'
  <2>1. ~TM!At(r, "idle") /\ UNCHANGED now /\ TM!Untold
    BY <1>7 DEF TM!Channel, TM!At
  <2>2. Kept /\ (TM!Goto(r, "idle") \/ TM!Goto(r, "message"))
    BY <1>2, <1>7 DEF TM!Channel
  <2> QED BY <2>1, <2>2, MessagesKept DEF Kept, TM!Step
<1>8. ASSUME NEW r \in Requests, TM!SendMessage(r) PROVE MessagesInv'
  <2>1. ~TM!At(r, "idle") /\ UNCHANGED now /\ TM!Goto(r, "idle")
    BY <1>8 DEF TM!SendMessage, TM!At
  <2>2. Kept /\ ((TM!Told(r) /\ UNCHANGED unanswered) \/ TM!Lost(r) \/ TM!Untold)
    BY <1>2, <1>3, <1>8 DEF TM!SendMessage
  <2> QED BY <2>1, <2>2, MessagesKept DEF Kept
<1>9. CASE UNCHANGED TM!vars
  BY <1>9 DEF TM!vars, MessagesInv, TM!TypeOK, TM!ToldTwiceByLossOnly, TM!At
<1> QED BY <1>1, <1>4, <1>5, <1>6, <1>7, <1>8, <1>9 DEF TM!Next

(* What a reader is told of messages follows.                               *)
LEMMA MessagesClaims == MessagesInv => TM!ToldTwiceByLossOnly /\ TM!OpenForCause /\ TM!TypeOK
BY DEF MessagesInv, CircuitHeld, TM!OpenForCause

-------------------------------------------------------------------------------
(* Reads of Discord.  What a call has heard was so since it went out, and   *)
(* what is remembered was so no longer before the entry was made than a     *)
(* call takes.                                                              *)
ReadsSo(from, value) == \E n \in 1..now : n >= from /\ truth[n] = value

ReadsHeld(q) ==
  /\ q.pc \in {"idle", "sent", "answered"}
  /\ q.pc = "sent" => /\ {"pc", "since", "heard"} \subseteq DOMAIN q
                      /\ q.since \in 1..now /\ now - q.since <= CallTimeout
                      /\ q.heard # DR!Unknown => ReadsSo(q.since, q.heard = "there")
  /\ q.pc = "answered" => IF q.failed THEN ~q.value ELSE ReadsSo(now - (Ttl + CallTimeout), q.value)

ReadsInv ==
  /\ kind \in {"role", "channel", "member"} /\ now \in 1..MaxReadTime
  /\ truth \in [1..MaxReadTime -> BOOLEAN] /\ cached \in [value : BOOLEAN, until : Nat]
  /\ DOMAIN request = Requests /\ request = [r \in Requests |-> request[r]]
  /\ \A r \in Requests : ReadsHeld(request[r])
  /\ now <= cached.until => ReadsSo(cached.until - (Ttl + CallTimeout), cached.value)

(* Nothing is remembered yet.                                               *)
LEMMA ReadsInit == ASSUME DR!ReadsAssumption PROVE DR!Init => ReadsInv
<1> SUFFICES ASSUME DR!Init PROVE ReadsInv
  OBVIOUS
<1>1. MaxReadTime \in Nat /\ 0 < MaxReadTime
  BY DEF DR!ReadsAssumption
<1>2. truth \in [1..MaxReadTime -> BOOLEAN]
  BY <1>1 DEF DR!Init
<1>3. DR!Nothing \in [value : BOOLEAN, until : Nat] /\ DR!Nothing.until = 0
  BY DEF DR!Nothing
<1>4. \A r \in Requests : ReadsHeld(request[r])
  BY DEF DR!Init, DR!Idle, ReadsHeld
<1> QED BY <1>1, <1>2, <1>3, <1>4 DEF DR!Init, ReadsInv

(* One request goes on, the clock and what is there stay.                   *)
LEMMA ReadsGoto ==
  ASSUME ReadsInv, NEW r \in Requests, NEW q, DR!Goto(r, q), ReadsHeld(q), UNCHANGED <<kind, now, truth>>,
         cached' \in [value : BOOLEAN, until : Nat],
         now <= cached'.until => ReadsSo(cached'.until - (Ttl + CallTimeout), cached'.value)
  PROVE  ReadsInv'
<1>1. /\ DOMAIN request' = Requests /\ request' = [d \in Requests |-> request'[d]]
      /\ request'[r] = q /\ \A d \in Requests \ {r} : request'[d] = request[d]
  BY DEF ReadsInv, DR!Goto
<1>2. \A d \in Requests : ReadsHeld(request'[d])
  BY <1>1 DEF ReadsInv
<1>3. (\A d \in Requests : ReadsHeld(request[d]))'
  BY <1>2 DEF ReadsHeld, ReadsSo
<1>4. (now <= cached.until => ReadsSo(cached.until - (Ttl + CallTimeout), cached.value))'
  BY DEF ReadsSo
<1> QED BY <1>1, <1>3, <1>4 DEF ReadsInv

(* Time passes: what was true stays so in the history.                      *)
LEMMA ReadsTick == ASSUME DR!ReadsAssumption, ReadsInv, DR!Tick PROVE ReadsInv'
<1>0. /\ MaxReadTime \in Nat /\ now \in 1..MaxReadTime /\ Ttl \in Nat /\ CallTimeout \in Nat /\ now' = now + 1
      /\ now < MaxReadTime
  BY DEF DR!ReadsAssumption, ReadsInv, DR!Tick
<1>1. /\ now' \in 1..MaxReadTime /\ truth' \in [1..MaxReadTime -> BOOLEAN] /\ UNCHANGED <<kind, cached, request>>
      /\ \A n \in 1..now : truth'[n] = truth[n]
  BY <1>0 DEF ReadsInv, DR!Tick
<1>2. ASSUME NEW from \in Int, NEW value, ReadsSo(from, value) PROVE ReadsSo(from, value)'
  <2>1. PICK n \in 1..now : n >= from /\ truth[n] = value
    BY <1>2 DEF ReadsSo
  <2>2. n \in 1..now' /\ truth'[n] = value
    BY <1>0, <1>1, <2>1
  <2> QED BY <2>1, <2>2 DEF ReadsSo
<1>3. ASSUME NEW r \in Requests PROVE ReadsHeld(request[r])'
  <2>1. /\ request[r].pc \in {"idle", "sent"}
        /\ request[r].pc = "sent" => now - request[r].since < CallTimeout
    BY DEF DR!Tick, DR!At, ReadsInv, ReadsHeld
  <2>2. CASE request[r].pc = "sent"
    <3>1. request[r].since \in 1..now' /\ now' - request[r].since <= CallTimeout
      BY <1>0, <2>1, <2>2 DEF ReadsInv, ReadsHeld
    <3> DEFINE v == request[r].heard = "there"
    <3>2. request[r].heard # DR!Unknown => ReadsSo(request[r].since, v)
      BY <2>2 DEF ReadsInv, ReadsHeld
    <3>3. ASSUME request[r].heard # DR!Unknown
          PROVE  \E n \in 1..now' : n >= request[r].since /\ truth'[n] = v
      BY <1>0, <1>1, <3>1, <3>2, <3>3 DEF ReadsSo
    <3>4. {"pc", "since", "heard"} \subseteq DOMAIN request[r]
      BY <2>2 DEF ReadsInv, ReadsHeld
    <3> QED BY <1>1, <2>2, <3>1, <3>3, <3>4 DEF ReadsHeld, ReadsSo, DR!Unknown
  <2> QED BY <1>1, <2>1, <2>2 DEF ReadsHeld
<1>4. (now <= cached.until => ReadsSo(cached.until - (Ttl + CallTimeout), cached.value))'
  <2> DEFINE from == cached.until - (Ttl + CallTimeout)
  <2>1. SUFFICES ASSUME now' <= cached'.until PROVE ReadsSo(from, cached.value)'
    OBVIOUS
  <2>2. from \in Int /\ ReadsSo(from, cached.value)
    BY <1>0, <1>1, <2>1 DEF ReadsInv
  <2> QED BY <1>1, <1>2, <2>2, ZenonT(30) DEF ReadsSo
<1> QED BY <1>1, <1>3, <1>4 DEF ReadsInv

(* A read asks the cache, calls, retries and answers.                       *)
LEMMA ReadsStep == ASSUME DR!ReadsAssumption PROVE ReadsInv /\ [DR!Next]_DR!vars => ReadsInv'
<1> SUFFICES ASSUME ReadsInv, [DR!Next]_DR!vars PROVE ReadsInv'
  OBVIOUS
<1>0. /\ MaxReadTime \in Nat /\ now \in 1..MaxReadTime /\ Ttl \in Nat /\ CallTimeout \in Nat
      /\ cached \in [value : BOOLEAN, until : Nat]
      /\ now <= cached.until => ReadsSo(cached.until - (Ttl + CallTimeout), cached.value)
  BY DEF DR!ReadsAssumption, ReadsInv
<1>1. ASSUME NEW remembers, NEW safe, NEW tries PROVE ReadsHeld(DR!Sent(remembers, safe, tries))
  BY <1>0 DEF ReadsHeld, DR!Sent, DR!Unknown
<1>2. ASSUME NEW r \in Requests, NEW k, NEW remembers \in BOOLEAN, NEW safe \in BOOLEAN, DR!Ask(r, k, remembers, safe)
      PROVE  ReadsInv'
  <2>1. UNCHANGED <<kind, now, truth, cached>>
    BY <1>2 DEF DR!Ask
  <2>2. CASE remembers /\ now <= cached.until
    <3>1. ReadsSo(now - (Ttl + CallTimeout), cached.value)
      BY <1>0, <2>2 DEF ReadsSo
    <3>2. ReadsHeld(DR!Answered(cached.value, FALSE)) /\ DR!Goto(r, DR!Answered(cached.value, FALSE))
      BY <1>2, <2>2, <3>1 DEF DR!Ask, ReadsHeld, DR!Answered
    <3> QED BY <1>0, <2>1, <3>2, ReadsGoto
  <2>3. CASE ~(remembers /\ now <= cached.until)
    BY <1>0, <1>1, <1>2, <2>1, <2>3, ReadsGoto DEF DR!Ask
  <2> QED BY <2>2, <2>3
<1>3. ASSUME NEW r \in Requests, DR!Respond(r) PROVE ReadsInv'
  <2> DEFINE q == [request[r] EXCEPT !.heard = IF truth[now] THEN "there" ELSE "not there"]
  <2>1. /\ request[r].pc = "sent" /\ DR!Goto(r, q) /\ UNCHANGED <<kind, now, truth, cached>>
    BY <1>3 DEF DR!Respond, DR!At
  <2>2. ReadsHeld(request[r])
    BY DEF ReadsInv
  <2> DEFINE heard == IF truth[now] THEN "there" ELSE "not there"
  <2>3. heard \in {"there", "not there"} /\ truth[now] = (heard = "there")
    <3>1. truth[now] \in BOOLEAN
      BY <1>0 DEF ReadsInv
    <3>2. CASE truth[now]
      BY <3>1, <3>2
    <3>3. CASE ~truth[now]
      BY <3>1, <3>3
    <3> QED BY <3>2, <3>3
  <2>4. q.pc = "sent" /\ q.since = request[r].since /\ q.heard = heard /\ DOMAIN q = DOMAIN request[r]
    BY <2>1, <2>2 DEF ReadsHeld
  <2>5. ReadsSo(request[r].since, heard = "there")
    <3> DEFINE v == heard = "there"
    <3>1. truth[now] = v
      BY <2>3
    <3> HIDE DEF v
    <3>2. request[r].since \in 1..now
      BY <2>1, <2>2 DEF ReadsHeld
    <3>4. now \in 1..now /\ now >= request[r].since
      BY <1>0, <3>2
    <3>3. ReadsSo(request[r].since, v)
      BY <3>1, <3>4 DEF ReadsSo
    <3> QED BY <3>3 DEF v
  <2>6. {"pc", "since", "heard"} \subseteq DOMAIN q /\ q.since \in 1..now /\ now - q.since <= CallTimeout
    BY <2>1, <2>2, <2>4 DEF ReadsHeld
  <2>7. ReadsHeld(q)
    <3> HIDE DEF q, heard
    <3> QED BY <2>4, <2>5, <2>6 DEF ReadsHeld
  <2> QED BY <1>0, <2>1, <2>7, ReadsGoto
<1>4. ASSUME NEW r \in Requests, DR!Receive(r) PROVE ReadsInv'
  <2> DEFINE q == request[r]
             v == q.heard = "there"
  <2>1. /\ q.pc = "sent" /\ q.heard # DR!Unknown /\ DR!Goto(r, DR!Answered(v, FALSE)) /\ UNCHANGED <<kind, now, truth>>
        /\ cached' = IF q.remembers THEN DR!Entry(v) ELSE cached
    BY <1>4 DEF DR!Receive, DR!At
  <2>2. ReadsSo(q.since, v) /\ q.since \in 1..now /\ now - q.since <= CallTimeout
    BY <2>1 DEF ReadsInv, ReadsHeld
  <2>3. v \in BOOLEAN
    OBVIOUS
  <2> HIDE DEF v
  <2>4. ReadsSo(now - (Ttl + CallTimeout), v)
    BY <1>0, <2>2 DEF ReadsSo
  <2>5. ReadsHeld(DR!Answered(v, FALSE))
    BY <2>4 DEF DR!Answered, ReadsHeld
  <2>6. DR!Entry(v) \in [value : BOOLEAN, until : Nat] /\ DR!Entry(v).until = now + Ttl /\ DR!Entry(v).value = v
    BY <1>0, <2>3 DEF DR!Entry
  <2>7. ReadsSo(DR!Entry(v).until - (Ttl + CallTimeout), DR!Entry(v).value)
    BY <1>0, <2>2, <2>6 DEF ReadsSo
  <2>8. cached' \in {DR!Entry(v), cached}
    BY <2>1
  <2> QED BY <1>0, <2>1, <2>5, <2>6, <2>7, <2>8, ReadsGoto
<1>5. ASSUME NEW r \in Requests, DR!Retry(r) PROVE ReadsInv'
  BY <1>0, <1>1, <1>5, ReadsGoto DEF DR!Retry
<1>6. ASSUME NEW r \in Requests, DR!GiveUp(r) \/ DR!Return(r) PROVE ReadsInv'
  <2>1. UNCHANGED <<kind, now, truth, cached>> /\ (DR!Goto(r, DR!Idle) \/ DR!Goto(r, DR!Answered(FALSE, TRUE)))
    BY <1>6 DEF DR!GiveUp, DR!Return
  <2>2. ReadsHeld(DR!Idle) /\ ReadsHeld(DR!Answered(FALSE, TRUE))
    BY DEF ReadsHeld, DR!Idle, DR!Answered
  <2> QED BY <1>0, <2>1, <2>2, ReadsGoto
<1>7. CASE UNCHANGED DR!vars
  BY <1>7 DEF DR!vars, ReadsInv, ReadsHeld, ReadsSo
<1> QED BY <1>2, <1>3, <1>4, <1>5, <1>6, <1>7, ReadsTick
        DEF DR!Next, DR!GetGuildRoles, DR!GetGuildChannels, DR!GetGuildMemberByUserId, DR!ValidateRoleIds,
            DR!ValidateChannelIds,
            DR!ValidateRoleId, DR!ValidateChannelId

(* What a reader is told of reads follows.                                  *)
LEMMA ReadsClaims == ASSUME DR!ReadsAssumption, ReadsInv PROVE DR!TypeOK /\ DR!TrueRecently
<1>1. DR!TypeOK
  BY DEF DR!TypeOK, ReadsInv, ReadsHeld
<1>2. ASSUME NEW r \in Requests, DR!At(r, "answered"), ~request[r].failed
      PROVE  \E n \in 1..now : now - n <= Ttl + CallTimeout /\ truth[n] = request[r].value
  <2>1. ReadsSo(now - (Ttl + CallTimeout), request[r].value) /\ now \in Nat /\ Ttl + CallTimeout \in Nat
    BY <1>2 DEF ReadsInv, ReadsHeld, DR!At, DR!ReadsAssumption
  <2> QED BY <2>1 DEF ReadsSo
<1> QED BY <1>1, <1>2 DEF DR!TrueRecently, ReadsInv, ReadsHeld, DR!At

-------------------------------------------------------------------------------
(* Registration.  Of a user who is not raced one request at most is past    *)
(* the count, and there is room for what it has left; who registers keeps   *)
(* no tracker until his list is validated.                                  *)
RegAsked == [pc : TR!Step, of : Owners, urls : Seq(Urls), add : BOOLEAN]

RegRoom(n, q) == IF q.pc = "unique" /\ ~q.add THEN n = 0 ELSE n + Len(q.urls) <= MaxTrackers

RegLimit(u) ==
  /\ Cardinality(TR!Trackers(u)) <= MaxTrackers
  /\ \A r \in Requests : TR!PastCount(r) /\ request[r].of = u =>
       /\ RegRoom(Cardinality(TR!Trackers(u)), request[r])
       /\ \A q \in Requests \ {r} : ~(TR!PastCount(q) /\ request[q].of = u)

(* What is left of a validated list names no URL twice, and none that is    *)
(* taken unless another request took it.                                    *)
RegList(urls) ==
  /\ Len(urls) >= 1 /\ \A i \in 1..Len(urls) : urls[i] \in Accepted
  /\ \A i, j \in 1..Len(urls) : urls[i] = urls[j] => i = j

RegTaken == {l \in Urls : TR!Taken(l)}

RegType ==
  /\ user \subseteq Owners /\ raced \subseteq Owners /\ contested \subseteq Requests
  /\ owner \in [Urls -> Owners \cup {NoUser}] /\ IsFiniteSet(RegTaken)
  /\ deleted \subseteq RegTaken
  /\ \A l \in Urls : TR!Taken(l) => owner[l] \in user /\ l \in Accepted
  /\ DOMAIN request = Requests /\ \A r \in Requests : request[r] = TR!Idle \/ request[r] \in RegAsked
  /\ \A r \in Requests : request[r] # TR!Idle /\ request[r].add => Len(request[r].urls) = 1
  /\ \A r \in contested : TR!At(r, "create")

RegFree ==
  \A r \in Requests : TR!At(r, "create") =>
    /\ RegList(request[r].urls)
    /\ r \notin contested => \A l \in TR!Listed(request[r].urls) : ~TR!Taken(l)

RegInv == RegType /\ RegFree /\ \A u \in Owners \ raced : RegLimit(u)

(* Nobody has a tracker, and nobody asks for one.                           *)
LEMMA RegInit == ASSUME TR!RegistrationAssumption PROVE TR!Init => RegInv
<1> SUFFICES ASSUME TR!Init PROVE RegInv
  OBVIOUS
<1>1. RegTaken = {} /\ \A u \in Owners : TR!Trackers(u) = {}
  BY DEF TR!Init, RegTaken, TR!Taken, TR!Trackers, TR!RegistrationAssumption
<1>2. \A r \in Requests : request[r] = TR!Idle /\ ~TR!PastCount(r) /\ request[r].pc = "idle"
  BY DEF TR!Init, TR!Idle, TR!PastCount
<1>3. RegType
  BY <1>1, <1>2, FS_EmptySet DEF TR!Init, RegType, RegTaken
<1>4. \A u \in Owners : RegLimit(u)
  BY <1>1, <1>2, FS_EmptySet DEF RegLimit, TR!RegistrationAssumption
<1> QED BY <1>2, <1>3, <1>4 DEF RegInv, RegFree, TR!At

(* A user's trackers are finitely many.                                     *)
LEMMA RegFinite == ASSUME RegType, NEW u \in Owners, TR!RegistrationAssumption
                   PROVE  IsFiniteSet(TR!Trackers(u)) /\ Cardinality(TR!Trackers(u)) \in Nat
<1>1. TR!Trackers(u) \subseteq RegTaken
  BY DEF TR!Trackers, RegTaken, TR!Taken, TR!RegistrationAssumption
<1> QED BY <1>1, FS_Subset, FS_CardinalityType DEF RegType

(* A list of as many URLs as it has places names none twice.                *)
LEMMA RegDistinct == ASSUME NEW urls \in Seq(Urls), TR!Valid(urls) PROVE RegList(urls)
<1> DEFINE S == 1..Len(urls)
           T == TR!Listed(urls)
           f == [i \in S |-> urls[i]]
<1>0. Len(urls) \in Nat /\ Len(urls) >= 1
  <2>1. Len(urls) \in Nat
    OBVIOUS
  <2> QED BY <2>1 DEF TR!Valid
<1>1. IsFiniteSet(S) /\ Cardinality(S) = Len(urls)
  BY <1>0, FS_Interval
<1>2. f \in Surjection(S, T)
  BY DEF Surjection, TR!Listed
<1>3. IsFiniteSet(T) /\ Cardinality(T) = Cardinality(S)
  <2>1. IsFiniteSet(T)
    BY <1>1, <1>2, FS_Surjection
  <2> QED BY <1>1, <2>1, SameCounts DEF TR!Valid
<1>4. f \in Injection(S, T)
  BY <1>1, <1>2, <1>3, FS_SurjSameCardinalityImpliesInj
<1>5. \A i, j \in S : urls[i] = urls[j] => i = j
  BY <1>4 DEF Injection, IsInjective
<1>6. \A i \in S : urls[i] \in Accepted
  BY DEF TR!Valid, TR!Listed
<1> QED BY <1>0, <1>5, <1>6 DEF RegList

(* A request that stays before the count, or ends, changes nothing of this. *)
LEMMA RegAway ==
  ASSUME TR!RegistrationAssumption, RegInv, NEW r \in Requests, NEW q,
         q = TR!Idle \/ (q \in RegAsked /\ q.pc \in {"ensure", "count"} /\ (q.add => Len(q.urls) = 1)),
         request' = [request EXCEPT ![r] = q], UNCHANGED <<owner, deleted, raced>>,
         user \subseteq user', user' \subseteq Owners, contested' = contested \ {r}
  PROVE  RegInv'
<1>1. /\ DOMAIN request' = Requests /\ request'[r] = q /\ \A d \in Requests \ {r} : request'[d] = request[d]
      /\ ~(q.pc \in {"unique", "create"})
  BY DEF RegInv, RegType, TR!Idle
<1>2. RegType'
  BY <1>1 DEF RegInv, RegType, RegTaken, TR!Taken, TR!At
<1>3. RegFree'
  BY <1>1 DEF RegInv, RegFree, TR!At, TR!Taken
<1>4. ASSUME NEW u \in Owners \ raced PROVE RegLimit(u)'
  <2>1. RegLimit(u) /\ TR!Trackers(u)' = TR!Trackers(u)
    BY DEF RegInv, TR!Trackers
  <2> QED BY <1>1, <2>1 DEF RegLimit, TR!PastCount
<1> QED BY <1>2, <1>3, <1>4 DEF RegInv

(* A request comes past the count: there is room, or there was a race.      *)
LEMMA RegCount ==
  ASSUME TR!RegistrationAssumption, RegInv, NEW r \in Requests, TR!Count(r), TR!WithinLimit(r)
  PROVE  RegInv'
<1> DEFINE q == [request[r] EXCEPT !.pc = "unique"]
           n == Cardinality(TR!Trackers(request[r].of))
<1>1. /\ request[r] \in RegAsked /\ request[r].pc = "count"
      /\ q \in RegAsked /\ q.pc = "unique" /\ q.of = request[r].of /\ q.add = request[r].add /\ q.urls = request[r].urls
  BY DEF TR!Count, TR!At, RegInv, RegType, RegAsked, TR!Idle, TR!Step
<1>2. /\ DOMAIN request' = Requests /\ request'[r] = q /\ \A d \in Requests \ {r} : request'[d] = request[d]
      /\ UNCHANGED <<user, owner, deleted, contested>>
  BY <1>1 DEF TR!Count, TR!Goto, RegInv, RegType, TR!End, TR!Idle, TR!WithinLimit
<1> HIDE DEF q
<1>3. /\ raced' \subseteq Owners /\ raced \subseteq raced'
      /\ request[r].of \in Owners \ raced' =>
           \A d \in Requests \ {r} : ~(TR!PastCount(d) /\ request[d].of = request[r].of)
  BY <1>1 DEF TR!Count, RegInv, RegType, RegAsked
<1>4. RegType'
  BY <1>1, <1>2, <1>3 DEF RegInv, RegType, RegTaken, TR!Taken, TR!At, TR!Idle
<1>5. RegFree'
  BY <1>1, <1>2 DEF RegInv, RegFree, TR!At, TR!Taken
<1>6. ASSUME NEW u \in Owners \ raced' PROVE RegLimit(u)'
  <2>1. RegLimit(u) /\ TR!Trackers(u)' = TR!Trackers(u)
    BY <1>2, <1>3 DEF RegInv, TR!Trackers
  <2>2. CASE u # request[r].of
    BY <1>1, <1>2, <2>1, <2>2 DEF RegLimit, TR!PastCount
  <2>3. CASE u = request[r].of
    <3>1. n \in Nat /\ n < (IF q.add THEN MaxTrackers ELSE 1) /\ MaxTrackers \in Nat
      BY <1>1, <2>3, RegFinite, SameCounts DEF TR!WithinLimit, RegInv, TR!RegistrationAssumption
    <3>2. q.add => Len(q.urls) = 1
      <4>1. request[r] # TR!Idle
        BY <1>1 DEF TR!Idle
      <4> QED BY <1>1, <4>1 DEF RegInv, RegType
    <3>3. RegRoom(n, q)
      <4> HIDE DEF n
      <4>1. CASE q.add
        <5>1. n + 1 <= MaxTrackers /\ Len(q.urls) = 1
          BY <3>1, <3>2, <4>1
        <5> QED BY <4>1, <5>1 DEF RegRoom
      <4>2. CASE ~q.add
        BY <1>1, <3>1, <4>2 DEF RegRoom
      <4> QED BY <4>1, <4>2
    <3>4. \A d \in Requests \ {r} : ~(TR!PastCount(d)' /\ request'[d].of = u)
      BY <1>2, <1>3, <2>3 DEF TR!PastCount
    <3> QED BY <1>2, <2>1, <2>3, <3>3, <3>4 DEF RegLimit
  <2> QED BY <2>2, <2>3
<1> QED BY <1>3, <1>4, <1>5, <1>6 DEF RegInv

(* A list comes past the validation: its URLs are free, or contested.       *)
LEMMA RegValidate ==
  ASSUME TR!RegistrationAssumption, RegInv, NEW r \in Requests, TR!Validate(r), TR!Valid(request[r].urls) PROVE RegInv'
<1> DEFINE q == [request[r] EXCEPT !.pc = "create"]
           n == Cardinality(TR!Trackers(request[r].of))
<1>1. /\ request[r] \in RegAsked /\ request[r].pc = "unique"
      /\ q \in RegAsked /\ q.pc = "create" /\ q.of = request[r].of /\ q.add = request[r].add /\ q.urls = request[r].urls
  BY DEF TR!Validate, TR!At, RegInv, RegType, RegAsked, TR!Idle, TR!Step
<1>2. /\ DOMAIN request' = Requests /\ request'[r] = q /\ \A d \in Requests \ {r} : request'[d] = request[d]
      /\ UNCHANGED <<user, owner, deleted, raced, contested>>
  BY <1>1 DEF TR!Validate, TR!Goto, RegInv, RegType, TR!End, TR!Idle
<1> HIDE DEF q
<1>3. RegType'
  BY <1>1, <1>2 DEF RegInv, RegType, RegTaken, TR!Taken, TR!At, TR!Idle
<1>4. RegFree'
  <2>1. RegList(q.urls) /\ \A l \in TR!Listed(q.urls) : ~TR!Taken(l)
    BY <1>1, RegDistinct DEF TR!Valid, TR!Unique, RegAsked
  <2> QED BY <1>2, <2>1 DEF RegInv, RegFree, TR!At, TR!Taken
<1>5. ASSUME NEW u \in Owners \ raced PROVE RegLimit(u)'
  <2>1. RegLimit(u) /\ TR!Trackers(u)' = TR!Trackers(u)
    BY <1>2 DEF RegInv, TR!Trackers
  <2>2. CASE u # request[r].of
    BY <1>1, <1>2, <2>1, <2>2 DEF RegLimit, TR!PastCount
  <2>3. CASE u = request[r].of
    <3>1. RegRoom(n, request[r]) /\ \A d \in Requests \ {r} : ~(TR!PastCount(d) /\ request[d].of = u)
      BY <1>1, <2>1, <2>3 DEF RegLimit, TR!PastCount
    <3>2. Len(q.urls) \in 1..MaxTrackers
      BY <1>1 DEF TR!Valid
    <3>3. RegRoom(n, q)
      BY <1>1, <3>1, <3>2 DEF RegRoom, TR!RegistrationAssumption
    <3>4. \A d \in Requests \ {r} : ~(TR!PastCount(d)' /\ request'[d].of = u)
      BY <1>2, <3>1 DEF TR!PastCount
    <3> QED BY <1>2, <2>1, <2>3, <3>3, <3>4 DEF RegLimit
  <2> QED BY <2>2, <2>3
<1> QED BY <1>2, <1>3, <1>4, <1>5 DEF RegInv

(* A request creates the tracker of its first URL.                          *)
LEMMA RegCreate ==
  ASSUME TR!RegistrationAssumption, RegInv, NEW r \in Requests, TR!Create(r),
         ~TR!Taken(Head(request[r].urls)), request[r].of \in user
  PROVE  RegInv'
<1> DEFINE q == request[r]
           url == Head(q.urls)
           rest == Tail(q.urls)
           q2 == IF rest = <<>> THEN TR!Idle ELSE [q EXCEPT !.urls = rest]
           n == Cardinality(TR!Trackers(q.of))
<1>1. q \in RegAsked /\ q.pc = "create" /\ q # TR!Idle /\ q.of \in Owners /\ q.urls \in Seq(Urls) /\ RegList(q.urls)
  BY DEF TR!Create, TR!At, RegInv, RegType, RegFree, RegAsked, TR!Idle
<1>2. /\ Len(q.urls) \in Nat /\ Len(q.urls) >= 1 /\ q.urls # <<>>
  BY <1>1 DEF RegList
<1>3. /\ rest \in Seq(Urls) /\ Len(rest) = Len(q.urls) - 1 /\ (rest = <<>> <=> Len(q.urls) = 1)
      /\ url = q.urls[1] /\ \A i \in 1..Len(rest) : rest[i] = q.urls[i + 1] /\ i + 1 \in 1..Len(q.urls)
  <2> HIDE DEF q
  <2>1. rest \in Seq(Urls) /\ Len(rest) = Len(q.urls) - 1
    BY <1>1, <1>2
  <2>2. url = q.urls[1] /\ \A i \in 1..Len(rest) : rest[i] = q.urls[i + 1] /\ i + 1 \in 1..Len(q.urls)
    BY <1>1, <1>2, <2>1
  <2>3. rest = <<>> <=> Len(rest) = 0
    BY <2>1, EmptySeq
  <2> QED BY <1>2, <2>1, <2>2, <2>3
<1>4. url \in Accepted /\ url \in Urls /\ owner[url] = NoUser /\ url \notin deleted
  <2>1. url \in Accepted
    BY <1>1, <1>2, <1>3 DEF RegList
  <2> QED BY <2>1 DEF TR!RegistrationAssumption, TR!Taken, RegInv, RegType, RegTaken
<1>5. /\ owner' = [owner EXCEPT ![url] = q.of] /\ UNCHANGED <<user, deleted, raced>>
      /\ request' = [request EXCEPT ![r] = q2]
      /\ contested' = (contested \cup {d \in Requests : d # r /\ TR!At(d, "create") /\ url \in TR!Listed(request[d].urls)})
                       \ (IF rest = <<>> THEN {r} ELSE {})
  BY DEF TR!Create
<1>6. DOMAIN request' = Requests /\ request'[r] = q2 /\ \A d \in Requests \ {r} : request'[d] = request[d]
  BY <1>5 DEF RegInv, RegType
<1>7. owner'[url] = q.of /\ q.of # NoUser /\ \A l \in Urls \ {url} : owner'[l] = owner[l]
  BY <1>1, <1>4, <1>5 DEF RegInv, RegType, TR!RegistrationAssumption
<1>8. /\ rest = <<>> => q2 = TR!Idle
      /\ rest # <<>> => /\ q2 \in RegAsked /\ q2.pc = "create" /\ q2.of = q.of /\ q2.add = q.add /\ q2.urls = rest
                        /\ Len(rest) >= 1
  <2>1. rest # <<>> => Len(rest) >= 1
    BY <1>2, <1>3
  <2> HIDE DEF rest, q
  <2> QED BY <1>1, <1>3, <2>1 DEF RegAsked
<1> HIDE DEF q2, url, rest
<1>9. RegType'
  <2>1. RegTaken' = RegTaken \cup {url}
    BY <1>4, <1>7 DEF RegTaken, TR!Taken
  <2>2. IsFiniteSet(RegTaken')
    BY <2>1, FS_AddElement DEF RegInv, RegType
  <2>3. owner' \in [Urls -> Owners \cup {NoUser}] /\ \A l \in Urls : TR!Taken(l)' => owner'[l] \in user' /\ l \in Accepted
    BY <1>1, <1>4, <1>5, <1>7 DEF RegInv, RegType, TR!Taken
  <2>4. \A d \in Requests : request'[d] = TR!Idle \/ request'[d] \in RegAsked
    BY <1>6, <1>8 DEF RegInv, RegType
  <2>5. \A d \in Requests : request'[d] # TR!Idle /\ request'[d].add => Len(request'[d].urls) = 1
    <3>1. rest # <<>> => ~q2.add
      BY <1>1, <1>3, <1>8 DEF RegInv, RegType
    <3> QED BY <1>6, <1>8, <3>1 DEF RegInv, RegType
  <2>6. contested' \subseteq Requests /\ \A d \in contested' : TR!At(d, "create")'
    BY <1>5, <1>6, <1>8 DEF RegInv, RegType, TR!At
  <2> QED BY <1>5, <1>6, <2>1, <2>2, <2>3, <2>4, <2>5, <2>6 DEF RegInv, RegType
<1>10. RegFree'
  <2> SUFFICES ASSUME NEW d \in Requests, request'[d].pc = "create"
               PROVE  /\ RegList(request'[d].urls)
                      /\ d \notin contested' => \A l \in TR!Listed(request'[d].urls) : owner'[l] = NoUser
    BY DEF RegFree, TR!At, TR!Taken
  <2>1. CASE d # r
    <3>1. request'[d] = request[d] /\ RegList(request[d].urls)
      BY <1>6, <2>1 DEF RegInv, RegFree, TR!At
    <3>2. ASSUME d \notin contested', NEW l \in TR!Listed(request[d].urls) PROVE owner'[l] = NoUser
      <4>1. d \notin contested /\ url \notin TR!Listed(request[d].urls)
        BY <1>5, <2>1, <3>1, <3>2 DEF TR!At
      <4>2. owner[l] = NoUser /\ l \in Urls
        BY <3>1, <4>1 DEF RegInv, RegFree, TR!At, TR!Taken, TR!Listed, RegList, TR!RegistrationAssumption
      <4> QED BY <1>7, <4>1, <4>2
    <3> QED BY <3>1, <3>2
  <2>2. CASE d = r
    <3>1. rest # <<>> /\ request'[d].urls = rest /\ Len(rest) >= 1
      BY <1>6, <1>8, <2>2 DEF TR!Idle
    <3>2. RegList(rest)
      <4>1. \A i \in 1..Len(rest) : rest[i] \in Accepted
        BY <1>1, <1>3 DEF RegList
      <4>2. ASSUME NEW i \in 1..Len(rest), NEW j \in 1..Len(rest), rest[i] = rest[j] PROVE i = j
        <5>1. q.urls[i + 1] = q.urls[j + 1] /\ i + 1 \in 1..Len(q.urls) /\ j + 1 \in 1..Len(q.urls)
          BY <1>3, <4>2
        <5>2. i + 1 = j + 1
          BY <1>1, <5>1 DEF RegList
        <5> QED BY <5>2
      <4> QED BY <3>1, <4>1, <4>2 DEF RegList
    <3>3. ASSUME d \notin contested', NEW l \in TR!Listed(rest) PROVE owner'[l] = NoUser
      <4>1. PICK i \in 1..Len(rest) : l = q.urls[i + 1] /\ i + 1 \in 1..Len(q.urls)
        BY <1>3 DEF TR!Listed
      <4>2. l # url /\ l \in TR!Listed(q.urls) /\ l \in Urls
        <5>1. 1 \in 1..Len(q.urls) /\ i + 1 # 1
          BY <1>2, <4>1
        <5> QED BY <1>1, <1>3, <4>1, <5>1 DEF RegList, TR!Listed, TR!RegistrationAssumption
      <4>3. d \notin contested
        BY <1>5, <3>1, <3>3
      <4>4. owner[l] = NoUser
        BY <1>1, <2>2, <4>2, <4>3 DEF RegInv, RegFree, TR!At, TR!Taken
      <4> QED BY <1>7, <4>2, <4>4
    <3> QED BY <3>1, <3>2, <3>3
  <2> QED BY <2>1, <2>2
<1>11. ASSUME NEW u \in Owners \ raced PROVE RegLimit(u)'
  <2>1. RegLimit(u)
    BY DEF RegInv
  <2>2. CASE u # q.of
    <3>1. TR!Trackers(u)' = TR!Trackers(u)
      BY <1>4, <1>5, <1>7, <2>2 DEF TR!Trackers, TR!RegistrationAssumption
    <3> QED BY <1>6, <1>8, <2>1, <2>2, <3>1 DEF RegLimit, TR!PastCount, TR!Idle
  <2>3. CASE u = q.of
    <3>1. TR!Trackers(u)' = TR!Trackers(u) \cup {url} /\ url \notin TR!Trackers(u)
      BY <1>4, <1>5, <1>7, <2>3 DEF TR!Trackers
    <3>2. n \in Nat /\ Cardinality(TR!Trackers(u)') = n + 1
      BY <2>3, <3>1, RegFinite, FS_AddElement DEF RegInv
    <3>3. n + Len(q.urls) <= MaxTrackers /\ \A d \in Requests \ {r} : ~(TR!PastCount(d) /\ request[d].of = u)
      BY <1>1, <2>1, <2>3 DEF RegLimit, TR!PastCount, RegRoom
    <3>4. n + 1 <= MaxTrackers /\ (rest # <<>> => n + 1 + Len(rest) <= MaxTrackers)
      BY <1>2, <1>3, <3>2, <3>3 DEF TR!RegistrationAssumption
    <3>5. rest # <<>> => RegRoom(n + 1, q2)
      BY <1>8, <3>4 DEF RegRoom
    <3>6. rest = <<>> => ~(request'[r].pc \in {"unique", "create"})
      BY <1>6, <1>8 DEF TR!Idle
    <3> QED BY <1>6, <3>2, <3>3, <3>4, <3>5, <3>6 DEF RegLimit, TR!PastCount
  <2> QED BY <2>2, <2>3
<1> QED BY <1>5, <1>9, <1>10, <1>11 DEF RegInv

(* Trackers go, by themselves or with their user, and no request goes on.   *)
LEMMA RegFewer ==
  ASSUME TR!RegistrationAssumption, RegInv, UNCHANGED <<request, raced, contested>>, user' \subseteq Owners,
         owner' \in [Urls -> Owners \cup {NoUser}], deleted' \subseteq RegTaken',
         \A l \in Urls : owner'[l] \in {owner[l], NoUser} /\ (owner'[l] # NoUser => owner'[l] \in user'),
         \A u \in Owners : TR!Trackers(u)' \subseteq TR!Trackers(u)
  PROVE  RegInv'
<1>1. RegTaken' \subseteq RegTaken
  BY DEF RegTaken, TR!Taken
<1>2. IsFiniteSet(RegTaken')
  BY <1>1, FS_Subset DEF RegInv, RegType
<1>3. RegType'
  BY <1>1, <1>2 DEF RegInv, RegType, RegTaken, TR!Taken, TR!At
<1>4. RegFree'
  BY DEF RegInv, RegFree, TR!At, TR!Taken, RegList, TR!Listed, TR!RegistrationAssumption
<1>5. ASSUME NEW u \in Owners \ raced PROVE RegLimit(u)'
  <2> DEFINE n == Cardinality(TR!Trackers(u))
             n2 == Cardinality(TR!Trackers(u)')
  <2>1. RegLimit(u) /\ IsFiniteSet(TR!Trackers(u)) /\ n \in Nat
    BY RegFinite DEF RegInv
  <2>2. n2 \in Nat /\ n2 <= n /\ MaxTrackers \in Nat
    BY <2>1, FS_Subset, FS_CardinalityType DEF TR!RegistrationAssumption
  <2>3. ASSUME NEW d \in Requests, TR!PastCount(d), RegRoom(n, request[d]) PROVE RegRoom(n2, request[d])
    <3>1. request[d].pc # "idle"
      BY <2>3 DEF TR!PastCount
    <3>2. Len(request[d].urls) \in Nat
      BY <3>1 DEF RegInv, RegType, TR!Idle, RegAsked
    <3> QED BY <2>1, <2>2, <2>3, <3>2 DEF RegRoom
  <2>4. n2 <= MaxTrackers
    BY <2>1, <2>2 DEF RegLimit
  <2> QED BY <2>1, <2>3, <2>4 DEF RegLimit, TR!PastCount
<1> QED BY <1>3, <1>4, <1>5 DEF RegInv

(* Counts, validations, unique checks, creations and removals.              *)
LEMMA RegStep == ASSUME TR!RegistrationAssumption PROVE RegInv /\ [TR!Next]_TR!vars => RegInv'
<1> SUFFICES ASSUME RegInv, [TR!Next]_TR!vars PROVE RegInv'
  OBVIOUS
<1>1. ASSUME NEW r \in Requests, TR!End(r), UNCHANGED <<user, owner, deleted, raced>> PROVE RegInv'
  BY <1>1, RegAway DEF TR!End, RegInv, RegType
<1>2. ASSUME NEW r \in Requests, NEW u \in Owners, NEW urls \in Seq(Urls), NEW add \in BOOLEAN, add => Len(urls) = 1,
             TR!Ask(r, u, urls, add)
      PROVE  RegInv'
  <2> DEFINE q == [pc |-> "ensure", of |-> u, urls |-> urls, add |-> add]
  <2>1. q \in RegAsked /\ q.pc = "ensure" /\ (q.add => Len(q.urls) = 1)
    BY <1>2 DEF RegAsked, TR!Step
  <2>2. contested' = contested \ {r}
    BY <1>2 DEF TR!Ask, RegInv, RegType, TR!At
  <2>3. request' = [request EXCEPT ![r] = q] /\ UNCHANGED <<user, owner, deleted, raced>> /\ user \subseteq Owners
    BY <1>2 DEF TR!Ask, RegInv, RegType
  <2> HIDE DEF q
  <2> QED BY <2>1, <2>2, <2>3, RegAway
<1>3. ASSUME NEW r \in Requests, TR!EnsureUser(r) PROVE RegInv'
  <2> DEFINE q == [request[r] EXCEPT !.pc = "count"]
  <2>1. request[r] \in RegAsked /\ request[r] # TR!Idle
    BY <1>3 DEF TR!EnsureUser, TR!At, RegInv, RegType, TR!Idle
  <2>2. q \in RegAsked /\ q.pc = "count" /\ (q.add => Len(q.urls) = 1)
    BY <2>1 DEF RegAsked, TR!Step, RegInv, RegType
  <2>3. contested' = contested \ {r}
    BY <1>3 DEF TR!EnsureUser, RegInv, RegType, TR!At
  <2>4. /\ request' = [request EXCEPT ![r] = q] /\ UNCHANGED <<owner, deleted, raced>>
        /\ user \subseteq user' /\ user' \subseteq Owners
    BY <1>3, <2>1 DEF TR!EnsureUser, TR!Goto, RegInv, RegType, RegAsked
  <2> HIDE DEF q
  <2> QED BY <2>2, <2>3, <2>4, RegAway
<1>4. ASSUME NEW r \in Requests, TR!Count(r) PROVE RegInv'
  <2>1. CASE TR!WithinLimit(r)
    BY <1>4, <2>1, RegCount
  <2>2. CASE ~TR!WithinLimit(r)
    BY <1>1, <1>4, <2>2 DEF TR!Count
  <2> QED BY <2>1, <2>2
<1>5. ASSUME NEW r \in Requests, TR!Validate(r) PROVE RegInv'
  <2>1. CASE TR!Valid(request[r].urls)
    BY <1>5, <2>1, RegValidate
  <2>2. CASE ~TR!Valid(request[r].urls)
    BY <1>1, <1>5, <2>2 DEF TR!Validate
  <2> QED BY <2>1, <2>2
<1>6. ASSUME NEW r \in Requests, TR!Create(r) PROVE RegInv'
  <2>1. CASE TR!Taken(Head(request[r].urls)) \/ request[r].of \notin user
    BY <1>1, <1>6, <2>1 DEF TR!Create
  <2>2. CASE ~(TR!Taken(Head(request[r].urls)) \/ request[r].of \notin user)
    BY <1>6, <2>2, RegCreate
  <2> QED BY <2>1, <2>2
<1>7. ASSUME NEW r \in Requests, TR!Fail(r) PROVE RegInv'
  BY <1>1, <1>7 DEF TR!Fail
<1>8. ASSUME NEW l \in Urls, TR!DeleteTracker(l) PROVE RegInv'
  <2>1. UNCHANGED <<user, owner, request, raced, contested>> /\ deleted' = deleted \cup {l} /\ TR!Taken(l)
    BY <1>8 DEF TR!DeleteTracker
  <2>2. deleted' \subseteq RegTaken' /\ \A u \in Owners : TR!Trackers(u)' \subseteq TR!Trackers(u)
    BY <2>1 DEF RegInv, RegType, RegTaken, TR!Taken, TR!Trackers
  <2> QED BY <2>1, <2>2, RegFewer DEF RegInv, RegType, TR!Taken
<1>9. ASSUME NEW u \in Owners, TR!DeleteUser(u) PROVE RegInv'
  <2>1. /\ UNCHANGED <<request, raced, contested>> /\ user' = user \ {u}
        /\ owner' = [l \in Urls |-> IF owner[l] = u THEN NoUser ELSE owner[l]]
        /\ deleted' = {l \in deleted : owner[l] # u}
    BY <1>9 DEF TR!DeleteUser
  <2>2. owner' \in [Urls -> Owners \cup {NoUser}] /\ user' \subseteq Owners
    BY <2>1 DEF RegInv, RegType
  <2>3. deleted' \subseteq RegTaken'
    BY <2>1 DEF RegInv, RegType, RegTaken, TR!Taken
  <2>4. \A l \in Urls : owner'[l] \in {owner[l], NoUser} /\ (owner'[l] # NoUser => owner'[l] \in user')
    BY <2>1 DEF RegInv, RegType, TR!Taken
  <2>5. \A v \in Owners : TR!Trackers(v)' \subseteq TR!Trackers(v)
    BY <2>1 DEF TR!Trackers, TR!RegistrationAssumption
  <2> QED BY <2>1, <2>2, <2>3, <2>4, <2>5, RegFewer
<1>10. CASE UNCHANGED TR!vars
  <2>1. \A u \in Owners : TR!Trackers(u)' \subseteq TR!Trackers(u)
    BY <1>10 DEF TR!vars, TR!Trackers
  <2>2. UNCHANGED <<request, raced, contested>> /\ user' \subseteq Owners /\ owner' = owner /\ deleted' \subseteq RegTaken'
    BY <1>10 DEF TR!vars, RegInv, RegType, RegTaken, TR!Taken
  <2> QED BY <1>10, <2>1, <2>2, RegFewer DEF TR!vars, RegInv, RegType, TR!Taken
<1>11. \A urls \in TR!Lists : urls \in Seq(Urls)
  BY SeqDef DEF TR!Lists, TR!RegistrationAssumption
<1>12. \A l \in Urls : <<l>> \in Seq(Urls) /\ Len(<<l>>) = 1
  OBVIOUS
<1> QED BY <1>2, <1>3, <1>4, <1>5, <1>6, <1>7, <1>8, <1>9, <1>10, <1>11, <1>12 DEF TR!Next

(* What a reader is told of registrations follows.                          *)
LEMMA RegClaims == ASSUME RegInv PROVE TR!TypeOK /\ TR!LimitByRaceOnly /\ TR!StoppedByRaceOnly
<1>1. TR!TypeOK
  BY DEF TR!TypeOK, RegInv, RegType, RegTaken, RegAsked, TR!Idle
<1> QED BY <1>1, SameCounts DEF RegInv, RegLimit, RegFree, TR!LimitByRaceOnly, TR!StoppedByRaceOnly

-------------------------------------------------------------------------------
(* Guild settings.  What the operators on configurations return.            *)
LEMMA GuildMerge ==
  /\ DOMAIN GS!Defaults = GS!Fields /\ ~GS!NeedsMigration(GS!Defaults)
  /\ \A c, d : DOMAIN GS!Merge(c, d) = GS!Fields
  /\ \A d : GS!Merge(GS!Defaults, GS!Merge(GS!Defaults, d)) = GS!Merge(GS!Defaults, d)
  /\ \A c : ~GS!NeedsMigration(c) => ~GS!NeedsMigration(GS!Merge(GS!Defaults, c))
<1>1. DOMAIN GS!Defaults = GS!Fields /\ GS!Defaults["version"] = {2}
  BY DEF GS!Defaults, GS!CURRENT_SCHEMA_VERSION, GS!Fields, GS!Lists, GS!Weights, GS!Ascendancy
<1>2. "version" \in GS!Fields
  BY DEF GS!Fields
<1>3. ~GS!NeedsMigration(GS!Defaults)
  BY <1>1 DEF GS!NeedsMigration, GS!SchemaVersion, GS!CURRENT_SCHEMA_VERSION
<1>4. \A c : ~GS!NeedsMigration(c) => ~GS!NeedsMigration(GS!Merge(GS!Defaults, c))
  <2> SUFFICES ASSUME NEW c, ~GS!NeedsMigration(c) PROVE ~GS!NeedsMigration(GS!Merge(GS!Defaults, c))
    OBVIOUS
  <2>1. CASE c["version"] = {}
    BY <2>1 DEF GS!NeedsMigration, GS!SchemaVersion, GS!CURRENT_SCHEMA_VERSION
  <2>2. CASE c["version"] # {}
    <3>1. GS!Merge(GS!Defaults, c)["version"] = c["version"]
      BY <1>2, <2>2 DEF GS!Merge
    <3> QED BY <3>1 DEF GS!NeedsMigration, GS!SchemaVersion
  <2> QED BY <2>1, <2>2
<1> QED BY <1>1, <1>3, <1>4 DEF GS!Merge

(* A migrated configuration is complete and of the current version.         *)
LEMMA GuildMigrate ==
  ASSUME NEW c, GS!NeedsMigration(c) PROVE DOMAIN GS!Migrate(c) = GS!Fields /\ ~GS!NeedsMigration(GS!Migrate(c))
<1> DEFINE first == IF GS!SchemaVersion(c) < 1 THEN GS!ToV1(c) ELSE c
<1>1. "version" \in GS!Fields /\ DOMAIN GS!Unset = GS!Fields
  BY DEF GS!Fields, GS!Unset
<1>3. GS!Migrate(c) = GS!Merge(GS!Defaults, GS!ToV2(first))
  BY DEF GS!Migrate, GS!NeedsMigration, GS!CURRENT_SCHEMA_VERSION
<1>4. GS!ToV2(first)["version"] = {2}
  BY <1>1 DEF GS!ToV2
<1>5. ~GS!NeedsMigration(GS!ToV2(first))
  BY <1>4 DEF GS!NeedsMigration, GS!SchemaVersion, GS!CURRENT_SCHEMA_VERSION
<1> QED BY <1>3, <1>5, GuildMerge

(* What a request holds is a configuration, and one that goes to the cache  *)
(* needs no migration ...                                                   *)
GuildHeld(q) ==
  /\ q = GS!Idle \/ (q = [pc |-> q.pc, patch |-> q.patch, copy |-> q.copy] /\ q.pc \in GS!Step)
  /\ q.pc \in {"upsert", "migrate", "forget", "fill", "persist", "roles"} => DOMAIN q.copy = GS!Fields
  /\ q.pc \in {"upsert", "migrate", "forget", "fill"} => ~GS!NeedsMigration(q.copy)
  /\ q.pc \in {"forget", "fill", "clear"} => config # {}

(* ... and is made of what is stored, unless a row was stored meanwhile.    *)
GuildFresh(q) ==
  /\ q.pc \in {"missing", "upsert"} => config = {}
  /\ q.pc \in {"forget", "fill"} => \E d \in config : GS!Merge(GS!Defaults, q.copy) = GS!Merge(GS!Defaults, d)
  /\ q.pc = "persist" => \E c \in GS!Current : q.copy = GS!Merge(c, q.patch)
  /\ q.pc = "roles" => q.copy \in GS!Current

GuildInv ==
  /\ joined \in BOOLEAN /\ overlapped \in BOOLEAN /\ unsure \in BOOLEAN
  /\ DOMAIN told = GS!Fields
  /\ (\A c, d \in config : c = d) /\ \A c \in config : DOMAIN c = GS!Fields
  /\ (\A c, d \in memo : c = d) /\ \A c \in memo : ~GS!NeedsMigration(c)
  /\ request = [r \in Requests |-> request[r]] /\ \A r \in Requests : GuildHeld(request[r])
  /\ ~overlapped \/ ~unsure => \A r \in Requests : GuildFresh(request[r])
  /\ GS!LogTellsRow /\ GS!AnswersBehindByOverlapOnly

(* A guild that has not joined, or one with a row from before.              *)
LEMMA GuildInit == ASSUME GS!GuildSettingsAssumption PROVE GS!Init => GuildInv
<1> SUFFICES ASSUME GS!Init PROVE GuildInv
  OBVIOUS
<1>1. /\ joined \in BOOLEAN /\ overlapped = FALSE /\ unsure = FALSE /\ memo = {}
      /\ request = [r \in Requests |-> request[r]] /\ \A r \in Requests : request[r] = GS!Idle
  BY DEF GS!Init
<1>2. config = {} \/ \E c \in GuildLegacy \cup {GS!Defaults} : config = {c} /\ DOMAIN c = GS!Fields
  BY GuildMerge DEF GS!Init, GS!GuildSettingsAssumption
<1>3. (\A c \in config : told = c) /\ DOMAIN told = GS!Fields
  BY <1>2, GuildMerge DEF GS!Init
<1>4. \A r \in Requests : GuildHeld(request[r]) /\ GuildFresh(request[r])
  BY <1>1 DEF GuildHeld, GuildFresh, GS!Idle
<1>5. GS!LogTellsRow /\ GS!AnswersBehindByOverlapOnly
  BY <1>1, <1>3 DEF GS!LogTellsRow, GS!AnswersBehindByOverlapOnly
<1> QED BY <1>1, <1>2, <1>3, <1>4, <1>5 DEF GuildInv

(* The ways on of a request.                                                *)
LEMMA GuildGoto ==
  ASSUME GuildInv, NEW r \in Requests, request[r].pc \in GS!Step, NEW pc \in GS!Step, NEW copy,
         GS!Goto(r, pc, copy)
  PROVE  /\ request' = [q \in Requests |-> request'[q]]
         /\ \A q \in Requests : q # r => request'[q] = request[q]
         /\ request'[r] = [pc |-> pc, patch |-> request[r].patch, copy |-> copy]
<1>1. request[r] = [pc |-> request[r].pc, patch |-> request[r].patch, copy |-> request[r].copy]
  BY DEF GuildInv, GuildHeld, GS!Idle, GS!Step, GS!Holding
<1> QED BY <1>1 DEF GuildInv, GS!Goto

(* A request ends, and what it held is forgotten.                           *)
LEMMA GuildEnd ==
  ASSUME GuildInv, NEW r \in Requests, GS!End(r)
  PROVE  /\ request' = [q \in Requests |-> request'[q]]
         /\ \A q \in Requests : q # r => request'[q] = request[q]
         /\ request'[r] = GS!Idle /\ GS!Idle.pc = "idle"
BY DEF GuildInv, GS!End, GS!Idle

(* A step that writes no row: what it makes of the cache and the requests   *)
(* is right.                                                                *)
LEMMA GuildQuiet ==
  ASSUME GuildInv, joined' \in BOOLEAN, UNCHANGED <<config, told, overlapped>>,
         request' = [q \in Requests |-> request'[q]],
         \A q \in Requests : \/ request'[q] = request[q]
                             \/ /\ GuildHeld(request'[q])
                                /\ ~overlapped \/ ~unsure => GuildFresh(request'[q]),
         \/ memo' = memo \/ memo' = {}
         \/ \E c : memo' = {c} /\ ~GS!NeedsMigration(c) /\ (unsure \/ \E d \in config : c = GS!Merge(GS!Defaults, d)),
         GS!Doubt(FALSE) \/ (unsure' = unsure) \/ (unsure' = FALSE /\ memo' = {} /\ \A q \in Requests : request'[q] = GS!Idle)
  PROVE  GuildInv'
<1>1. \A q \in Requests : GuildHeld(request'[q])
  BY DEF GuildInv
<1>2. ASSUME ~overlapped \/ ~unsure, NEW q \in Requests PROVE GuildFresh(request'[q])
  BY <1>2 DEF GuildInv
<1>3. /\ unsure' \in BOOLEAN
      /\ unsure /\ ~unsure' => memo' = {} /\ \A q \in Requests : request'[q].pc \notin GS!Holding
      /\ ~unsure => ~unsure'
  <2>1. CASE GS!Doubt(FALSE)
    <3> DEFINE kept == memo' # {} \/ \E q \in Requests : request'[q].pc \in GS!Holding
    <3>1. unsure' = (unsure /\ kept) /\ unsure \in BOOLEAN
      BY <2>1 DEF GS!Doubt, GuildInv
    <3>2. kept \in BOOLEAN /\ (~kept => memo' = {} /\ \A q \in Requests : request'[q].pc \notin GS!Holding)
      OBVIOUS
    <3> HIDE DEF kept
    <3> QED BY <3>1, <3>2
  <2>2. CASE unsure' = unsure
    BY <2>2 DEF GuildInv
  <2>3. CASE unsure' = FALSE /\ memo' = {} /\ \A q \in Requests : request'[q] = GS!Idle
    <3>1. GS!Idle.pc \notin GS!Holding
      BY DEF GS!Idle, GS!Holding
    <3> QED BY <2>3, <3>1 DEF GuildInv
  <2> QED BY <2>1, <2>2, <2>3
<1>4. ASSUME ~overlapped' \/ ~unsure', NEW q \in Requests PROVE GuildFresh(request'[q])
  <2>1. CASE ~overlapped \/ ~unsure
    BY <1>2, <2>1
  <2>2. CASE ~(~overlapped \/ ~unsure)
    BY <1>3, <1>4, <2>2 DEF GuildFresh, GS!Holding
  <2> QED BY <2>1, <2>2
<1>5. GS!AnswersBehindByOverlapOnly'
  BY <1>3 DEF GS!AnswersBehindByOverlapOnly, GuildInv
<1>6. (\A q \in Requests : GuildHeld(request[q]))' /\ (~overlapped \/ ~unsure => \A q \in Requests : GuildFresh(request[q]))'
  BY <1>1, <1>4 DEF GuildHeld, GuildFresh, GS!Current
<1>7. (\A c, d \in memo' : c = d) /\ \A c \in memo' : ~GS!NeedsMigration(c)
  BY DEF GuildInv
<1> QED BY <1>3, <1>5, <1>6, <1>7 DEF GuildInv, GS!LogTellsRow

(* A step that stores a row: who else holds one is behind.                  *)
LEMMA GuildWrite ==
  ASSUME GuildInv, joined' \in BOOLEAN, NEW r \in Requests, NEW c, DOMAIN c = GS!Fields, config' = {c},
         memo' = memo,
         request' = [q \in Requests |-> request'[q]],
         \A q \in Requests : q # r => request'[q] = request[q],
         GuildHeld(request[r])', GuildFresh(request[r])', DOMAIN told' = GS!Fields,
         overlapped' \in BOOLEAN, ~overlapped' => ~GS!Others(r) /\ c = told',
         GS!Doubt(memo # {} \/ GS!Others(r))
  PROVE  GuildInv'
<1>1. \A q \in Requests : GuildHeld(request[q])'
  <2>1. \A q \in Requests : q # r => GuildHeld(request[q])'
    BY DEF GuildInv, GuildHeld
  <2> QED BY <2>1 DEF GuildHeld
<1>2. ~GS!Others(r) => \A q \in Requests : q # r => request'[q].pc \notin GS!Holding
  BY DEF GS!Others
<1>3. ~GS!Others(r) => \A q \in Requests : GuildFresh(request[q])'
  BY <1>2 DEF GuildFresh, GS!Holding, GS!Current
<1>4. unsure' \in BOOLEAN /\ (memo # {} => unsure') /\ (GS!Others(r) => unsure')
  BY DEF GS!Doubt, GS!Others, GuildInv
<1>5. GS!LogTellsRow' /\ GS!AnswersBehindByOverlapOnly'
  BY <1>4 DEF GS!LogTellsRow, GS!AnswersBehindByOverlapOnly
<1> QED BY <1>1, <1>3, <1>4, <1>5 DEF GuildInv

(* Each step of a request.                                                  *)
LEMMA GuildAccept ==
  ASSUME GuildInv, NEW r \in Requests, NEW pc \in {"cache", "validate", "reset", "sync"}, NEW patch,
         GS!Accept(r, pc, patch),
         UNCHANGED <<joined, config, memo, told, overlapped, unsure>>
  PROVE  GuildInv'
<1>1. /\ request' = [q \in Requests |-> request'[q]] /\ \A q \in Requests : q # r => request'[q] = request[q]
      /\ request'[r] = [pc |-> pc, patch |-> patch, copy |-> GS!Unset]
  BY DEF GuildInv, GS!Accept
<1>2. GuildHeld(request'[r]) /\ GuildFresh(request'[r])
  BY <1>1 DEF GuildHeld, GuildFresh, GS!Step
<1> QED BY <1>1, <1>2, GuildQuiet DEF GuildInv

(* A request goes where it holds nothing, or ends.                          *)
LEMMA GuildOn ==
  ASSUME GuildInv, joined' = joined, UNCHANGED <<config, memo, told, overlapped>>,
         GS!Doubt(FALSE) \/ unsure' = unsure,
         NEW r \in Requests, request[r].pc \in GS!Step, NEW pc \in GS!Step, NEW copy, GS!Goto(r, pc, copy),
         GuildHeld([pc |-> pc, patch |-> request[r].patch, copy |-> copy]),
         ~overlapped \/ ~unsure => GuildFresh([pc |-> pc, patch |-> request[r].patch, copy |-> copy])
  PROVE  GuildInv'
<1>1. /\ request' = [q \in Requests |-> request'[q]] /\ \A q \in Requests : q # r => request'[q] = request[q]
      /\ request'[r] = [pc |-> pc, patch |-> request[r].patch, copy |-> copy]
  BY GuildGoto
<1>2. GuildHeld(request'[r]) /\ (~overlapped \/ ~unsure => GuildFresh(request'[r]))
  BY <1>1
<1> QED BY <1>1, <1>2, GuildQuiet DEF GuildInv

(* Requests that end at once, when the guild leaves.                        *)
LEMMA GuildOver ==
  ASSUME GuildInv, joined' = joined, UNCHANGED <<config, memo, told, overlapped>>,
         GS!Doubt(FALSE) \/ unsure' = unsure,
         NEW r \in Requests, GS!End(r)
  PROVE  GuildInv'
<1>1. GuildHeld(request'[r]) /\ GuildFresh(request'[r])
  BY GuildEnd DEF GuildHeld, GuildFresh
<1> QED BY <1>1, GuildEnd, GuildQuiet DEF GuildInv

(* A request reads what the process remembers, or the row.                  *)
LEMMA GuildRead ==
  ASSUME GS!GuildSettingsAssumption, GuildInv, NEW r \in Requests,
         GS!LookUp(r) \/ GS!Load(r) \/ GS!Missing(r) \/ GS!Validate(r) \/ GS!MergeInto(r) \/ GS!SyncRead(r) \/ GS!Fail(r)
  PROVE  GuildInv'
<1>1. CASE GS!LookUp(r)
  <2>1. request[r].pc \in GS!Step /\ "load" \in GS!Step
    BY <1>1 DEF GS!LookUp, GS!At, GS!Step
  <2>2. GuildHeld([pc |-> "load", patch |-> request[r].patch, copy |-> GS!Unset])
        /\ GuildFresh([pc |-> "load", patch |-> request[r].patch, copy |-> GS!Unset])
    BY <2>1 DEF GuildHeld, GuildFresh
  <2> QED BY <1>1, <2>1, <2>2, GuildOn, GuildOver DEF GS!LookUp
<1>2. CASE GS!Load(r)
  <2>1. request[r].pc \in GS!Step /\ {"missing", "migrate", "fill"} \subseteq GS!Step
    BY <1>2 DEF GS!Load, GS!At, GS!Step, GS!Holding
  <2> DEFINE q(pc, copy) == [pc |-> pc, patch |-> request[r].patch, copy |-> copy]
  <2>2. CASE config = {} /\ GS!Goto(r, "missing", GS!Unset)
    <3>1. GuildHeld(q("missing", GS!Unset)) /\ GuildFresh(q("missing", GS!Unset))
      BY <2>1, <2>2 DEF GuildHeld, GuildFresh
    <3> QED BY <1>2, <2>1, <2>2, <3>1, GuildOn DEF GS!Load
  <2>3. ASSUME NEW c \in config, GS!NeedsMigration(c), GS!Goto(r, "migrate", GS!Migrate(c)) PROVE GuildInv'
    <3>1. GuildHeld(q("migrate", GS!Migrate(c))) /\ GuildFresh(q("migrate", GS!Migrate(c)))
      BY <2>1, <2>3, GuildMigrate DEF GuildHeld, GuildFresh
    <3> QED BY <1>2, <2>1, <2>3, <3>1, GuildOn DEF GS!Load
  <2>4. ASSUME NEW c \in config, ~GS!NeedsMigration(c), GS!Goto(r, "fill", GS!Merge(GS!Defaults, c)) PROVE GuildInv'
    <3>1. GuildHeld(q("fill", GS!Merge(GS!Defaults, c)))
      BY <2>1, <2>4, GuildMerge DEF GuildHeld
    <3>2. GuildFresh(q("fill", GS!Merge(GS!Defaults, c)))
      BY <2>1, <2>4, GuildMerge DEF GuildFresh
    <3> QED BY <1>2, <2>1, <2>4, <3>1, <3>2, GuildOn DEF GS!Load
  <2> QED BY <1>2, <2>2, <2>3, <2>4 DEF GS!Load
<1>3. CASE GS!Missing(r)
  <2>1. request[r].pc = "missing" /\ request[r].pc \in GS!Step /\ "upsert" \in GS!Step
    BY <1>3 DEF GS!Missing, GS!At, GS!Step, GS!Holding
  <2> DEFINE q == [pc |-> "upsert", patch |-> request[r].patch, copy |-> GS!Defaults]
  <2>2. GuildHeld(q) /\ (~overlapped \/ ~unsure => GuildFresh(q))
    BY <2>1, GuildMerge DEF GuildHeld, GuildFresh, GuildInv
  <2> QED BY <1>3, <2>1, <2>2, GuildOn, GuildOver DEF GS!Missing
<1>4. CASE GS!Validate(r)
  <2>1. request[r].pc \in GS!Step /\ "merge" \in GS!Step
    BY <1>4 DEF GS!Validate, GS!At, GS!Step
  <2>2. GuildHeld([pc |-> "merge", patch |-> request[r].patch, copy |-> GS!Unset])
        /\ GuildFresh([pc |-> "merge", patch |-> request[r].patch, copy |-> GS!Unset])
    BY <2>1 DEF GuildHeld, GuildFresh
  <2> QED BY <1>4, <2>1, <2>2, GuildOn, GuildOver DEF GS!Validate
<1>5. CASE GS!MergeInto(r)
  <2>1. request[r].pc \in GS!Step /\ "persist" \in GS!Step
    BY <1>5 DEF GS!MergeInto, GS!At, GS!Step, GS!Holding
  <2>2. PICK c \in GS!Current : GS!Goto(r, "persist", GS!Merge(c, request[r].patch))
    BY <1>5 DEF GS!MergeInto
  <2> DEFINE q == [pc |-> "persist", patch |-> request[r].patch, copy |-> GS!Merge(c, request[r].patch)]
  <2>3. GuildHeld(q) /\ GuildFresh(q)
    BY <2>1, GuildMerge DEF GuildHeld, GuildFresh
  <2> QED BY <1>5, <2>1, <2>2, <2>3, GuildOn DEF GS!MergeInto
<1>6. CASE GS!SyncRead(r)
  <2>1. request[r].pc \in GS!Step /\ "roles" \in GS!Step
    BY <1>6 DEF GS!SyncRead, GS!At, GS!Step, GS!Holding
  <2>2. PICK c \in GS!Current : GS!Goto(r, "roles", c)
    BY <1>6 DEF GS!SyncRead
  <2>3. DOMAIN c = GS!Fields
    BY GuildMerge DEF GS!Current, GuildInv
  <2> DEFINE q == [pc |-> "roles", patch |-> request[r].patch, copy |-> c]
  <2>4. GuildHeld(q) /\ GuildFresh(q)
    BY <2>1, <2>3 DEF GuildHeld, GuildFresh
  <2> QED BY <1>6, <2>1, <2>2, <2>4, GuildOn DEF GS!SyncRead
<1>7. CASE GS!Fail(r)
  BY <1>7, GuildOver DEF GS!Fail
<1> QED BY <1>1, <1>2, <1>3, <1>4, <1>5, <1>6, <1>7

(* The cache is filled with what is fresh, or cleared.                      *)
LEMMA GuildRemember ==
  ASSUME GuildInv, NEW r \in Requests, GS!Forget(r) \/ GS!Fill(r) \/ GS!Clear(r)
  PROVE  GuildInv'
<1>1. CASE GS!Forget(r)
  <2>1. request[r].pc = "forget" /\ request[r].pc \in GS!Step /\ "fill" \in GS!Step /\ GuildHeld(request[r])
    BY <1>1 DEF GS!Forget, GS!At, GS!Step, GS!Holding, GuildInv
  <2>2. /\ request' = [q \in Requests |-> request'[q]] /\ \A q \in Requests : q # r => request'[q] = request[q]
        /\ request'[r] = [pc |-> "fill", patch |-> request[r].patch, copy |-> request[r].copy]
    BY <1>1, <2>1, GuildGoto DEF GS!Forget
  <2>3. GuildHeld(request'[r]) /\ (~overlapped \/ ~unsure => GuildFresh(request'[r]))
    BY <2>1, <2>2 DEF GuildHeld, GuildFresh, GuildInv
  <2> QED BY <1>1, <2>2, <2>3, GuildQuiet DEF GS!Forget, GuildInv
<1>2. ASSUME GS!End(r) PROVE GuildHeld(request'[r]) /\ GuildFresh(request'[r])
  BY <1>2, GuildEnd DEF GuildHeld, GuildFresh
<1>3. CASE GS!Fill(r)
  <2> DEFINE c == GS!Merge(GS!Defaults, request[r].copy)
  <2>1. request[r].pc = "fill" /\ GuildHeld(request[r]) /\ memo' = {c}
    BY <1>3 DEF GS!Fill, GS!At, GuildInv
  <2>2. ~GS!NeedsMigration(c)
    BY <2>1, GuildMerge DEF GuildHeld
  <2>3. unsure \/ \E d \in config : c = GS!Merge(GS!Defaults, d)
    BY <2>1 DEF GuildInv, GuildFresh
  <2> HIDE DEF c
  <2> QED BY <1>2, <1>3, <2>1, <2>2, <2>3, GuildEnd, GuildQuiet DEF GS!Fill, GuildInv
<1>4. CASE GS!Clear(r)
  BY <1>2, <1>4, GuildEnd, GuildQuiet DEF GS!Clear, GuildInv
<1> QED BY <1>1, <1>3, <1>4

(* An older row is written again as it was migrated.                        *)
LEMMA GuildUpgrade == ASSUME GuildInv, NEW r \in Requests, GS!Upgrade(r) PROVE GuildInv'
<1> DEFINE c == request[r].copy
           pc == IF GS!At(r, "migrate") THEN "forget" ELSE "fill"
<1>1. request[r].pc \in GS!Step /\ pc \in GS!Step /\ pc \in {"forget", "fill"} /\ DOMAIN c = GS!Fields /\ ~GS!NeedsMigration(c)
  BY DEF GS!Upgrade, GS!Step, GS!Holding, GuildInv, GuildHeld
<1>2. /\ config' = {c} /\ told' = c /\ overlapped' = GS!Others(r) /\ GS!Goto(r, pc, c) /\ UNCHANGED <<joined, memo>>
      /\ GS!Doubt(memo # {} \/ GS!Others(r))
  BY DEF GS!Upgrade
<1> HIDE DEF pc
<1>3. /\ request' = [q \in Requests |-> request'[q]] /\ \A q \in Requests : q # r => request'[q] = request[q]
      /\ request'[r] = [pc |-> pc, patch |-> request[r].patch, copy |-> c]
  BY <1>1, <1>2, GuildGoto
<1>4. GuildHeld(request[r])' /\ GuildFresh(request[r])'
  BY <1>1, <1>2, <1>3 DEF GuildHeld, GuildFresh
<1>5. overlapped' \in BOOLEAN
  BY <1>2 DEF GS!Others
<1> HIDE DEF c
<1> QED BY <1>1, <1>2, <1>3, <1>4, <1>5, GuildWrite DEF GuildInv

(* An update is written, over whatever the row is by then.                  *)
LEMMA GuildPersist == ASSUME GuildInv, NEW r \in Requests, GS!Persist(r) PROVE GuildInv'
<1> DEFINE c == request[r].copy
<1>1. request[r].pc = "persist" /\ request[r].pc \in GS!Step /\ "clear" \in GS!Step /\ DOMAIN c = GS!Fields
  BY DEF GS!Persist, GS!At, GS!Step, GS!Holding, GuildInv, GuildHeld
<1>2. /\ config # {} /\ config' = {c} /\ told' = GS!Merge(told, request[r].patch) /\ overlapped' = (overlapped \/ GS!Others(r))
      /\ GS!Goto(r, "clear", GS!Unset) /\ UNCHANGED <<joined, memo>> /\ GS!Doubt(memo # {} \/ GS!Others(r))
  BY DEF GS!Persist
<1>3. /\ request' = [q \in Requests |-> request'[q]] /\ \A q \in Requests : q # r => request'[q] = request[q]
      /\ request'[r] = [pc |-> "clear", patch |-> request[r].patch, copy |-> GS!Unset]
  BY <1>1, <1>2, GuildGoto
<1>4. GuildHeld(request[r])' /\ GuildFresh(request[r])'
  BY <1>1, <1>2, <1>3 DEF GuildHeld, GuildFresh
<1>5. overlapped' \in BOOLEAN /\ (~overlapped' => ~overlapped /\ ~GS!Others(r)) /\ DOMAIN told' = GS!Fields
  BY <1>2, GuildMerge DEF GuildInv, GS!Others
<1>6. ~overlapped => c = told'
  <2> SUFFICES ASSUME ~overlapped PROVE c = GS!Merge(told, request[r].patch)
    BY <1>2
  <2>1. PICK d \in GS!Current : c = GS!Merge(d, request[r].patch)
    BY <1>1 DEF GuildInv, GuildFresh
  <2>2. d = told
    BY <1>2 DEF GS!Current, GuildInv, GS!LogTellsRow
  <2> QED BY <2>1, <2>2
<1> HIDE DEF c
<1> QED BY <1>1, <1>2, <1>3, <1>4, <1>5, <1>6, GuildWrite DEF GuildInv

(* The row is reset to the defaults.                                        *)
LEMMA GuildReset == ASSUME GuildInv, NEW r \in Requests, GS!ResetRow(r) PROVE GuildInv'
<1>1. request[r].pc \in GS!Step /\ "clear" \in GS!Step
  BY DEF GS!ResetRow, GS!At, GS!Step
<1>2. /\ config' = {GS!Defaults} /\ told' = GS!Defaults /\ overlapped' = GS!Others(r)
      /\ GS!Goto(r, "clear", GS!Unset) /\ UNCHANGED <<joined, memo>> /\ GS!Doubt(memo # {} \/ GS!Others(r))
  BY DEF GS!ResetRow
<1>3. /\ request' = [q \in Requests |-> request'[q]] /\ \A q \in Requests : q # r => request'[q] = request[q]
      /\ request'[r] = [pc |-> "clear", patch |-> request[r].patch, copy |-> GS!Unset]
  BY <1>1, <1>2, GuildGoto
<1>4. GuildHeld(request[r])' /\ GuildFresh(request[r])'
  BY <1>1, <1>2, <1>3 DEF GuildHeld, GuildFresh
<1>5. overlapped' \in BOOLEAN
  BY <1>2 DEF GS!Others
<1> QED BY <1>1, <1>2, <1>3, <1>4, <1>5, GuildMerge, GuildWrite DEF GuildInv

(* A sync of the roles rewrites the row.                                    *)
LEMMA GuildRoles == ASSUME GuildInv, NEW r \in Requests, GS!SyncRoles(r) PROVE GuildInv'
<1> DEFINE c == request[r].copy
           new == config' # config /\ (memo # {} \/ GS!Others(r))
<1>1. request[r].pc = "roles" /\ DOMAIN c = GS!Fields /\ joined' \in BOOLEAN
  BY DEF GS!SyncRoles, GS!At, GuildInv, GuildHeld
<1>2. /\ config' \in {{c}, config} \ {{}} /\ told' = (IF config = {} THEN c ELSE told) /\ memo' = memo /\ GS!End(r)
      /\ overlapped' = (overlapped \/ (config' # config /\ GS!Others(r))) /\ GS!Doubt(new)
  BY DEF GS!SyncRoles
<1>3. GuildHeld(request'[r]) /\ GuildFresh(request'[r]) /\ GuildHeld(request[r])' /\ GuildFresh(request[r])'
  BY <1>2, GuildEnd DEF GuildHeld, GuildFresh
<1>4. CASE config' = config
  <2>1. told' = told /\ GS!Doubt(FALSE) /\ overlapped' = overlapped
    BY <1>2, <1>4 DEF GS!Doubt, GuildInv
  <2> QED BY <1>1, <1>2, <1>3, <1>4, <2>1, GuildEnd, GuildQuiet
<1>5. CASE config' # config
  <2>1. config' = {c} /\ GS!Doubt(memo # {} \/ GS!Others(r))
    BY <1>2, <1>5 DEF GS!Doubt
  <2>2. overlapped' \in BOOLEAN /\ (~overlapped' => ~overlapped /\ ~GS!Others(r)) /\ DOMAIN told' = GS!Fields
    BY <1>1, <1>2, <1>5 DEF GuildInv, GS!Others
  <2>3. ~overlapped => c = told'
    <3> SUFFICES ASSUME ~overlapped, config # {} PROVE c = told
      BY <1>2
    <3>1. c \in config
      BY <1>1 DEF GuildInv, GuildFresh, GS!Current
    <3> QED BY <3>1 DEF GuildInv, GS!LogTellsRow
  <2> HIDE DEF c, new
  <2> QED BY <1>1, <1>2, <1>3, <2>1, <2>2, <2>3, GuildEnd, GuildWrite
<1> QED BY <1>4, <1>5

(* Each step of the guild settings, and a stutter.                          *)
LEMMA GuildStep ==
  ASSUME GS!GuildSettingsAssumption
  PROVE  GuildInv /\ [GS!Next]_GS!vars => GuildInv'
<1> SUFFICES ASSUME GuildInv, [GS!Next]_GS!vars PROVE GuildInv'
  OBVIOUS
<1>1. ASSUME GS!Come \/ GS!Expire \/ UNCHANGED GS!vars PROVE GuildInv'
  <2>1. /\ joined' \in BOOLEAN /\ UNCHANGED <<config, told, overlapped, request>>
        /\ (memo' = memo \/ memo' = {}) /\ (GS!Doubt(FALSE) \/ unsure' = unsure)
    BY <1>1 DEF GS!Come, GS!Expire, GS!vars, GuildInv
  <2> QED BY <2>1, GuildQuiet DEF GuildInv
<1>2. CASE GS!Restart
  <2>1. GuildHeld(GS!Idle) /\ GuildFresh(GS!Idle)
    BY DEF GuildHeld, GuildFresh, GS!Idle
  <2> QED BY <1>2, <2>1, GuildQuiet DEF GS!Restart, GuildInv
<1>3. ASSUME NEW r \in Requests, GS!Arrive(r) PROVE GuildInv'
  BY <1>3, GuildAccept DEF GS!Arrive, GS!Read, GS!Reset, GS!Sync, GS!Update
<1>4. ASSUME NEW r \in Requests, GS!Proceed(r) PROVE GuildInv'
  BY <1>4, GuildRead, GuildRemember, GuildUpgrade, GuildPersist, GuildReset, GuildRoles DEF GS!Proceed
<1> QED BY <1>1, <1>2, <1>3, <1>4 DEF GS!Next

(* What a reader is told of guild settings follows.                         *)
LEMMA GuildClaims ==
  ASSUME GuildInv
  PROVE  GS!TypeOK /\ GS!LogTellsRow /\ GS!AnswersBehindByOverlapOnly
<1>1. Cardinality(config) <= 1 /\ Cardinality(memo) <= 1
  BY AtMostOne DEF GuildInv
<1>2. \A r \in Requests : request[r].pc \in {"idle"} \cup GS!Step
  BY DEF GuildInv, GuildHeld, GS!Idle
<1>3. \A r \in Requests : request[r].pc \in {"forget", "fill", "clear"} => config # {}
  BY DEF GuildInv, GuildHeld
<1> QED BY <1>1, <1>2, <1>3, SameCounts DEF GuildInv, GS!TypeOK

-------------------------------------------------------------------------------
(* Rosters.  Of a team that is not excused one request at most is past the  *)
(* count, for which there is room, and none that counts has read a higher   *)
(* limit; and whoever is about to be added is not in it, or in two teams.   *)
RosterAsked ==
  [pc : RO!Adding, team : Teams, player : Players, becomes : {"ACTIVE", "INACTIVE"}, max : Nat]

RosterPast(q, t) == q.pc \in {"lookup", "create"} /\ q.team = t

RosterOrderly(t) ==
  /\ RO!Count(t) <= max[t] /\ RO!Twice(t) \subseteq twofold
  /\ \A r \in Requests : RO!At(r, "count") /\ request[r].team = t => request[r].max <= max[t]
  /\ \A r \in Requests : RosterPast(request[r], t) =>
       RO!Count(t) < max[t] /\ \A s \in Requests \ {r} : ~RosterPast(request[s], t)
  /\ \A r \in Requests : RO!At(r, "create") /\ request[r].team = t =>
       active[t][request[r].player] = 0 \/ request[r].player \in twofold

RosterRow(t, p) == active[t][p] + other[t][p]
RosterRows == {s \in Teams \X Players \X (1..MaxRows) : s[3] <= RosterRow(s[1], s[2])}

RosterType ==
  /\ max \in [Teams -> Limits \cup {0}]
  /\ active \in [Teams -> [Players -> 0..MaxRows]] /\ other \in [Teams -> [Players -> 0..MaxRows]]
  /\ \A t \in Teams : max[t] = 0 => active[t] = RO!None[t] /\ other[t] = RO!None[t]
  /\ \A t \in Teams, p \in Players : RosterRow(t, p) <= MaxRows
  /\ Cardinality(RosterRows) <= MaxRows
  /\ request = [r \in Requests |-> request[r]]
  /\ \A r \in Requests : request[r] = RO!Idle \/ (request[r] \in RosterAsked /\ max[request[r].team] # 0)

RosterInv == RosterType /\ \A t \in Teams \ excused : RosterOrderly(t)

(* Places and rows are finitely many, and fewer where there are fewer.      *)
LEMMA RosterFinite ==
  ASSUME RO!RosterAssumption
  PROVE  /\ \A t : IsFiniteSet(RO!Places(t)) /\ RO!Count(t) \in Nat
         /\ IsFiniteSet(RosterRows) /\ Cardinality(RosterRows) \in Nat
         /\ \A t : IsFiniteSet(RO!Places(t)') /\ RO!Count(t)' \in Nat
         /\ IsFiniteSet(RosterRows') /\ Cardinality(RosterRows') \in Nat
<1> DEFINE N == 1..MaxRows
<1>1. IsFiniteSet(N)
  BY FS_Interval DEF RO!RosterAssumption
<1>2. IsFiniteSet(Players \X N)
  BY <1>1, FS_Product, SameCounts DEF RO!RosterAssumption
<1>3. IsFiniteSet(Teams \X Players \X N)
  <2> DEFINE S == Teams \X (Players \X N)
             T == Teams \X Players \X N
             f == [x \in S |-> <<x[1], x[2][1], x[2][2]>>]
  <2>1. IsFiniteSet(S)
    BY <1>2, FS_Product, SameCounts DEF RO!RosterAssumption
  <2>2. f \in [S -> T]
    OBVIOUS
  <2>3. ASSUME NEW y \in T PROVE \E x \in S : f[x] = y
    <3>1. <<y[1], <<y[2], y[3]>>>> \in S /\ y = <<y[1], y[2], y[3]>>
      OBVIOUS
    <3> QED BY <3>1
  <2>4. f \in Surjection(S, T)
    BY <2>2, <2>3 DEF Surjection
  <2> QED BY <2>1, <2>4, FS_Surjection
<1>4. \A t : RO!Places(t) \subseteq Players \X N /\ RO!Places(t)' \subseteq Players \X N
  BY DEF RO!Places
<1>5. RosterRows \subseteq Teams \X Players \X N /\ RosterRows' \subseteq Teams \X Players \X N
  BY DEF RosterRows
<1> HIDE DEF N
<1> QED BY <1>2, <1>3, <1>4, <1>5, FS_Subset, FS_CardinalityType, SameCounts DEF RO!Count

(* A team that loses members is less full, and nobody more often in it.     *)
LEMMA RosterFewer ==
  ASSUME RO!RosterAssumption, RosterType, active' \in [Teams -> [Players -> 0..MaxRows]],
         NEW t \in Teams, \A p \in Players : active'[t][p] <= active[t][p]
  PROVE  RO!Count(t)' <= RO!Count(t) /\ RO!Twice(t)' \subseteq RO!Twice(t)
<1>1. RO!Places(t)' \subseteq RO!Places(t)
  BY DEF RO!Places, RosterType, RO!RosterAssumption
<1>2. RO!Count(t)' <= RO!Count(t)
  BY <1>1, RosterFinite, FS_Subset, SameCounts DEF RO!Count
<1> QED BY <1>2 DEF RO!Twice, RosterType, RO!RosterAssumption

(* A member more takes one place.                                           *)
LEMMA RosterOneMore ==
  ASSUME RO!RosterAssumption, RosterType, NEW t \in Teams, NEW p \in Players,
         active' = RO!Added(active, t, p), active[t][p] < MaxRows
  PROVE  RO!Count(t)' = RO!Count(t) + 1
<1> DEFINE new == <<p, active[t][p] + 1>>
<1>1. /\ active'[t][p] = active[t][p] + 1 /\ \A q \in Players \ {p} : active'[t][q] = active[t][q]
      /\ active[t] \in [Players -> 0..MaxRows] /\ MaxRows \in Nat
  BY DEF RO!Added, RosterType, RO!RosterAssumption
<1>2. new \in Players \X (1..MaxRows) /\ new \notin RO!Places(t)
  BY <1>1 DEF RO!Places
<1>3. RO!Places(t)' = RO!Places(t) \cup {new}
  BY <1>1, <1>2 DEF RO!Places
<1> HIDE DEF new
<1> QED BY <1>2, <1>3, RosterFinite, FS_AddElement, SameCounts DEF RO!Count

(* There are no more rows where no player has more.                         *)
LEMMA RosterRowsFewer ==
  ASSUME RO!RosterAssumption, RosterType,
         active' \in [Teams -> [Players -> 0..MaxRows]], other' \in [Teams -> [Players -> 0..MaxRows]],
         \A t \in Teams, p \in Players : RosterRow(t, p)' <= RosterRow(t, p)
  PROVE  /\ \A t \in Teams, p \in Players : RosterRow(t, p)' <= MaxRows
         /\ Cardinality(RosterRows') <= MaxRows
<1>1. \A t \in Teams, p \in Players : RosterRow(t, p)' \in Nat /\ RosterRow(t, p) \in Nat
  BY DEF RosterRow, RosterType, RO!RosterAssumption
<1>2. RosterRows' \subseteq RosterRows
  BY <1>1 DEF RosterRows, RO!RosterAssumption
<1>3. Cardinality(RosterRows') <= MaxRows
  BY <1>2, RosterFinite, FS_Subset DEF RosterType, RO!RosterAssumption
<1> QED BY <1>1, <1>3 DEF RosterType, RO!RosterAssumption

(* A row more, where the bound allows for one.                              *)
LEMMA RosterRowMore ==
  ASSUME RO!RosterAssumption, RosterType, RO!Rows < MaxRows, NEW t \in Teams, NEW p \in Players,
         active' \in [Teams -> [Players -> Nat]], other' \in [Teams -> [Players -> Nat]],
         \A u \in Teams,
         q \in Players : RosterRow(u, q)' = IF u = t /\ q = p THEN RosterRow(u, q) + 1 ELSE RosterRow(u, q)
  PROVE  /\ \A u \in Teams, q \in Players : RosterRow(u, q)' <= MaxRows
         /\ Cardinality(RosterRows') <= MaxRows
<1> DEFINE n == RosterRow(t, p)
           new == <<t, p, n + 1>>
           f == [i \in 1..n |-> <<t, p, i>>]
<1>0. n \in Nat /\ n <= MaxRows /\ MaxRows \in Nat /\ RO!Rows = Cardinality(RosterRows)
  BY SameCounts DEF RosterRow, RosterType, RO!RosterAssumption, RO!Rows, RosterRows
<1>1. n <= Cardinality(RosterRows)
  <2>1. \A i \in 1..n : <<t, p, i>> \in RosterRows
    BY <1>0 DEF RosterRows
  <2>2. f \in Injection(1..n, RosterRows)
    BY <2>1 DEF Injection, IsInjective
  <2>3. Cardinality(1..n) = n /\ IsFiniteSet(1..n)
    BY <1>0, FS_Interval
  <2> QED BY <2>2, <2>3, RosterFinite, FS_Injection
<1>2. n + 1 <= MaxRows
  BY <1>0, <1>1, RosterFinite
<1>3. \A u \in Teams, q \in Players : RosterRow(u, q)' <= MaxRows
  BY <1>2 DEF RosterType
<1>4. RosterRows' \subseteq RosterRows \cup {new}
  <2> SUFFICES ASSUME NEW u \in Teams, NEW q \in Players, NEW i \in 1..MaxRows, i <= RosterRow(u, q)'
               PROVE  i <= RosterRow(u, q) \/ <<u, q, i>> = new
    BY DEF RosterRows
  <2>1. CASE u = t /\ q = p
    BY <1>0, <2>1
  <2>2. CASE ~(u = t /\ q = p)
    BY <2>2
  <2> QED BY <2>1, <2>2
<1>5. Cardinality(RosterRows') <= Cardinality(RosterRows) + 1
  <2> HIDE DEF new
  <2>1. Cardinality(RosterRows \cup {new}) <= Cardinality(RosterRows) + 1 /\ IsFiniteSet(RosterRows \cup {new})
    <3>1. IsFiniteSet(RosterRows) /\ Cardinality(RosterRows) \in Nat
      BY RosterFinite
    <3>2. /\ IsFiniteSet(RosterRows \cup {new})
          /\ \/ Cardinality(RosterRows \cup {new}) = Cardinality(RosterRows)
             \/ Cardinality(RosterRows \cup {new}) = Cardinality(RosterRows) + 1
      BY <3>1, FS_AddElement, Zenon
    <3> QED BY <3>1, <3>2
  <2>2. Cardinality(RosterRows') <= Cardinality(RosterRows \cup {new})
    BY <1>4, <2>1, FS_Subset
  <2>3. Cardinality(RosterRows \cup {new}) \in Nat
    BY <2>1, FS_CardinalityType
  <2> QED BY <2>1, <2>2, <2>3, RosterFinite
<1> QED BY <1>0, <1>3, <1>5, RosterFinite

(* No team, no row and no request.                                          *)
LEMMA RosterInit == ASSUME RO!RosterAssumption PROVE RO!Init => RosterInv
<1> SUFFICES ASSUME RO!Init PROVE RosterInv
  OBVIOUS
<1>1. /\ \A t \in Teams : max[t] = 0 /\ active[t] = RO!None[t] /\ other[t] = RO!None[t]
      /\ \A t \in Teams, p \in Players : active[t][p] = 0 /\ other[t][p] = 0
      /\ \A r \in Requests : request[r] = RO!Idle
  BY DEF RO!Init, RO!None
<1>2. \A t \in Teams : RO!Places(t) = {}
  BY <1>1 DEF RO!Places, RO!RosterAssumption
<1>3. RosterRows = {}
  BY <1>1 DEF RosterRows, RosterRow, RO!RosterAssumption
<1>4. RosterType
  <2>1. Cardinality(RosterRows) <= MaxRows
    BY <1>3, FS_EmptySet DEF RO!RosterAssumption
  <2>2. active \in [Teams -> [Players -> 0..MaxRows]] /\ other \in [Teams -> [Players -> 0..MaxRows]]
    BY DEF RO!Init, RO!None, RO!RosterAssumption
  <2>3. \A t \in Teams, p \in Players : RosterRow(t, p) <= MaxRows
    BY <1>1 DEF RosterRow, RO!RosterAssumption
  <2> QED BY <1>1, <2>1, <2>2, <2>3 DEF RosterType, RO!Init
<1>5. \A t \in Teams : RosterOrderly(t)
  <2>1. \A t \in Teams : RO!Count(t) = 0 /\ RO!Twice(t) = {}
    BY <1>1, <1>2, FS_EmptySet, SameCounts DEF RO!Count, RO!Twice
  <2>2. RO!Idle.pc = "idle"
    BY DEF RO!Idle
  <2> QED BY <1>1, <2>1, <2>2 DEF RosterOrderly, RosterPast, RO!At
<1> QED BY <1>4, <1>5 DEF RosterInv

(* A team in order, to which nobody is being added.                         *)
LEMMA RosterSettled ==
  ASSUME RO!RosterAssumption, RosterType', NEW t \in Teams, ~RO!Unsettled(t)'
  PROVE  RosterOrderly(t)'
<1>1. RO!Count(t)' \in Nat /\ max'[t] \in Nat
  BY RosterFinite DEF RosterType, RO!RosterAssumption
<1>2. RO!Count(t)' <= max'[t] /\ RO!Twice(t)' = {} /\ \A r \in Requests : ~(request'[r].pc \in RO!Adding /\ request'[r].team = t)
  BY <1>1 DEF RO!Unsettled
<1> QED BY <1>2 DEF RosterOrderly, RosterPast, RO!Adding, RO!At

(* A step that makes no team fuller, but one that has no limit any lower.   *)
LEMMA RosterCalm ==
  ASSUME RO!RosterAssumption, RosterType, RosterType', NEW t \in Teams, RosterOrderly(t), max[t] <= max'[t],
         \A p \in Players : active'[t][p] <= active[t][p],
         \A r \in Requests : \/ request'[r] = request[r] \/ request'[r].pc \notin RO!Adding
                             \/ request'[r].team # t
                             \/ request'[r].pc = "count" /\ request'[r].max <= max'[t],
         \A p \in twofold : RO!Doubled(p)' => p \in twofold'
  PROVE  RosterOrderly(t)'
<1>1. /\ RO!Count(t)' \in Nat /\ RO!Count(t) \in Nat /\ RO!Count(t)' <= RO!Count(t) /\ RO!Twice(t)' \subseteq RO!Twice(t)
      /\ max[t] \in Nat /\ max'[t] \in Nat
  BY RosterFinite, RosterFewer DEF RosterType, RO!RosterAssumption
<1>2. RO!Count(t)' <= max'[t]
  BY <1>1 DEF RosterOrderly
<1>3. RO!Twice(t)' \subseteq twofold'
  BY <1>1 DEF RosterOrderly, RO!Doubled
<1>4. \A r \in Requests : request'[r].pc = "count" /\ request'[r].team = t => request'[r].max <= max'[t]
  <2> SUFFICES ASSUME NEW r \in Requests, request'[r].pc = "count", request'[r].team = t, request'[r] = request[r]
               PROVE  request[r].max <= max'[t]
    BY DEF RO!Adding
  <2>1. request[r].max <= max[t] /\ request[r].max \in Nat
    BY DEF RosterOrderly, RO!At, RosterType, RosterAsked, RO!Idle
  <2> QED BY <1>1, <2>1
<1>5. \A r \in Requests : RosterPast(request'[r], t) => RosterPast(request[r], t) /\ request'[r] = request[r]
  BY DEF RosterPast, RO!Adding
<1>6. ASSUME NEW r \in Requests, RosterPast(request'[r], t)
      PROVE  RO!Count(t)' < max'[t] /\ \A s \in Requests \ {r} : ~RosterPast(request'[s], t)
  BY <1>1, <1>5, <1>6 DEF RosterOrderly
<1>7. ASSUME NEW r \in Requests, request'[r].pc = "create", request'[r].team = t
      PROVE  active'[t][request'[r].player] = 0 \/ request'[r].player \in twofold'
  <2>1. request'[r] = request[r] /\ request[r].player \in Players
    BY <1>5, <1>7 DEF RosterPast, RosterType, RosterAsked, RO!Idle
  <2>2. CASE active[t][request[r].player] = 0
    BY <2>1, <2>2 DEF RosterType, RO!RosterAssumption
  <2>3. CASE request[r].player \in twofold
    BY <1>7, <2>1, <2>3 DEF RO!Doubled, RO!At
  <2> QED BY <1>7, <2>1, <2>2, <2>3 DEF RosterOrderly, RO!At
<1> QED BY <1>2, <1>3, <1>4, <1>6, <1>7 DEF RosterOrderly, RO!At, RosterPast

(* Who is excused after a step, and the others in order.                    *)
LEMMA RosterOn ==
  ASSUME RO!RosterAssumption, RosterType', NEW ts, RO!Excuse(ts),
         \A t \in Teams \ (excused \cup ts) : RosterOrderly(t)'
  PROVE  RosterInv'
<1>1. ASSUME NEW t \in Teams \ excused' PROVE RosterOrderly(t)'
  <2>1. CASE t \in excused \cup ts
    BY <1>1, <2>1, RosterSettled DEF RO!Excuse
  <2>2. CASE t \notin excused \cup ts
    BY <1>1, <2>2
  <2> QED BY <2>1, <2>2
<1> QED BY <1>1 DEF RosterInv

(* One request goes on, and no row changes.                                 *)
LEMMA RosterGoto ==
  ASSUME RO!RosterAssumption, RosterInv, UNCHANGED <<max, active, other>>, NEW r \in Requests, NEW q,
         request' = [request EXCEPT ![r] = q], q = RO!Idle \/ (q \in RosterAsked /\ max[q.team] # 0)
  PROVE  /\ RosterType'
         /\ request'[r] = q /\ \A s \in Requests \ {r} : request'[s] = request[s]
<1>1. /\ request' = [s \in Requests |-> request'[s]]
      /\ request'[r] = q /\ \A s \in Requests \ {r} : request'[s] = request[s]
  BY DEF RosterInv, RosterType
<1>2. RosterRows' = RosterRows /\ \A t, p : RosterRow(t, p)' = RosterRow(t, p)
  BY DEF RosterRows, RosterRow
<1>3. \A s \in Requests : request'[s] = RO!Idle \/ (request'[s] \in RosterAsked /\ max'[request'[s].team] # 0)
  BY <1>1 DEF RosterInv, RosterType
<1> QED BY <1>1, <1>2, <1>3 DEF RosterInv, RosterType

(* A request ends without a row.                                            *)
LEMMA RosterEnd ==
  ASSUME RO!RosterAssumption, RosterInv, UNCHANGED <<max, active, other>>, NEW r \in Requests, RO!End(r),
         NEW ts, RO!Excuse(ts)
  PROVE  RosterInv'
<1>1. RosterType' /\ request'[r] = RO!Idle /\ \A s \in Requests \ {r} : request'[s] = request[s]
  BY RosterGoto DEF RO!End
<1>2. RO!Idle.pc \notin RO!Adding
  BY DEF RO!Idle, RO!Adding
<1>3. ASSUME NEW t \in Teams \ (excused \cup ts) PROVE RosterOrderly(t)'
  <2>1. RosterOrderly(t) /\ max[t] <= max'[t] /\ \A p \in Players : active'[t][p] <= active[t][p]
    BY DEF RosterInv, RosterType, RO!RosterAssumption
  <2> QED BY <1>1, <1>2, <2>1, RosterCalm DEF RosterInv, RO!Excuse
<1> QED BY <1>1, <1>3, RosterOn

(* A team is made, or its limit changed: a lower one excuses it.            *)
LEMMA RosterTeams ==
  ASSUME RO!RosterAssumption, RosterInv, NEW t \in Teams, NEW n \in Limits,
         RO!CreateTeam(t, n) \/ RO!UpdateTeam(t, n)
  PROVE  RosterInv'
<1>1. /\ UNCHANGED <<active, other, request>> /\ max' = [max EXCEPT ![t] = n] /\ n \in Nat /\ n # 0
  BY DEF RO!CreateTeam, RO!UpdateTeam, RO!RosterAssumption
<1>2. max'[t] = n /\ \A u \in Teams \ {t} : max'[u] = max[u]
  BY <1>1 DEF RosterInv, RosterType
<1>3. RosterType'
  <2>1. RosterRows' = RosterRows /\ \A u, p : RosterRow(u, p)' = RosterRow(u, p)
    BY <1>1 DEF RosterRows, RosterRow
  <2>2. \A s \in Requests : request'[s] = RO!Idle \/ (request'[s] \in RosterAsked /\ max'[request'[s].team] # 0)
    BY <1>1, <1>2 DEF RosterInv, RosterType, RosterAsked
  <2> QED BY <1>1, <1>2, <2>1, <2>2 DEF RosterInv, RosterType
<1>4. ASSUME NEW u \in Teams \ excused, max[u] <= max'[u], \A p \in twofold : RO!Doubled(p)' => p \in twofold'
      PROVE  RosterOrderly(u)'
  <2>1. RosterOrderly(u) /\ \A p \in Players : active'[u][p] <= active[u][p]
    BY <1>1 DEF RosterInv, RosterType, RO!RosterAssumption
  <2> QED BY <1>1, <1>3, <1>4, <2>1, RosterCalm DEF RosterInv
<1>5. \A u \in Teams : max[u] \in Nat /\ (u # t => max[u] <= max'[u])
  BY <1>2 DEF RosterInv, RosterType, RO!RosterAssumption
<1>6. CASE RO!CreateTeam(t, n)
  <2>1. excused' = excused /\ twofold' = twofold /\ max[t] = 0
    BY <1>6 DEF RO!CreateTeam
  <2>2. \A u \in Teams : max[u] <= max'[u]
    BY <1>1, <1>2, <1>5, <2>1
  <2> QED BY <1>3, <1>4, <2>1, <2>2 DEF RosterInv
<1>7. CASE RO!UpdateTeam(t, n)
  <2> DEFINE ts == IF n < max[t] THEN {t} ELSE {}
  <2>1. RO!Excuse(ts)
    BY <1>7 DEF RO!UpdateTeam
  <2>2. \A u \in Teams \ ts : max[u] <= max'[u]
    BY <1>1, <1>2, <1>5
  <2> HIDE DEF ts
  <2>3. \A u \in Teams \ (excused \cup ts) : RosterOrderly(u)'
    BY <1>4, <2>1, <2>2 DEF RO!Excuse
  <2> QED BY <1>3, <2>1, <2>3, RosterOn
<1> QED BY <1>6, <1>7

(* Rows go with a team, with all of them, or with a player.                 *)
LEMMA RosterGone ==
  ASSUME RO!RosterAssumption, RosterInv, NEW ts \in SUBSET Teams, NEW ps \in SUBSET Players,
         max' = [t \in Teams |-> IF t \in ts THEN 0 ELSE max[t]],
         active' \in [Teams -> [Players -> 0..MaxRows]], other' \in [Teams -> [Players -> 0..MaxRows]],
         \A t \in ts : active'[t] = RO!None[t] /\ other'[t] = RO!None[t],
         \A t \in Teams, p \in Players : active'[t][p] <= active[t][p] /\ other'[t][p] <= other[t][p],
         \A t \in Teams : max[t] = 0 => active'[t] = RO!None[t] /\ other'[t] = RO!None[t],
         request' = RO!Orphaned(ts, ps), RO!Excuse({})
  PROVE  RosterInv'
<1>1. \A r \in Requests : \/ request'[r] = RO!Idle
                          \/ request'[r] = request[r] /\ ~(request[r].pc \in RO!Adding /\ request[r].team \in ts)
  BY DEF RO!Orphaned
<1>2. RosterType'
  <2>1. \A t \in Teams, p \in Players : RosterRow(t, p)' <= RosterRow(t, p)
    BY DEF RosterRow, RosterInv, RosterType, RO!RosterAssumption
  <2>2. (\A t \in Teams, p \in Players : RosterRow(t, p)' <= MaxRows) /\ Cardinality(RosterRows') <= MaxRows
    BY <2>1, RosterRowsFewer DEF RosterInv
  <2>3. request' = [r \in Requests |-> request'[r]]
    BY DEF RO!Orphaned
  <2>4. \A r \in Requests : request'[r] = RO!Idle \/ (request'[r] \in RosterAsked /\ max'[request'[r].team] # 0)
    BY <1>1 DEF RosterInv, RosterType, RosterAsked
  <2>5. max' \in [Teams -> Limits \cup {0}]
    BY DEF RosterInv, RosterType
  <2>6. \A t \in Teams : max'[t] = 0 => active'[t] = RO!None[t] /\ other'[t] = RO!None[t]
    OBVIOUS
  <2>7. \A t \in Teams : (RO!None[t])' = RO!None[t]
    BY DEF RO!None
  <2> QED BY <2>2, <2>3, <2>4, <2>5, <2>6, <2>7 DEF RosterType
<1>3. RO!Idle.pc \notin RO!Adding
  BY DEF RO!Idle, RO!Adding
<1>4. ASSUME NEW t \in Teams \ excused PROVE RosterOrderly(t)'
  <2>1. CASE t \in ts
    <3>1. max'[t] = 0 /\ \A p \in Players : active'[t][p] = 0
      BY <2>1 DEF RO!None
    <3>2. RO!Places(t)' = {} /\ RO!Twice(t)' = {}
      BY <3>1 DEF RO!Places, RO!Twice, RO!RosterAssumption
    <3>3. ~RO!Unsettled(t)'
      BY <1>1, <1>3, <2>1, <3>1, <3>2, FS_EmptySet, SameCounts DEF RO!Unsettled, RO!Count
    <3> QED BY <1>2, <3>3, RosterSettled
  <2>2. CASE t \notin ts
    <3>1. RosterOrderly(t) /\ max[t] <= max'[t]
      <4>1. max'[t] = max[t] /\ max[t] \in Nat
        BY <2>2 DEF RosterInv, RosterType, RO!RosterAssumption
      <4> QED BY <4>1 DEF RosterInv
    <3> QED BY <1>1, <1>2, <1>3, <3>1, RosterCalm DEF RosterInv, RO!Excuse
  <2> QED BY <2>1, <2>2
<1> QED BY <1>2, <1>4, RosterOn

(* Teams, the league or a player go with their rows.                        *)
LEMMA RosterDrop ==
  ASSUME RO!RosterAssumption, RosterInv,
         (\E ts \in SUBSET Teams : RO!Drop(ts)) \/ (\E p \in Players : RO!DeletePlayer(p))
  PROVE  RosterInv'
<1>0. /\ active \in [Teams -> [Players -> 0..MaxRows]] /\ other \in [Teams -> [Players -> 0..MaxRows]]
      /\ MaxRows \in Nat /\ RO!None \in [Teams -> [Players -> 0..MaxRows]]
      /\ \A t \in Teams, p \in Players : RO!None[t][p] = 0
  BY DEF RosterInv, RosterType, RO!RosterAssumption, RO!None
<1>1. ASSUME NEW ts \in SUBSET Teams, RO!Drop(ts) PROVE RosterInv'
  <2>1. /\ active' = [t \in Teams |-> IF t \in ts THEN RO!None[t] ELSE active[t]]
        /\ other' = [t \in Teams |-> IF t \in ts THEN RO!None[t] ELSE other[t]]
    BY <1>1 DEF RO!Drop
  <2>2. active' \in [Teams -> [Players -> 0..MaxRows]] /\ other' \in [Teams -> [Players -> 0..MaxRows]]
    BY <1>0, <2>1
  <2>3. /\ \A t \in ts : active'[t] = RO!None[t] /\ other'[t] = RO!None[t]
        /\ \A t \in Teams : max[t] = 0 => active'[t] = RO!None[t] /\ other'[t] = RO!None[t]
    BY <2>1 DEF RosterInv, RosterType
  <2>4. \A t \in Teams, p \in Players : active'[t][p] <= active[t][p] /\ other'[t][p] <= other[t][p]
    BY <1>0, <2>1
  <2> QED BY <1>1, <2>2, <2>3, <2>4, RosterGone DEF RO!Drop
<1>2. ASSUME NEW p \in Players, RO!DeletePlayer(p) PROVE RosterInv'
  <2>1. /\ active' = [t \in Teams |-> [active[t] EXCEPT ![p] = 0]]
        /\ other' = [t \in Teams |-> [other[t] EXCEPT ![p] = 0]]
    BY <1>2 DEF RO!DeletePlayer
  <2>2. active' \in [Teams -> [Players -> 0..MaxRows]] /\ other' \in [Teams -> [Players -> 0..MaxRows]]
    BY <1>0, <2>1
  <2>3. \A t \in Teams : max[t] = 0 => active'[t] = RO!None[t] /\ other'[t] = RO!None[t]
    BY <1>0, <2>1 DEF RosterInv, RosterType, RO!None
  <2>4. \A t \in Teams, q \in Players : active'[t][q] <= active[t][q] /\ other'[t][q] <= other[t][q]
    BY <1>0, <2>1
  <2>5. max' = [t \in Teams |-> IF t \in {} THEN 0 ELSE max[t]]
    BY <1>2 DEF RO!DeletePlayer, RosterInv, RosterType
  <2>6. {} \in SUBSET Teams /\ {p} \in SUBSET Players
    OBVIOUS
  <2>7. request' = RO!Orphaned({}, {p}) /\ RO!Excuse({})
    BY <1>2 DEF RO!DeletePlayer
  <2> QED BY <2>2, <2>3, <2>4, <2>5, <2>6, <2>7, RosterGone
<1> QED BY <1>1, <1>2

(* A request comes to a team that has not been counted yet.                 *)
LEMMA RosterAdd ==
  ASSUME RO!RosterAssumption, RosterInv, NEW r \in Requests, NEW t \in Teams, NEW p \in Players,
         NEW s \in {"ACTIVE", "INACTIVE"}, RO!AddMember(r, t, p, s)
  PROVE  RosterInv'
<1> DEFINE q == [pc |-> "count", team |-> t, player |-> p, becomes |-> s, max |-> max[t]]
<1>1. /\ UNCHANGED <<max, active, other>> /\ excused' = excused /\ twofold' = twofold
      /\ request' = [request EXCEPT ![r] = q] /\ max[t] # 0
  BY DEF RO!AddMember
<1>2. max[t] \in Nat /\ \A u \in Teams : max[u] \in Nat
  BY DEF RosterInv, RosterType, RO!RosterAssumption
<1>3. q \in RosterAsked /\ q.pc = "count" /\ q.team = t /\ q.max = max[t]
  BY <1>2 DEF RosterAsked, RO!Adding
<1> HIDE DEF q
<1>4. RosterType' /\ request'[r] = q /\ \A u \in Requests \ {r} : request'[u] = request[u]
  BY <1>1, <1>3, RosterGoto
<1>5. ASSUME NEW u \in Teams \ excused PROVE RosterOrderly(u)'
  <2>1. RosterOrderly(u) /\ max[u] <= max'[u] /\ \A v \in Players : active'[u][v] <= active[u][v]
    BY <1>1, <1>2 DEF RosterInv, RosterType, RO!RosterAssumption
  <2>2. \A v \in Requests : \/ request'[v] = request[v] \/ request'[v].team # u
                            \/ request'[v].pc = "count" /\ request'[v].max <= max'[u]
    BY <1>1, <1>2, <1>3, <1>4
  <2> QED BY <1>1, <1>4, <2>1, <2>2, RosterCalm DEF RosterInv
<1> QED BY <1>1, <1>4, <1>5 DEF RosterInv

(* There is room, and nobody else is past the count, or the team is excused. *)
LEMMA RosterCounted ==
  ASSUME RO!RosterAssumption, RosterInv, NEW r \in Requests, RO!CountActiveMembers(r)
  PROVE  RosterInv'
<1> DEFINE q == request[r]
           t == q.team
           ts == IF \E s \in Requests : s # r /\ request[s].pc \in {"lookup", "create"} /\ request[s].team = t
                 THEN {t} ELSE {}
           q2 == [q EXCEPT !.pc = "lookup", !.max = 0]
<1>1. /\ q.pc = "count" /\ UNCHANGED <<max, active, other>> /\ RO!Excuse(ts)
      /\ request' = [request EXCEPT ![r] = IF RO!Count(t) >= q.max THEN RO!Idle ELSE q2]
  BY DEF RO!CountActiveMembers, RO!At, RO!Full
<1>2. q \in RosterAsked /\ t \in Teams /\ max[t] # 0 /\ max[t] \in Nat /\ q.max \in Nat /\ RO!Count(t) \in Nat
  BY <1>1, RosterFinite DEF RosterInv, RosterType, RosterAsked, RO!Idle, RO!RosterAssumption
<1>3. CASE RO!Count(t) >= q.max
  BY <1>1, <1>3, RosterEnd DEF RO!End
<1>4. CASE ~(RO!Count(t) >= q.max)
  <2>1. q2 \in RosterAsked /\ q2.pc = "lookup" /\ q2.team = t
    BY <1>2 DEF RosterAsked, RO!Adding
  <2>0. request' = [request EXCEPT ![r] = q2] /\ max[q2.team] # 0
    BY <1>1, <1>2, <1>4
  <2> HIDE DEF q2
  <2>2. RosterType' /\ request'[r] = q2 /\ \A s \in Requests \ {r} : request'[s] = request[s]
    BY <1>1, <1>2, <2>0, <2>1, RosterGoto, ZenonT(30)
  <2>3. ASSUME NEW u \in Teams \ (excused \cup ts) PROVE RosterOrderly(u)'
    <3>1. RosterOrderly(u) /\ max[u] \in Nat /\ max[u] <= max'[u] /\ \A v \in Players : active'[u][v] <= active[u][v]
      BY <1>1 DEF RosterInv, RosterType, RO!RosterAssumption
    <3>2. CASE u # t
      BY <1>1, <2>1, <2>2, <3>1, <3>2, RosterCalm DEF RosterInv, RO!Excuse
    <3>3. CASE u = t
      <4>1. \A s \in Requests \ {r} : ~RosterPast(request'[s], u)
        BY <2>2, <2>3, <3>3 DEF RosterPast
      <4>2. RO!Count(u)' = RO!Count(u) /\ RO!Twice(u)' = RO!Twice(u) /\ max'[u] = max[u]
        BY <1>1 DEF RO!Count, RO!Places, RO!Twice
      <4>3. RO!Count(u)' < max'[u] /\ RO!Count(u)' <= max'[u]
        BY <1>1, <1>2, <1>4, <3>1, <3>3, <4>2 DEF RosterOrderly, RO!At
      <4>4. RO!Twice(u)' \subseteq twofold'
        BY <1>1, <3>1, <4>2 DEF RosterOrderly, RO!Excuse, RO!Doubled, RO!Twice
      <4>5. \A s \in Requests : request'[s].pc = "count" /\ request'[s].team = u => request'[s].max <= max'[u]
        BY <2>1, <2>2, <3>1, <4>2 DEF RosterOrderly, RO!At
      <4>6. \A s \in Requests : request'[s].pc = "create" => request'[s].team # u
        BY <2>1, <2>2, <4>1 DEF RosterPast
      <4> QED BY <4>1, <4>3, <4>4, <4>5, <4>6 DEF RosterOrderly, RO!At
    <3> QED BY <3>2, <3>3
  <2> QED BY <1>1, <2>2, <2>3, RosterOn
<1> QED BY <1>3, <1>4

(* The lookup lets a request on for whoever is not in the team, or is in    *)
(* another one too.                                                         *)
LEMMA RosterLooked ==
  ASSUME RO!RosterAssumption, RosterInv, NEW r \in Requests, RO!FindByPlayerAndLeague(r)
  PROVE  RosterInv'
<1> DEFINE q == request[r]
           t == q.team
           q2 == [q EXCEPT !.pc = "create"]
<1>1. q.pc = "lookup" /\ UNCHANGED <<max, active, other>> /\ RO!Excuse({})
  BY DEF RO!FindByPlayerAndLeague, RO!At
<1>2. q \in RosterAsked /\ t \in Teams /\ max[t] # 0 /\ q.player \in Players
  BY <1>1 DEF RosterInv, RosterType, RosterAsked, RO!Idle
<1>3. CASE RO!End(r)
  BY <1>1, <1>3, RosterEnd
<1>4. CASE RO!Goto(r, "create") /\ (RO!ActiveIn(q.player) = {} \/ \E u \in RO!ActiveIn(q.player) : u # t)
  <2>1. q2 \in RosterAsked /\ q2.pc = "create" /\ q2.team = t /\ q2.player = q.player
    BY <1>2 DEF RosterAsked, RO!Adding
  <2>2. request' = [request EXCEPT ![r] = q2]
    BY <1>4 DEF RO!Goto
  <2> HIDE DEF q2
  <2>3. RosterType' /\ request'[r] = q2 /\ \A s \in Requests \ {r} : request'[s] = request[s]
    BY <1>1, <1>2, <2>1, <2>2, RosterGoto
  <2>4. active[t][q.player] = 0 \/ q.player \in twofold'
    <3>1. active[t][q.player] \in Nat
      BY <1>2 DEF RosterInv, RosterType, RO!RosterAssumption
    <3>2. ASSUME active[t][q.player] > 0, NEW u \in RO!ActiveIn(q.player), u # t PROVE q.player \in twofold'
      <4>1. t \in RO!ActiveIn(q.player) /\ RO!ActiveIn(q.player) \subseteq Teams
        BY <1>2, <3>2 DEF RO!ActiveIn
      <4>2. IsFiniteSet(RO!ActiveIn(q.player)) /\ Cardinality(RO!ActiveIn(q.player)) \in Nat
        BY <4>1, FS_Subset, FS_CardinalityType, SameCounts DEF RO!RosterAssumption
      <4>3. Cardinality({t, u}) = 2
        <5>1. {t, u} = {t} \cup {u} /\ u \notin {t}
          BY <3>2
        <5>2. IsFiniteSet({t}) /\ Cardinality({t}) = 1
          BY FS_Singleton
        <5>3. Cardinality({t} \cup {u}) = 1 + 1
          BY <5>1, <5>2, FS_AddElement
        <5> QED BY <5>1, <5>3
      <4>4. Cardinality(RO!ActiveIn(q.player)) > 1
        <5>1. {t, u} \subseteq RO!ActiveIn(q.player)
          BY <3>2, <4>1
        <5>2. Cardinality({t, u}) <= Cardinality(RO!ActiveIn(q.player))
          BY <4>2, <5>1, FS_Subset
        <5> QED BY <4>2, <4>3, <5>2
      <4>5. \A p \in Players : RO!ActiveIn(p)' = RO!ActiveIn(p)
        BY <1>1 DEF RO!ActiveIn
      <4> QED BY <1>1, <1>2, <4>4, <4>5, SameCounts DEF RO!Excuse
    <3>3. RO!ActiveIn(q.player) = {} => ~(active[t][q.player] > 0)
      BY <1>2 DEF RO!ActiveIn
    <3> QED BY <1>4, <3>1, <3>2, <3>3
  <2>5. ASSUME NEW u \in Teams \ excused PROVE RosterOrderly(u)'
    <3>1. RosterOrderly(u) /\ max[u] \in Nat /\ max[u] <= max'[u] /\ \A v \in Players : active'[u][v] <= active[u][v]
      BY <1>1 DEF RosterInv, RosterType, RO!RosterAssumption
    <3>2. CASE u # t
      BY <1>1, <2>1, <2>3, <3>1, <3>2, RosterCalm DEF RosterInv, RO!Excuse
    <3>3. CASE u = t
      <4>1. RosterPast(request[r], u) /\ \A s \in Requests \ {r} : ~RosterPast(request[s], u)
        BY <1>1, <3>1, <3>3 DEF RosterOrderly, RosterPast
      <4>2. RO!Count(u)' = RO!Count(u) /\ RO!Twice(u)' = RO!Twice(u) /\ max'[u] = max[u]
        BY <1>1 DEF RO!Count, RO!Places, RO!Twice
      <4>3. RO!Count(u)' < max'[u] /\ RO!Count(u)' <= max'[u]
        BY <3>1, <4>1, <4>2 DEF RosterOrderly
      <4>4. RO!Twice(u)' \subseteq twofold'
        BY <1>1, <3>1, <4>2 DEF RosterOrderly, RO!Excuse, RO!Doubled, RO!Twice
      <4>5. \A s \in Requests : request'[s].pc = "count" /\ request'[s].team = u => request'[s].max <= max'[u]
        BY <2>1, <2>3, <3>1, <4>2 DEF RosterOrderly, RO!At
      <4>6. \A s \in Requests \ {r} : ~RosterPast(request'[s], u)
        BY <2>3, <4>1
      <4>7. \A s \in Requests : request'[s].pc = "create" /\ request'[s].team = u =>
              active'[u][request'[s].player] = 0 \/ request'[s].player \in twofold'
        BY <1>1, <2>1, <2>3, <2>4, <3>3, <4>6 DEF RosterPast
      <4> QED BY <4>3, <4>4, <4>5, <4>6, <4>7 DEF RosterOrderly, RO!At
    <3> QED BY <3>2, <3>3
  <2> QED BY <1>1, <2>3, <2>5, RosterOn
<1> QED BY <1>3, <1>4 DEF RO!FindByPlayerAndLeague, RO!ActiveIn

(* Rows change, and no limit does.                                          *)
LEMMA RosterKept ==
  ASSUME RO!RosterAssumption, RosterInv, UNCHANGED max,
         active' \in [Teams -> [Players -> Nat]], other' \in [Teams -> [Players -> Nat]],
         \A t \in Teams, p \in Players : RosterRow(t, p)' <= MaxRows,
         Cardinality(RosterRows') <= MaxRows,
         \A t \in Teams : max[t] = 0 => active'[t] = RO!None[t] /\ other'[t] = RO!None[t],
         request' = [r \in Requests |-> request'[r]],
         \A r \in Requests : request'[r] = request[r] \/ request'[r] = RO!Idle
  PROVE  RosterType'
<1>1. \A t \in Teams, p \in Players : active'[t][p] \in 0..MaxRows /\ other'[t][p] \in 0..MaxRows
  BY DEF RosterRow, RO!RosterAssumption
<1>2. active' \in [Teams -> [Players -> 0..MaxRows]] /\ other' \in [Teams -> [Players -> 0..MaxRows]]
  BY <1>1
<1>3. \A t \in Teams : (RO!None[t])' = RO!None[t]
  BY DEF RO!None
<1>4. \A r \in Requests : request'[r] = RO!Idle \/ (request'[r] \in RosterAsked /\ max'[request'[r].team] # 0)
  BY DEF RosterInv, RosterType
<1> QED BY <1>2, <1>3, <1>4 DEF RosterInv, RosterType

(* One row more is one row more, and the others stay.                       *)
LEMMA RosterAdded ==
  ASSUME NEW rows \in [Teams -> [Players -> Nat]], NEW t \in Teams, NEW p \in Players
  PROVE  /\ RO!Added(rows, t, p) \in [Teams -> [Players -> Nat]]
         /\ RO!Added(rows, t, p)[t][p] = rows[t][p] + 1
         /\ \A u \in Teams, v \in Players : ~(u = t /\ v = p) => RO!Added(rows, t, p)[u][v] = rows[u][v]
BY DEF RO!Added

(* The row is made: for that the place was kept.                            *)
LEMMA RosterMade ==
  ASSUME RO!RosterAssumption, RosterInv, NEW r \in Requests, RO!CreateMember(r)
  PROVE  RosterInv'
<1> DEFINE q == request[r]
<1>0. q.pc = "create" /\ q.team \in Teams /\ q.player \in Players /\ max[q.team] # 0
  BY DEF RO!CreateMember, RO!At, RosterInv, RosterType, RosterAsked, RO!Idle
<1> SUFFICES ASSUME NEW t \in Teams, t = q.team, NEW p \in Players, p = q.player
             PROVE  RosterInv'
  BY <1>0
<1>1. /\ q.pc = "create" /\ UNCHANGED max /\ RO!Excuse({}) /\ RO!End(r) /\ RO!Rows < MaxRows
      /\ \/ active' = RO!Added(active, t, p) /\ UNCHANGED other
         \/ other' = RO!Added(other, t, p) /\ UNCHANGED active
  BY DEF RO!CreateMember, RO!At
<1>2. max[t] # 0
  BY <1>0
<1>3. /\ active \in [Teams -> [Players -> Nat]] /\ other \in [Teams -> [Players -> Nat]] /\ MaxRows \in Nat
      /\ \A u \in Teams : max[u] \in Nat
  BY DEF RosterInv, RosterType, RO!RosterAssumption
<1>4. /\ request' = [s \in Requests |-> request'[s]] /\ request'[r] = RO!Idle
      /\ \A s \in Requests \ {r} : request'[s] = request[s]
  BY <1>1 DEF RosterInv, RosterType, RO!End
<1>5. active' \in [Teams -> [Players -> Nat]] /\ other' \in [Teams -> [Players -> Nat]]
  BY <1>1, <1>3, RosterAdded
<1>6. \A u \in Teams, v \in Players : RosterRow(u, v)' = IF u = t /\ v = p THEN RosterRow(u, v) + 1 ELSE RosterRow(u, v)
  <2>1. CASE active' = RO!Added(active, t, p) /\ UNCHANGED other
    <3>1. \A u \in Teams, v \in Players : active'[u][v] = IF u = t /\ v = p THEN active[u][v] + 1 ELSE active[u][v]
      BY <1>3, <2>1 DEF RO!Added
    <3>2. \A u \in Teams, v \in Players : other'[u][v] = other[u][v] /\ active[u][v] \in Nat /\ other[u][v] \in Nat
      BY <1>3, <2>1
    <3> QED BY <3>1, <3>2 DEF RosterRow
  <2>2. CASE other' = RO!Added(other, t, p) /\ UNCHANGED active
    <3>1. \A u \in Teams, v \in Players : other'[u][v] = IF u = t /\ v = p THEN other[u][v] + 1 ELSE other[u][v]
      BY <1>3, <2>2 DEF RO!Added
    <3>2. \A u \in Teams, v \in Players : active'[u][v] = active[u][v] /\ other[u][v] \in Nat /\ active[u][v] \in Nat
      BY <1>3, <2>2
    <3> QED BY <3>1, <3>2 DEF RosterRow
  <2> QED BY <1>1, <2>1, <2>2
<1>7. (\A u \in Teams, v \in Players : RosterRow(u, v)' <= MaxRows) /\ Cardinality(RosterRows') <= MaxRows
  BY <1>1, <1>2, <1>5, <1>6, RosterRowMore DEF RosterInv
<1>8. \A u \in Teams \ {t} : active'[u] = active[u] /\ other'[u] = other[u]
  BY <1>1, <1>2, <1>3 DEF RO!Added
<1>9. RosterType'
  <2>1. \A u \in Teams : max[u] = 0 => active'[u] = RO!None[u] /\ other'[u] = RO!None[u]
    BY <1>2, <1>8 DEF RosterInv, RosterType
  <2> QED BY <1>1, <1>4, <1>5, <1>7, <2>1, RosterKept
<1>10. ASSUME NEW u \in Teams \ excused, u # t \/ UNCHANGED active PROVE RosterOrderly(u)'
  <2>1. active'[u] = active[u] /\ \A v \in Players : active[u][v] \in Nat
    BY <1>3, <1>8, <1>10
  <2>2. RosterOrderly(u) /\ max[u] <= max'[u] /\ \A v \in Players : active'[u][v] <= active[u][v]
    BY <1>1, <1>3, <2>1 DEF RosterInv
  <2>3. RO!Idle.pc \notin RO!Adding
    BY DEF RO!Idle, RO!Adding
  <2> QED BY <1>1, <1>4, <1>9, <2>2, <2>3, RosterCalm DEF RosterInv, RO!Excuse
<1>11. ASSUME t \notin excused, active' = RO!Added(active, t, p) PROVE RosterOrderly(t)'
  <2>1. RosterOrderly(t) /\ RosterPast(q, t)
    BY <1>1, <1>2, <1>11 DEF RosterInv, RosterPast
  <2>2. RO!Count(t) < max[t] /\ \A s \in Requests \ {r} : ~RosterPast(request[s], t)
    BY <2>1 DEF RosterOrderly
  <2>3. active[t][p] < MaxRows /\ active'[t][p] = active[t][p] + 1 /\ \A v \in Players \ {p} : active'[t][v] = active[t][v]
    <3>1. /\ active'[t][p] = active[t][p] + 1 /\ active[t][p] \in Nat /\ other'[t][p] \in Nat
          /\ \A v \in Players \ {p} : active'[t][v] = active[t][v]
      BY <1>2, <1>3, <1>5, <1>11 DEF RO!Added
    <3> QED BY <1>2, <1>3, <1>7, <3>1 DEF RosterRow
  <2>4. RO!Count(t)' = RO!Count(t) + 1 /\ RO!Count(t) \in Nat
    BY <1>2, <1>11, <2>3, RosterOneMore, RosterFinite DEF RosterInv
  <2>5. RO!Count(t)' <= max'[t]
    BY <1>1, <1>2, <1>3, <2>2, <2>4
  <2>6. ASSUME NEW v \in RO!Twice(t)' PROVE v \in twofold'
    <3>1. v \in Players /\ active'[t][v] > 1 /\ RO!Doubled(v)'
      BY <1>2, <2>6 DEF RO!Twice, RO!Doubled
    <3>2. v \in twofold
      <4>1. CASE v # p
        BY <2>1, <2>3, <3>1, <4>1 DEF RosterOrderly, RO!Twice
      <4>2. CASE v = p
        <5>1. active[t][p] \in Nat /\ active[t][p] # 0
          BY <1>2, <1>3, <2>3, <3>1, <4>2
        <5> QED BY <1>1, <2>1, <4>2, <5>1 DEF RosterOrderly, RO!At
      <4> QED BY <4>1, <4>2
    <3> QED BY <1>1, <3>1, <3>2 DEF RO!Excuse
  <2>7. \A s \in Requests : request'[s].pc = "count" /\ request'[s].team = t => request'[s].max <= max'[t]
    BY <1>1, <1>4, <2>1 DEF RosterOrderly, RO!At, RO!Idle
  <2>8. \A s \in Requests : ~RosterPast(request'[s], t)
    BY <1>4, <2>2 DEF RosterPast, RO!Idle
  <2> QED BY <2>5, <2>6, <2>7, <2>8 DEF RosterOrderly, RO!At, RosterPast
<1> QED
  <2>1. \A u \in Teams \ excused : RosterOrderly(u)'
    BY <1>1, <1>10, <1>11
  <2> QED BY <1>1, <1>9, <2>1, RosterOn

(* A member made inactive takes a place no more; one made active again      *)
(* does, whatever the limit: the team is excused.                           *)
LEMMA RosterMoved ==
  ASSUME RO!RosterAssumption, RosterInv, NEW t \in Teams, NEW p \in Players,
         RO!Deactivate(t, p) \/ RO!Reactivate(t, p)
  PROVE  RosterInv'
<1>1. /\ active \in [Teams -> [Players -> Nat]] /\ other \in [Teams -> [Players -> Nat]] /\ MaxRows \in Nat
      /\ \A u \in Teams : max[u] \in Nat
      /\ UNCHANGED <<max, request>>
  BY DEF RosterInv, RosterType, RO!RosterAssumption, RO!Deactivate, RO!Reactivate
<1>2. ASSUME NEW rows \in [Teams -> [Players -> Nat]], rows[t][p] > 0
      PROVE  /\ [rows EXCEPT ![t][p] = @ - 1] \in [Teams -> [Players -> Nat]]
             /\ [rows EXCEPT ![t][p] = @ - 1][t][p] = rows[t][p] - 1
             /\ \A u \in Teams, v \in Players : ~(u = t /\ v = p) => [rows EXCEPT ![t][p] = @ - 1][u][v] = rows[u][v]
  <2>1. rows[t][p] - 1 \in Nat
    BY <1>2
  <2> QED BY <2>1
<1>3. /\ active' \in [Teams -> [Players -> Nat]] /\ other' \in [Teams -> [Players -> Nat]]
      /\ \A u \in Teams, v \in Players : ~(u = t /\ v = p) => active'[u][v] = active[u][v] /\ other'[u][v] = other[u][v]
      /\ active[t][p] + other[t][p] > 0
      /\ \/ RO!Deactivate(t, p) /\ active'[t][p] = active[t][p] - 1 /\ other'[t][p] = other[t][p] + 1
         \/ RO!Reactivate(t, p) /\ active'[t][p] = active[t][p] + 1 /\ other'[t][p] = other[t][p] - 1
  <2>1. CASE RO!Deactivate(t, p)
    <3>1. active[t][p] > 0 /\ active' = [active EXCEPT ![t][p] = @ - 1]
      BY <2>1 DEF RO!Deactivate
    <3>2. active[t][p] \in Nat /\ other[t][p] \in Nat
      BY <1>1
    <3>3. active[t][p] + other[t][p] > 0
      BY <3>1, <3>2
    <3>4. /\ active' \in [Teams -> [Players -> Nat]] /\ active'[t][p] = active[t][p] - 1
          /\ \A u \in Teams, v \in Players : ~(u = t /\ v = p) => active'[u][v] = active[u][v]
      BY <1>1, <1>2, <3>1
    <3>5. /\ other' \in [Teams -> [Players -> Nat]] /\ other'[t][p] = other[t][p] + 1
          /\ \A u \in Teams, v \in Players : ~(u = t /\ v = p) => other'[u][v] = other[u][v]
      <4>1. other' = RO!Added(other, t, p)
        BY <2>1 DEF RO!Deactivate
      <4>2. /\ RO!Added(other, t, p) \in [Teams -> [Players -> Nat]] /\ RO!Added(other, t, p)[t][p] = other[t][p] + 1
            /\ \A u \in Teams, v \in Players : ~(u = t /\ v = p) => RO!Added(other, t, p)[u][v] = other[u][v]
        BY <1>1, RosterAdded
      <4> QED BY <4>1, <4>2
    <3> QED BY <2>1, <3>3, <3>4, <3>5
  <2>2. CASE RO!Reactivate(t, p)
    <3>1. other[t][p] > 0 /\ other' = [other EXCEPT ![t][p] = @ - 1]
      BY <2>2 DEF RO!Reactivate
    <3>2. active[t][p] \in Nat /\ other[t][p] \in Nat
      BY <1>1
    <3>3. active[t][p] + other[t][p] > 0
      BY <3>1, <3>2
    <3>4. /\ other' \in [Teams -> [Players -> Nat]] /\ other'[t][p] = other[t][p] - 1
          /\ \A u \in Teams, v \in Players : ~(u = t /\ v = p) => other'[u][v] = other[u][v]
      BY <1>1, <1>2, <3>1
    <3>5. /\ active' \in [Teams -> [Players -> Nat]] /\ active'[t][p] = active[t][p] + 1
          /\ \A u \in Teams, v \in Players : ~(u = t /\ v = p) => active'[u][v] = active[u][v]
      <4>1. active' = RO!Added(active, t, p)
        BY <2>2 DEF RO!Reactivate
      <4>2. /\ RO!Added(active, t, p) \in [Teams -> [Players -> Nat]] /\ RO!Added(active, t, p)[t][p] = active[t][p] + 1
            /\ \A u \in Teams, v \in Players : ~(u = t /\ v = p) => RO!Added(active, t, p)[u][v] = active[u][v]
        BY <1>1, RosterAdded
      <4> QED BY <4>1, <4>2
    <3> QED BY <2>2, <3>3, <3>4, <3>5
  <2> QED BY <2>1, <2>2
<1>4. \A u \in Teams \ {t} : active'[u] = active[u] /\ other'[u] = other[u]
  BY <1>1, <1>3
<1>5. RosterType'
  <2>1. \A u \in Teams, v \in Players : RosterRow(u, v)' = RosterRow(u, v)
    <3>1. active[t][p] \in Nat /\ other[t][p] \in Nat
      BY <1>1
    <3>2. RosterRow(t, p)' = RosterRow(t, p)
      <4>1. \/ active'[t][p] = active[t][p] - 1 /\ other'[t][p] = other[t][p] + 1
            \/ active'[t][p] = active[t][p] + 1 /\ other'[t][p] = other[t][p] - 1
        BY <1>3
      <4> QED BY <3>1, <4>1 DEF RosterRow
    <3> QED BY <1>3, <3>2 DEF RosterRow
  <2>2. (\A u \in Teams, v \in Players : RosterRow(u, v)' <= MaxRows) /\ RosterRows' = RosterRows
    BY <2>1 DEF RosterInv, RosterType, RosterRows
  <2>3. \A u \in Teams : max[u] = 0 => active'[u] = RO!None[u] /\ other'[u] = RO!None[u]
    <3>1. max[t] # 0
      BY <1>3 DEF RosterInv, RosterType, RO!None
    <3> QED BY <1>4, <3>1 DEF RosterInv, RosterType
  <2> QED BY <1>1, <1>3, <2>2, <2>3, RosterKept DEF RosterInv, RosterType
<1>6. ASSUME NEW u \in Teams \ excused, u # t \/ RO!Deactivate(t, p), RO!Excuse({}) \/ RO!Excuse({t}) PROVE RosterOrderly(u)'
  <2>1. \A v \in Players : active[u][v] \in Nat
    BY <1>1
  <2>2. \A v \in Players : active'[u][v] <= active[u][v]
    <3>1. CASE u # t
      BY <1>4, <2>1, <3>1
    <3>2. CASE u = t
      <4>1. active'[t][p] = active[t][p] - 1
        BY <1>1, <1>3, <1>6, <3>2 DEF RO!Deactivate
      <4> QED BY <1>3, <2>1, <3>2, <4>1
    <3> QED BY <3>1, <3>2
  <2>3. RosterOrderly(u) /\ max[u] <= max'[u]
    BY <1>1 DEF RosterInv
  <2> QED BY <1>1, <1>5, <1>6, <2>2, <2>3, RosterCalm DEF RosterInv, RO!Excuse
<1>7. CASE RO!Deactivate(t, p)
  <2>1. RO!Excuse({})
    BY <1>7 DEF RO!Deactivate
  <2> QED BY <1>5, <1>6, <1>7, <2>1, RosterOn
<1>8. CASE RO!Reactivate(t, p)
  <2>1. RO!Excuse({t})
    BY <1>8 DEF RO!Reactivate
  <2> QED BY <1>5, <1>6, <2>1, RosterOn
<1> QED BY <1>7, <1>8

(* Each step of the rosters, and a stutter.                                 *)
LEMMA RosterStep == ASSUME RO!RosterAssumption PROVE RosterInv /\ [RO!Next]_RO!vars => RosterInv'
<1> SUFFICES ASSUME RosterInv, [RO!Next]_RO!vars PROVE RosterInv'
  OBVIOUS
<1>1. CASE RO!RemoveLeague
  BY <1>1, RosterDrop DEF RO!RemoveLeague
<1>2. ASSUME NEW t \in Teams, RO!Team(t) PROVE RosterInv'
  <2>1. CASE RO!DeleteTeam(t)
    BY <2>1, RosterDrop DEF RO!DeleteTeam
  <2> QED BY <1>2, <2>1, RosterTeams, RosterMoved, RosterAdd DEF RO!Team
<1>3. ASSUME NEW p \in Players, RO!DeletePlayer(p) PROVE RosterInv'
  BY <1>3, RosterDrop
<1>4. ASSUME NEW r \in Requests, RO!Fail(r) PROVE RosterInv'
  BY <1>4, RosterEnd DEF RO!Fail
<1>5. ASSUME NEW r \in Requests, RO!CountActiveMembers(r) \/ RO!FindByPlayerAndLeague(r) \/ RO!CreateMember(r)
      PROVE RosterInv'
  BY <1>5, RosterCounted, RosterLooked, RosterMade
<1>6. CASE UNCHANGED RO!vars
  <2>1. UNCHANGED <<max, active, other, request, excused, twofold>>
    BY <1>6 DEF RO!vars
  <2>2. RosterRows' = RosterRows /\ \A t, p : RosterRow(t, p)' = RosterRow(t, p)
    BY <2>1 DEF RosterRows, RosterRow
  <2>3. \A t : RO!Count(t)' = RO!Count(t) /\ RO!Twice(t)' = RO!Twice(t)
    BY <2>1 DEF RO!Count, RO!Places, RO!Twice
  <2> QED BY <2>1, <2>2, <2>3 DEF RosterInv, RosterType, RosterOrderly, RO!At
<1> QED BY <1>1, <1>2, <1>3, <1>4, <1>5, <1>6 DEF RO!Next

(* What a reader is told of rosters follows.                                *)
LEMMA RosterClaims == RosterInv => RO!TypeOK /\ RO!RosterByRaceOrEdit
BY SameCounts DEF RosterInv, RosterType, RosterOrderly, RO!TypeOK, RO!RosterByRaceOrEdit, RO!Rows, RosterRows,
   RosterRow

-------------------------------------------------------------------------------
(* The directory.  A sync whose delete has begun has missed no row but      *)
(* those that came since; what it has inserted has its parents, and who is about  *)
(* to be written is a member.  Of two whole syncs one waits for the guild.  *)
DirectoryAsked ==
  [pc : DI!Step, list : SUBSET Users, whole : BOOLEAN, doomed : SUBSET Users,
   later : SUBSET Users, of : {{u} : u \in Users} \cup {{}}, status : DI!PlayerStatus \cup {"none"}]

DirectoryHeld(r) ==
  /\ request[r].pc \in DI!Begun => member \subseteq request[r].doomed \cup request[r].later
  /\ DI!At(r, "commit") /\ ~request[r].whole /\ request[r].list # {} =>
       guild # "none" /\ request[r].list \subseteq user
  /\ DI!At(r, "write") => request[r].of \subseteq member /\ request[r].of # {} /\ request[r].status # "none"

DirectoryRows ==
  /\ DI!TypeOK /\ DI!MembersAreSynced
  /\ request = [r \in Requests |-> request[r]]
  /\ \A r \in Requests : (request[r] = DI!Idle \/ request[r] \in DirectoryAsked) /\ DirectoryHeld(r)

DirectoryApart == \A a, b \in Requests : DI!HoldsGuild(a) /\ DI!HoldsGuild(b) => a = b

DirectoryInv == DirectoryRows /\ DirectoryApart

(* Where a request may stand.                                               *)
LEMMA DirectorySteps == \A q : q = DI!Idle \/ q \in DirectoryAsked => q.pc \in {"idle"} \cup DI!Step
BY DEF DirectoryAsked, DI!Idle

(* No guild, nobody in it and nobody asking.                                *)
LEMMA DirectoryInit == ASSUME DI!DirectoryAssumption PROVE DI!Init => DirectoryInv
BY DEF DI!Init, DirectoryInv, DirectoryRows, DirectoryApart, DI!HoldsGuild, DI!Begun, DirectoryHeld, DI!TypeOK, DI!MembersAreSynced, DI!At, DI!Idle, DI!Step, DI!Open, DI!Begun

(* Requests go on while the rows stay.                                      *)
LEMMA DirectoryGoto ==
  ASSUME DI!DirectoryAssumption, DirectoryRows, UNCHANGED <<guild, user, member, player, DI!history>>,
         NEW r \in Requests, NEW q, request' = [request EXCEPT ![r] = q],
         q = DI!Idle \/ q \in DirectoryAsked, request'[r] = q => DirectoryHeld(r)'
  PROVE  DirectoryRows'
<1>1. /\ request' = [s \in Requests |-> request'[s]]
      /\ request'[r] = q /\ \A s \in Requests \ {r} : request'[s] = request[s]
  BY DEF DirectoryRows
<1>2. DI!TypeOK' /\ DI!MembersAreSynced'
  <2>1. \A s \in Requests : request'[s].pc \in {"idle"} \cup DI!Step
    BY <1>1 DEF DirectoryRows, DI!TypeOK, DirectoryAsked, DI!Idle
  <2> QED BY <2>1 DEF DirectoryRows, DI!TypeOK, DI!MembersAreSynced, DI!history
<1>3. \A s \in Requests : DirectoryHeld(s)'
  BY <1>1 DEF DirectoryRows, DirectoryHeld, DI!Begun, DI!At
<1> QED BY <1>1, <1>2, <1>3 DEF DirectoryRows

(* A request ends, or its transaction is rolled back.                       *)
LEMMA DirectoryEnd ==
  ASSUME DI!DirectoryAssumption, DirectoryRows, UNCHANGED <<guild, user, member, player, DI!history>>,
         NEW r \in Requests, DI!End(r)
  PROVE  DirectoryRows'
<1>1. request' = [request EXCEPT ![r] = DI!Idle]
  BY DEF DI!End
<1>2. request'[r] = DI!Idle => DirectoryHeld(r)'
  BY DEF DirectoryHeld, DI!Begun, DI!At, DI!Idle
<1> QED BY <1>1, <1>2, DirectoryGoto

(* A request ends by making a player, or writing one.                       *)
LEMMA DirectoryPlayers ==
  ASSUME DI!DirectoryAssumption, DirectoryRows, UNCHANGED <<guild, user, member, DI!history>>,
         NEW r \in Requests, DI!End(r),
         player' \in [Users -> DI!PlayerStatus \cup {"none"}],
         \A u \in Users : player'[u] # "none" => u \in member
  PROVE  DirectoryRows'
<1>1. /\ request' = [s \in Requests |-> request'[s]]
      /\ request'[r] = DI!Idle /\ \A s \in Requests \ {r} : request'[s] = request[s]
  BY DEF DirectoryRows, DI!End
<1>2. DI!TypeOK' /\ DI!MembersAreSynced'
  <2>1. \A s \in Requests : request'[s].pc \in {"idle"} \cup DI!Step
    BY <1>1 DEF DirectoryRows, DI!TypeOK, DI!Idle
  <2> QED BY <2>1 DEF DirectoryRows, DI!TypeOK, DI!MembersAreSynced, DI!history
<1>3. \A s \in Requests : DirectoryHeld(s)'
  BY <1>1 DEF DirectoryRows, DirectoryHeld, DI!Begun, DI!At, DI!Idle
<1> QED BY <1>1, <1>2, <1>3 DEF DirectoryRows

(* A sync, a join, an access or a write is asked for.                       *)
LEMMA DirectoryAsk ==
  ASSUME DI!DirectoryAssumption, DirectoryRows, NEW r \in Requests, DI!Arrive(r)
  PROVE  DirectoryRows'
<1>1. UNCHANGED <<guild, user, member, player, DI!history>>
  BY DEF DI!Arrive, DI!Sync, DI!AddMember, DI!Access, DI!AskPlayer, DI!UpdatePlayer, DI!Ask
<1>2. ASSUME NEW list \in SUBSET Users, NEW whole \in BOOLEAN, DI!Sync(r, list, whole) PROVE DirectoryRows'
  <2> DEFINE q == [DI!New EXCEPT !.pc = IF whole THEN "upsert" ELSE "delete", !.list = list, !.whole = whole]
  <2>1. q \in DirectoryAsked /\ q.pc \in {"upsert", "delete"}
    BY DEF DI!New, DirectoryAsked, DI!Step, DI!Open, DI!Begun
  <2>2. request'[r] = q => DirectoryHeld(r)'
    BY <2>1 DEF DirectoryHeld, DI!Begun, DI!At
  <2> QED BY <1>1, <1>2, <2>1, <2>2, DirectoryGoto DEF DI!Sync
<1>3. ASSUME NEW pc \in DI!Step \ DI!Open, NEW u \in Users, NEW status \in DI!PlayerStatus \cup {"none"}, DI!Ask(r, pc, u, status),
             pc = "write" => u \in member /\ status # "none"
      PROVE  DirectoryRows'
  <2> DEFINE q == [DI!New EXCEPT !.pc = pc, !.of = {u}, !.status = status]
  <2>1. q \in DirectoryAsked /\ q.pc = pc /\ q.of = {u} /\ q.status = status
    BY DEF DI!New, DirectoryAsked, DI!Step, DI!Open, DI!Begun
  <2>2. request' = [request EXCEPT ![r] = q]
    BY <1>3 DEF DI!Ask
  <2> HIDE DEF q
  <2>3. request'[r] = q => DirectoryHeld(r)'
    BY <1>1, <1>3, <2>1 DEF DirectoryHeld, DI!Begun, DI!At, DI!Open
  <2> QED BY <1>1, <2>1, <2>2, <2>3, DirectoryGoto
<1>4. ASSUME NEW u \in Users, DI!AddMember(r, u) \/ DI!Access(r, u) \/ DI!AskPlayer(r, u) PROVE DirectoryRows'
  BY <1>3, <1>4 DEF DI!AddMember, DI!Access, DI!AskPlayer, DI!Step, DI!Open, DI!Begun
<1>5. ASSUME NEW u \in Users, NEW status \in Statuses, DI!UpdatePlayer(r, u, status) PROVE DirectoryRows'
  <2>1. u \in member /\ status \in DI!PlayerStatus /\ status # "none" /\ DI!Ask(r, "write", u, status)
    BY <1>5 DEF DI!UpdatePlayer, DI!Mutable, DirectoryRows, DI!TypeOK, DI!DirectoryAssumption, DI!PlayerStatus
  <2> QED BY <1>3, <2>1 DEF DI!Step, DI!Open, DI!Begun
<1> QED BY <1>2, <1>4, <1>5 DEF DI!Arrive

(* Rows of us have come.                                                    *)
LEMMA DirectoryJoined ==
  ASSUME DI!DirectoryAssumption, DirectoryRows, UNCHANGED <<guild, user, player>>, guild # "none",
         NEW us \in SUBSET user, DI!Joined(us), NEW r \in Requests, NEW q, q = DI!Idle \/ q \in DirectoryAsked,
         q.pc \notin DI!Begun \cup {"write"},
         request' = [DI!Missed(us \ member, Requests) EXCEPT ![r] = q]
  PROVE  DirectoryRows'
<1>1. member' = member \cup us /\ DI!MembersAreSynced'
  BY DEF DI!Joined, DirectoryRows, DI!MembersAreSynced
<1>2. /\ request' = [s \in Requests |-> request'[s]] /\ request'[r] = q
      /\ \A s \in Requests \ {r} : request'[s] = DI!Missed(us \ member, Requests)[s]
  BY DEF DI!Missed
<1>3. \A s \in Requests : request'[s] = DI!Idle \/ request'[s] \in DirectoryAsked
  <2> SUFFICES ASSUME NEW s \in Requests \ {r}, request[s].pc \in DI!Begun
               PROVE  [request[s] EXCEPT !.later = @ \cup (us \ member)] \in DirectoryAsked
    BY <1>2 DEF DI!Missed, DirectoryRows
  <2>1. request[s] \in DirectoryAsked
    BY DEF DirectoryRows, DI!Idle, DI!Begun
  <2>2. (us \ member) \in SUBSET Users
    BY DEF DirectoryRows, DI!TypeOK
  <2> QED BY <2>1, <2>2 DEF DirectoryAsked
<1>4. ASSUME NEW s \in Requests \ {r} PROVE DirectoryHeld(s)'
  <2>1. CASE request[s].pc \in DI!Begun
    <3>1. request[s] \in DirectoryAsked
      BY <2>1 DEF DirectoryRows, DI!Idle, DI!Begun
    <3>2. request'[s] = [request[s] EXCEPT !.later = @ \cup (us \ member)]
      BY <1>2, <2>1 DEF DI!Missed
    <3>3. /\ request'[s].pc = request[s].pc /\ request'[s].later = request[s].later \cup (us \ member)
          /\ request'[s].doomed = request[s].doomed /\ request'[s].list = request[s].list
          /\ request'[s].whole = request[s].whole
      <4> DEFINE more == us \ member
      <4> HIDE DEF more
      <4>1. request'[s] = [request[s] EXCEPT !.later = @ \cup more]
        BY <3>2 DEF more
      <4>2. request'[s].later = request[s].later \cup more
        BY <3>1, <4>1 DEF DirectoryAsked
      <4>3. /\ request'[s].pc = request[s].pc /\ request'[s].doomed = request[s].doomed
            /\ request'[s].list = request[s].list /\ request'[s].whole = request[s].whole
        BY <3>1, <4>1 DEF DirectoryAsked
      <4> QED BY <4>2, <4>3 DEF more
    <3> QED BY <1>1, <2>1, <3>3 DEF DirectoryRows, DirectoryHeld, DI!Begun, DI!At
  <2>2. CASE request[s].pc \notin DI!Begun
    <3>1. request'[s] = request[s]
      BY <1>2, <2>2 DEF DI!Missed
    <3> QED BY <1>1, <2>2, <3>1 DEF DirectoryRows, DirectoryHeld, DI!Begun, DI!At
  <2> QED BY <2>1, <2>2
<1>5. DirectoryHeld(r)'
  BY <1>2 DEF DirectoryHeld, DI!Begun, DI!At
<1>6. DI!TypeOK'
  <2>1. \A s \in Requests : request'[s].pc \in {"idle"} \cup DI!Step
    BY <1>3, DirectorySteps
  <2> QED BY <1>1, <2>1 DEF DI!TypeOK, DirectoryRows
<1> QED BY <1>1, <1>2, <1>3, <1>4, <1>5, <1>6 DEF DirectoryRows

(* Rows of us have gone, and whatever was to be written of them with them.  *)
LEMMA DirectoryGone ==
  ASSUME DI!DirectoryAssumption, DirectoryRows, NEW u \in Users, user' = user \/ user' = user \ {u},
         UNCHANGED <<guild, listed>>, member' = member \ {u}, player' = DI!PlayersWithout({u}),
         request' = DI!Orphaned({u}),
         gone' = (gone \cup {u}) \cap listed, later' = later \ {u},
         user' = user \/ \A q \in Requests : u \notin DI!HoldsUsers(q)
  PROVE  DirectoryRows'
<1>1. DI!MembersAreSynced'
  BY DEF DirectoryRows, DI!MembersAreSynced
<1>2. /\ request' = [s \in Requests |-> request'[s]]
      /\ \A s \in Requests : request'[s] = DI!Idle \/ (request'[s] = request[s] /\ ~(DI!At(s, "write") /\ request[s].of = {u}))
  BY DEF DI!Orphaned
<1>3. \A s \in Requests : request'[s] = DI!Idle \/ request'[s] \in DirectoryAsked
  BY <1>2 DEF DirectoryRows
<1>4. ASSUME NEW s \in Requests PROVE DirectoryHeld(s)'
  <2>1. CASE request'[s] = DI!Idle
    BY <2>1 DEF DirectoryHeld, DI!Begun, DI!At, DI!Idle
  <2>2. CASE request'[s] = request[s] /\ ~(DI!At(s, "write") /\ request[s].of = {u})
    <3>1. request[s].pc \in DI!Begun => member' \subseteq request[s].doomed \cup request[s].later
      BY DEF DirectoryRows, DirectoryHeld
    <3>2. ASSUME DI!At(s, "commit"), ~request[s].whole, request[s].list # {}
          PROVE  guild' # "none" /\ request[s].list \subseteq user'
      <4>1. user' = user \/ u \notin request[s].list
        BY <3>2 DEF DI!HoldsUsers
      <4> QED BY <3>2, <4>1 DEF DirectoryRows, DirectoryHeld
    <3>3. ASSUME DI!At(s, "write") PROVE request[s].of \subseteq member' /\ request[s].of # {} /\ request[s].status # "none"
      <4>1. request[s] \in DirectoryAsked /\ request[s].of \subseteq member /\ request[s].of # {} /\ request[s].status # "none"
        BY <3>3 DEF DirectoryRows, DirectoryHeld, DI!Begun, DI!At, DI!Idle
      <4>2. PICK v \in Users : request[s].of = {v}
        BY <4>1 DEF DirectoryAsked
      <4> QED BY <2>2, <3>3, <4>1, <4>2
    <3> QED BY <2>2, <3>1, <3>2, <3>3 DEF DirectoryHeld, DI!Begun, DI!At
  <2> QED BY <1>2, <2>1, <2>2
<1>5. DI!TypeOK'
  <2>1. \A s \in Requests : request'[s].pc \in {"idle"} \cup DI!Step
    BY <1>3, DirectorySteps
  <2> QED BY <2>1 DEF DI!TypeOK, DirectoryRows, DI!PlayersWithout
<1> QED BY <1>1, <1>2, <1>3, <1>4, <1>5 DEF DirectoryRows

(* The sync commits: what it deleted goes, what it inserted comes, and the  *)
(* others past their delete have missed it.                                 *)
LEMMA DirectoryCommit ==
  ASSUME DI!DirectoryAssumption, DirectoryRows, DirectoryApart, NEW r \in Requests, DI!Commit(r)
  PROVE  DirectoryRows'
<1> DEFINE q == request[r]
<1>1. q \in DirectoryAsked /\ q.pc = "commit" /\ member \subseteq q.doomed \cup q.later
  BY DEF DI!Commit, DirectoryRows, DirectoryHeld, DI!Begun, DI!At, DI!Idle
<1>2. /\ guild' = IF q.whole THEN "active" ELSE guild
      /\ user' = IF q.whole THEN user \cup q.list ELSE user
      /\ member' = (member \ q.doomed) \cup q.list
      /\ player' = DI!PlayersWithout(q.doomed)
      /\ listed' = q.list /\ later' = q.later /\ gone' = {}
  BY DEF DI!Commit
<1>3. DI!MembersAreSynced'
  BY <1>1, <1>2 DEF DI!MembersAreSynced
<1>4. request' = [s \in Requests |->
           IF s = r \/ DI!Orphaned(q.doomed)[s] = DI!Idle THEN DI!Idle
           ELSE DI!Missed(q.list, {t \in Requests : ~(q.whole /\ request[t].whole)})[s]]
  BY DEF DI!Commit
<1>5. ASSUME NEW s \in Requests
      PROVE  \/ request'[s] = DI!Idle
             \/ request[s].pc \in DI!Begun /\ request'[s] = [request[s] EXCEPT !.later = @ \cup q.list]
             \/ /\ request[s].pc \notin DI!Begun /\ request'[s] = request[s]
                /\ ~(DI!At(s, "write") /\ request[s].of \subseteq q.doomed)
  <2>1. s # r /\ request[s].pc \in DI!Begun => ~(q.whole /\ request[s].whole)
    BY <1>1 DEF DirectoryApart, DI!HoldsGuild, DI!Begun, DI!Open
  <2> QED BY <1>4, <2>1 DEF DI!Missed, DI!Orphaned
<1>6. \A s \in Requests : request'[s] = DI!Idle \/ request'[s] \in DirectoryAsked
  <2> SUFFICES ASSUME NEW s \in Requests, request'[s] # DI!Idle PROVE request'[s] \in DirectoryAsked
    OBVIOUS
  <2>1. request[s] # DI!Idle => request[s] \in DirectoryAsked
    BY DEF DirectoryRows
  <2>2. CASE request'[s] = request[s]
    BY <2>1, <2>2
  <2>3. CASE request[s].pc \in DI!Begun /\ request'[s] = [request[s] EXCEPT !.later = @ \cup q.list]
    <3>1. request[s] \in DirectoryAsked /\ q.list \in SUBSET Users
      BY <1>1, <2>1, <2>3 DEF DI!Idle, DirectoryAsked
    <3> HIDE DEF q
    <3> QED BY <2>3, <3>1 DEF DirectoryAsked
  <2> QED BY <1>5, <2>2, <2>3
<1>7. ASSUME NEW s \in Requests PROVE DirectoryHeld(s)'
  <2>1. CASE request'[s] = DI!Idle
    BY <2>1 DEF DirectoryHeld, DI!Begun, DI!At, DI!Idle
  <2>2. CASE request[s].pc \in DI!Begun /\ request'[s] = [request[s] EXCEPT !.later = @ \cup q.list]
    <3>1. request[s] \in DirectoryAsked
      BY <2>2 DEF DirectoryRows, DI!Idle, DI!Begun
    <3>2. /\ request'[s].pc = request[s].pc /\ request'[s].later = request[s].later \cup q.list
          /\ request'[s].doomed = request[s].doomed /\ request'[s].list = request[s].list
          /\ request'[s].whole = request[s].whole
      BY <2>2, <3>1 DEF DirectoryAsked
    <3>3. guild' \in {guild, "active"} /\ user \subseteq user'
      BY <1>2
    <3> QED BY <1>2, <2>2, <3>2, <3>3 DEF DirectoryRows, DirectoryHeld, DI!Begun, DI!At
  <2>3. CASE /\ request[s].pc \notin DI!Begun /\ request'[s] = request[s]
             /\ ~(DI!At(s, "write") /\ request[s].of \subseteq q.doomed)
    <3>1. ASSUME DI!At(s, "write") PROVE request[s].of \subseteq member' /\ request[s].of # {} /\ request[s].status # "none"
      <4>1. request[s] \in DirectoryAsked /\ request[s].of \subseteq member /\ request[s].of # {} /\ request[s].status # "none"
        BY <3>1 DEF DirectoryRows, DirectoryHeld, DI!Begun, DI!At, DI!Idle
      <4>2. PICK v \in Users : request[s].of = {v}
        BY <4>1 DEF DirectoryAsked
      <4> QED BY <1>2, <2>3, <3>1, <4>1, <4>2
    <3> QED BY <2>3, <3>1 DEF DirectoryHeld, DI!Begun, DI!At
  <2> QED BY <1>5, <2>1, <2>2, <2>3
<1>8. DI!TypeOK'
  <2>1. \A s \in Requests : request'[s].pc \in {"idle"} \cup DI!Step
    BY <1>6, DirectorySteps
  <2>2. q.list \subseteq user' /\ q.list \subseteq Users /\ (q.list # {} => guild' # "none")
    BY <1>1, <1>2 DEF DirectoryRows, DirectoryHeld, DirectoryAsked, DI!At
  <2>3. /\ guild' \in {"none", "active", "left"} /\ (guild # "none" => guild' # "none")
        /\ user \subseteq user' /\ user' \subseteq Users
    BY <1>2, <2>2 DEF DirectoryRows, DI!TypeOK
  <2>4. /\ player' \in [Users -> DI!PlayerStatus \cup {"none"}]
        /\ \A u \in Users : player'[u] # "none" => u \in member'
    BY <1>2 DEF DirectoryRows, DI!TypeOK, DI!PlayersWithout
  <2>5. member' \subseteq user' /\ (member' # {} => guild' # "none")
    BY <1>2, <2>2, <2>3 DEF DirectoryRows, DI!TypeOK
  <2> QED BY <2>1, <2>3, <2>4, <2>5 DEF DI!TypeOK
<1>9. request' = [s \in Requests |-> request'[s]]
  BY <1>4
<1> QED BY <1>3, <1>6, <1>7, <1>8, <1>9 DEF DirectoryRows

(* No step gives a sync the guild while another has it.                     *)
LEMMA DirectoryApartStep ==
  ASSUME DirectoryRows, DirectoryApart, [DI!Next]_DI!vars
  PROVE  DirectoryApart'
<1>1. ASSUME \A s \in Requests : DI!HoldsGuild(s)' => DI!HoldsGuild(s) PROVE DirectoryApart'
  BY <1>1 DEF DirectoryApart
<1>2. ASSUME \A s \in Requests : request'[s] = request[s] \/ request'[s] = DI!Idle PROVE DirectoryApart'
  <2>1. \A s \in Requests : DI!HoldsGuild(s)' => DI!HoldsGuild(s)
    BY <1>2 DEF DI!HoldsGuild, DI!Idle, DI!Open
  <2> QED BY <1>1, <2>1
<1>3. ASSUME NEW r \in Requests, \A s \in Requests \ {r} : request'[s] = request[s],
             DI!HoldsGuild(r)' => DI!HoldsGuild(r)
      PROVE  DirectoryApart'
  <2>1. \A s \in Requests : DI!HoldsGuild(s)' => DI!HoldsGuild(s)
    BY <1>3 DEF DI!HoldsGuild
  <2> QED BY <1>1, <2>1
<1>4. CASE DI!Come \/ DI!RemoveGuild \/ UNCHANGED DI!vars
  BY <1>2, <1>4 DEF DI!Come, DI!RemoveGuild, DI!vars
<1>5. ASSUME NEW u \in Users, DI!SignIn(u) \/ \E status \in Statuses : DI!CreatePlayer(u, status) PROVE DirectoryApart'
  BY <1>2, <1>5 DEF DI!SignIn, DI!CreatePlayer
<1>6. ASSUME NEW u \in Users, DI!DeleteUser(u) \/ DI!RemoveMember(u) \/ DI!DeletePlayer(u) PROVE DirectoryApart'
  BY <1>2, <1>6 DEF DI!DeleteUser, DI!RemoveMember, DI!DeletePlayer, DI!Orphaned
<1>7. ASSUME NEW r \in Requests, NEW q, request' = [request EXCEPT ![r] = q],
             q.pc \in DI!Open \ {"upsert"} /\ q.whole => DI!HoldsGuild(r)
      PROVE  DirectoryApart'
  <2>1. request'[r] = q /\ \A s \in Requests \ {r} : request'[s] = request[s]
    BY <1>7 DEF DirectoryRows
  <2> QED BY <1>3, <1>7, <2>1 DEF DI!HoldsGuild
<1>8. ASSUME NEW r \in Requests, DI!Arrive(r) PROVE DirectoryApart'
  <2>1. ASSUME NEW list \in SUBSET Users, NEW whole \in BOOLEAN, DI!Sync(r, list, whole) PROVE DirectoryApart'
    <3> DEFINE q == [DI!New EXCEPT !.pc = IF whole THEN "upsert" ELSE "delete", !.list = list, !.whole = whole]
    <3>1. ~(q.pc \in DI!Open \ {"upsert"} /\ q.whole)
      BY DEF DI!New
    <3>2. request' = [request EXCEPT ![r] = q]
      BY <2>1 DEF DI!Sync
    <3> QED BY <1>7, <3>1, <3>2
  <2>2. ASSUME NEW pc, NEW u, NEW status, DI!Ask(r, pc, u, status) PROVE DirectoryApart'
    <3> DEFINE q == [DI!New EXCEPT !.pc = pc, !.of = {u}, !.status = status]
    <3>1. ~q.whole /\ request' = [request EXCEPT ![r] = q]
      BY <2>2 DEF DI!New, DI!Ask
    <3> QED BY <1>7, <3>1
  <2> QED BY <1>8, <2>1, <2>2 DEF DI!Arrive, DI!AddMember, DI!Access, DI!AskPlayer, DI!UpdatePlayer
<1>9. ASSUME NEW r \in Requests, DI!Proceed(r) PROVE DirectoryApart'
  <2> DEFINE q == request[r]
  <2>1. CASE DI!End(r)
    BY <1>7, <2>1 DEF DI!End, DI!Idle, DI!Open
  <2>2. CASE DI!Upsert(r)
    <3>1. \A s \in Requests \ {r} : request'[s] = request[s] /\ ~DI!HoldsGuild(s)
      BY <2>2 DEF DI!Upsert, DI!Goto, DirectoryRows
    <3>2. \A s \in Requests \ {r} : ~DI!HoldsGuild(s)'
      BY <3>1 DEF DI!HoldsGuild
    <3> QED BY <3>2 DEF DirectoryApart
  <2>3. ASSUME NEW pc \in {"deleting", "insert", "commit"}, NEW seen, q.pc \in DI!Open \ {"upsert"}, q \in DirectoryAsked,
               \/ request' = [request EXCEPT ![r] = [q EXCEPT !.pc = pc, !.doomed = seen]]
               \/ request' = [request EXCEPT ![r] = [q EXCEPT !.pc = pc]]
        PROVE  DirectoryApart'
    <3>1. [q EXCEPT !.pc = pc, !.doomed = seen].whole = q.whole /\ [q EXCEPT !.pc = pc].whole = q.whole
      BY <2>3 DEF DirectoryAsked
    <3> QED BY <1>7, <2>3, <3>1 DEF DI!HoldsGuild
  <2>4. CASE DI!Delete(r) \/ DI!Deleted(r)
    <3>1. q.pc \in DI!Open \ {"upsert"} /\ q \in DirectoryAsked
      BY <2>4 DEF DI!Delete, DI!Deleted, DI!At, DI!Open, DI!Idle, DirectoryRows
    <3>2. \/ request' = [request EXCEPT ![r] = [q EXCEPT !.pc = "deleting", !.doomed = member]]
          \/ request' = [request EXCEPT ![r] = [q EXCEPT !.pc = "insert", !.doomed = DI!Doomed(r)]]
      BY <2>4 DEF DI!Delete, DI!Deleted
    <3> QED BY <2>3, <3>1, <3>2
  <2>5. CASE DI!Insert(r)
    <3>1. q.pc \in DI!Open \ {"upsert"} /\ q \in DirectoryAsked
      BY <2>5 DEF DI!Insert, DI!At, DI!Open, DI!Idle, DirectoryRows
    <3>2. CASE request' = [request EXCEPT ![r] = [q EXCEPT !.pc = "commit"]]
      BY <2>3, <3>1, <3>2
    <3> QED BY <2>1, <2>5, <3>2 DEF DI!Insert, DI!Goto
  <2>6. ASSUME NEW us, NEW rs, NEW s \in Requests, request'[s] = DI!Missed(us, rs)[s] PROVE DI!HoldsGuild(s)' => DI!HoldsGuild(s)
    <3>1. request'[s] = request[s] \/ (request[s].pc \in DI!Begun /\ request'[s] = [request[s] EXCEPT !.later = @ \cup us])
      BY <2>6 DEF DI!Missed
    <3>2. request[s].pc \in DI!Begun => request[s] \in DirectoryAsked
      BY DEF DirectoryRows, DI!Idle, DI!Begun
    <3>3. \/ request'[s].pc = request[s].pc /\ request'[s].whole = request[s].whole
          \/ request'[s] = request[s]
      BY <3>1, <3>2 DEF DirectoryAsked
    <3> QED BY <3>3 DEF DI!HoldsGuild
  <2>7. CASE DI!Commit(r)
    <3>1. \A s \in Requests : \/ request'[s] = DI!Idle
                              \/ \E us, rs : request'[s] = DI!Missed(us, rs)[s]
      BY <2>7 DEF DI!Commit
    <3>2. \A s \in Requests : DI!HoldsGuild(s)' => DI!HoldsGuild(s)
      BY <2>6, <3>1 DEF DI!HoldsGuild, DI!Idle, DI!Open
    <3> QED BY <1>1, <3>2
  <2>8. CASE DI!Join(r) \/ DI!Vouched(r)
    <3>1. PICK us, rs : \/ request' = [DI!Missed(us, rs) EXCEPT ![r] = [q EXCEPT !.pc = "trackers"]]
                        \/ request' = [DI!Missed(us, rs) EXCEPT ![r] = DI!Idle]
      BY <2>8 DEF DI!Join, DI!Vouched
    <3>2. \A s \in Requests \ {r} : request'[s] = DI!Missed(us, rs)[s]
      BY <3>1 DEF DI!Missed
    <3>3. q \in DirectoryAsked
      BY <2>8 DEF DI!Join, DI!Vouched, DI!At, DI!Idle, DirectoryRows
    <3>4. request'[r].pc \in {"trackers", "idle"}
      BY <3>1, <3>3 DEF DI!Missed, DI!Idle, DirectoryAsked
    <3>5. \A s \in Requests : DI!HoldsGuild(s)' => DI!HoldsGuild(s)
      BY <2>6, <3>2, <3>4 DEF DI!HoldsGuild, DI!Open
    <3> QED BY <1>1, <3>5
  <2>9. CASE DI!LookForTrackers(r)
    <3>1. q \in DirectoryAsked
      BY <2>9 DEF DI!LookForTrackers, DI!At, DI!Idle, DirectoryRows
    <3>2. CASE DI!Goto(r, "ensure")
      BY <1>7, <3>1, <3>2 DEF DI!Goto, DirectoryAsked, DI!Open
    <3> QED BY <2>1, <2>9, <3>2 DEF DI!LookForTrackers
  <2> QED BY <1>9, <2>1, <2>2, <2>4, <2>5, <2>7, <2>8, <2>9 DEF DI!Proceed, DI!FailSync, DI!FailRequest, DI!Ensure, DI!WritePlayer
<1> QED BY <1>4, <1>5, <1>6, <1>8, <1>9 DEF DI!Next

(* Each step of the directory, and a stutter.                               *)
LEMMA DirectoryRowsStep ==
  ASSUME DI!DirectoryAssumption
  PROVE  DirectoryRows /\ DirectoryApart /\ [DI!Next]_DI!vars => DirectoryRows'
<1> SUFFICES ASSUME DirectoryRows, DirectoryApart, [DI!Next]_DI!vars PROVE DirectoryRows'
  OBVIOUS
<1> USE DEF DI!history
<1>1. CASE DI!Come \/ DI!RemoveGuild
  BY <1>1 DEF DI!Come, DI!RemoveGuild, DirectoryRows, DI!TypeOK, DI!MembersAreSynced, DirectoryHeld, DI!Begun, DI!At
<1>2. ASSUME NEW u \in Users, DI!SignIn(u) PROVE DirectoryRows'
  <2>1. user' = user \cup {u} /\ UNCHANGED <<guild, member, player, request, DI!history>>
    BY <1>2 DEF DI!SignIn
  <2> QED BY <2>1 DEF DirectoryRows, DI!TypeOK, DI!MembersAreSynced, DirectoryHeld, DI!Begun, DI!At
<1>3. ASSUME NEW u \in Users, DI!DeleteUser(u) \/ DI!RemoveMember(u) PROVE DirectoryRows'
  <2>1. CASE DI!DeleteUser(u)
    BY <2>1, DirectoryGone DEF DI!DeleteUser, DI!FreeUser
  <2>2. CASE DI!RemoveMember(u)
    BY <2>2, DirectoryGone DEF DI!RemoveMember
  <2> QED BY <1>3, <2>1, <2>2
<1>4. ASSUME NEW u \in Users, DI!DeletePlayer(u) PROVE DirectoryRows'
  <2>1. player' = DI!PlayersWithout({u}) /\ request' = DI!Orphaned({u}) /\ UNCHANGED <<guild, user, member, DI!history>>
    BY <1>4 DEF DI!DeletePlayer
  <2>2. /\ request' = [s \in Requests |-> request'[s]]
        /\ \A s \in Requests : request'[s] = DI!Idle \/ request'[s] = request[s]
    BY <2>1 DEF DI!Orphaned
  <2>3. \A s \in Requests : DirectoryHeld(s)'
    <3> SUFFICES ASSUME NEW s \in Requests PROVE DirectoryHeld(s)'
      OBVIOUS
    <3>1. CASE request'[s] = DI!Idle
      BY <3>1 DEF DirectoryHeld, DI!Begun, DI!At, DI!Idle
    <3>2. CASE request'[s] = request[s]
      BY <2>1, <3>2 DEF DirectoryRows, DirectoryHeld, DI!Begun, DI!At
    <3> QED BY <2>2, <3>1, <3>2
  <2>4. DI!TypeOK' /\ DI!MembersAreSynced'
    <3>1. \A s \in Requests : request'[s].pc \in {"idle"} \cup DI!Step
      BY <2>2 DEF DirectoryRows, DI!TypeOK, DI!Idle
    <3> QED BY <2>1, <3>1 DEF DirectoryRows, DI!TypeOK, DI!MembersAreSynced, DI!PlayersWithout
  <2> QED BY <2>2, <2>3, <2>4 DEF DirectoryRows
<1>5. ASSUME UNCHANGED <<guild, user, member, request, DI!history>>, player' \in [Users -> DI!PlayerStatus \cup {"none"}],
             \A u \in Users : player'[u] # "none" => u \in member
      PROVE  DirectoryRows'
  BY <1>5 DEF DirectoryRows, DI!TypeOK, DI!MembersAreSynced, DirectoryHeld, DI!Begun, DI!At
<1>6. ASSUME NEW u \in Users, NEW status \in Statuses, DI!CreatePlayer(u, status) PROVE DirectoryRows'
  BY <1>5, <1>6 DEF DI!CreatePlayer, DI!Creatable, DirectoryRows, DI!TypeOK, DI!DirectoryAssumption,
     DI!PlayerStatus
<1>7. ASSUME NEW r \in Requests, DI!Arrive(r) PROVE DirectoryRows'
  BY <1>7, DirectoryAsk
<1>8. ASSUME NEW r \in Requests, DI!Proceed(r) PROVE DirectoryRows'
  <2> DEFINE q == request[r]
  <2>1. CASE DI!Upsert(r)
    <3>1. [q EXCEPT !.pc = "delete"] \in DirectoryAsked /\ [q EXCEPT !.pc = "delete"].pc = "delete"
      BY <2>1 DEF DI!Upsert, DI!At, DirectoryRows, DirectoryAsked, DI!Idle, DI!Step, DI!Open, DI!Begun
    <3>2. request' = [request EXCEPT ![r] = [q EXCEPT !.pc = "delete"]]
      BY <2>1 DEF DI!Upsert, DI!Goto
    <3>3. request'[r] = [q EXCEPT !.pc = "delete"] => DirectoryHeld(r)'
      BY <3>1 DEF DirectoryHeld, DI!Begun, DI!At
    <3> QED BY <2>1, <3>1, <3>2, <3>3, DirectoryGoto DEF DI!Upsert
  <2>2. CASE DI!Delete(r)
    <3> DEFINE q2 == [q EXCEPT !.pc = "deleting", !.doomed = member]
    <3>1. q \in DirectoryAsked /\ request' = [request EXCEPT ![r] = q2] /\ UNCHANGED <<guild, user, member, player, DI!history>>
      BY <2>2 DEF DI!Delete, DI!At, DirectoryRows, DI!Idle
    <3>2. q2 \in DirectoryAsked /\ q2.pc = "deleting" /\ q2.doomed = member
      BY <3>1 DEF DirectoryRows, DI!TypeOK, DirectoryAsked, DI!Step, DI!Open, DI!Begun
    <3> HIDE DEF q2
    <3>3. request'[r] = q2 => DirectoryHeld(r)'
      BY <3>1, <3>2 DEF DirectoryHeld, DI!Begun, DI!At
    <3> QED BY <3>1, <3>2, <3>3, DirectoryGoto
  <2>11. CASE DI!Deleted(r)
    <3> DEFINE q2 == [q EXCEPT !.pc = "insert", !.doomed = DI!Doomed(r)]
    <3>1. /\ q \in DirectoryAsked /\ member \subseteq q.doomed \cup q.later
          /\ request' = [request EXCEPT ![r] = q2] /\ UNCHANGED <<guild, user, member, player, DI!history>>
      BY <2>11 DEF DI!Deleted, DI!At, DI!Begun, DirectoryRows, DirectoryHeld, DI!Idle
    <3>2. DI!Doomed(r) = (q.doomed \cap member) \ q.later
      BY DEF DI!Doomed
    <3>3. q2 \in DirectoryAsked /\ q2.pc = "insert" /\ q2.doomed = (q.doomed \cap member) \ q.later /\ q2.later = q.later
      BY <3>1, <3>2 DEF DirectoryAsked, DI!Step, DI!Open, DI!Begun
    <3> HIDE DEF q2
    <3>4. request'[r] = q2 => DirectoryHeld(r)'
      BY <3>1, <3>3 DEF DirectoryHeld, DI!Begun, DI!At
    <3> QED BY <3>1, <3>3, <3>4, DirectoryGoto
  <2>3. CASE DI!Insert(r)
    <3> DEFINE q2 == [q EXCEPT !.pc = "commit"]
    <3>1. q \in DirectoryAsked /\ q.pc = "insert" /\ UNCHANGED <<guild, user, member, player, DI!history>>
      BY <2>3 DEF DI!Insert, DI!At, DirectoryRows, DI!Idle
    <3>2. CASE DI!End(r)
      BY <3>1, <3>2, DirectoryEnd
    <3>3. CASE /\ DI!Goto(r, "commit")
               /\ ~(q.list # {} /\ ~q.whole /\ (guild = "none" \/ ~(q.list \subseteq user)))
      <4>1. /\ q2 \in DirectoryAsked /\ q2.pc = "commit" /\ q2.doomed = q.doomed /\ q2.later = q.later
            /\ q2.list = q.list /\ q2.whole = q.whole
        BY <3>1 DEF DirectoryAsked, DI!Step, DI!Open, DI!Begun
      <4>2. request' = [request EXCEPT ![r] = q2]
        BY <3>3 DEF DI!Goto
      <4> HIDE DEF q2
      <4>3. request'[r] = q2 => DirectoryHeld(r)'
        BY <3>1, <3>3, <4>1 DEF DirectoryHeld, DI!Begun, DirectoryRows, DI!At
      <4> QED BY <3>1, <4>1, <4>2, <4>3, DirectoryGoto
    <3> QED BY <2>3, <3>2, <3>3 DEF DI!Insert
  <2>4. CASE DI!Commit(r)
    BY <2>4, DirectoryCommit
  <2>5. CASE DI!FailSync(r) \/ DI!FailRequest(r)
    BY <2>5, DirectoryEnd DEF DI!FailSync, DI!FailRequest
  <2>6. CASE DI!Join(r)
    <3> DEFINE q2 == [q EXCEPT !.pc = "trackers"]
    <3>1. q \in DirectoryAsked
      BY <2>6 DEF DI!Join, DI!At, DirectoryRows, DI!Idle
    <3>2. q2 \in DirectoryAsked /\ q2.pc = "trackers"
      BY <3>1 DEF DirectoryAsked, DI!Step, DI!Open, DI!Begun
    <3>3. /\ guild # "none" /\ q.of \in SUBSET user /\ DI!Joined(q.of) /\ UNCHANGED <<guild, user, player>>
          /\ request' = [DI!Missed(q.of \ member, Requests) EXCEPT ![r] = q2]
      BY <2>6 DEF DI!Join
    <3> HIDE DEF q2
    <3> QED BY <3>2, <3>3, DirectoryJoined DEF DI!Begun
  <2>7. CASE DI!LookForTrackers(r)
    <3>1. q \in DirectoryAsked /\ UNCHANGED <<guild, user, member, player, DI!history>>
      BY <2>7 DEF DI!LookForTrackers, DI!At, DirectoryRows, DI!Idle
    <3>2. CASE DI!End(r)
      BY <3>1, <3>2, DirectoryEnd
    <3>3. CASE DI!Goto(r, "ensure")
      <4>1. [q EXCEPT !.pc = "ensure"] \in DirectoryAsked /\ [q EXCEPT !.pc = "ensure"].pc = "ensure"
        BY <3>1 DEF DirectoryAsked, DI!Step, DI!Open, DI!Begun
      <4>2. request' = [request EXCEPT ![r] = [q EXCEPT !.pc = "ensure"]]
        BY <3>3 DEF DI!Goto
      <4>3. request'[r] = [q EXCEPT !.pc = "ensure"] => DirectoryHeld(r)'
        BY <4>1 DEF DirectoryHeld, DI!Begun, DI!At
      <4> QED BY <3>1, <4>1, <4>2, <4>3, DirectoryGoto
    <3> QED BY <2>7, <3>2, <3>3 DEF DI!LookForTrackers
  <2>8. CASE DI!Vouched(r)
    <3>1. /\ guild # "none" /\ q.of \in SUBSET user /\ q.of \ member = q.of /\ DI!Joined(q.of)
          /\ UNCHANGED <<guild, user, player>> /\ request' = [DI!Missed(q.of, Requests) EXCEPT ![r] = DI!Idle]
      BY <2>8 DEF DI!Vouched
    <3>2. DI!Idle.pc \notin DI!Begun \cup {"write"}
      BY DEF DI!Idle, DI!Begun
    <3> QED BY <3>1, <3>2, DirectoryJoined
  <2>9. CASE DI!Ensure(r)
    <3>1. /\ player' = [u \in Users |-> IF u \in q.of /\ DI!Creatable(u) THEN "ACTIVE" ELSE player[u]]
          /\ UNCHANGED <<guild, user, member, DI!history>> /\ DI!End(r)
      BY <2>9 DEF DI!Ensure
    <3> QED BY <3>1, DirectoryPlayers DEF DI!Creatable, DirectoryRows, DI!TypeOK, DI!PlayerStatus
  <2>10. CASE DI!WritePlayer(r)
    <3>1. /\ player' = [u \in Users |-> IF u \in q.of THEN q.status ELSE player[u]]
          /\ UNCHANGED <<guild, user, member, DI!history>> /\ DI!End(r)
      BY <2>10 DEF DI!WritePlayer
    <3>2. q \in DirectoryAsked /\ q.of \subseteq member
      BY <2>10 DEF DI!WritePlayer, DirectoryRows, DirectoryHeld, DI!Begun, DI!At, DI!Idle
    <3>3. q.status \in DI!PlayerStatus \cup {"none"}
      BY <3>2 DEF DirectoryAsked
    <3> QED BY <3>1, <3>2, <3>3, DirectoryPlayers DEF DirectoryRows, DI!TypeOK
  <2> QED BY <1>8, <2>1, <2>2, <2>3, <2>4, <2>5, <2>6, <2>7, <2>8, <2>9, <2>10, <2>11 DEF DI!Proceed
<1>9. CASE UNCHANGED DI!vars
  <2>1. UNCHANGED <<guild, user, member, player, request, listed, later, gone>>
    BY <1>9 DEF DI!vars
  <2> QED BY <1>5, <2>1 DEF DirectoryRows, DI!TypeOK
<1> QED BY <1>1, <1>2, <1>3, <1>4, <1>6, <1>7, <1>8, <1>9 DEF DI!Next

LEMMA DirectoryStep ==
  ASSUME DI!DirectoryAssumption
  PROVE  DirectoryInv /\ [DI!Next]_DI!vars => DirectoryInv'
BY DirectoryRowsStep, DirectoryApartStep DEF DirectoryInv

(* What a reader is told of the directory follows.                          *)
LEMMA DirectoryClaims == DirectoryInv => DI!TypeOK /\ DI!MembersAreSynced
BY DEF DirectoryInv, DirectoryRows

-------------------------------------------------------------------------------
(* Whichever service a behaviour is about, its invariant holds, and no step *)
(* of another one touches it.                                               *)
ServicesInv ==
  /\ Is("league settings") => IInv
  /\ Is("guild settings") => GuildInv
  /\ Is("directory") => DirectoryInv
  /\ Is("registration") => RegInv
  /\ Is("tokens") => TokensInv
  /\ Is("scraper") => RateInv
  /\ Is("messages") => MessagesInv
  /\ Is("reads") => ReadsInv
  /\ Is("rosters") => RosterInv
  /\ Is("leagues") => LeaguesInv

(* A step is one of the service in turn, or leaves its variables alone.     *)
LEMMA StepOfOne ==
  ASSUME [ServicesNext]_services
  PROVE  /\ service' = service
         /\ Is("league settings") => [Next]_vars
         /\ Is("guild settings") => [GS!Next]_GS!vars
         /\ Is("directory") => [DI!Next]_DI!vars
         /\ Is("registration") => [TR!Next]_TR!vars
         /\ Is("tokens") => [TL!Next]_TL!vars
         /\ Is("scraper") => [SR!Next]_SR!vars
         /\ Is("messages") => [TM!Next]_TM!vars
         /\ Is("reads") => [DR!Next]_DR!vars
         /\ Is("rosters") => [RO!Next]_RO!vars
         /\ Is("leagues") => [LE!Next]_LE!vars
<1>1. CASE ServicesNext
  BY <1>1 DEF ServicesNext, Is
<1>2. CASE UNCHANGED services
  <2> USE <1>2 DEF services
  <2>1. service' = service /\ request' = request /\ user' = user /\ now' = now
    OBVIOUS
  <2>2. UNCHANGED vars
    BY <2>1 DEF settings, vars
  <2>3. UNCHANGED GS!vars
    BY <2>1 DEF guildSettings, GS!vars
  <2>4. UNCHANGED DI!vars
    BY <2>1 DEF directory, DI!vars, DI!history
  <2>5. UNCHANGED TR!vars
    BY <2>1 DEF registration, TR!vars
  <2>6. UNCHANGED TL!vars
    BY <2>1 DEF tokens, TL!vars, TL!discord
  <2>7. UNCHANGED SR!vars
    BY <2>1 DEF rate, SR!vars
  <2>8. UNCHANGED TM!vars
    BY <2>1 DEF messages, TM!vars
  <2>9. UNCHANGED DR!vars
    BY <2>1 DEF reads, DR!vars
  <2>10. UNCHANGED RO!vars
    BY <2>1 DEF roster, RO!vars
  <2>11. UNCHANGED LE!vars
    BY <2>1 DEF LE!vars
  <2> QED BY <2>1, <2>2, <2>3, <2>4, <2>5, <2>6, <2>7, <2>8, <2>9, <2>10, <2>11
<1> QED BY <1>1, <1>2

(* Each invariant holds of its service's initial states.                    *)
LEMMA ServicesStart == ServicesInit => ServicesInv
<1> SUFFICES ASSUME ServicesInit PROVE ServicesInv
  OBVIOUS
<1>1. Is("league settings") => IInv
  BY ServicesAssumption, InitOK DEF ServicesInit
<1>2. Is("guild settings") => GuildInv
  BY ServicesAssumption, GuildInit DEF ServicesInit
<1>3. Is("directory") => DirectoryInv
  BY ServicesAssumption, DirectoryInit DEF ServicesInit
<1>4. Is("registration") => RegInv
  BY ServicesAssumption, RegInit DEF ServicesInit
<1>5. Is("tokens") => TokensInv
  BY ServicesAssumption, TokensInit DEF ServicesInit
<1>6. Is("scraper") => RateInv
  BY ServicesAssumption, RateInit DEF ServicesInit
<1>7. Is("messages") => MessagesInv
  BY ServicesAssumption, MessagesInit DEF ServicesInit
<1>8. Is("reads") => ReadsInv
  BY ServicesAssumption, ReadsInit DEF ServicesInit
<1>9. Is("rosters") => RosterInv
  BY ServicesAssumption, RosterInit DEF ServicesInit
<1>10. Is("leagues") => LeaguesInv
  BY LeaguesInit DEF ServicesInit
<1> QED BY <1>1, <1>2, <1>3, <1>4, <1>5, <1>6, <1>7, <1>8, <1>9, <1>10 DEF ServicesInv

(* Each invariant is kept by its service's steps.                           *)
LEMMA ServicesStep == ServicesInv /\ [ServicesNext]_services => ServicesInv'
<1> SUFFICES ASSUME ServicesInv, [ServicesNext]_services PROVE ServicesInv'
  OBVIOUS
<1>0. \A name : Is(name)' <=> Is(name)
  BY StepOfOne DEF Is
<1>1. Is("league settings") => IInv'
  BY ServicesAssumption, StepOfOne, StepOK DEF ServicesInv
<1>2. Is("guild settings") => GuildInv'
  BY ServicesAssumption, StepOfOne, GuildStep DEF ServicesInv
<1>3. Is("directory") => DirectoryInv'
  BY ServicesAssumption, StepOfOne, DirectoryStep DEF ServicesInv
<1>4. Is("registration") => RegInv'
  BY ServicesAssumption, StepOfOne, RegStep DEF ServicesInv
<1>5. Is("tokens") => TokensInv'
  BY ServicesAssumption, StepOfOne, TokensStep DEF ServicesInv
<1>6. Is("scraper") => RateInv'
  BY ServicesAssumption, StepOfOne, RateStep DEF ServicesInv
<1>7. Is("messages") => MessagesInv'
  BY ServicesAssumption, StepOfOne, MessagesStep DEF ServicesInv
<1>8. Is("reads") => ReadsInv'
  BY ServicesAssumption, StepOfOne, ReadsStep DEF ServicesInv
<1>9. Is("rosters") => RosterInv'
  BY ServicesAssumption, StepOfOne, RosterStep DEF ServicesInv
<1>10. Is("leagues") => LeaguesInv'
  BY StepOfOne, LeaguesStep DEF ServicesInv
<1> QED BY <1>0, <1>1, <1>2, <1>3, <1>4, <1>5, <1>6, <1>7, <1>8, <1>9, <1>10 DEF ServicesInv

(* The invariant of the service in turn holds throughout.                   *)
THEOREM ServicesInvariant == ServicesSpec => []ServicesInv
BY ServicesStart, ServicesStep, PTL DEF ServicesSpec

(* Requests, rows, caches and whatever else a service keeps have their      *)
(* types, with the foreign keys and the bounds that are part of them.       *)
THEOREM ServicesTyped == ServicesSpec => []TypesOK
<1>1. ServicesInv => TypesOK
  <2> SUFFICES ASSUME ServicesInv PROVE TypesOK
    OBVIOUS
  <2>1. Is("league settings") => TypeOK
    BY SettingsTyped DEF ServicesInv
  <2>2. Is("tokens") => TL!TypeOK
    BY TokensClaims DEF ServicesInv
  <2>3. Is("leagues") => LE!TypeOK
    BY LeaguesClaims DEF ServicesInv
  <2>4. Is("scraper") => SR!TypeOK
    BY DEF ServicesInv, RateInv
  <2>5. Is("reads") => DR!TypeOK
    BY ServicesAssumption, ReadsClaims DEF ServicesInv
  <2> QED BY <2>1, <2>2, <2>3, <2>4, <2>5, GuildClaims, DirectoryClaims, RegClaims, MessagesClaims, RosterClaims
       DEF ServicesInv, TypesOK
<1> QED BY <1>1, ServicesInvariant, PTL

(* While another service is in turn there are no settings.                  *)
SettingsApart ==
  ~Is("league settings") => row = {} /\ cache = [n \in Processes |-> {}]

(* So it stays: no other service writes them.                              *)
LEMMA SettingsStayApart == ServicesSpec => []SettingsApart
<1>1. ServicesInit => SettingsApart
  BY DEF ServicesInit, NoSettings, SettingsApart
<1>2. ASSUME SettingsApart, [ServicesNext]_services PROVE SettingsApart'
  <2>1. CASE Is("league settings")
    BY <1>2, <2>1, StepOfOne DEF Is, SettingsApart
  <2>2. CASE ~Is("league settings")
    <3>1. UNCHANGED settings
      <4>1. CASE ServicesNext
        BY <2>2, <4>1 DEF ServicesNext
      <4>2. CASE UNCHANGED services
        BY <4>2 DEF services
      <4> QED BY <1>2, <4>1, <4>2
    <3> QED BY <1>2, <2>2, <3>1, StepOfOne DEF Is, SettingsApart, settings
  <2> QED BY <2>1, <2>2
<1> QED BY <1>1, <1>2, PTL DEF ServicesSpec

(* What the theorems of LeagueSettings say holds among the other services:  *)
(* what is stored was validated, or is from before; an answer is stale only *)
(* by an overlap; and an update takes back no other one but in doubt.       *)
THEOREM SettingsAmongServices ==
  ServicesSpec => []StoredValid /\ []StaleByOverlapOnly /\ UpdatesKept
<1>1. ServicesInv /\ SettingsApart => StoredValid /\ StaleByOverlapOnly
  BY SettingsClaims DEF ServicesInv, SettingsApart, StoredValid, StaleByOverlapOnly
<1>2. ServicesInv /\ SettingsApart /\ [ServicesNext]_services => [Keeps]_vars
  <2> SUFFICES ASSUME ServicesInv, SettingsApart, [ServicesNext]_services PROVE [Keeps]_vars
    OBVIOUS
  <2>1. CASE Is("league settings")
    <3>1. IInv /\ [Next]_vars
      BY <2>1, StepOfOne DEF ServicesInv
    <3> QED BY <3>1, SettingsKeep
  <2>2. CASE ~Is("league settings")
    <3>1. row = {}
      BY <2>2 DEF SettingsApart
    <3> QED BY <3>1 DEF Keeps
  <2> QED BY <2>1, <2>2
<1> QED BY <1>1, <1>2, ServicesInvariant, SettingsStayApart, PTL DEF ServicesSpec, UpdatesKept

(* However guild settings are read, cached, merged, migrated and reset at   *)
(* once, the activity log explains the stored row unless requests           *)
(* overlapped, and an answer is behind the row only for the same reason.    *)
THEOREM GuildSettingsAreExplained == ServicesSpec => []GuildSettingsExplained
<1>1. ServicesInv => GuildSettingsExplained
  BY GuildClaims DEF ServicesInv, GuildSettingsExplained
<1> QED BY <1>1, ServicesInvariant, PTL

(* Whatever syncs overlap with each other and with joins, leaves, accesses  *)
(* and deletions, the members are those of the last sync to commit, but for *)
(* rows that came after its delete or went after its commit.                *)
THEOREM DirectoryIsSynced == ServicesSpec => []MembersAreSynced
<1>1. ServicesInv => MembersAreSynced
  BY DirectoryClaims DEF ServicesInv, MembersAreSynced
<1> QED BY <1>1, ServicesInvariant, PTL

(* However many registrations and additions count at once, a user's         *)
(* trackers and a team's members exceed their limits only by a race, or an  *)
(* edit of the team; and only a race stops a registration midway.           *)
THEOREM LimitsHoldButForRaces == ServicesSpec => []LimitsByRaceOnly
<1>1. ServicesInv => LimitsByRaceOnly
  BY RegClaims, RosterClaims DEF ServicesInv, LimitsByRaceOnly
<1> QED BY <1>1, ServicesInvariant, PTL

(* No interleaving of refreshes, sign-ins and logouts alone leaves a stored *)
(* refresh token that Discord no longer accepts: only a revocation, or an   *)
(* answer, a write or a process that was lost.                              *)
THEOREM LockedOutOnlyByLoss == ServicesSpec => []LockedOutByLossOnly
<1>1. ServicesInv => LockedOutByLossOnly
  BY TokensClaims DEF ServicesInv, LockedOutByLossOnly
<1> QED BY <1>1, ServicesInvariant, PTL

(* The two columns are written together: the stored tokens are one pair.    *)
THEOREM OnePair == ServicesSpec => [](Is("tokens") => access = refresh)
<1>1. ServicesInv => (Is("tokens") => access = refresh)
  BY TokensClaims DEF ServicesInv
<1> QED BY <1>1, ServicesInvariant, PTL

(* Requests to the tracker site keep the minimal distance for as long as no *)
(* two calls have waited for the rate limit at once.                        *)
THEOREM SpacedUnlessCrowded == ServicesSpec => []SpacedByOverlapOnly
<1>1. ServicesInv => SpacedByOverlapOnly
  BY DEF ServicesInv, RateInv, SpacedByOverlapOnly
<1> QED BY <1>1, ServicesInvariant, PTL

(* Through retries and the fall-back, nobody is told twice unless an answer *)
(* was lost; and the circuit is open only after that many calls failed in a *)
(* row, however many requests count at once.                                *)
THEOREM MessagesAreCareful == ServicesSpec => []ToldWithCare
<1>1. ServicesInv => ToldWithCare
  BY MessagesClaims DEF ServicesInv, ToldWithCare
<1> QED BY <1>1, ServicesInvariant, PTL

(* What a read of Discord answers, from the cache or after its retries, was *)
(* so within the time to live and the time a call may take.                 *)
THEOREM ReadsAreRecent == ServicesSpec => []TrueRecently
<1>1. ServicesInv => TrueRecently
  BY ServicesAssumption, ReadsClaims DEF ServicesInv, TrueRecently
<1> QED BY <1>1, ServicesInvariant, PTL

(* A league that is archived or cancelled is opened again only by an edit,  *)
(* or a change of status that was checked while it was open.                *)
THEOREM ReopenedOnlyByEditOrRace == ServicesSpec => ReopenedByEditOrRace
<1>1. ServicesInv /\ [ServicesNext]_services => [Is("leagues") => LE!ReopensDuly]_services
  BY StepOfOne, LeaguesReopen DEF ServicesInv
<1> QED BY <1>1, ServicesInvariant, PTL DEF ServicesSpec, ReopenedByEditOrRace
===============================================================================
