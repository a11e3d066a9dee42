------------------------------- MODULE Directory -------------------------------
(***************************************************************************)
(* Who is in one guild: the guild, the users, their membership rows and     *)
(* their players, as GuildsService, GuildSyncService, GuildMembersService,  *)
(* UserGuildsService, GuildAccessValidationService, UsersService and        *)
(* PlayerService write them.  A sync is one transaction of several          *)
(* statements, whose locks and uncommitted rows make others wait; every     *)
(* other write is one statement or a transaction that reads again what it   *)
(* depends on, and is one step.                                             *)
(***************************************************************************)
EXTENDS FiniteSets

CONSTANTS
  Users, Requests,
  Statuses   \* the statuses the bot asks for

DirectoryAssumption ==
  /\ IsFiniteSet(Users) /\ IsFiniteSet(Requests)
  /\ Statuses \subseteq {"ACTIVE", "INACTIVE", "SUSPENDED", "BANNED"}

VARIABLES
  guild,    \* "none", "active", or "left": isActive is false, the row stays
  user,     \* the users there are
  member,   \* those with a membership row
  player,   \* player[u]: the status of the player of that membership, or "none"
  request,  \* request[r]: where it stands and what it holds
  listed,   \* history: what the sync committed last was given
  later,    \* history: members whose row came after the delete of that sync began
  gone      \* history: of those listed, whose row went after that sync

history == <<listed, later, gone>>
vars == <<guild, user, member, player, request, history>>

-------------------------------------------------------------------------------
PlayerStatus == {"ACTIVE", "INACTIVE", "SUSPENDED", "BANNED"}
Barred == {"SUSPENDED", "BANNED"}

(* list: of the sync, whole if it upserts guild and users too.  doomed: the *)
(* rows its delete has seen, then those it has deleted.  later: the rows    *)
(* that came since that statement began.                                    *)
Idle == [pc |-> "idle"]
New == [pc |-> "idle", list |-> {}, whole |-> FALSE, doomed |-> {}, later |-> {},
        of |-> {}, status |-> "none"]

Open == {"upsert", "delete", "deleting", "insert", "commit"}
Begun == {"deleting", "insert", "commit"}
Step == {"trackers", "discord", "join", "write", "ensure"} \cup Open

At(r, pc) == request[r].pc = pc
Goto(r, pc) == request' = [request EXCEPT ![r] = [@ EXCEPT !.pc = pc]]
End(r) == request' = [request EXCEPT ![r] = Idle]

(* Locks: the rows a transaction has deleted, those it has inserted, and    *)
(* the guild and the users it has upserted, until it commits.               *)
Deleting(q) == IF request[q].pc \in {"insert", "commit"} THEN request[q].doomed ELSE {}
Inserting(q) == IF At(q, "commit") THEN request[q].list ELSE {}
HoldsGuild(q) == request[q].pc \in Open \ {"upsert"} /\ request[q].whole
HoldsUsers(q) == IF HoldsGuild(q) \/ At(q, "commit") THEN request[q].list ELSE {}

(* No transaction of rs is at the membership row of u, or at u.             *)
Others(r) == Requests \ {r}
Free(u, rs) == \A q \in rs : u \notin Deleting(q) \cup Inserting(q)
FreeUser(u, rs) == \A q \in rs : u \notin HoldsUsers(q) \cup Deleting(q)

(* Membership rows of us go, and with each its player (onDelete: Cascade),  *)
(* which an update in hand then does not find any more.                     *)
PlayersWithout(us) == [u \in Users |-> IF u \in us THEN "none" ELSE player[u]]
Orphaned(us) == [r \in Requests |-> IF At(r, "write") /\ request[r].of \subseteq us THEN Idle
                                    ELSE request[r]]

(* Rows of us have come, which a sync of rs misses whose delete has begun.  *)
Missed(us, rs) ==
  [r \in Requests |-> IF r \in rs /\ request[r].pc \in Begun
                      THEN [request[r] EXCEPT !.later = @ \cup us] ELSE request[r]]

Init ==
  /\ guild = "none" /\ user = {} /\ member = {}
  /\ player = [u \in Users |-> "none"]
  /\ request = [r \in Requests |-> Idle]
  /\ listed = {} /\ later = {} /\ gone = {}

-------------------------------------------------------------------------------
(* GuildsService: create or upsert, and remove, which keeps every row.      *)
Come ==
  /\ \A q \in Requests : ~HoldsGuild(q)
  /\ guild' = "active"
  /\ UNCHANGED <<user, member, player, request, history>>

RemoveGuild ==
  /\ guild # "none" /\ \A q \in Requests : ~HoldsGuild(q)
  /\ guild' = "left"
  /\ UNCHANGED <<user, member, player, request, history>>

(* upsertUserFromOAuth, of a user there is or is not.                       *)
SignIn(u) ==
  /\ \A q \in Requests : u \notin HoldsUsers(q)
  /\ user' = user \cup {u}
  /\ UNCHANGED <<guild, member, player, request, history>>

(* UsersService.delete: with everything that is the user's.                 *)
DeleteUser(u) ==
  /\ u \in user /\ FreeUser(u, Requests) /\ Free(u, Requests)
  /\ user' = user \ {u} /\ member' = member \ {u}
  /\ player' = PlayersWithout({u}) /\ request' = Orphaned({u})
  /\ gone' = (gone \cup {u}) \cap listed /\ later' = later \ {u}
  /\ UNCHANGED <<guild, listed>>

-------------------------------------------------------------------------------
(* A sync of the members alone, or with the guild, its settings and users.  *)
Sync(r, list, whole) ==
  /\ At(r, "idle")
  /\ request' = [request EXCEPT ![r] =
       [New EXCEPT !.pc = IF whole THEN "upsert" ELSE "delete", !.list = list, !.whole = whole]]
  /\ UNCHANGED <<guild, user, member, player, history>>

(* The upsert of the guild row waits for whoever has upserted it; those of  *)
(* the users likewise, and FailSync stands for the deadlock they may meet.  *)
Upsert(r) ==
  /\ At(r, "upsert")
  /\ \A q \in Requests \ {r} : ~HoldsGuild(q)
  /\ \A u \in request[r].list : FreeUser(u, Others(r))
  /\ Goto(r, "delete")
  /\ UNCHANGED <<guild, user, member, player, history>>

(* deleteMany sees the rows that are committed as the statement begins      *)
(* (READ COMMITTED) ...                                                     *)
Delete(r) ==
  /\ At(r, "delete")
  /\ request' = [request EXCEPT ![r] = [@ EXCEPT !.pc = "deleting", !.doomed = member]]
  /\ UNCHANGED <<guild, user, member, player, history>>

(* Mutant: only rows that are made again are deleted. *)
Doomed_Listed(r) == ((request[r].doomed \cap member) \ request[r].later) \cap request[r].list

(* ... and deletes those still there, once it need not wait for them: a row *)
(* another transaction has made since, of a user it saw or not, it keeps.   *)
Doomed(r) == (request[r].doomed \cap member) \ request[r].later

Deleted(r) ==
  /\ At(r, "deleting") /\ \A u \in Doomed(r) : Free(u, Others(r))
  /\ request' = [request EXCEPT ![r] = [@ EXCEPT !.pc = "insert", !.doomed = Doomed(r)]]
  /\ UNCHANGED <<guild, user, member, player, history>>

(* createMany: a row that is there, once it is committed, fails it, as does *)
(* a missing guild or user, which only a whole sync has made; so would a    *)
(* list that names a user twice, though users are made of it only once.     *)
Insert(r) ==
  /\ At(r, "insert")
  /\ \A u \in request[r].list : Free(u, Others(r))
  /\ IF \/ (member \ request[r].doomed) \cap request[r].list # {}
        \/ request[r].list # {} /\ ~request[r].whole /\ (guild = "none" \/ ~(request[r].list \subseteq user))
     THEN End(r) ELSE Goto(r, "commit")
  /\ UNCHANGED <<guild, user, member, player, history>>

(* Two whole syncs are kept apart by the row of the guild, from before the  *)
(* one's delete to its commit: neither is excused of the other's rows.      *)
Commit(r) ==
  LET q == request[r]
      excused == {s \in Requests : ~(q.whole /\ request[s].whole)}
  IN  /\ At(r, "commit")
      /\ guild' = IF q.whole THEN "active" ELSE guild
      /\ user' = IF q.whole THEN user \cup q.list ELSE user
      /\ member' = (member \ q.doomed) \cup q.list
      /\ player' = PlayersWithout(q.doomed)
      /\ listed' = q.list /\ later' = q.later /\ gone' = {}
      /\ request' = [s \in Requests |->
           IF s = r \/ Orphaned(q.doomed)[s] = Idle THEN Idle ELSE Missed(q.list, excused)[s]]

(* The transaction is rolled back: a statement failed, or a deadlock.       *)
FailSync(r) ==
  /\ request[r].pc \in Open /\ End(r)
  /\ UNCHANGED <<guild, user, member, player, history>>

-------------------------------------------------------------------------------
Ask(r, pc, u, status) ==
  /\ At(r, "idle")
  /\ request' = [request EXCEPT ![r] =
       [New EXCEPT !.pc = pc, !.of = {u}, !.status = status]]
  /\ UNCHANGED <<guild, user, member, player, history>>

(* GuildMembersService.create, for the bot or for each guild of a user who  *)
(* signs in: the user is looked up ...                                      *)
AddMember(r, u) == u \in user /\ Ask(r, "join", u, "none")

(* ... and the row upserted, which needs both parents.  The players of      *)
(* those with trackers follow, after the answer.                            *)
Joined(us) ==
  /\ member' = member \cup us
  /\ later' = later \cup (us \ member) /\ gone' = gone \ us /\ UNCHANGED listed

Join(r) ==
  /\ At(r, "join") /\ guild # "none" /\ request[r].of \subseteq user
  /\ \A u \in request[r].of : Free(u, Others(r))
  /\ Joined(request[r].of)
  /\ request' = [Missed(request[r].of \ member, Requests) EXCEPT ![r] = [request[r] EXCEPT !.pc = "trackers"]]
  /\ UNCHANGED <<guild, user, player>>

(* ensurePlayerIfUserHasTrackers: which users have, others decide.          *)
LookForTrackers(r) ==
  /\ At(r, "trackers") /\ (Goto(r, "ensure") \/ End(r))
  /\ UNCHANGED <<guild, user, member, player, history>>

(* validateUserGuildAccess of a user without a row: Discord vouches for     *)
(* him, and a row is created, not upserted: one that came meanwhile fails.  *)
Access(r, u) == guild # "none" /\ u \in user \ member /\ Ask(r, "discord", u, "none")

Vouched(r) ==
  /\ At(r, "discord") /\ guild # "none"
  /\ request[r].of \subseteq user \ member /\ \A u \in request[r].of : Free(u, Others(r))
  /\ Joined(request[r].of)
  /\ request' = [Missed(request[r].of, Requests) EXCEPT ![r] = Idle]
  /\ UNCHANGED <<guild, user, player>>

(* remove: looked up, then deleted; in one step, since the delete of a row  *)
(* that is gone only fails.                                                 *)
RemoveMember(u) ==
  /\ u \in member /\ Free(u, Requests)
  /\ member' = member \ {u} /\ player' = PlayersWithout({u}) /\ request' = Orphaned({u})
  /\ gone' = (gone \cup {u}) \cap listed /\ later' = later \ {u}
  /\ UNCHANGED <<guild, user, listed>>

-------------------------------------------------------------------------------
(* The transaction that makes a player reads the membership again, and the  *)
(* unique index knows the player of it.                                     *)
Creatable(u) == u \in member /\ player[u] = "none"

(* PlayerService.create, with the status the bot asks for.                  *)
CreatePlayer(u, status) ==
  /\ Creatable(u) /\ Free(u, Requests)
  /\ player' = [player EXCEPT ![u] = status]
  /\ UNCHANGED <<guild, user, member, request, history>>

(* ensurePlayerExists, also for whoever joins a league or scrapes.          *)
Ensure(r) ==
  /\ At(r, "ensure") /\ End(r)
  /\ \A u \in request[r].of : Free(u, Others(r))
  /\ player' = [u \in Users |-> IF u \in request[r].of /\ Creatable(u) THEN "ACTIVE" ELSE player[u]]
  /\ UNCHANGED <<guild, user, member, history>>

AskPlayer(r, u) == Ask(r, "ensure", u, "none")

(* update: the player is read, and the status he is to have refused where   *)
(* it is not the one he has and bars him (validatePlayerStatus).            *)
Mutable(u, status) == player[u] # "none" /\ (status = player[u] \/ status \notin Barred)

UpdatePlayer(r, u, status) == Mutable(u, status) /\ Ask(r, "write", u, status)

WritePlayer(r) ==
  /\ At(r, "write") /\ \A u \in request[r].of : Free(u, Others(r))
  /\ player' = [u \in Users |-> IF u \in request[r].of THEN request[r].status ELSE player[u]]
  /\ End(r)
  /\ UNCHANGED <<guild, user, member, history>>

DeletePlayer(u) ==
  /\ player[u] # "none" /\ Free(u, Requests)
  /\ player' = PlayersWithout({u}) /\ request' = Orphaned({u})
  /\ UNCHANGED <<guild, user, member, history>>

(* A call of a request outside a transaction fails. *)
FailRequest(r) ==
  /\ request[r].pc \in Step \ Open /\ End(r)
  /\ UNCHANGED <<guild, user, member, player, history>>

Proceed(r) ==
  \/ Upsert(r) \/ Delete(r) \/ Deleted(r) \/ Insert(r) \/ Commit(r) \/ FailSync(r)
  \/ Join(r) \/ LookForTrackers(r) \/ Vouched(r) \/ Ensure(r) \/ WritePlayer(r) \/ FailRequest(r)

Arrive(r) ==
  \/ \E list \in SUBSET Users, whole \in BOOLEAN : Sync(r, list, whole)
  \/ \E u \in Users :
       \/ AddMember(r, u) \/ Access(r, u) \/ AskPlayer(r, u)
       \/ \E status \in Statuses : UpdatePlayer(r, u, status)

Next ==
  \/ Come \/ RemoveGuild
  \/ \E u \in Users :
       \/ SignIn(u) \/ DeleteUser(u) \/ RemoveMember(u) \/ DeletePlayer(u)
       \/ \E status \in Statuses : CreatePlayer(u, status)
  \/ \E r \in Requests : Arrive(r) \/ Proceed(r)

Spec == Init /\ [][Next]_vars

-------------------------------------------------------------------------------
(* The foreign keys hold: a member is a user, and of a guild that is there, *)
(* a player a member; so do the two unique indexes, by the form of the      *)
(* variables.                                                               *)
TypeOK ==
  /\ guild \in {"none", "active", "left"}
  /\ member \subseteq user /\ user \subseteq Users /\ (member # {} => guild # "none")
  /\ player \in [Users -> PlayerStatus \cup {"none"}]
  /\ \A u \in Users : player[u] # "none" => u \in member
  /\ \A r \in Requests : request[r].pc \in {"idle"} \cup Step

(* The members are those the sync committed last was given, but for rows    *)
(* that went since, and rows that came after its delete statement had       *)
(* begun.  Such a row may be another sync's of the members alone, since     *)
(* nothing but the rows themselves keeps two of them apart: they may leave  *)
(* a mixture of two lists.  Two syncs of the whole guild never do.          *)
MembersAreSynced == member \ later \subseteq listed /\ listed \ gone \subseteq member
===============================================================================
