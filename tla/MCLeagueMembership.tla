-------------------------- MODULE MCLeagueMembership --------------------------
(***************************************************************************)
(* The members of leagues and their matches for TLC, each on its own.       *)
(* LeagueMembership twice: "single", one request at a time over two         *)
(* leagues, and "race", two requests at once over one league with one       *)
(* place; and MatchCompletion as it is: "matches".  world says which of     *)
(* them a behaviour is about, and never changes.                            *)
(***************************************************************************)
EXTENDS MatchCompletion, TLC

CONSTANTS
  p3,            \* whom only the race has
  r1,            \* the only request of the single world
  open, closed   \* leagues: closed needs approval, open has a cooldown

VARIABLES world, member, cooling, rated, waived

OneEach(leagues) == [l \in leagues |-> 1]

Single == INSTANCE LeagueMembership WITH
  Leagues <- {open, closed}, Requests <- {r1},
  MaxPlayers <- OneEach({open, closed}), NeedsApproval <- {closed},
  Exclusive <- {open, closed}, Cooldown <- {open}

Race == INSTANCE LeagueMembership WITH
  Players <- Players \cup {p3}, Leagues <- {open}, MaxPlayers <- OneEach({open}),
  NeedsApproval <- {}, Exclusive <- {}, Cooldown <- {}

ASSUME WorldsAssumption == Single!MembershipAssumption /\ Race!MembershipAssumption

members == <<member, cooling, rated, waived>>
matches == <<status, participants, stats, rating, counted, forgotten>>
worlds == <<world, members, matches, request>>

NoMembers == member = "off" /\ cooling = "off" /\ rated = "off" /\ waived = "off"

(* Of the other worlds: no match is played. *)
NoMatch ==
  /\ status = [m \in Matches |-> "SCHEDULED"] /\ counted = [m \in Matches |-> 0]
  /\ participants = "off" /\ stats = Nobody /\ rating = Nobody /\ forgotten = {}

WorldsInit ==
  \/ world = "single" /\ Single!Init /\ NoMatch
  \/ world = "race" /\ Race!Init /\ NoMatch
  \/ world = "matches" /\ Init /\ NoMembers

WorldsNext ==
  \/ world = "single" /\ Single!Next /\ UNCHANGED <<world, matches>>
  \/ world = "race" /\ Race!Next /\ UNCHANGED <<world, matches>>
  \/ world = "matches" /\ Next /\ UNCHANGED <<world, members>>

WorldsSpec == WorldsInit /\ [][WorldsNext]_worlds

(* Players and requests are interchangeable, where they are in one world.   *)
Symmetry == Permutations(Players \cup {p3}) \cup Permutations(Requests) \cup Permutations(Matches)

-------------------------------------------------------------------------------
(* Joins overfill a league only by racing, by fewer than are in hand, and   *)
(* take a player into two exclusive leagues only so.                        *)
JoinsExceedByRaceOnly ==
  /\ world = "single" => Single!JoinsExceedByRaceOnly
  /\ world = "race" => Race!JoinsExceedByRaceOnly

(* A ban goes by an update, by a request that was already in hand, or with  *)
(* all memberships of its player or of its league; and nobody enters a      *)
(* league that asks for approval without one but by an update, or by coming *)
(* back.                                                                    *)
StatusByRule ==
  [][/\ world = "single" => Single!KeepsTerminal /\ Single!AsksApproval
     /\ world = "race" => Race!KeepsTerminal]_worlds
===============================================================================
