---------------------------- MODULE TokenLifecycle ----------------------------
(***************************************************************************)
(* The Discord tokens of one user: signing in (AuthController's callback),  *)
(* TokenManagementService's refresh, lookup and revocation, and the two     *)
(* columns of the users table.  Discord is external: it issues pairs of     *)
(* tokens, may or may not replace the refresh token that was used, and      *)
(* forgets tokens that are revoked.                                         *)
(***************************************************************************)
EXTENDS Integers, FiniteSets

CONSTANTS
  Requests,
  MaxPairs,   \* bound of this model on pairs of tokens ever issued
  MaxRetries  \* retryAttempts of a refresh (3 in the code)

TokenAssumption == MaxPairs \in Nat \ {0} /\ MaxRetries \in Nat

VARIABLES
  issued,   \* how many pairs Discord has issued; pair n is its n-th
  usable,   \* pairs whose refresh token Discord accepts
  valid,    \* pairs whose access token Discord accepts
  next,     \* next[n]: the pair that replaced pair n, or 0
  user,     \* the user is there
  access,   \* the stored access token, by its pair, or 0
  refresh,  \* the stored refresh token, likewise
  request,  \* request[r]: where it stands and the pair it holds
  lost,     \* history: pairs that were revoked, or whose successor nobody got
  out       \* history: the user has logged out, and no token was stored since

discord == <<issued, usable, valid, next>>
vars == <<discord, user, access, refresh, request, lost, out>>

-------------------------------------------------------------------------------
Pairs == 1..MaxPairs
Idle == [pc |-> "idle"]
Step == {"profile", "store", "check", "reread", "post", "write", "revoke", "clear"}

At(r, pc) == request[r].pc = pc
Goto(r, pc, pair) == request' = [request EXCEPT ![r] = [pc |-> pc, pair |-> pair, tries |-> 0]]
End(r) == request' = [request EXCEPT ![r] = Idle]
Held(r) == request[r].pair

Init ==
  /\ issued = 0 /\ usable = {} /\ valid = {} /\ next = [n \in Pairs |-> 0]
  /\ user = FALSE /\ access = 0 /\ refresh = 0
  /\ request = [r \in Requests |-> Idle]
  /\ lost = {} /\ out = FALSE

Issue == issued < MaxPairs /\ issued' = issued + 1 /\ valid' = valid \cup {issued + 1}

-------------------------------------------------------------------------------
(* Discord on its own: access tokens expire, and the user may take the      *)
(* authorization back.                                                      *)
Expire(n) ==
  /\ n \in valid /\ valid' = valid \ {n}
  /\ UNCHANGED <<issued, usable, next, user, access, refresh, request, lost, out>>

Deauthorize ==
  /\ usable # {} /\ usable' = {} /\ valid' = {}
  /\ lost' = lost \cup 1..issued
  /\ UNCHANGED <<issued, next, user, access, refresh, request, out>>

(* The callback: the code is exchanged, and the profile asked for ...       *)
ExchangeCode(r) ==
  /\ At(r, "idle") /\ Issue
  /\ usable' = usable \cup {issued + 1}
  /\ Goto(r, "profile", issued + 1)
  /\ UNCHANGED <<next, user, access, refresh, lost, out>>

GetUserProfile(r) ==
  /\ At(r, "profile") /\ Goto(r, "store", Held(r))
  /\ UNCHANGED <<discord, user, access, refresh, lost, out>>

(* ... and both tokens stored with the user, who is made if need be.        *)
UpsertFromOAuth(r) ==
  /\ At(r, "store") /\ End(r)
  /\ user' = TRUE /\ access' = Held(r) /\ refresh' = Held(r) /\ out' = FALSE
  /\ UNCHANGED <<discord, lost>>

-------------------------------------------------------------------------------
(* getValidAccessToken: without one, nothing is refreshed.                  *)
GetValid(r) ==
  /\ At(r, "idle") /\ user /\ access # 0
  /\ Goto(r, "check", access)
  /\ UNCHANGED <<discord, user, access, refresh, lost, out>>

(* validateDiscordToken; whatever goes wrong, the token is not valid.       *)
ValidateToken(r) ==
  /\ At(r, "check")
  /\ \/ Held(r) \in valid /\ End(r)
     \/ Goto(r, "reread", Held(r))
  /\ UNCHANGED <<discord, user, access, refresh, lost, out>>

(* refreshDiscordToken: the refresh token is read anew.                     *)
ReadRefresh(r) ==
  /\ At(r, "reread")
  /\ IF user /\ refresh # 0 THEN Goto(r, "post", refresh) ELSE End(r)
  /\ UNCHANGED <<discord, user, access, refresh, lost, out>>

(* The answer comes, is lost and asked for again with the same token, or is *)
(* lost for good.  Discord keeps the token it was asked with, or not.       *)
Rotate(r) ==
  /\ Held(r) \in usable /\ Issue
  /\ \E keep \in BOOLEAN :
       usable' = (usable \cup {issued + 1}) \ (IF keep THEN {} ELSE {Held(r)})
  /\ next' = [next EXCEPT ![Held(r)] = issued + 1]

Post(r) ==
  /\ At(r, "post")
  /\ \/ Rotate(r) /\ Goto(r, "write", issued + 1) /\ UNCHANGED lost
     \/ /\ Rotate(r) /\ lost' = lost \cup {Held(r)}
        /\ request' = [request EXCEPT ![r] =
                         IF @.tries < MaxRetries
                         THEN [pc |-> "post", pair |-> @.pair, tries |-> @.tries + 1]
                         ELSE Idle]
     \/ Held(r) \notin usable /\ End(r) /\ UNCHANGED <<discord, lost>>
  /\ UNCHANGED <<user, access, refresh, out>>

(* Mutant: the new refresh token is not stored. *)
WriteTokens_AccessOnly(r) ==
  /\ At(r, "write") /\ End(r)
  /\ access' = IF user THEN Held(r) ELSE access
  /\ out' = (out /\ ~user)
  /\ UNCHANGED <<discord, user, refresh, lost>>

(* updateUserTokens: over whatever is stored by now; refused if the user is *)
(* gone.                                                                    *)
WriteTokens(r) ==
  /\ At(r, "write") /\ End(r)
  /\ access' = IF user THEN Held(r) ELSE access
  /\ refresh' = IF user THEN Held(r) ELSE refresh
  /\ out' = (out /\ ~user)
  /\ UNCHANGED <<discord, user, lost>>

-------------------------------------------------------------------------------
(* revokeTokens, of whoever logs out. *)
Logout(r) ==
  /\ At(r, "idle") /\ user
  /\ Goto(r, IF access = 0 THEN "clear" ELSE "revoke", access)
  /\ UNCHANGED <<discord, user, access, refresh, lost, out>>

(* Discord revokes the pair with the token, and those it was replaced by;   *)
(* if it cannot be reached, the logout goes on.                             *)
Revoke(r) ==
  /\ At(r, "revoke") /\ Goto(r, "clear", Held(r))
  /\ \/ UNCHANGED <<usable, valid, lost>>
     \/ \E family \in SUBSET (1..issued) :
          /\ Held(r) \in family
          /\ usable' = usable \ family /\ valid' = valid \ family /\ lost' = lost \cup family
  /\ UNCHANGED <<issued, next, user, access, refresh, out>>

(* updateUserTokens with both undefined, which the repository leaves out:   *)
(* what is stored stays.                                                    *)
ClearTokens(r) ==
  /\ At(r, "clear") /\ End(r) /\ out' = TRUE
  /\ UNCHANGED <<discord, user, access, refresh, lost>>

(* A call fails or the process stops: a pair in hand is lost.               *)
Replaced(n) == {m \in Pairs : next[m] = n}

Fail(r) ==
  /\ ~At(r, "idle") /\ End(r)
  /\ lost' = IF At(r, "write") THEN lost \cup Replaced(Held(r)) ELSE lost
  /\ UNCHANGED <<discord, user, access, refresh, out>>

DeleteUser ==
  /\ user /\ user' = FALSE /\ access' = 0 /\ refresh' = 0
  /\ UNCHANGED <<discord, request, lost, out>>

Next ==
  \/ Deauthorize \/ DeleteUser \/ \E n \in Pairs : Expire(n)
  \/ \E r \in Requests :
       \/ ExchangeCode(r) \/ GetUserProfile(r) \/ UpsertFromOAuth(r)
       \/ GetValid(r) \/ ValidateToken(r) \/ ReadRefresh(r) \/ Post(r) \/ WriteTokens(r)
       \/ Logout(r) \/ Revoke(r) \/ ClearTokens(r) \/ Fail(r)

Spec == Init /\ [][Next]_vars

-------------------------------------------------------------------------------
TypeOK ==
  /\ issued \in 0..MaxPairs /\ usable \cup valid \cup lost \subseteq 1..issued
  /\ next \in [Pairs -> 0..issued] /\ {user, out} \subseteq BOOLEAN
  /\ {access, refresh} \subseteq 0..issued /\ (~user => access = 0 /\ refresh = 0)
  /\ \A r \in Requests : request[r].pc \in {"idle"} \cup Step

(* However many requests refresh, sign in and log out at once, the stored   *)
(* refresh token can be used, or a request is about to store what replaced  *)
(* it, or it was revoked, or an answer, a write or a process was lost: no   *)
(* interleaving alone locks the user out.                                   *)
LockedOutByLossOnly ==
  \/ refresh = 0 \/ refresh \in usable \cup lost
  \/ \E r \in Requests : At(r, "write") /\ Held(r) = next[refresh]

(* "Revoke Discord tokens and clear from database": of whoever has logged   *)
(* out nothing is stored.                                                   *)
LogoutClears == out => access = 0 /\ refresh = 0
===============================================================================
