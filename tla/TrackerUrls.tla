------------------------------ MODULE TrackerUrls ------------------------------
(***************************************************************************)
(* Which tracker URLs are accepted, what is stored of them, and what the    *)
(* scraper asks tracker.gg for (TrackerValidationService and                *)
(* TrackerUrlConverterService).  A URL is abstracted to what the checks     *)
(* tell apart; WHATWG parsing, which lowers the host and drops blanks at    *)
(* the ends before the first check sees them, is external.                  *)
(***************************************************************************)
EXTENDS Integers

Supported == {"steam", "epic", "xbl", "psn", "switch"}

(* padded: blanks at an end.  prefix: "exact", in other capitals, or some   *)
(* other path.  name: what is between the slashes, of that length, written  *)
(* with or without percent signs.  slashes: how many there are at the end.  *)
Url ==
  [https: BOOLEAN, host: {"trn", "other"}, padded: BOOLEAN, prefix: {"exact", "capitals", "other"},
   platform: Supported \cup {"xbox"}, name: {"alice", "al%69ce", "bob"}, length: {0, 1, 100, 101},
   slashes: 0..2, query: BOOLEAN]

(* TRN_PROFILE_REGEX, on the URL as it was sent; in capitals or not.        *)
MatchesRegex(u, slashes) ==
  /\ u.https /\ u.host = "trn" /\ ~u.padded
  /\ u.prefix \in {"exact", "capitals"} /\ u.length > 0
  /\ slashes <= 1 /\ ~u.query

(* isValidUrlFormat: on the parsed URL, in which slashes are collapsed and  *)
(* capitals of the path are kept.                                           *)
ValidFormat(u) == u.https /\ u.host = "trn" /\ u.prefix = "exact"

(* isValidTrnUrl: the slashes count here. *)
ValidTrn(u) == u.https /\ u.host = "trn" /\ MatchesRegex(u, u.slashes)

(* parseTrackerUrl: of the URL with its slashes collapsed.                  *)
Parses(u) == MatchesRegex(u, IF u.slashes > 1 THEN 1 ELSE u.slashes)

ValidUsername(u) == u.length \in 1..100

(* Mutant: any platform is as good as the next. *)
ValidPlatform_Any(u) == TRUE

ValidPlatform(u) == u.platform \in Supported

(* validateTrackerUrl, but for the uniqueness. *)
Wellformed(u) == ValidFormat(u) /\ ValidTrn(u) /\ Parses(u) /\ ValidPlatform(u) /\ ValidUsername(u)

(* convertTrnUrlToApiUrl: refused, or the platform and the name, which is   *)
(* encoded as it stands: a percent sign of it becomes %25.                  *)
Encode(name) == IF name = "al%69ce" THEN "al%2569ce" ELSE name

Converted(u) ==
  IF MatchesRegex(u, u.slashes) /\ u.platform \in Supported
  THEN {[platform |-> u.platform, name |-> Encode(u.name)]} ELSE {}

(* What the API makes of a path, and what a profile page shows: decoded.    *)
Decode(name) ==
  CASE name = "al%69ce" -> "alice"
    [] name = "al%2569ce" -> "al%69ce"
    [] OTHER -> name

Profile(u) == [platform |-> u.platform, name |-> Decode(u.name)]
Asked(u) == {[platform |-> a.platform, name |-> Decode(a.name)] : a \in Converted(u)}

(* What a registration accepts the scraper can use: it finds platform and   *)
(* name in every accepted URL, and asks for the profile the URL shows       *)
(* unless the name is written with percent signs, which are encoded again.  *)
AcceptedConverts(u) ==
  Wellformed(u) =>
    Converted(u) # {} /\ (u.name # "al%69ce" => Asked(u) = {Profile(u)})
===============================================================================
