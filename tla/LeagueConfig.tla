------------------------------ MODULE LeagueConfig ------------------------------
(***************************************************************************)
(* The configuration of a league as pure operators: its defaults, how one   *)
(* configuration is merged into another, how an old one is migrated, and    *)
(* what the validation asks.  A configuration maps each field that the      *)
(* validation looks at to an optional value: {} for null or undefined, {v}  *)
(* for v.  The sections (membership, skill, ...) are flattened, since the   *)
(* merge descends into them; fields that are only stored are left out.      *)
(***************************************************************************)
EXTENDS Integers

Counts == {"minPlayers", "maxPlayers", "maxOrganizations", "maxTeamsPerOrganization"}
Levels == {"cooldownAfterLeave", "minSkillLevel", "maxSkillLevel"}
Switches == {"requireOrganization", "isSkillBased"}
Dates == {"registrationStartDate", "registrationEndDate"}

(* "required...": the fields of membership.skillRequirements.  "version" is *)
(* _metadata.schemaVersion, {} where the metadata are missing.              *)
Required == {"requiredMin", "requiredMax", "requiredMetric"}
Fields == Counts \cup Levels \cup Switches \cup Dates \cup Required \cup {"skillMetric", "version"}

Metrics == {"MMR", "RANK", "ELO", "CUSTOM"}
CURRENT_SCHEMA_VERSION == 1

Unset == [f \in Fields |-> {}]

(* getDefaults: open to everyone, without limits. *)
Defaults ==
  [Unset EXCEPT !["minPlayers"] = {2}, !["requireOrganization"] = {FALSE},
                !["isSkillBased"] = {FALSE}, !["version"] = {CURRENT_SCHEMA_VERSION}]

-------------------------------------------------------------------------------
(* Mutant: what is not given is taken away. *)
Merge_Replaces(target, source) ==
  [f \in Fields |-> IF f = "version" THEN target[f] ELSE source[f]]

(* mergeSettings: what the source has replaces what the target has, but for *)
(* the metadata.  Null is as good as absent: nothing is ever unset.         *)
Merge(target, source) ==
  [f \in Fields |-> IF f = "version" \/ source[f] = {} THEN target[f] ELSE source[f]]

NeedsMigration(c) == \A v \in c["version"] : v < CURRENT_SCHEMA_VERSION

(* migrate, of a configuration that needs it: the one version there is      *)
(* merges it into the defaults.                                             *)
Migrate(c) == [Merge(Defaults, c) EXCEPT !["version"] = {CURRENT_SCHEMA_VERSION}]

-------------------------------------------------------------------------------
AtLeast(c, f, least) == \A v \in c[f] : v >= least
Ordered(c, low, high) == \A a \in c[low], b \in c[high] : a <= b
Before(c, first, second) == \A a \in c[first], b \in c[second] : a < b

(* What the DTO lets into an update, field by field. *)
Acceptable(patch) ==
  /\ \A f \in Counts : AtLeast(patch, f, 1)
  /\ \A f \in Levels : AtLeast(patch, f, 0)
  /\ \A f \in Required \cup {"version"} : patch[f] = {}
  /\ patch["skillMetric"] \subseteq Metrics

ValidMembership(c) ==
  /\ \A f \in Counts : AtLeast(c, f, 1)
  /\ Ordered(c, "minPlayers", "maxPlayers")
  /\ Before(c, "registrationStartDate", "registrationEndDate")
  /\ AtLeast(c, "cooldownAfterLeave", 0)

ValidSkillRequirements(c) ==
  (\E f \in Required : c[f] # {}) =>
    /\ AtLeast(c, "requiredMin", 0) /\ AtLeast(c, "requiredMax", 0)
    /\ Ordered(c, "requiredMin", "requiredMax")
    /\ c["requiredMetric"] # {} /\ c["requiredMetric"] \subseteq Metrics

ValidSkill(c) ==
  c["isSkillBased"] = {TRUE} =>
    /\ AtLeast(c, "minSkillLevel", 0) /\ AtLeast(c, "maxSkillLevel", 0)
    /\ Ordered(c, "minSkillLevel", "maxSkillLevel")
    /\ c["skillMetric"] # {}

Valid(c) == ValidMembership(c) /\ ValidSkillRequirements(c) /\ ValidSkill(c)
===============================================================================
