------------------------------ MODULE GuildConfig ------------------------------
(***************************************************************************)
(* The configuration of a guild as pure operators, in the form LeagueConfig *)
(* has for leagues: optional values by field, {} for absent or null.  A     *)
(* list of channels is a set of them; weights are in tenths.                *)
(***************************************************************************)
EXTENDS Integers

CONSTANT Channels  \* the channels Discord knows in the guild

Lists == {"bot_command_channels", "register_command_channels", "test_command_channels",
          "public_command_channels", "staff_command_channels"}
Weights == {"ones", "twos", "threes", "fours"}
Ascendancy == {"current", "peak"}
Fields == Lists \cup Weights \cup Ascendancy \cup {"algorithm", "customFormula", "enabled", "version"}

Algorithms == {"WEIGHTED_AVERAGE", "PEAK_MMR", "CUSTOM", "ASCENDANCY"}
Formulas == {"valid", "invalid"}
CURRENT_SCHEMA_VERSION == 2

Unset == [f \in Fields |-> {}]

(* getDefaults; roles and minimum games, which no check looks at, left out. *)
Defaults ==
  [f \in Fields |->
     CASE f \in Lists -> {{}}
       [] f \in {"ones", "fours"} -> {1}
       [] f = "twos" -> {3}
       [] f = "threes" -> {5}
       [] f = "current" -> {2}
       [] f = "peak" -> {8}
       [] f = "algorithm" -> {"ASCENDANCY"}
       [] f = "enabled" -> {TRUE}
       [] f = "version" -> {CURRENT_SCHEMA_VERSION}
       [] OTHER -> {}]

(* deepMerge: absent and null leave the target alone, a list replaces it.   *)
(* Unlike that of the leagues it carries the metadata over.                 *)
Merge(target, source) == [f \in Fields |-> IF source[f] = {} THEN target[f] ELSE source[f]]

SchemaVersion(c) == IF c["version"] = {} THEN 0 ELSE CHOOSE v \in c["version"] : TRUE
NeedsMigration(c) == SchemaVersion(c) < CURRENT_SCHEMA_VERSION

(* migrateToV1: completed with the defaults. *)
ToV1(c) == [Merge(Defaults, c) EXCEPT !["version"] = {1}]

(* migrateToV2: stripped to an empty list of channels. *)
ToV2(c) == [Unset EXCEPT !["version"] = {2}, !["bot_command_channels"] = {{}}]

(* migrate: the chain from the version there is, then normalized.           *)
Migrate(c) ==
  LET first == IF SchemaVersion(c) < 1 THEN ToV1(c) ELSE c
      second == IF SchemaVersion(c) < 2 THEN ToV2(first) ELSE first
  IN  Merge(Defaults, second)

-------------------------------------------------------------------------------
(* validateBotCommandChannels; duplicates are refused with the unknown.     *)
KnownChannels(patch) == \A f \in Lists : \A cs \in patch[f] : cs \subseteq Channels

Sum4(c) == LET w(f) == IF c[f] = {} THEN 0 ELSE CHOOSE v \in c[f] : TRUE
           IN  w("ones") + w("twos") + w("threes") + w("fours")

(* validateMmrCalculation, of a patch that has the section.                 *)
ValidMmr(patch) ==
  LET mmr == Weights \cup Ascendancy \cup {"algorithm", "customFormula"}
  IN  (\E f \in mmr : patch[f] # {}) =>
        /\ patch["algorithm"] # {} /\ patch["algorithm"] \subseteq Algorithms
        /\ patch["algorithm"] = {"CUSTOM"} => patch["customFormula"] = {"valid"}
        /\ patch["algorithm"] = {"WEIGHTED_AVERAGE"} /\ (\E f \in Weights : patch[f] # {}) =>
             Sum4(patch) # 0
        /\ patch["algorithm"] = {"ASCENDANCY"} /\ (\E f \in Ascendancy : patch[f] # {}) =>
             \A f \in Ascendancy : patch[f] # {} /\ \A v \in patch[f] : v >= 0

(* What the DTO lets in. *)
Acceptable(patch) ==
  /\ patch["version"] = {} /\ patch["enabled"] \subseteq BOOLEAN
  /\ \A f \in Weights : patch[f] \subseteq 0..10
  /\ \A f \in Ascendancy : \A v \in patch[f] : v >= 0
  /\ patch["customFormula"] \subseteq Formulas

(* validate: it looks at the patch alone.                                   *)
Valid(patch) == KnownChannels(patch) /\ ValidMmr(patch)
===============================================================================
