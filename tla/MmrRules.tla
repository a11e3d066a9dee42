------------------------------- MODULE MmrRules -------------------------------
(***************************************************************************)
(* MmrCalculationService: a rating from what a tracker's latest season      *)
(* says, by the algorithm a guild has chosen.  Quotients are exact here     *)
(* (the code's are binary floats); Absent is undefined or null.  A custom   *)
(* formula is what mathjs makes of it: the value it has for some data, or   *)
(* Absent where that is no finite number.                                   *)
(***************************************************************************)
EXTENDS Integers, Sequences, FiniteSets, FiniteSetsExt

Playlists == {"ones", "twos", "threes", "fours"}
Absent == -1

Or(value, default) == IF value = Absent THEN default ELSE value

(* extractTrackerData: what the season with the highest number says, if     *)
(* there is one; the peak is the all-time one.                              *)
ExtractTrackerData(seasons) ==
  {s.playlists : s \in {t \in seasons : \A u \in seasons : u.seasonNumber <= t.seasonNumber}}

-------------------------------------------------------------------------------
(* d[p] is [mmr, games, peak] of a playlist.  Math.round of n / m, m > 0.   *)
Round(n, m) == (2 * n + m) \div (2 * m)

SumOver(S, f(_)) ==
  LET Term(p) == IF p \in S THEN f(p) ELSE 0
  IN  Term("ones") + Term("twos") + Term("threes") + Term("fours")

Games(d, p) == Or(d[p].games, 0)
Played(d, p, config) == Games(d, p) >= config.minGames[p]

Counted(d, config) ==
  {p \in Playlists : d[p].mmr # Absent /\ Played(d, p, config) /\ config.weights[p] > 0}

CalculateWeightedAverage(d, config) ==
  LET counted == Counted(d, config)
      total == SumOver(counted, LAMBDA p : config.weights[p])
  IN IF total = 0 THEN 0
     ELSE Round(SumOver(counted, LAMBDA p : d[p].mmr * config.weights[p]), total)

CalculatePeakMmr(d, config) ==
  LET rated == {d[p].mmr : p \in {q \in Playlists : d[q].mmr # Absent /\ Played(d, q, config)}}
  IN IF rated = {} THEN 0 ELSE Max(rated)

(* The rating and the peak that the ascendancy algorithm goes by; the peak  *)
(* of a playlist without one is its rating.                                 *)
(* Mutant: a missing peak counts as 0. *)
Filled_NoPeak(d, p) == [mmr |-> Or(d[p].mmr, 0), peak |-> Or(d[p].peak, 0)]

Filled(d, p) == [mmr |-> Or(d[p].mmr, 0), peak |-> Or(Or(d[p].peak, d[p].mmr), 0)]

(* The weighted mean of two playlists' scores, by their games.  The code    *)
(* weighs by shares of all games; what it divides by cancels the rest.      *)
Ascendancy(twos, games2s, threes, games3s, config) ==
  LET both == config.current + config.peak
      Score(r) == r.mmr * config.current + r.peak * config.peak
  IN IF games2s + games3s = 0 \/ both = 0 THEN 0
     ELSE Round(Score(twos) * games2s + Score(threes) * games3s, both * (games2s + games3s))

CalculateAscendancy(d, config) ==
  Ascendancy(Filled(d, "twos"), Games(d, "twos"), Filled(d, "threes"), Games(d, "threes"), config)

(* calculateAscendancyMmr: a request's own data, of two seasons' games. *)
CalculateAscendancyMmr(a, config) ==
  Ascendancy([mmr |-> a.mmr2sCurrent, peak |-> a.mmr2sPeak],
             a.games2sCurrSeason + a.games2sPrevSeason,
             [mmr |-> a.mmr3sCurrent, peak |-> a.mmr3sPeak],
             a.games3sCurrSeason + a.games3sPrevSeason, config)

-------------------------------------------------------------------------------
(* FormulaValidationService: a formula uses known variables only, which the *)
(* peaks are not though they are among the data it is evaluated on, and has *)
(* a finite value for the test data.                                        *)
AllowedVariables ==
  {"ones", "twos", "threes", "fours", "onesGames", "twosGames", "threesGames",
   "foursGames", "totalGames"}

ValidateFormula(formula) ==
  formula.variables \subseteq AllowedVariables /\ formula.atTestData # Absent

(* formula.at: what it comes to for the data at hand. *)
CalculateCustomFormula(formula) == IF ValidateFormula(formula) THEN formula.at ELSE Absent

(* calculateMmr; Absent stands for the request refused. *)
CalculateMmr(d, config) ==
  CASE config.algorithm = "WEIGHTED_AVERAGE" -> CalculateWeightedAverage(d, config)
    [] config.algorithm = "PEAK_MMR" -> CalculatePeakMmr(d, config)
    [] config.algorithm = "ASCENDANCY" -> CalculateAscendancy(d, config)
    [] config.algorithm = "CUSTOM" -> CalculateCustomFormula(config.formula)
    [] OTHER -> Absent

(* The controllers take tracker data or ascendancy data (sets of at most    *)
(* one here), not both, and the latter for its algorithm only.              *)
AnswerRequest(trackerData, ascendancyData, config) ==
  CASE trackerData # {} /\ ascendancyData = {} ->
         CalculateMmr(CHOOSE d \in trackerData : TRUE, config)
    [] trackerData = {} /\ ascendancyData # {} /\ config.algorithm = "ASCENDANCY" ->
         CalculateAscendancyMmr(CHOOSE a \in ascendancyData : TRUE, config)
    [] OTHER -> Absent

-------------------------------------------------------------------------------
(* After a scrape a rating is computed for every guild of the user, by its  *)
(* settings: a set of one, or {} where they say nothing of ratings or could *)
(* not be read.  Nothing is stored; a guild whose formula fails is left out.*)
DefaultConfig ==
  [algorithm |-> "ASCENDANCY", current |-> 1, peak |-> 3,
   weights |-> [ones |-> 1, twos |-> 3, threes |-> 5, fours |-> 1],
   minGames |-> [p \in Playlists |-> 50]]

CalculateMmrForGuild(d, settings) ==
  IF settings = {} THEN CalculateMmr(d, DefaultConfig)
  ELSE CalculateMmr(d, CHOOSE config \in settings : TRUE)

CalculateMmrForUser(seasons, settings) ==
  {[g \in {h \in DOMAIN settings : CalculateMmrForGuild(d, settings[h]) # Absent} |->
      CalculateMmrForGuild(d, settings[g])] : d \in ExtractTrackerData(seasons)}

-------------------------------------------------------------------------------
(* A rating lies among what it is made of, whatever is missing and however  *)
(* it is weighted and rounded: a weighted average between the least and the *)
(* greatest rating that counts, a peak rating is the greatest of those with *)
(* the games, an ascendancy rating is between the ratings and peaks of the  *)
(* playlists with games.  That holds of a tracker's rating and of a request *)
(* with the same numbers, its games being of two seasons.                   *)
Between(x, S) == S # {} => Min(S) <= x /\ x <= Max(S)

RequestOf(d) ==
  [mmr2sCurrent |-> Or(d["twos"].mmr, 0), mmr2sPeak |-> Or(d["twos"].peak, 0),
   mmr3sCurrent |-> Or(d["threes"].mmr, 0), mmr3sPeak |-> Or(d["threes"].peak, 0),
   games2sCurrSeason |-> 1, games2sPrevSeason |-> Games(d, "twos"),
   games3sCurrSeason |-> Games(d, "threes"), games3sPrevSeason |-> 0]

RatingWithin(seasons, config) ==
  \A d \in ExtractTrackerData(seasons) :
    LET By(algorithm) == AnswerRequest({d}, {}, [config EXCEPT !.algorithm = algorithm])
        rated == {p \in Playlists : d[p].mmr # Absent /\ Games(d, p) >= config.minGames[p]}
        counting == {p \in rated : config.weights[p] > 0}
        played == {p \in {"twos", "threes"} : Games(d, p) > 0}
        request == RequestOf(d)
        asked == {request.mmr2sCurrent, request.mmr2sPeak}
                   \cup (IF request.games3sCurrSeason = 0 THEN {}
                         ELSE {request.mmr3sCurrent, request.mmr3sPeak})
    IN /\ Between(By("WEIGHTED_AVERAGE"), {d[p].mmr : p \in counting})
       /\ rated # {} => By("PEAK_MMR") = Max({d[p].mmr : p \in rated})
       /\ config.current + config.peak > 0 =>
            /\ Between(By("ASCENDANCY"),
                       UNION {{Or(d[p].mmr, 0), Or(d[p].peak, Or(d[p].mmr, 0))} : p \in played})
            /\ Between(AnswerRequest({}, {request}, [config EXCEPT !.algorithm = "ASCENDANCY"]), asked)

(* A guild's formula that fails, or settings that cannot be read, cost no   *)
(* other guild its rating, and the latter not even their own.               *)
EachGuildRated(seasons, config) ==
  LET settings == [unset |-> {}, own |-> {[config EXCEPT !.algorithm = "CUSTOM"]}]
  IN  \A ratings \in CalculateMmrForUser(seasons, settings), d \in ExtractTrackerData(seasons) :
        /\ "unset" \in DOMAIN ratings
        /\ \A p \in {"twos", "threes"} : Games(d, p) > 0 =>
             Between(ratings["unset"],
                     UNION {{Or(d[q].mmr, 0), Or(d[q].peak, Or(d[q].mmr, 0))} :
                              q \in {"twos", "threes"}})
=============================================================================
