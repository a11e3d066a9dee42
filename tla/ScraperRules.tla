----------------------------- MODULE ScraperRules -----------------------------
(***************************************************************************)
(* TrackerScraperService without its rate limit: what is made of            *)
(* FlareSolverr's answers, and which seasons a scrape asks for and returns. *)
(* A segment is [type, season, playlist, rating, peak, valid]; None stands  *)
(* for null, for undefined and for what is no number.                       *)
(***************************************************************************)
EXTENDS Integers, Sequences, FiniteSets, SequencesExt, FiniteSetsExt

CONSTANT ScraperRetries   \* flaresolverr.retryAttempts

ASSUME ScraperAssumption == ScraperRetries \in Nat

None == -1
Failed == [failed |-> TRUE]

-------------------------------------------------------------------------------
(* makeProxyRequest: whatever error comes is tried again, and the last one  *)
(* ends it.  answers: what the tries get.                                   *)
MakeProxyRequest(answers) ==
  answers[Min({i \in DOMAIN answers : i > ScraperRetries \/ answers[i].kind = "answer"})]

(* parseApiResponse, behind validateFlareSolverrResponse: the envelope must *)
(* say ok and hold a page with JSON in it; without an envelope the data are *)
(* taken as they come.  Either way both arrays have to be there; a missing  *)
(* metadata record leaves the current season at 0.                          *)
ParseApiResponse(answer) ==
  IF \/ answer.kind # "answer"
     \/ answer.status \notin {"ok", "no status"}
     \/ answer.page = "no JSON"
     \/ ~answer.arrays
  THEN Failed
  ELSE [failed |-> FALSE, segments |-> answer.segments, available |-> answer.available,
        current |-> IF answer.current = None THEN 0 ELSE answer.current]

ScrapeTrackerData(answers) == ParseApiResponse(MakeProxyRequest(answers))

-------------------------------------------------------------------------------
Fields == {"playlist1v1", "playlist2v2", "playlist3v3", "playlist4v4"}

(* PLAYLIST_ID_MAP: two numbers for each of the four. *)
IdsOf(field) ==
  CASE field = "playlist1v1" -> {1, 10}
    [] field = "playlist2v2" -> {2, 11}
    [] field = "playlist3v3" -> {3, 13}
    [] field = "playlist4v4" -> {8, 61}

(* extractPlaylistData: nothing of a segment whose stats have another form. *)
ExtractPlaylistData(segment, allTimePeak) ==
  [rating |-> segment.rating, peakRating |-> segment.peak, allTimePeakRating |-> allTimePeak]

(* parseSegments: of several valid segments of one playlist the last stays; *)
(* the all-time peak is the greatest of all the peak-rating segments, of    *)
(* whatever season.                                                         *)
ParseSegments(segments, season) ==
  LET Own(f) == {i \in DOMAIN segments :
                   /\ segments[i].type = "playlist" /\ segments[i].season = season
                   /\ segments[i].playlist \in IdsOf(f) /\ segments[i].valid}
      Peaks(f) == {segments[i].peak : i \in {j \in DOMAIN segments :
                     /\ segments[j].type = "peak-rating" /\ segments[j].playlist \in IdsOf(f)
                     /\ segments[j].peak # None}}
      Peak(f) == IF Peaks(f) = {} THEN None ELSE Max(Peaks(f))
  IN [seasonNumber |-> season,
      playlists |-> [f \in Fields |->
                       IF Own(f) = {} THEN Failed
                       ELSE ExtractPlaylistData(segments[Max(Own(f))], Peak(f))]]

-------------------------------------------------------------------------------
(* The seasons the profile lists are an array: a season may be listed more  *)
(* than once.  An entry is a season with its place in it, from 1 on.        *)
Entries(base) == {<<base.available[i], i>> : i \in DOMAIN base.available}
Current(base) == <<base.current, 0>>   \* read off the profile's own page

(* The sorts: from the newest down, and what is equal stays as it was.      *)
Precedes(a, b) == a[1] > b[1] \/ (a[1] = b[1] /\ a[2] < b[2])

Newest(entries) ==
  CHOOSE list \in [1..Cardinality(entries) -> entries] :
    \A i, j \in DOMAIN list : i < j => Precedes(list[i], list[j])

FirstOf(list, n) == SubSeq(list, 1, Min({n, Len(list)}))

(* Mutant: the current season is left out after the list is cut. *)
SeasonsToScrape_CutFirst(base, maxSeasons) ==
  SelectSeq(FirstOf(Newest(Entries(base)), maxSeasons), LAMBDA e : e[1] # base.current)

(* The first maxSeasons of the entries that are not the current season.     *)
SeasonsToScrape(base, maxSeasons) ==
  FirstOf(Newest({e \in Entries(base) : e[1] # base.current}), maxSeasons)

(* scrapeSeasons.  base: the profile's own page; answers[i]: what the tries *)
(* for its i-th entry get.  An entry that cannot be had is left out;        *)
(* without the profile's page there are none at all.                        *)
ScrapeSeasons(base, answers, maxSeasons) ==
  LET page == [i \in DOMAIN answers |-> ScrapeTrackerData(answers[i])]
      had == {e \in ToSet(SeasonsToScrape(base, maxSeasons)) : ~page[e[2]].failed}
      returned == had \cup (IF base.current # 0 THEN {Current(base)} ELSE {})
      parsed(e) == ParseSegments(IF e[2] = 0 THEN base.segments ELSE page[e[2]].segments, e[1])
  IN IF base.available = <<>> THEN <<ParseSegments(base.segments, base.current)>>
     ELSE LET order == Newest(returned) IN [i \in DOMAIN order |-> parsed(order[i])]
-------------------------------------------------------------------------------
(* What a scrape returns is what it was to return, in order of season, the  *)
(* newest first: the current season once, if the profile names one; of the  *)
(* other entries of its list, a season listed twice being two of them, the  *)
(* maxSeasons most recent, those among them that could be had, and nothing  *)
(* else; and under each season ratings of that season only, from a page     *)
(* that was asked for it.                                                   *)
SeasonsAsAsked(base, answers, maxSeasons) ==
  LET result == ScrapeSeasons(base, answers, maxSeasons)
      past == {e \in Entries(base) : e[1] # base.current}
      due == {e \in past : /\ Cardinality({d \in past : Precedes(d, e)}) < maxSeasons
                           /\ ~ScrapeTrackerData(answers[e[2]]).failed}
      owed == due \cup (IF base.current = 0 THEN {} ELSE {Current(base)})
      Stated(e) == IF e[2] = 0 THEN base.segments ELSE ScrapeTrackerData(answers[e[2]]).segments
  IN base.available # <<>> =>
       /\ \A i, j \in DOMAIN result :
            i < j => result[i].seasonNumber >= result[j].seasonNumber
       /\ {result[i].seasonNumber : i \in DOMAIN result} = {e[1] : e \in owed}
       /\ DOMAIN result = 1..Cardinality(owed)
       /\ \A i, j \in DOMAIN result :
            {result[i].seasonNumber, result[j].seasonNumber} = {base.current} => i = j
       /\ \A i \in DOMAIN result, f \in Fields :
            LET had == result[i].playlists[f]
            IN had # Failed =>
                 \E e \in owed : /\ e[1] = result[i].seasonNumber
                                 /\ \E segment \in ToSet(Stated(e)) :
                                      segment.season = e[1] /\ segment.rating = had.rating
=============================================================================
