# league-api in TLA+

Verification development for `league-api`, the NestJS backend of a Rocket League
league platform on Discord (TypeScript, Prisma over PostgreSQL, BullMQ over
Redis). The specifications describe the services that keep state across
several awaited calls, and the pure rules that decide something; TLC checks them
on small instances and TLAPS proves the most important invariants for every instance.

Contents: [the system](#1-the-system) · [plan](#2-plan) ·
[modules](#3-modules-and-the-code) · [runs](#4-what-is-checked) ·
[bounds](#5-bounds) · [fairness](#6-fairness) · [proofs](#7-proofs) ·
[not modelled](#8-what-is-not-modelled) ·
[divergences](#9-where-the-code-and-its-words-part)

## 1. The system

One process, the container `league_api` of `compose.yml`, runs HTTP
controllers, cron jobs, BullMQ processors and the outbox poller in one Node
event loop. PostgreSQL holds every row, Redis the queues; caches are in the
process's memory. There are no other locks: two requests interleave at every `await`,
transactions run READ COMMITTED, and most checks are made on rows read in an earlier
statement and written back by id. During a rolling restart, or if it is ever scaled
out, two processes overlap; the constants `Workers`, `Processors` and `Processes` say
how many there are.

| component (under `src/src/`) | state it keeps | operations | interacts with | what is hard, and what makes it correct |
|---|---|---|---|---|
| **Tracker scraping** `trackers/queues`, `trackers/repositories` | rows of `trackers` (status, lastScrapedAt, scrapingAttempts), `tracker_seasons`, `tracker_scraping_logs`; BullMQ jobs | `TrackerScrapingProcessor.process`: load, open log, IN_PROGRESS, scrape, store, COMPLETED or FAILED | queue, scraper (HTTP), rows shared with every enqueuer | crash between two steps, job retried or found stalled while the first run goes on, two jobs of one tracker, rows deleted under a run. No tracker may stay IN_PROGRESS with nobody at it; history stored once is kept; log counts add up |
| **Scraper** `tracker-scraper.service.ts` | a request counter and the time of the last request | rate limit, fetch with retries, choice of seasons | FlareSolverr | calls that wait for the limit together; failures of single seasons |
| **Tracker enqueueing** `trackers/services` | none of its own: `trackers` rows and jobs | register, admin refresh, refresh cron, pending sweep, guild sweep, batch add; guards over guild settings and memberships | queue, rows, `settings`, `guild_members` | guard fails open, PENDING is written over any status, batches fail in part. A due tracker is tried in the end; nothing learned is lost |
| **Tracker registration** `tracker-processing.service.ts`, `tracker-validation.service.ts`, `tracker-url-converter.service.ts` | `trackers` rows per user and URL | register several URLs, add one | enqueueing, users | the limit counted, and URLs checked, before the writes; several URLs of which some fail |
| **Tracker messages** `tracker-notification.service.ts`, `discord-message.service.ts` | a circuit breaker in memory | tell a user how his scrape went | Discord | lost answers, retries and a fall-back that may tell twice |
| **Scheduled processing** `scheduled-tracker-processing.service.ts` | `scheduled_tracker_processing` rows, timers in memory | create, cancel, fire, load at start, stop at shutdown | enqueueing (guild sweep) | restart between timer and row, cancellation racing the callback, cron without a year. A schedule runs once, on time; the timers agree with the rows |
| **Outbox** `infrastructure/outbox` | `outbox` rows, one batch in memory | create, poll, claim, dispatch, complete, retry | dispatcher | crash after the claim, retries, a failing head of the batch. An event is handled or marked failed, once |
| **League membership** `league-members` | `league_members` rows, ratings, the player's cooldown | join, reactivate, leave, approve, reject, update | players, league settings, ratings | checks outside the transaction that writes. Limits, exclusivity, cooldown, approval, terminal statuses |
| **Matches** `matches`, `player-stats`, `player-ratings` | match status, participants, tallies, ratings | complete, add participant, edit status | stats, ratings, membership (which resets ratings) | two completions at once, read-then-write ratings, lock order. Stats and ratings agree; a match counts once |
| **Organizations, teams** `organizations`, `teams` | organizations, their members and teams | create, transfer, assign, add, promote, remove | league settings | last general manager leaving, capacity counted before the write |
| **Rosters** `team-members` | members of teams | add, update, remove | teams, players | no unique index; four calls that nothing holds together |
| **Leagues** `leagues/leagues.service.ts` | league status | create, edit, change status, remove | settings | a transition checked against an old status |
| **Settings** `leagues/league-settings.service.ts`, `guilds/guild-settings.service.ts`, `infrastructure/settings` | configuration rows, caches | read with migration, update, reset | guards, membership, organizations, activity log | cache filled with an old read after an invalidation, lost updates, partial validation |
| **Guilds, users, members, players** `guilds`, `guild-members`, `user-guilds`, `users`, `players` | their rows, with cascades | sync, join/leave events, access, creation on demand, status | settings, enqueue guards, authorization | a sync that replaces all members while others come and go |
| **Auth and tokens** `auth` | encrypted Discord tokens of a user | sign in, refresh, revoke | Discord | concurrent refresh of a rotating token, lost answers |
| **Permissions** `permissions`, `guilds/services`, guards | none | decide | settings, rows, Discord | failures of what a decision rests on |
| **Discord reads** `discord/discord-bot.service.ts` | caches | does a role, channel or member exist | Discord | retries and stale entries |
| **MMR** `mmr-calculation`, `formula-validation` | none | calculate, validate a formula | settings | boundaries, rounding |
| **Lists** every repository, audit and activity logs | none | page through rows | — | rows that come and go between pages, equal keys, caps |
| **Tournaments, profile, visibility, controllers, config, health** | rows written in one statement, or none | create-read-update-delete, I/O | — | nothing that outlives a statement |

`PROJECT.json` lists the same parts under "components", and under "hazards" the
lines where they can go wrong.

## 2. Plan

The modules were written in the order of importance, and all of the plan is there
(a module `…Proofs` holds the theorems about the module it extends):

1. **Tracker pipeline**: `TrackerStore`, `ScrapingWorker`, `TrackerEnqueue`, composed by `TrackerPipeline`; proofs in `TrackerPipelineProofs`.
2. **Outbox**: abstract `OutboxDelivery`, implemented by `OutboxProcessor`; proofs, also of the refinement, in `OutboxProofs`.
3. **Scheduled processing**: `ScheduledProcessing`; proofs in `ScheduledProofs`.
4. **League membership**: `LeagueMembership`, and `JoinRules` for the refusals it leaves open; proofs in `LeagueMembershipProofs`.
5. **Matches**: `MatchCompletion`, with the resets that membership writes; proofs in `MatchCompletionProofs`.
6. **Organizations, teams, rosters**: `Organizations`, `TeamRoster`; proofs in `OrganizationsProofs` and `ServicesProofs`.
7. **Leagues and settings**: `Leagues`, `LeagueConfig`/`LeagueSettings`, `GuildConfig`/`GuildSettings`; proofs in `ServicesProofs`.
8. **Registration**: `TrackerRegistration`, `TrackerUrls`; **messages**: `TrackerMessages`; **scraper**: `ScrapeRate`, `ScraperRules`; proofs in `ServicesProofs` and `RulesProofs`.
9. **Directory** of a guild: `Directory`; **tokens**: `TokenLifecycle`; **reads of Discord**: `DiscordReads`; proofs in `ServicesProofs`.
10. Rules without state: `AccessControl`, `MmrRules`, `Listings`; proofs in `RulesProofs`.

Every safety and action property of every passing run is a theorem by now; what the runs check
and no theorem states is liveness (section 7). What is left to write is about the model, not the proofs.
A composition of `ScheduledProcessing` with `TrackerPipeline` would join them at
the guild sweep, whose result neither of the two reads.

## 3. Modules and the code

Every module with state models one awaited call per step, since anything else may run at an
`await`; statements of one transaction that no other transaction can see or
block are one step. Operators keep the names of the methods they stand for
where they can; `PROJECT.json` "map" names their lines. Operators commented
"Mutant" are variants of the definition after them with a plausible bug: the
specifications never use them; they serve to see that each property notices.

- **TrackerStore** — the `trackers` row (existence, status, how old
  `lastScrapedAt` is, active, soft-deleted, attempts), the stored seasons, and
  the queue: slots for jobs that wait or are active, with BullMQ's attempt and
  stall counts. Rows expire, are edited, soft-deleted, and deleted with their user.
  External: BullMQ.
- **ScrapingWorker** — `process` in the steps load, openLog, mark, readSeasons,
  scrape, bulk, fallback, complete, closeLog, and the catch block failRead,
  failWrite, failLog; each may fail as the call may. BullMQ hands out jobs
  (`Pick`), retries a job whose `process` throws (`Throw`: only from the catch
  block; a failed scrape *returns*), and re-runs a job whose lock expired
  (`Stall`), also while the first run goes on. `Crash` ends a process between any two steps.
- **TrackerEnqueue** — requests (`Register`, `Guard`, `Reject`, `EnqueueNew`;
  `Refresh`, `RefreshGuard`, `RefreshMark`, `RefreshAdd`) and sweeps (`Select`,
  `Filter`, `Add`, one job at a time, of which each may fail). Guards fail open
  where the code's catch blocks do. Guild settings and memberships change at any time.
- **TrackerPipeline** — the composition: the three share `tracker` and `job`
  only; properties and fairness are stated here.
- **OutboxDelivery** — the promise: an event recorded is handled or marked
  failed, and that is final. **OutboxProcessor** — poll, `updateStatus` as a check
  (`Claim`, `Done`, `Retry`) and a write (`ClaimWrite`, `DoneWrite`, `RetryWrite`),
  dispatch, crash. `Delivers` maps `status` to the outcome. No code of the
  repository calls `createEvent` yet: `Create` is the environment.
- **ScheduledProcessing** — row, timers (`armed`), callbacks (`stage`),
  cancellations in hand, time in instants of a year. A creation makes the row (`Create`) and
  then the timer (`Arm`), a cancellation reads the row, stops the timer and writes the row (`Cancel`,
  `StopTimer`, `CancelWrite`), and anything may come between. A timer fires in its instant (`Tick`
  waits for it); `held` remembers the schedules cancelled while nothing else was under way.
- **LeagueMembership** — each request is a record of what it has read so far;
  `Join`…`Insert` is `joinLeague` with `validateJoin` in its order. Checks that
  depend on rows this module does not have are the nondeterministic `Refuse`, and
  **JoinRules** says what they are: guild membership, player status, the tracker that is
  chosen (`FindBest`) and its skill, the registration window. League settings are
  constants; `delete` has no caller and is left out. `PlayersDeleted` and `LeagueDeleted` are what
  the foreign keys do (`schema.prisma:452,484,485`) when a guild sync, the removal of a member or user, or the
  deletion of a league takes rows along, and the requests that hold them.
- **MatchCompletion** — `Complete`, `ReadParticipants`, `Begin` (locks the
  match), `Count` (locks the stats row, then reads the rating), `Commit`.
  What the transaction writes becomes visible at `Commit`. `Rate` is what
  `initializeRatingForMember` and `approveMember` write over a rating, whenever they do.
- **Organizations** — one league. A request is a record of what it has read and
  `Passes` says what its next step asks (the validation services, row by row);
  what refuses goes to `Refuse`, a failed call to `Fail`, and both to `Abandon`,
  where the code's catch block is. `holds` in a request, `managed`, `slipped` and
  `bare` are histories the properties are stated with. The requirement is what `getSettings` `answers`: what is
  stored, or what a cache, or a reader about to fill one, has had since before (`Refresh` ends that).
  `UpdateSettings` merges into such an answer, and `Persist` stores the whole. `PlayersDeleted` takes the rows of players
  (`schema.prisma:771`) as a guild sync or the removal of a member or user does, and what requests hold of them.
- **TeamRoster** — `addMember` as reading the team, counting, looking the player up
  (`FindByPlayerAndLeague` may find any of his active rows, since the query takes the
  first) and creating. `excused` and `twofold` remember what may break a limit.
- **Leagues** — `Update` writes any status, `UpdateStatus` one that `Allowed` the one it read.
- **LeagueConfig**, **GuildConfig** — merge, defaults, migration and validation as
  operators on configurations with optional values; of fields the code treats alike one
  stands for its kind. **LeagueSettings**, **GuildSettings** — look-up in the cache of a process,
  load, create or migrate the row, fill the cache; an update merges, validates, stores and
  clears the cache of its own process. `doubtful` are processes that may remember what was
  written over. For a guild, `told` replays the activity log.
- **Directory** — guild, users, members and players of one guild with the cascades of
  `schema.prisma`. `Sync`, `Upsert`, `Delete` and `Deleted`, `Insert`, `Commit` are the statements of the one
  transaction; its locks make others wait (`Free`, `FreeUser`). The delete sees the rows committed as it begins
  (READ COMMITTED) and deletes those of them that are still there when it need not wait any more (`Doomed`).
- **TrackerRegistration** — `Count`, `Validate`, `Create` one URL after the other. **TrackerUrls** — what
  the two validations let pass and what the scraper's address becomes.
- **TrackerMessages** — each call of Discord is a step that may succeed, fail, or fail though
  the message arrived. **DiscordReads** — cache look-up, call, retries and the answer, in ticks.
- **ScrapeRate** — `Enter` up to the first wait, `OpenWindow`, `EndDelay`; **ScraperRules** — segments to seasons, and which seasons.
- **TokenLifecycle** — pairs of tokens numbered by issue; Discord may rotate a pair or not;
  refresh, sign-in and logout in steps, with retries and lost answers.
- **AccessControl** — each guard and service as a function of a world in which any set of calls may throw.
- **MmrRules** — extraction, the three built-in algorithms, custom formulas as functions, and who is rated.
- **Listings** — every list as filter, order and window; a walk asks page after page while the table changes.

**MC modules.** `MCTrackerPipeline`, `MCOutboxProcessor`, `MCScheduledProcessing` and
`MCOrganizations` give structured constants their values, and symmetry.
`MCLeagueMembership` checks three instances, `MCServices` (which extends `LeagueSettings` and has the
others as instances) ten services, each *on its own*:
a variable (`world`, `service`) says whose behaviour it is and never changes, so
every reachable state of every service is reached as if it were alone. Services that
have a variable of one name (`request`, `user`, `now`, `row`, …) share one here; no two of them
ever run in one behaviour, so nothing is exchanged. What one service takes from another
is in its own module, as steps that may happen at any time: settings that change
(`TrackerEnqueue`), resets of a rating (`MatchCompletion`), joins and syncs that write the
settings row (`GuildSettings`), cascades (`TeamRoster`, `TrackerRegistration`). Sorts
of different services share model values (`x1` is a process of one and a user of another),
which one permutation exchanges in all of them; that is sound since a state has values of
one service only. `MCRules` puts every module without state to one input at a time.

## 4. What is checked

| run | properties | distinct states | shows |
|---|---|---|---|
| `pipeline_overlap` | HistoryKept OutcomesAddUp NothingUnlearned | 384,601 | two processes on two jobs of one tracker, requests and deletions in between, nothing failing: what they store, count and write stays consistent |
| `pipeline_faults` | InProgressOwned FaultsContained | 708,414 | two faults anywhere (crash, lost lock, failed call): one strands no tracker in IN_PROGRESS; two only if the queue gave its job up; a log is left open only by a fault |
| `pipeline_live` | EverySettles DueTried | 123,205 | every way to enqueue, one fault anywhere: an IN_PROGRESS tracker settles, and a due one is tried |
| `outbox_single` | OncePerFault InOrder Delivers HandledInTheEnd | 13,357 | three failed calls and a crash: final stays final, order is kept, only a failed call repeats a dispatch; one failed call loses nothing |
| `membership` | JoinsExceedByRaceOnly StatusByRule RowsAgree CompletedIsCounted | 812,375 | one request over two players and two leagues; two requests for three players and one place; two completions of two matches with ratings being reset |
| `schedule_single` | TimersAgree RunsOnceInTime SettlesInTheEnd | 36,803 | two failed calls, two crashes or shutdowns, two years |
| `org_members` | ManagerKept OrganizationsByRaceOnly | 265,922 | two requests over the members: the last manager leaves only by a write whose check did not hold or with his player, the limit is exceeded by one at most |
| `org_teams` | CleanedUp TeamsByRaceOnly RequiredMeansAssigned | 393,173 | two requests over four teams, one failed call: placements, assignments, deletions and two updates of the requirement racing, on settings a cache may have from before |
| `rules` | Closed Due Within AsAsked Converts Sees | 286,247 | every bounded input of the modules without state: nobody gets in by a failure, nor without a reason; ratings stay within what they are made of; a scrape returns what was asked for; an accepted URL can be asked for; a walk misses and repeats rows only for the reasons named |
| `services` | StoredValid StaleByOverlapOnly UpdatesKept GuildSettingsExplained MembersAreSynced LimitsByRaceOnly ToldWithCare TrueRecently LockedOutByLossOnly SpacedByOverlapOnly ReopenedByEditOrRace | 934,057 | ten services with two requests in hand at once each: what can go wrong goes wrong only by the overlap or the loss that the property names |
| `logout` (violation) | LogoutClears | — | whoever logs out keeps his Discord tokens in the database |
| `scraper_rate` (violation) | RateKept | — | calls that wait for the rate limit together go out together |

Deadlock is checked in the membership and organization runs, where a step is always possible.
The others may stop: every tracker gone, every event settled, the horizon
reached, the counters at their bound, the one input looked at.

Many properties are conditional because the code's guarantee is. Those named *ByRaceOnly*,
*ByOverlapOnly*, *ByLossOnly*, *ByEditOrRace* say what overlapping requests, lost answers or
unchecked edits can do at most: with one request at a time they are the plain promises (one
team above the limit for `TeamsByRaceOnly`, whose run has a limit of one, where a batch
and a single team weigh the same). Their conditions are histories (`waived`, `doubtful`,
`overlapped`, `later`, `gone`, `raced`, `contested`, `excused`, `twofold`, `lost`, `unanswered`, `crowd`,
`forgotten`), which no guard of a step reads. `OneFaultStrandsNothing` (in `FaultsContained`) and `HandledInTheEnd`
say what one fault cannot do: two can, and TLC finds both when the condition is dropped.

What the composed properties stand for: `OutcomesAddUp` is `CountsAddUp` and `AttemptsAgree`;
`TimersAgree` is `PendingArmed` and `CancelDisarms`; `RunsOnceInTime` is `RunsOnce` and `NotEarly`;
`JoinsExceedByRaceOnly` is `OverfullByRaceOnly` and `LeaguesByRaceOnly`; `StatusByRule` is `KeepsTerminal` and
`AsksApproval`; `LimitsByRaceOnly` is `LimitByRaceOnly`, `StoppedByRaceOnly` and `RosterByRaceOrEdit`;
`ToldWithCare` is `ToldTwiceByLossOnly` and `OpenForCause`; `GuildSettingsExplained` is `LogTellsRow` and
`AnswersBehindByOverlapOnly`. `FaultsContained` is `OneFaultStrandsNothing` and `OrphanLogNeedsFault`.

Every module with state has a type invariant, `TypeOK`, and each is a theorem; those of the services
are collected in `MCServices!TypesOK`. They tell nothing a reader would doubt and are no properties of the runs.

## 5. Bounds

- `FlagsKept` (constraint of the pipeline runs): no tracker is deactivated or soft-deleted
  and then gone on with; only sweeps read the two flags. `GuildKept` (of `pipeline_live`): the owner
  stays in the guild and the guild keeps its trackers processed, without which no sweep is due.
  `GoneLeft` (of `pipeline_faults`): a tracker that is gone is not gone on with after a fault, since it is gone for good and
  nothing but its logs is left, which the fault excuses. The theorems have none of these.
- `Latest` = 2 and `MaxHistory` = 1 (3 in the code): a first scrape differs from a
  later one by the season before the current one; more of them add nothing to the
  comparisons. The runs about faults have one season.
- `Jobs`: slots for jobs that exist at once; two of one tracker are what the
  overlap needs. `MaxTries` = 2 (3 in the code), `MaxStalls` = 1 (BullMQ's
  default): one retry, one re-run and both limits reached. `RetryAssumption` says that there is a
  retry and a re-run at all, on which `FaultsContained` rests.
- `AttemptsCap` = 1: properties ask whether attempts are zero. `MaxFaults`: two
  where "one fault cannot, two can" is the question.
- `DispatchedCap`, `MaxCounts`: histories that only count; `MaxCounts` = 3 is one more than
  two completions can count. `BatchLimit` = 2 (10 in the code) of three events, so that a
  batch is full and one event waits. `MaxRetries` of the outbox as in the code.
- `Year` = 3, `Ahead` = 2, `Horizon` = 6: a schedule may be made in one year for
  the next, and every timer's day comes again.
- Two players for one place, three with two requests; two leagues, one of which
  asks for approval and the other has a cooldown, both exclusive. Two matches, two players, two completions: every
  lock order, and a match counted by both. `EditsStatus` is FALSE there, since `CompletedIsCounted` speaks of
  nothing else; `RowsAgree` is proved for both values.
- `org_members` has three organizations for one place: one more than two
  racing creations can make. Its one team is there only while the members stay as they are
  (`MembersStay`), for the transfers by a manager. `org_teams` has no players, so that organizations come
  from the settings alone, and four teams for one place: one more than the check,
  the off-by-one and the race together let in. `FewDeleted` (constraint of both): one row is deleted at
  a time and gone on with while a request refers to it or a team slipped through with it; after that it is but an id that was used.
  `FewTeams` (of `org_teams`): once the requirement has been stored or a call has failed, two teams stay unused, since it takes four
  only to overfill an organization. `SettingsStay` (of `org_members`): nobody updates the settings, which no member is asked
  about. The theorems do without these.
- Settings: two processes for a league (their caches differ), one for a guild, whose service has
  the same cache; two or three patches, which are valid alone but not together, or empty of effect,
  or turn organizations on; one row of an older version.
- `directory`: two users, two requests, of which each may be a sync; the bot asks for players
  that are ACTIVE, since no property looks at their status (the theorem has any). `GuildStays` (constraint): a removed guild is not gone on with; its rows all stay, and the
  removal itself is a step. `PlayersAside` (constraint): while two syncs are in hand there are no players, who matter to neither.
- `MaxTrackers` = 2 (4 in the code) of four URLs, of which one is not accepted and one is soft-deleted at times: a limit
  that one request reaches and two exceed. One owner, since no check looks at another's trackers but by URL.
- `MaxPairs` = 3, `MaxRetries` = 1 (3 in the code): a pair, its successor and the successor's.
- `Limit` = 2 (60 in the code), `Window` = 4 and `MaxTime` = 7 ticks: two windows and the wait between them.
- `Threshold` = 5 as in the code, `Timeout` = 2 ticks: the circuit opens, half-opens and closes.
- `Ttl` = 1, `CallTimeout` = 1, `MaxReadTime` = 4: an entry expires and is renewed during a call.
- `Limits` = {1, 2}, `MaxRows` = 2: a team that is full with one, and one row more than that.
- `rules`: two roles, one retry, at most two calls that throw; two trackers with two seasons; two
  seasons of four playlists; profiles that list up to three seasons, a season twice among them, and name a current one or none; pages of up to `MaxLimit` = 2 rows (100 in the code), three rows and one change
  between two pages. A walk's list is chosen in a step of its own, which only spreads the work.

## 6. Fairness

`TrackerPipeline!Fairness`: a running execution goes on (every call it awaits
answers or times out); BullMQ hands out a waiting job in the end (strong: a
worker may be busy again and again) and looks for stalled jobs on a timer, fair
only for jobs whose process is gone; the refresh cron runs again and again
(strong: a sweep may be in hand when it fires), and its filter and each of its
adds go through. Requests, crashes, faults, deletions are never fair.
`OutboxProcessor!FairSpec`: the interval fires, and a call answers or fails.
`ScheduledProcessing!FairSpec`: time passes, callbacks and cancellations go on,
a process that is down is started (`restart: unless-stopped`). The other
modules have no liveness claims: a request that is lost is the client's to repeat.

## 7. Proofs

The theorems hold for every value of the constants their assumptions admit; none has the
bounds and constraints of the runs. Each is an invariant that is inductive, of
which the property is a part or a consequence; every `…Proofs` module states
one lemma per action (or per group of actions that move alike) and joins them at its end.

`TrackerPipelineProofs` (assumption `StoreAssumption`): every safety and action property of the pipeline.

- `TypeCorrect`: `Spec => []TypeOK`. The counters of an execution are bounded by
  `Latest` only because they never count more than was fetched, so the induction
  carries `Placed` (whoever acts on a tracker has one; a process that owns a
  job's lock works on its tracker) and `Counted` (at every step, scraped + failed
  + left to do = fetched).
- `InProgressAlwaysOwned`: `Spec => []InProgressOwned`. The invariant is
  inductive relative to `Placed`: IN_PROGRESS is written by a process that is
  then running; a run that ends leaves its job to be run again, or has written a
  final status, or puts the tracker in `abandoned`; whoever writes a status takes
  it out again.
- `NeverUnlearned`: `Spec => NothingUnlearned`, from what each of the steps may do
  to a row (`RowStep`) and to the stored seasons (`SeasonStep`).
- `HistoryIsKept`: `Spec => []HistoryKept`, and `OutcomesHonest`: `Spec => []OutcomesAddUp`. Neither is
  inductive: an execution goes by what it read before it failed, waited or was overtaken. `Honest`
  says that what it has counted as stored is in the table (`StoredIn`), and that it asks for
  less than everything only when the rest is (`KeptIn`), also after another execution or a
  deletion; `RowsOK` relates status, attempts and `scraped` of a row.
- `FaultsAreContained`: `Spec => []FaultsContained`. Every try and every stall of a job is
  paid for with a fault (`Charged`), a lock is lost only by one (`Held`), a run that ends well
  closes its log (`Closed`), so that with one fault there is a try left for what is abandoned, unless
  the row is gone (`Spared`). This alone needs `RetryAssumption`: were a stalled job never run again, one crash would strand a tracker.

`MatchCompletionProofs` (`CompletionAssumption`): every property of the matches.

- `TypeCorrect`, and `RowsNeverDisagree`: `Spec => []RowsAgree`, also when
  statuses are edited and ratings reset at will. Inductive with `Exclusive` (two transactions never
  hold the stats row of one player) and `Fresh` (what a transaction read of a
  rating whose stats row it holds is still what the row says, unless it was reset, and in
  any case no more than the stats count): the lock on the
  stats row, which `completeMatch` takes before it reads the rating, is what
  serializes the rating. A reset takes no such lock, which costs counts and never adds any.
- `CompletedMeansCounted`: `Spec => []CompletedIsCounted`. Inductive with `Standing`: the counts of a
  match and the completions in hand for it are together no more than there are requests.

`OrganizationsProofs` (`OrganizationsAssumption`): every property of the organizations.

- `TypeCorrect`: `Spec => []TypeOK`. A request about a member holds the id of a
  row that is there and is of the organization it was read in (`Carries`): rows go
  only by the cascade of a deletion, of an organization or of players, or by an `addMember` over a REMOVED one, and
  then what holds their id fails.
- `RaceBound`: `Spec => []OrganizationsByRaceOnly`. Inductive with the requests
  that have found room and not created yet counted in: the organizations and those
  requests together stay below the limit plus the requests.
- `LastManagerStays`: `Spec => []ManagerKept`. Inductive with `Covered`: whoever
  is about to write what it has counted, and whose count still holds, leaves
  another manager behind. A manager who leaves makes the counts of all others in
  hand hold no more, which is what a lock on the managers would make impossible; so does one who goes with his player.
- `RequirementHolds`: `Spec => []RequiredMeansAssigned`. `Duty` says what a request owes at its step:
  an assignment still has all the teams without organization in hand, but for those that slipped by. An update that asked
  nothing since it found the requirement on owes nothing: if it brings it back, the teams slip there.
- `NoOrphans`: `Spec => []CleanedUp`. `Made`: a request that made its organization moves teams to it
  or takes it back; `Bare`: until then it has neither teams nor managers, so no step of the way back can
  be refused, and only a failed call leaves it behind.
- `TeamBound`: `Spec => []TeamsByRaceOnly`. A request that has found room takes up to `MaxTeams` teams
  (`Sized`); the teams, and that for every request with room, fit (`Fits`).

`OutboxProofs` (`OutboxAssumption`; all but the types for one processor, `Processors = {p}`):

- `TypeCorrect`; `HandedOverOncePerFault`: `Spec => []OncePerFault`; `CompletedInOrder`: `Spec => []InOrder`.
  `InHand` says what the row of the event in hand may be at every step, a failed write having
  reached it or not; `HandedOver` counts dispatches against failed calls; `Recorded` and `Orderly`
  say in which order events come and leave. The poll takes the oldest, which needs that a
  finite set of numbers has a least one (`LeastExists`).
- `ImplementsDelivery`: `Spec => Delivers`, the refinement of `OutboxDelivery`: every step is a step of
  an event or a stutter, and what is final stays. With two processors that overlap it does not hold:
  a late write of the one takes back what the other completed.

`ScheduledProofs` (`ScheduledAssumption`): `TypeCorrect`, `AgreeAlways`: `Spec => []TimersAgree`, `OnceAndInTime`:
`Spec => []RunsOnceInTime`, for any number of processes; what the properties say of a process that is
`Alone` is proved under that condition. The induction carries `InTime` (what
has begun has reached its time), `Once` (a callback comes before the only run, or has but to disarm its timer) and
`Disarmed` (a cancellation that is not late leaves nothing behind that could run; `HeldKept`: only a schedule
that is not held can take a step). Attempting the proof showed that `PendingArmed` needs `Ahead < Year`: the
timers know no year, so a schedule further ahead runs, and is disarmed, in the wrong one.

`LeagueMembershipProofs` (`MembershipAssumption`): `TypeCorrect`, `ExceededByRaceOnly`:
`Spec => []JoinsExceedByRaceOnly`, `StatusKept`: `Spec => StatusByRule`. What is deleted (`GoneOK`) takes nobody in and leaves no request with a row that is gone. `Room` counts those in by the check together with
the requests that have passed it, `OneLeague` does so for the exclusive leagues of a player; `ReadOK` keeps
what a single request has read. The run has two instances of the module, each in a world of its own (`MCLeagueMembership`):
`WorldsExceedByRaceOnly` and `WorldsKeepStatus`, at the end of `MatchCompletionProofs`, carry the two theorems
over to it: each world is one instance of the proofs (`SingleSame`, `RaceSame`).

`ServicesProofs` (`ServicesAssumption`): every property of `services`, and that tokens are stored in pairs (`OnePair`). The league settings
come first, with theorems of their own specification; the others are proved as instances, and `ServicesInv` says that
the service in turn has its invariant: a step is a step of that service (`StepOfOne`), so ten separate
inductions make one. `SettingsAmongServices` carries the theorems about the league settings over to the run.

- `StoredValid`, `StaleByOverlapOnly`, `UpdatesKept` (league settings): `Contents` says what a row, a cache and a
  request may hold (a validated merge, the defaults, or a row of an older version or its migration); `Fresh`, that a
  process which is not in doubt answers, and merges into, what is stored. Lemmas state what `Merge`, `Migrate`
  and `Seen` return and preserve.
- `GuildSettingsExplained`: `GuildHeld` for what a request holds, and `GuildFresh` for what it is made of. The
  latter is needed while either of the two conditions of the property holds (`~overlapped \/ ~unsure`): the log depends on what
  an update merged into, the cache on what a reader holds.
- `MembersAreSynced`: `DirectoryHeld`: from the beginning of its delete to its commit a sync knows of every member that it has seen or
  that came since; `DirectoryApart`: of two whole syncs one waits for the row of the guild; and the users of what it has
  inserted are there, for its locks make whoever would remove them wait.
- `LimitsByRaceOnly`: `RegLimit` and `RosterOrderly`: while nobody has raced for a user, or is excused for a team, at most one request
  is past the count, and there is room for all it has left (`RegRoom`). `RegList`: what is left of a validated
  list has no URL twice, and none another has taken, but for the requests that are `contested`.
- `LockedOutByLossOnly`: `TokensInHand`: until it is stored, a pair is with the one request it was issued to.
- `SpacedByOverlapOnly`: `RateHeld`: while no two calls have met at the limit, a call that waits is alone, and the last request
  is the one it saw on entry. `Window % Limit = 0` keeps the distance in whole ticks, as the 60 requests a minute of the code are.
- `ToldWithCare`: `CircuitHeld`: while the circuit is closed its count is one of failures in a row, each counted
  twice at most.
- `TrueRecently`: `ReadsHeld` and `ReadsSo`: what a call has heard was so since it went out, and an entry was so no
  longer before it was made than a call takes.
- `ReopenedByEditOrRace`: `LeaguesHeld`: a status to be written was allowed from the one that was read.

What an instance counts with the `Cardinality` of its own copy of `FiniteSets` is what the library's
theorems count (`SameCounts`).

`RulesProofs` (`AccessAssumption`, `ScraperAssumption`, `ListingsAssumption`, `RulesAssumption`): `AlwaysClosed`, `AlwaysDue`, `AlwaysWithin`, `AlwaysAsAsked`,
`AlwaysConverts`, `AlwaysSees`. The run looks at a bounded set of inputs; behind each theorem are lemmas for *every* input
of that form, with any roles, calls that fail, numbers and lengths of lists, and `RulesTyped` says that an input of the run has
that form (`IsWorld`, `IsApplication`, `IsSeasons` and `IsConfig`, `IsBase`, `IsWalk`).

- *Access*: `AccessClosed` compares the world with the one in which nothing fails, guard by guard. `AccessDue` rests on
  `RolesAdminister`: the role that is looked up in Discord is one the user has and the settings name, also where the list mixes both formats.
- *Joining*: `JoinSkilled` holds for any trackers and seasons. That a failed call refuses (`JoinClosed`) follows from `MayJoin` alone.
- *Ratings*: the average of ratings between two bounds is between them (`WeightedWithin`), and rounding, which is a division with
  ties going up, stays between two integers (`RoundWithin`); weights may be any number, and count if they are above 0.
- *Scrapes*: the entries of a profile's list, a season and its place, are in one order: the newest first, equal seasons as they were listed.
  A finite set of them can be listed in that order and in no other (`DescendingExists`, `NewestIs`), so that the place of an entry in the
  list is how many come before it (`NewestPlace`); a season may be listed any number of times.
- *Lists*: a row that stays and shares its key with none is on the page that its rank says (`ShownByRank`); if no row leaves from ahead of
  it its rank cannot fall and it is not passed over, if none comes it cannot grow and the row is not met again.

Induction over numbers or sets is not to be had here; where one is needed (a least number, a descending list), the proof takes a
minimal element of the subsets of a finite set, which the library says are well founded.

Assumptions on the constants are what the code has: limits and retries that are counts, lists that are validated before they are
compared. The modules that are used as instances define theirs (`SettingsAssumption`, `TokenAssumption`, `MembershipAssumption`, …) and the modules that
instantiate them assert them (`ServicesAssumption`, `WorldsAssumption`); TLC evaluates each on the run. `AccessAssumption` has a role that is none (`NoRole`), for an entry
of the other format, whose `id` is undefined; `RulesAssumption`, the two roles the inputs name and one retry at most, for the tries
the inputs list.

What the proofs have changed in the model:

- a schedule more than a year ahead is armed for the wrong year, which `TimersAgree` has as a condition since (`ScheduledProcessing`);
- with a single request in hand, what comes from outside did not wait for its locks (`Directory!Free`): the runs have two requests, the theorem any number;
- requests to the tracker site are compared two by two, which is what the rate needs for any limit and window (`SpacedByOverlapOnly`), and a horizon
  has at least one tick (`RateAssumption`);
- no role has the id of an entry that has none (`AccessAssumption`);
- what was written with folds and filters of sequences is defined by what it is, a place, a sum of four, a list in descending
  order (`Newest`, `SumOver`, `Showing`, `CheckAdminRoles`), which is what the proofs reason about.

Only model-checked:

- liveness: `EverySettles`, `DueTried`, `HandledInTheEnd`, `SettlesInTheEnd` rest on fairness, which is out of the prover's reach;
- the two violations, which TLC finds and nothing could prove;
- that no run deadlocks, which is a matter of `ENABLED`.

## 8. What is not modelled

- What a scraped page contains beyond its segments: `Scrape` yields any subset of the seasons asked for, `ScraperRules`
  takes segments as parsed. rxjs retries of a request, which go past the rate limit, are left out of `ScrapeRate`.
- Wording of messages, errors, activity and audit log entries (but for what a settings entry says); the
  MMR computed after a scrape is only logged, and no row depends on it.
- Custom formulas: the expression library is external, a formula is the variables it names and the value it has for some data.
  `testFormula` is not defined apart: it answers what `CalculateCustomFormula` does with the data it is given.
- Two processes over one outbox, a shutdown that gives up on a running loop:
  `OutboxProcessor` is parametric in the processors and the run has one.
- Snapshots with their visibilities, tournaments (`registerParticipant` stores nothing), profiles, the
  idempotency store: rows written and read back as they are.
- Controllers, pipes, DTO validation, filters and interceptors, encryption, the log sanitizer, configuration,
  health and logging: they keep no state, and what a controller calls is modelled where it does something.
- `validateRoleIds` and `validateChannelIds` of the bot have no caller in `src/`.
- JWT and OAuth exchanges, BullMQ, PostgreSQL, Discord, FlareSolverr: external, modelled by how the code uses them.

## 9. Where the code and its words part

Two runs refute what the code says of itself, and are findings of `PROJECT.json`:

- `logout`: revoking tokens passes `undefined` for both columns, which the repository
  skips, so the tokens of a user who logged out stay stored (`LogoutClears`).
- `scraper_rate`: calls that wait for the window or the delay together go out together (`RateKept`).

Met while modelling, and stated as the conditions of properties:

- The retry count of the outbox is read from the row and never written, so an
  event nobody handles is dispatched at every poll, though the catch block and the
  dispatcher speak of FAILED after three: `Retry` always finds the first failure. As many
  such events as a batch holds starve every later one; a crash leaves an event
  PROCESSING for good (`HandledInTheEnd`).
- Applying again while an application is pending, or after it was rejected,
  activates without the approval the league requires (`AsksApproval`). A ban is overwritten by a
  join, leave or answer already in hand, and every guild sync takes all bans with the players it deletes and
  makes anew (`KeepsTerminal`); two joins fill the last place
  (`OverfullByRaceOnly`); a leave that commits during a join does not hold it back.
- Two completions of one match both find it open, and both count it (`CompletedIsCounted`).
  An approval resets a rating that has counted matches, and the stats keep them (`RowsAgree`).
- A team may be placed in a full organization, for the check refuses above the
  limit and not at it, though its comment says it refuses "only when capacity would
  be exceeded" (`TeamsByRaceOnly`); the check of an assignment is the strict one,
  and being in a transaction does not keep others from placing teams meanwhile.
- "Creator becomes GM", but one who is a member of another organization is refused
  after the row was made, and the organization stays without manager. A manager whose *status*
  is edited is not counted: the last may be suspended or removed so, and he goes, uncounted, with his player when a guild
  is synced or a member or user removed (`ManagerKept`).
- An update of the settings merges into what the cache holds. One that finds `requireOrganization` on there, or has
  read it before it was switched off, stores it as it was: the requirement comes back without any team being assigned, though
  "requireOrganization=true is only set when all teams are assigned" (`league-settings.service.ts:181`). A placement asks
  the cache as well, and a team goes without organization on a stale answer (`RequiredMeansAssigned`).
- A schedule more than a year ahead runs within the year (`NotEarly`), one whose
  time passes while the process is down stays PENDING (`SettlesInTheEnd`), and a
  cancellation while the callback runs is overwritten by COMPLETED. One that comes between the insert (115) and the
  timer (123) of a creation leaves a CANCELLED row with an armed timer, which then runs. `CancelHolds` speaks of the
  cancellations that met neither. A timer that is armed after its time waits a year.
- `PATCH /leagues/:id` writes a status without the check that "Archived leagues cannot
  transition" (`leagues.service.ts:288`; `ReopenedByEditOrRace`).
- Two updates of settings, or a migration during one, merge into the same old row and the later drops
  the earlier's fields (`UpdatesKept`); a reader that loaded the row before an update puts it in the cache
  after the update cleared it (`StaleByOverlapOnly`). The guild service validates the patch and not
  what it is merged into, merges into a row not yet migrated, and logs neither migrations nor
  the roles a sync writes, which also leaves the cache alone (`GuildSettingsExplained`).
- Every sync deletes and makes anew all memberships of the guild, and the cascade takes the players
  with their league memberships, bans and stats; its `createMany` is given the list as it came, though
  `guild-sync.service.spec.ts:329` expects duplicates to be removed. A delete that waits for another sync does not see
  what that one inserts, and nothing locks the guild for a sync of the members alone (`guild-member.repository.ts:476`): two of them,
  or one and a sync of the guild, may leave both lists in it, if no user is in both (`MembersAreSynced`).
- The team limit of a roster is counted three calls before the row is made; the look-up that should
  find a player twice in a league may find his row in another team first (`RosterByRaceOrEdit`).
- Two registrations both count room for one more (`LimitByRaceOnly`), and one that fails in the middle keeps
  what it has made (`StoppedByRaceOnly`).
- A refresh whose answer was lost is sent again with a token Discord may have replaced (`LockedOutByLossOnly`).
- A failed direct message counts twice for the circuit breaker (`OpenForCause`); a message may be told again
  by the fall-back (`ToldTwiceByLossOnly`).

Met on the way, in code whose rules are modelled but where no run asks for better:

- *Access*: an inactive guild passes `exists`; `checkAdminRoles` looks at Discord only for the first configured role the
  user has; `requireAdminAccess` lets nobody in; `permissions/me` reports an administrator without asking Discord.
- *Players*: `validatePlayerStatus` looks at the status to come, so that no update can suspend or ban. Access of two requests at
  once creates one membership twice, and the second is Forbidden.
- *Settings*: `null` cannot unset a limit of a league; updates and resets of a guild fail where there is no row.
- *Trackers*: the URL of a removed tracker can never be registered again; one profile spelled in two ways registers
  twice; a percent-encoded name is encoded again for the API; an unknown current season may store season 0 as the latest;
  a season that the profile lists twice takes two places of the limit, is scraped, returned and stored twice, and may keep an older one from
  being asked for at all (`tracker-scraper.service.ts:132-136,164-183`).
- *Joining*: `findBestForUser` prefers a tracker that was never scraped (NULLs come first) to the one scraped last; the ELO and
  CUSTOM metrics refuse everybody; the reactivation branch of a team's `addMember` is dead, and its league is not compared with the team's;
  the catch in `initializeRatingForMember` cannot save a PostgreSQL transaction that has failed.
- *MMR*: a formula is evaluated on data that have the peaks (`mmr-calculation.service.ts:361-364`), and `mmr-calculation.service.spec.ts:347`
  ("should_use_peak_in_custom_formula") expects one that names them to be rated; the validator, which the test replaces, knows no such
  variables and refuses it (`formula-validation.service.ts:13`). `MmrRules` has the validator as it is, and no property says which
  variables a formula should have. A formula that is valid on the test data may fail on real data; the MMR after a scrape is only logged.
- *Lists*: most repositories skip page × the limit asked for but show at most a hundred rows; orders by `joinedAt` or `createdAt`
  have no tie-break, and a sync gives all members one `joinedAt`; `matchParticipant.findAll` has no order (`WalkSees` names each).
- *Discord*: a member who left is reported for five more minutes, and a 404 is retried before it is believed;
  `sendEphemeralFollowUp` is said to resolve once the token has expired, and throws.
- *Not modelled, but read*: `app.module.ts:143` registers `PrismaExceptionFilter` before the catch-all filter, which so runs
  alone and answers 500; the audit interceptor records the status before any filter has set it;
  `leagues.controller.ts:65` refuses to list leagues unless status and game are both given; deletes of users by the bot parse Discord ids as CUIDs.
