# TLA+ models of the Dota 2 ingest pipeline

Specifications, model-checking runs and machine-checked proofs for the code in
`packages/`: the TypeScript workers that follow professional Dota 2 matches from
the first live sighting to a parsed replay, and the Go parser that extracts the
replay. Postgres is the only shared memory of these processes; every hard
question about the system is about rows that one process reads, another writes,
and the first then writes back.

Contents: 1 inventory, 2 modules and how they map to the code, 3 runs, bounds
and fairness, 4 proofs, 5 what the models found, 6 what is not modelled, 7 plan.

## 1. Inventory

| Component | State it keeps | Operations | Module |
|---|---|---|---|
| Live polls (`jobs/poll-live.ts`, `poll-top-live.ts`, `poll-realtime-stats.ts`, `store/match-phase.ts`) | status, `ingest_sources`, two miss counters, `live_duration_max` of `matches`; player rows and draft; a digest map in memory | one transaction per tick: sight, count misses, finish the missing; write the scoreboard; then enqueue details | MatchPipeline (phases), implements MatchLife; MatchFacts (facts) |
| Finished-history waiter (`jobs/poll-finished-history.ts`, `store/matches.ts`) | `history_next_poll_at`, fast and slow counts, `match_seq_num` | list, crawl GetMatchHistory, select, update, enqueue | MatchPipeline |
| Match details (`worker/jobs/fetch-match-details.ts`, `store/persist-match.ts`) | GC columns of `matches`; players, draft; locator and status of `match_replays` | ask the GC, persist the record, adopt or download the replay | MatchPipeline, MatchFacts, ReplayLifecycle |
| Replay download (`worker/jobs/download-replay.ts`, `jobs/adopt-replay-object.ts`) | `match_replays`, the hot object, 404 attempts | look up, fetch, write, store, mark the match, retry | ReplayLifecycle |
| Archive (`jobs/archive-parsed-replays.ts`) | the cold object, `archived_at` | list, copy, mark, delete | ReplayLifecycle |
| Parser (`packages/parser`) | claims on `match_replays`, extracted rows in ClickHouse, the draft | claim, reclaim stale, decode and flush, fail, publish | ReplayLifecycle, MatchFacts (draft) |
| League walk (`jobs/walk-league-history.ts`, `store/leagues.ts`) | per-league page cursor, exhausted flag, time of the last check | pick a league, page, upsert, move the cursor, go on | LeagueWalk |
| Sequence walk (`jobs/walk-seq-history.ts`, `seq-walk-cursor.ts`, `fetch-seq-window.ts`) | the walk cursor, claimed windows, a cooldown | claim a window, fetch, persist, refill, rewind | SeqWalk |
| Job queue (`components/jobs.ts`, `worker/tasks.ts`, `worker/ensure-loop-jobs.ts`, `jobs/live-circuit.ts`) | graphile rows by key and named queue; live calls in flight | enqueue, hop, retry off-queue, recover lost loops, unlock | JobQueue |
| Web API calls (`components/resources.ts`, `steam/web-api.ts`, `jobs/retest-resources.ts`) | status of keys and proxies, their error windows, retest counts, sticky proxies | pick, bind, call, charge, disable, retest, restore | ApiKeys on ResourceHealth |
| GC session (`worker/gc/session.ts`, `steam/gc-probe.ts`) | one session, one shared connect promise, clients | connect, use, close, rotate account and proxy, probe | GcSession on ResourceHealth, implements SharedSession |
| Marketplace (`marketplace/*`, `jobs/settle-marketplace-orders.ts`, `jobs/replenish-accounts.ts`) | order rows, remote orders, accounts | count, buy, deliver, fulfil, settle | Marketplace, implements OrderLife |
| Account provisioning (`steam/provision-api-key.ts`, `steam/confirmations.ts`, `cli/steam-guard.ts`) | Guard secrets, tokens, requests for keys | enrol, log in, register a key, confirm | AccountSetup |
| API slots (`components/rate-limit.ts`) | `last_called_at` of the keys | acquire a slot, reserve for live | none, section 6 |
| Demo decoding, catalogs, logs, metrics, HTTP API, operator commands | none that another part decides on | read, append, enqueue | none, section 6 |

What makes each of these hard, and what it has to get right:

* **Live polls.** Two feeds and a realtime poll write the same row, each knows
  only what it sees, and a match is over when *every* feed that listed it has
  dropped it. A finished match must be somebody's job afterwards, although the
  tick and the enqueue are two steps. The digest map says that a game is written
  although the transaction that wrote it may have been rolled back.
* **Waiter.** It reads its rows, waits for the API, reads them again, and writes
  counters computed from that read over whatever the row has become.
* **Box score and draft.** Live and post-game sources write the same rows; who
  comes after a post-game source may only fill, and decides it from a read that
  is made before the row is locked.
* **Details, download, archive, parser.** Four kinds of process write one
  `match_replays` row and two object stores with calls that do not share a
  transaction. No copy may be lost, no row that waits for a download may be
  without one, a stored replay has to be settled.
* **Sequence walk.** A cursor moved by compare-and-set, by maximum and by a blind
  write; a window skipped is data lost.
* **League walk.** Two walks may run on one league; each writes the cursor it
  computed from the row it read, and an end that is recorded wrongly hides the
  older matches for good.
* **Job queue.** Keys replaced while locked, jobs parked under another key for a
  retry, rows out of tries that keep a key, and budgets carried in payloads.
* **Web API calls.** An error is charged to a proxy or to a key, judged in one
  transaction and acted on in another; a retest may restore what a call has just
  condemned.
* **GC session.** A module variable read before and used after awaits, cleared
  by callbacks of clients that may no longer be its own.
* **Marketplace.** Money is spent remotely before the id is stored locally; two
  jobs may settle the same order, and no update looks at what it overwrites.
* **Account provisioning.** Steam changes state before the database does; two
  runs on one account share its confirmations.

Every line where this bites is a `hazards` entry of `PROJECT.json`, with the
properties that cover it or the reason none does.

## 2. Modules

In every module an `await` that lets somebody else run is a step boundary, a
transaction is one step unless a read in it decides something before a lock is
taken, and a crash drops what a process had in memory and keeps the rows. The
header of each module names its simplifications.

### MatchLife, MatchPipeline

MatchLife is `matches.status` as its readers know it: which transaction moves a match
from which phase to which, and nothing of feeds, counters, jobs and locks. A tick and
a poll of the waiter move many matches at once, everything else one. MatchPipeline
implements it under

    phase <- [m |-> row[m].status]

and so does what ReplayLifecycle writes to the same column (`MovesMatch`, with the
match of its replay for `Match`): the two components cut the status out of one row,
and both keep to the same moves. The diagram of `docs/specs/job-graph.md` is the usual
part of MatchLife. The code has moves beyond it: a match record leads to
`details_ready` from every phase before it, `live`, `awaiting_history` and `failed`
included; a verdict of the download may come in every phase but `parsed`; and the
timeout of the waiter may hit every phase (section 5).

All writers of one `matches` row. A variable per table or actor: `row` (the
columns that decide something), `jobs` and `gc` (keyed details and download jobs
waiting, and the running details job), `replay` (as much of `match_replays` as
the branch of a job depends on), `post` (finished by a committed tick, enqueue
still to come), `hist` (the running waiter poll), `rt` (targets the realtime poll
still has to ask), `lost` (history: matches one of whose jobs ended with nothing
done).

* One operator per `UPDATE` (`liveSightingResumeSet`, `noteLiveFeedMisses`,
  `finishMissing`, `markHistoryAvailable`, `recordHistoryPollMiss`,
  `upsertHistoryMatches`, `saveMatchFacts`, `markMatchReplayStatus`, `markParsed`),
  named as in the source; one action per committed transaction.
* A live tick is one transaction over all matches (`CommitTick`) and then the
  enqueue (`EnqueueLiveFinishedDetails`). An empty listing counts no miss.
* The waiter is four steps, `HistStart`, `HistSelect`, `HistCommit`,
  `HistEnqueue`; the update uses the snapshot the select took.
* The details job is split at its transactions; its branches are the actions
  `Details...`. A hop parked for a retry counts as the queued job.

### MatchFacts

The values of the same match: `row` (stamps of the sequence and of the GC, two
columns of a player), `draft`, whether ClickHouse has live `ticks`, and in memory
`hashes`, the digest of the last written scoreboard per worker. A transaction that
reads before it locks is two steps: the live poll (`PollReads`, `PollCommits` or
`PollRollsBack`) and the details of a source (`PersistReads`, `PersistCommits` or
`PersistRollsBack`); a realtime poll and `PersistUndiscovered` lock first. The last
is the sequence walk's: details of the GC are asked for only once `ensureReplayRow`
has found the match.
`takePlayerCol`, `replaceMatchDraft` and `stampDraftClocks` are the SQL of the
source on one value; a value is the source that wrote it, which is all the
properties tell apart. The rows of teams and series, which every transaction writes
before it reads, are the guard `Free`: it holds when the sources name them
(`named`).

### ReplayLifecycle

One replay: `row` of `match_replays`, phase of `match`, the `store`s that hold
the object, the download job (`queued`), one program counter each for `details`,
`download`, `archive` and every parser slot, and `extract`, what ClickHouse holds
of the match. What a job remembers of the row it read is in its record (`keep`,
`at`, `tries`).

* The cold store is a bucket of its own, objects are whole or absent, a stat
  that throws reads as absence (`objectExistsIn` catches everything), ages are
  nondeterministic, a ClickHouse delete that is asked for is carried out.
* A job of a named queue runs alone, so there is one details job and one
  download of a match at a time.
* `DetailsMiss` and `DownloadAsk` take the synchronous look at the URL's host
  together with the call that follows it.

### SeqWalk

The cursor over Valve's global sequence of matches (`settings.seq_walk_cursor`).
`cursor` and `cooldown` are the settings, `window[s]` is the `fetch_seq_window` job
with key `seq_window:{s}` (its program counter, the page it got, its failed tries),
`claim[i]` is a run of `enqueueSeqWalkWindows` by the walker or by the window `i`
that just saved, `head` and `saved` are what Valve has published and what the
database holds, `asked` and `throws` are history.

* A claim is the loop of `enqueueSeqWalkWindows` with every await a step:
  cooldown and count (`ClaimStart`), read the cursor (`ClaimRead`), look at the key
  (`ClaimAlive`, `ClaimEnqueue`), compare-and-set (`ClaimCas`).
* A window is answered, then either sets the cursor back blindly (`WindowEmpty`)
  and afterwards the cooldown, or saves and lifts the cursor in one transaction
  (`WindowSave`), and then claims. A throw or the death of the process puts the same
  start back in the queue; out of tries, the row stays and keeps its key (`dead`).

### LeagueWalk

Per league the cursor (`tail`), `exhausted` and whether a refresh is `due`; the
waiting rows of the walk's own chain (`row`, `parked`) and of the API (`asked`);
`walk[w]`, the runs under way. A run is three steps: it picks its league and asks for
a page from the cursor it read, saves what the page lists, and then writes the
cursor it computed and puts its continuation in the queue; a page that fails puts the
same row back, with the league it was asked for or without one. Pages overlap by one
match, as `start_at_match_id` includes it. `Plays1` and `LeagueStarts` are Valve's.
A refresh is due to all leagues once they are walked (`RefreshDue`: a day is longer
than the walk), and by chance before (`RefreshDueEarly`, a fault).

### JobQueue

graphile's rows as the program uses them: `row[j]` is the row with the key of a job
(free, locked by a slot, locked by a process that is dead), `parked[j]` the
`run_scheduled_job` row that hops onto a named queue when it is due, `run[s]` what a
slot does. Four jobs stand for the four ways a job comes round: a live tick that
enqueues the next before it works, a loop that does so after it, a walk that hops,
and a one-shot details job with a budget of tries that `traced` carries in its
payload (`_tries`). `Boot`, `AddStartupJob`, `EnsureReads`, `EnsureAdds` and
`UnlockOld` are recovery. Module-internal behaviour of graphile is modelled from its
use (key modes, attempts, four-hour unlock) and is marked external in the map.

### ResourceHealth, ApiKeys, GcSession

ResourceHealth has no variables: it is the algebra of one row of `proxies`,
`steam_accounts` or `steam_api_keys` with its attempts, one operator per statement.
ApiKeys uses it for Web API calls, with the verdict on a window and the disable that
follows in separate steps, against proxies that are up, refuse or hang, keys that
Steam bans and outages of Steam; `past` is history, what has ever gone wrong in that
world. GcSession uses it for the coordinator: `session` and
`open` are the module variables of `session.ts` (the session, and the run that
`connecting` stands for), `caller[j]` a job that resumes after an await, `live` and
`leaving` the clients that are logged on or whose `disconnected` is still to come,
`probe` the retest's own client. Every logon has a client of its own: a refresh token
that is refused, a proxy that refuses and a probe that breaks drop theirs and take a
fresh one (`Replaced`). SharedSession is what `getGcSession` promises to the jobs: one
session that
is never replaced, one opening that all who wait share, its one outcome for all of
them, and an end of every opening. GcSession implements it under

    opening <- open.pc # "off"
    waiting <- {j : caller[j].pc = "wait"}    served <- {j : caller[j].pc = "request"}

while accounts, proxies, clients, their events and the retest stutter.

### OrderLife, Marketplace

OrderLife is the abstract specification of an order: pending until settled, a
success only with its account delivered, never pending again, settled one day.
Marketplace is the code: `order` (the row), `store` (the remote order, paid),
`account` (what has been saved of the bought account), `actor[a]` (the buyer and the
settle job, each at one await of one order), `seen` (the rows as the settle job read
them), `lost` (accounts that went out of service). It implements OrderLife under

    life <- [o |-> order[o].status]      delivered <- Fulfilled

where `Fulfilled` is computed from the store and from the rows of the account; which
of the runs settles an order, how often, and the remote protocol stutter.

### AccountSetup

One account, and runs of the worker, the API and the operator on it. `guard` and
`secret` are Steam's side of the authenticator, `stored`, `broken`, `token`,
`apiKey` the row's; `requests` are Steam's pending requests for a key and
`run[r]` where a run stands between two calls. A secret is the number of the
`AddAuthenticator` that handed it out.

### Proof modules

`MatchPipelineProofs`, `MatchFactsProofs`, `ReplayLifecycleProofs`, `SeqWalkProofs`,
`JobQueueProofs`, `GcSessionProofs`, `MarketplaceProofs` and `AccountSetupProofs`
each extend the module they are named after. `SeqWalkProofs` also proves LeagueWalk,
as the instance `League`, and `GcSessionProofs` ApiKeys, as the instance `Api`: the
walk that finds what the other asks for, and the other user of ResourceHealth, whose
lemmas on rows serve both. See section 4.

Each property has a mutant in `PROJECT.json`: an operator named `...Uncapped`,
`...Early`, `...Forgotten` and so on, next to the definition it replaces.

## 3. Runs

| Run | Instance | Shows |
|---|---|---|
| `match_pipeline` | 1 match, threshold 1, fast budget 1, slow budget 0 | types; a live row can still finish (`LiveStillListed`); `failed` means the budget is spent (`FailedMeansBudgetSpent`); a finished match is never forgotten (`FinishNeverOrphaned`); phases move as MatchLife allows (`ImplementsMatchLife`); the waiter ends (`WaiterTerminates`) |
| `match_facts` | 1 worker, 2 scoreboards | post-game values and timed drafts are kept whoever writes (`PostgameIsKept`, `TimedDraftIsKept`); ticks have their match (`TicksHaveMatch`); a shown match is written (`ShownIsWritten`) |
| `replay_lifecycle` | 1 slot, 1 retry | `ArchivedIsCold`, `RetryNeverOrphaned`, `LastCopySurvives` |
| `stored_is_settled` | 1 slot, no retry | `StoredIsSettled` |
| `seq_walk` | numbers 1, 2, 4, 2 windows in flight, 2 tries, 1 throw | types with the floor of the cursor; `NothingPassedOver` |
| `safety_net_undone` | numbers 1, 2, 3, 2 windows in flight, no throw | a disagreement, section 5 |
| `league_walk` | leagues of 3 and 1 matches, pages of 2, 2 walks, 1 fault, 1 extra walk | `TailIsListed`, `EveryMatchListed` |
| `job_queue` | three mixes of jobs, 2 slots, 1 live call, budget 3, 2 faults | `LiveCallsWithinCap`, `WantedIsAlive`, `LoopsComeBack`, `DetailsRest` |
| `api_keys` | 1 key, 2 proxies, 1 caller and the retest, window and threshold 2, 2 faults | `DisabledForCause`, `ProxyRetestsEnd`, `KeysSettle` |
| `gc_session` | 1 account, 2 proxies, 2 callers and the retest, 3 clients, window 1, 2 retests, 2 faults | `NoOrphanClient`, `ImplementsSharedSession` |
| `marketplace` | 2 orders, 1 key and 2 GC accounts desired, 1 fault | `UnderWayWithinDesired`, `ImplementsOrderLife` |
| `account_setup` | 2 runs, 3 secrets, 2 requests, 2 faults | `StoredSecretIsFinal`, `NotLockedOut`, `SavedKeyIsIssued` |

The other configurations are not runs. `GcSiblings.cfg` is `gc_session` with two
accounts, one caller and one fault, where an account is skipped for what its sibling
has met. `BackByRetestOnly.cfg` checks, with two accounts and two faults, that no login
brings a disabled account back, `ReplayMovesMatch.cfg` that a ReplayLifecycle with one
slot keeps to MatchLife, and section 4 has the theorems. `SafetyNetAlone.cfg` shows
that with one window in flight every published match is saved
(`SafetyNetWithinBound`). These four pass. The rest reproduce the disagreements of
section 5.

**Bounds.**

* *MatchPipeline.* Rows of different matches meet only in a tick's listing: whether
  it is empty. `nonempty` covers the other games that may be listed, so one match
  shows every interleaving of its writers, and the proofs cover every set of
  matches. Counters are compared with their limit only, so a limit of 1 has the
  cases below, at and (saturated, or refused by the guard) past it.
* *MatchFacts.* Two scoreboards are an early and a final one; a digest is equal,
  different or forgotten. One worker, because `poll_live_games` runs in one at a
  time; the proofs are for any set.
* *ReplayLifecycle.* One parser slot still races itself, because a claim can be
  reclaimed while its decode runs; the proofs hold for any set of slots.
* *SeqWalk.* Windows are batches of 2 where the code has 100; `Num` has a gap and a
  full batch, so pages are empty, partial and full. Two windows are in flight, which
  is how `seq_walk_parallelism` is seeded. `MaxCursor` ends a claim that would leave
  the numbers behind it (`ClaimBound`), and `SafetyNetWithinBound` speaks of the
  behaviours it does not disturb. 2 tries and 1 throw: a window, a claim and the
  walker are each hit once at every await, and no window runs out of tries; that case,
  and all values of these bounds, are in the proof. `Rewind` is more than all numbers,
  as 2000 is many pages. `Spins`, the turns of a claim, is the code's four times the
  parallelism in `SafetyNetUndone.cfg`; the run has 3, which are two windows to fill
  and one that is alive to step over.
* *LeagueWalk.* Three matches in pages of two are a full, an overlapping and a last
  page; the second league shows that the first does not pin the walk. Two walks:
  the chain and one beside it, which is what cron, boot, recovery and the API add.
* *JobQueue.* The jobs meet at the slots, at the live circuit and at the recovery;
  `Mixes` are the sets in which they do. Two slots are the least with which a retry
  or the recovery of a job runs beside the job. A budget of 3 has a first, a middle
  and a last try.
* *ApiKeys, GcSession.* A window of 2 has half-full, full and mixed contents; a
  window of 1 makes both proxies and the account go out of service within the
  bounds. Two proxies show rotation, and with both down, its end. Three clients are
  one for the session or the run that opens it, one for the retest and one to replace
  either; a client is free again when its last event is gone.
* *Marketplace.* Two rows let the buyer and the settle job hold different orders and
  the same one; two desired GC accounts make a run of more than one purchase.
* *AccountSetup.* Two runs are the worker's and another; a third secret is handed
  out after one was removed.

**Fairness.** The schedulers of the code justify it, and nothing is asked of Steam,
of the store or of a CDN beyond what is said here.

* `WaiterTerminates`: a poll with work starts again, because `poll_finished_history`
  reschedules itself in a `finally` block and its cron and the loop recovery revive
  it (weak, `HistStart`, `HistEnqueue`), and a process that may die at any step does
  not die at the same step of every poll (strong, `HistSelect`, `HistCommit`).
* `StoredIsSettled`: the parser's loop reclaims and claims for ever (weak), and a
  parse that is started again and again ends one day (strong, per slot).
* `SafetyNetWithinBound` (its counterexample, and `SafetyNetAlone.cfg`): the walker's
  task comes round (weak) and does not throw at the same await every time (strong, per
  await); a window's steps happen unless it throws, and throws are bounded (weak); a
  cooldown ends.
* `ShownIsWritten`: the live poll comes every two seconds and is not refused or
  rolled back every time while a match is shown (strong, `PollReads`,
  `PollCommits`); an open details transaction ends (weak).
* `EveryMatchListed`: jobs of the queue run and end, cron comes, time passes,
  leagues start (weak). That the rows come back is what JobQueue shows.
* `LoopsComeBack`, `DetailsRest`: the container restarts a dead process, boot and
  cron run, work ends (weak); a due job gets a slot (strong: slots are idle between
  the runs of the loops).
* `ProxyRetestsEnd`, `KeysSettle`: calls go on (weak); the retest job, which comes on
  its schedule, gets to a disabled proxy (strong, for calls may restore and disable it
  in between). `KeysSettle` has the recovery of Steam and of the proxies as its
  hypothesis and not as fairness.
* `ImplementsSharedSession`: what awaits goes on; the handlers and the timer of a logon settle it
  (weak).
* `ImplementsOrderLife`: the settle job runs again and again, a run that awaits goes
  on, the clock passes the ttl (weak); a request to the store that is repeated for
  ever is answered one day (strong, `PeekAnswered`). Without the last a row whose
  every peek throws stays pending past its ttl, as `PeekThrows` leaves it.

**Liveness reads as follows.** A waiter row that is live *and* armed can be
polled for ever: `markHistoryAvailable` skips live rows, so a found match spends
no budget; `WaiterTerminates` therefore ends in "not pending, or live".
`StoredIsSettled` lets a download take the row over: one that saw no object for
a row that is parsing sets it to `downloading`. `ShownIsWritten` excepts a
scoreboard whose digest was remembered by a poll that was rolled back; the next
scoreboard is written.

## 4. Proofs

| Module | Theorems | For every |
|---|---|---|
| MatchPipelineProofs | `TypeCorrect`, `Invariance`, `LiveRowsStayListed`, `TimeoutsSpendBudget`, `PhasesAreKept`, `UnbornAreNotPolled`, `LivesOfMatches`, `FinishedAreCarried`, `FinishesAreNotForgotten` | set of matches and limits that satisfy `PipelineAssumption` |
| ReplayLifecycleProofs | `ReplayTypeCorrect`, `ReplayInvariance`, `ArchivedRowsPointCold`, `WaitingRowsHaveAJob`, `CopiesSurvive`, `MatchIsMoved` | set of slots and budget |
| SeqWalkProofs | `TypeCorrect`, `NumbersNeverPassedOver` | numbering, batch size, rewind, parallelism, spins and tries |
| SeqWalkProofs, of LeagueWalk | `LeagueTypeCorrect`, `LeagueInvariance`, `CursorIsSaved` | set of leagues, numbers of matches, size of a page, number of walks, faults and extra walks |
| MatchFactsProofs | `FactsTypeCorrect`, `FactsInvariance`, `TicksHaveTheirMatch`, `PostgameStays`, `TimedDraftStays` | set of workers and number of scoreboards |
| JobQueueProofs | `TypeCorrect`, `Invariance`, `LiveCallsStayWithinCap`, `TriesStayWithinBudget`, `WantedStaysAlive` | set of slots, setting, mixes of jobs and budgets |
| GcSessionProofs | `TypeCorrect`, `Invariance`, `NoClientIsForgotten`, `OneSessionAtATime`, `NobodyWaitsInVain`, `SharesOneSession`, `RunAndRetestApart`, `DisabledUntilRetested` | set of accounts, proxies, callers and clients, window and threshold |
| GcSessionProofs, of ApiKeys | `ApiTypeCorrect`, `ApiInvariance`, `NothingIsDisabledForNothing` | set of keys, proxies and callers, window, threshold, tries and number of faults |
| MarketplaceProofs | `TypeCorrect`, `Invariance`, `MoneyIsBounded`, `KeepsOrderLife` | number of rows, size of the two pools, `marketplace_buy_max` and number of faults |
| AccountSetupProofs | `TypeCorrect`, `Invariance`, `OnlyFinalSecretsAreStored`, `NoEnrolmentLocksOut`, `SavedKeysAreIssued` | set of runs, number of secrets, requests and faults |

*MatchPipeline.* `LiveStillListed` is inductive with the type invariant: a
sighting sets its feed's counter to 0, and a tick that makes the last counter
reach the threshold decides in the same transaction. `FailedMeansBudgetSpent` is
not: `HistCommit` writes counts computed from a snapshot. The strengthening says
of the snapshot what the commit needs: `SnapNotFailed` (a row the select took is
armed, so it had not failed, and an update that disarms it cannot fail it) and
`ReadyMeansDetails` (`details_ready` comes with `details_fetched_at`, so late
sequence records find the match either kept or with GC details). The action
property `KeptPhase` (from `details_ready` on a match goes forward only, but for that
timeout; `PhasesAreKept`) follows from the same invariant.

`LivesOfMatches` is the refinement of MatchLife, without an exception: one lemma per
`UPDATE` says which moves its operator makes (`SightingMovesOn`, `FinishMovesOn`, ...),
and one step per transaction which of the actions of MatchLife that is. It needs one
more invariant, `UnbornAtRest`: a match without a row is not armed and in no snapshot
of the waiter, or its timeout would move a match that was never seen.

`FinishNeverOrphaned` is proved through a
stronger invariant, `FinishIsCarried`, which is inductive with the types: a match
that awaits history has its details job waiting or running, or the enqueue of its
tick still to come, or is in `lost`. So the waiter, which the property admits as
well, is a second net and not what the finished matches hang on.

*ReplayLifecycle.* `ArchivedIsCold` needs to know of every job that carries a
locator, or is past the copy, that the cold object is there (`ColdSeen`); nobody
deletes from the cold store. `RetryNeverOrphaned` needs `Settled` and `Fresh`:
which states of the download leave the row in a status that waits for it.
`LastCopySurvives` follows from `ColdSeen`: at the delete the cold copy exists.
`MatchIsMoved` goes through the actions: those that write the phase are a verdict, a
publish or a record of MatchLife, and the others stutter.

*SeqWalk.* `NothingPassedOver` is not inductive: a claim uses a cursor it read
earlier, and a rewind restarts below a window's start. So what lies below the start
of every job (`WindowsFollow`) and of every claim (`ClaimsFollow`) is covered as
well, a job that is forgotten has asked for what was claimed for it
(`AnsweredAsked`), and a page has no hole below its highest number (`PageAsked`,
from `PageIsPrefix`). What is covered stays covered (`CoveredGrows`), and each move
of the cursor, to a stale start plus a batch, to a rewound start or to a page's
highest number, is one of these bounds (`CursorFollows`).

*LeagueWalk.* `TailIsListed` needs to know of each run what it is going to write
(`RunHolds`): the cursor it read at its start and every match of the page it has just
saved are saved matches that Valve lists. What is saved and what is listed only grows
(`SavedStays`), so nothing that another walk, a reset by the API or a lost run does to
the cursor can take that away. The page is bounded by the newest match or by the cursor
(`PageIsListed`), the oldest of a page is one of its matches (`MinOfPage`), and the next
league is one of the leagues (`GreatestOf`, for which a finite set is needed).

*MatchFacts.* `PostgameIsKept` follows from two facts about reads that are made
before the row is locked: with teams or series named, at most one transaction is
open (`Apart`), and so what an open one read of the stamps still holds when it writes
(`FillRead`). `TicksHaveMatch` needs what a remembered digest says of the database
(`Remembered`), and the rest `Fresh`: a match comes from a scoreboard, and its stamps
with its row. What the writes do to a row and a draft is said once, of their
operators (`PlayersWritten`, `FactsWritten`, `DraftWritten`), and the steps cite it.
`TimedDraftIsKept` needs the types only.

*JobQueue.* `WantedIsAlive` is not inductive: a row that is alive may be locked by a
run that is done, and completing that run deletes it. `WantedIsCarried` says what
carries a request instead: a row that a slot can still take, here or parked, or a
run that has not come to its end. It rests on `DetailsQueued`: the details run on
their named queue, so a throw of their work is retried off-queue, and only the throw
of a hop is graphile's. `LiveCallsWithinCap` is inductive with the types; its steps
cite what adding or removing one member does to the cardinality of the runs in a
call. `TriesWithinBudget` came from the attempt to prove the types: a walk that is
retried off-queue carries up to `LoopTries` tries, so the type had to be `Tries`, not
`0..Budget`, which only the small instance satisfied.

*GcSession.* A step that overwrites a reference to a client would forget that client.
None does, because each of `session`, `open` and `probe` is empty where it is written
(`HandsFree`); for the session that is `OneSession`: no run of `openGcSession` is under
way beside a session. `WaitersHaveARun` and `RunHasAccount` keep the steps in their
types. The rows of attempts are sequences of bounded length (`AttemptsAreSequences`),
and what the statements of ResourceHealth leave is a row again (`ResourceWritten`).
For the refinement (`SharesOneSession`) the invariant says where a step of the code is
one of SharedSession: a session is stored while there is none (`OneSession`), and who
joins finds an opening to wait for (`WaitersHaveARun`).

`markAccountLogin` overwrites whatever status it finds. That this brings no disabled
account back (`DisabledUntilRetested`, the action property `BackByRetestOnly`) rests on
`Apart`: what the opening run has listed or in its hand is in service, what the retest
has is disabled, so the two never hold the same account, and each account a run takes up
leaves its list. It is a property of one worker; the model has no second one.

*ApiKeys.* `DisabledForCause` is decided in one statement and done in a later one, and
others write the row in between; what the world was when a failure was charged may be
over when the row is disabled for it. So the invariant keeps the causes: what is wrong
now has gone wrong before (`Remembered`), every failure in the window of a row has a
cause, `ProxyCause` or `KeyCause`, and so has a row that is disabled (`Sound`), and so
has the verdict of a run that is about to disable one (`HandOK`). Causes do not go away
(`PastGrows`), so nothing that another run does in between can take one from a verdict.

*Marketplace.* `UnderWayWithinDesired` is inductive once the units that a run has left
are counted right (`Counting`). For the refinement a run has to know more of its order
than the row says (`RunOK`): only the buyer orders at the store and once for a row, who
is past the delivery knows that the store is ready, who is about to write success
knows that the account is saved; the rows of accounts only grow, so the other run
cannot take that away (`RowOK`). `KeepsOrderLife` then maps each action to a step of
OrderLife or to a stutter (`StepRefines`).

*AccountSetup.* What a run has yet to write must be known before it is written
(`RunsOK`), and while no fault has lost a secret, whoever has yet to write one holds
the one that is on the account (`SaversAgree`). Two enrolments at once meet there: a
second authenticator is handed out only while none is on, and then nobody may still
hold an accepted secret. That `confirmationsToAccept` takes pending requests only needs
a greatest element of a set of numbers (`GreatestExists`, by well-founded induction).

Assumed are the named assumptions on the constants of the modules, which TLC evaluates
in each run, and nothing else; for LeagueWalk and ApiKeys they are hypotheses of the
theorems, `League!LeagueWalkAssumption` and `Api!ApiKeysAssumption`.

Only model-checked: every liveness property and with them the liveness half of
`ImplementsOrderLife` and of `ImplementsSharedSession` (fairness and ENABLED are out of the prover's reach). Every
invariant and every action property that a run checks has a theorem.

## 5. What the models found

One disagreement is a run and a `findings` entry:

* `SafetyNetWithinBound` (`safety_net_undone`), two windows in flight: window 1 reads a
  page before match 2 is published, so 2 is a hole below the claimed start 3. At every
  later tip, window 3 is answered with match 3, window 5 is answered with nothing and
  rewinds the cursor (`fetch-seq-window.ts:45`), and window 3, which saves last, lifts
  it to 3 again. No claim ever sees the rewound cursor, and match 2 is never saved,
  although `worker-architecture.md:118` calls the walk a safety net. It needs no throw
  and no crash, only that order in each round: one round in which the empty window
  writes last finds the match. With one window the property holds
  (`SafetyNetAlone.cfg`).

These have a configuration that reproduces them and are not runs:

* `TimeoutOnlyWhileAwaiting.cfg`: the waiter's select sees `awaiting_history` with
  the budget spent; a details job moves the row on; the update writes `failed`
  (`matches.ts:905`; `job-graph.md:152` says a failed match is still awaiting).
* `AdvancedKeepsWaiter.cfg`: a match finishes, its details job starts, it is sighted
  once more (which disarms the waiter), the GC record makes it `details_ready`
  directly from live. It is never armed again (`matches.ts:107`;
  `worker-architecture.md:95`).
* `AdoptKeepsParsed.cfg`: a details job reads `downloading`, the download stores the
  object, the parser claims, and the details job, which now finds the object,
  writes `stored`: a second claim of the same replay (`adopt-replay-object.ts:53`;
  `job-graph.md:616`).
* `ParsedIsOneExtract.cfg`: the parser dies after a flush; the row is reclaimed, but
  `parser_version` is still NULL, so the next parse deletes nothing and the rows
  of the first stay (`app.go:164`; `replay-parser.md:70`).
* `ParsedOnBothRows.cfg`: the download dies between `updateReplay` and
  `markMatchReplayStatus` with the match in `awaiting_history`; the publish moves
  only three statuses to `parsed`, and the match never becomes parsed
  (`replay-parser.md:24`).
* `DraftIsFilled.cfg`: `insertUndiscoveredMatch` stamps a match that the sequence walk
  finds first in the transaction that saves its record, so the record's own facts count
  as coming after a post-game source (`persist-match.ts:65`), and a draft that is
  missing is not filled (`matches.ts:1315`). `data-schema.md:1324` lists the draft among
  what the sequence record gives, and the window persists the "same seq blob as
  `fetch_seq_details`" (`worker-architecture.md:139-141`), an "additive fill"
  (`:168-170`). Only the parser fills it.
* `DisabledOnRecord.cfg`: a call judges the window of a key, a probe of the retest
  succeeds and restores the key, and then the call disables it, with a success on
  record and the window below the threshold (`resource-health.ts:203`;
  `worker-architecture.md:261`). A later retest may bring it back.
* `KeyRetestsEnd.cfg`: a failed retest of a key disables it again, which sets its
  retest count back to 0, so the budget is not spent
  (`marketplace-buy-account.md:79` and `:87`).
* `RateLimitedAccount.cfg`: the status `rate_limited` of an account is left by no
  statement when the time is over, and `listGcAccounts` wants `ready` or `active`,
  so an account that Steam limited once does not return
  (`db/migrations/20260903210000_settings_collector_knobs.sql:92`,
  `marketplace-buy-account.md:128`).

Seen while modelling, and represented in the models without a property of its own:

* SeqWalk: a window out of tries keeps its key, and since `unsafe_dedupe` respects
  it, a later claim of that start enqueues nothing although `jobKeyIsAlive` said it
  may; two claimers that count before either enqueues exceed `seq_walk_parallelism`;
  `bumpGlobalMatchSeq`, which reads and writes in two statements, may lower the
  informational cursor.
* Marketplace: an order that settles between the count of the ready accounts and the
  count of the pending orders is in neither, so more is bought than the pool lacks
  (`marketplace-buy-account.md:130`); what is under way never exceeds the setting.
* GcSession: a coordinator that does not answer leaves the session as it is
  (`Request`), where `worker-architecture.md:263` speaks of the next account.
  `connectAccount` rotates over proxies without a count; the proxies' windows end it.
  `markAccountLogin` looks at no status; within a worker it meets no disabled account.
  `pickApiCredential` of ApiKeys does set a key active that was disabled in between.
* JobQueue: a loop whose walk is parked under `later:` counts as missing, and so does
  one that is replaced between the read and the add of `runEnsureLoopJobs`
  (`job-graph.md:193`); the jobs are keyed, so it is done twice and not lost.
* AccountSetup: a run that dies between Finalize and `saveSharedSecret` leaves the
  authenticator on and its secret nowhere (`lost`); Steam then refuses every
  enrolment. A confirmation that is the only one is taken for the run's own, though
  it may be another's. Saving a secret or a key makes a disabled account ready, and
  mobile and GC tokens share one column.
* MatchFacts: for a match without teams and without series nothing keeps the
  transactions apart, and a live poll that read the stamps before a details job
  committed overwrites its values (`poll-live.ts:108`, `data-schema.md:178`); that is
  the condition `named` of `PostgameIsKept`. A poll that is rolled back leaves its
  digest behind (`poll-live.ts:159`); that is `lost`.

## 6. Not modelled

* **Demo decoding**: data extraction with a third-party decoder, no shared state.
* **API pacing** (`acquireSteamApiSlot`, the reservation for live calls): its promise
  is about intervals of real time between calls of one key; the models have no
  clocks.
* **Catalogs, request logs, metrics**: reference data and append-only rows that no
  part decides on. Of the live ticks only that they are there is modelled.
* **HTTP API**: reads, and one-off jobs through `enqueueJob`, which are `Ask` and
  `asked` of JobQueue and LeagueWalk.
* **Operator commands**: run by hand, one at a time; of `steam-guard` its dialogues
  `setup` and `confirm` are in AccountSetup, `add`, `save` and `add-phone` are not.
* **Names, ids, links and child rows** of matches, players and teams; alerts;
  parsing of mails, pages and protocol messages, which are outcomes.
* **The paging of the waiter's crawl**: the set of matches it finds.

In MatchPipeline the origin of a job is not tracked: the historical limit
(`DetailsLimited`) applies to matches no live feed listed.

## 7. Plan

Modelled and checked: all modules of section 2; proved: what section 4 lists. What is
left, in order:

| Order | What | Content |
|---|---|---|
| 1 | ApiSlots | slots with an explicit clock under row locks, if a property is found that does not depend on real time |
| 2 | HistoryPaging | pure: what the waiter concludes from a page, `applySeqWindow`, retry delays, against reference definitions |
