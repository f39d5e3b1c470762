--------------------------- MODULE MatchPipeline ---------------------------
(***************************************************************************)
(* The life of a row of the Postgres table matches: what the two live      *)
(* feeds, the realtime poll, the finished-history waiter, the history and  *)
(* sequence walkers, the GC details job, the download job and the parser   *)
(* write to it, each as one action per committed transaction.              *)
(*                                                                         *)
(* Simplifications.  A timestamp column is a Boolean (set or NULL) and     *)
(* "due" is nondeterministic.  Listing fields, players, drafts and series  *)
(* are not represented.  All matches belong to one league.  server_steam_id*)
(* is not kept: the realtime poll may ask about any live row the top feed  *)
(* listed.  A rolled-back tick (and the digest cache it leaves behind) is  *)
(* not represented.  What happens to match_replays is in ReplayLifecycle.  *)
(***************************************************************************)
EXTENDS Integers, FiniteSets

CONSTANTS
    Match,           \* match ids
    MissThreshold,   \* settings.live_missing_threshold
    FastLimit,       \* settings.history_fast_poll_limit
    SlowLimit        \* settings.history_slow_poll_limit

ASSUME PipelineAssumption ==
    /\ MissThreshold \in Nat \ {0}
    /\ FastLimit \in Nat
    /\ SlowLimit \in Nat

VARIABLES
    row,      \* row[m]: the matches row of m
    jobs,     \* jobs[m]: the keyed jobs of m that wait in the queue
    gc,       \* gc[m]: the running fetch_match_details job of m
    replay,   \* replay[m]: what match_replays holds of m's object
    post,     \* finished by a committed live tick, details job not enqueued yet
    hist,     \* the running poll_finished_history job
    rt,       \* targets the running poll_realtime_stats job still has to ask
    lost      \* history: matches one of whose jobs ended with nothing done

vars == <<row, jobs, gc, replay, post, hist, rt, lost>>

-----------------------------------------------------------------------------
(* Statuses and columns *)

Feed == {"league", "top"}     \* GetLiveLeagueGames, GetTopLiveGame

\* Phases a live-feed sighting must not pull back to live.
Keep == {"details_ready", "awaiting_replay", "replay_stored",
         "replay_unavailable", "parsed"}

Status == Keep \cup {"absent", "discovered", "live", "not_started",
                     "awaiting_history", "awaiting_details", "failed"}

Row == [status : Status,
        feeds  : SUBSET Feed,               \* live part of ingest_sources
        missed : [Feed -> 0..MissThreshold],\* saturated at the threshold
        horn   : BOOLEAN,                   \* live_duration_max > 0
        armed  : BOOLEAN,                   \* history_next_poll_at IS NOT NULL
        fast   : 0..FastLimit,              \* history_poll_fast_count
        slow   : 0..SlowLimit,              \* history_poll_slow_count
        seqnum : BOOLEAN,                   \* match_seq_num IS NOT NULL
        gcDone : BOOLEAN]                   \* details_fetched_at IS NOT NULL

NoRow == [status |-> "absent", feeds |-> {}, missed |-> [f \in Feed |-> 0],
          horn |-> FALSE, armed |-> FALSE, fast |-> 0, slow |-> 0,
          seqnum |-> FALSE, gcDone |-> FALSE]

\* Live-finish waiter is armed until GetMatchHistory stores a seqnum.
historyWaiterPending(r) == r.armed /\ ~r.seqnum

-----------------------------------------------------------------------------
(* What one UPDATE does to a row *)

\* Mutant: a failed match keeps its status while its counts are reset.
liveSightingResumeSetFailedKept(r, f) ==
    LET resumed == r.status \notin Keep \cup {"live"}
    IN  [r EXCEPT !.status = IF @ \in Keep \cup {"failed"} THEN @ ELSE "live",
                  !.armed = @ /\ ~resumed,
                  !.fast = IF resumed THEN 0 ELSE @,
                  !.slow = IF resumed THEN 0 ELSE @,
                  !.missed[f] = 0]

\* A sighting by feed f: resume a false finish, reset f's miss counter.
liveSightingResumeSet(r, f) ==
    LET resumed == r.status \notin Keep \cup {"live"}
    IN  [r EXCEPT !.status = IF @ \in Keep THEN @ ELSE "live",
                  !.armed = @ /\ ~resumed,
                  !.fast = IF resumed THEN 0 ELSE @,
                  !.slow = IF resumed THEN 0 ELSE @,
                  !.missed[f] = 0]

touchMatchLive(r, f) ==
    [liveSightingResumeSet(r, f) EXCEPT !.feeds = @ \cup {f}]

noteLiveClock(r, running) == [r EXCEPT !.horn = @ \/ running]

noteLiveFeedMisses(r, f) ==
    IF r.status = "live" /\ f \in r.feeds /\ r.missed[f] < MissThreshold
    THEN [r EXCEPT !.missed[f] = @ + 1]
    ELSE r

\* Mutant: waits for the miss counter of a feed that never listed the match.
liveFeedsDoneBoth(r) ==
    /\ r.feeds # {}
    /\ \A f \in Feed : r.missed[f] >= MissThreshold

\* Every feed that listed the match has dropped it for long enough.
liveFeedsDone(r) ==
    /\ r.feeds # {}
    /\ \A f \in r.feeds : r.missed[f] >= MissThreshold

finishMissing(r) ==
    IF r.status = "live" /\ liveFeedsDone(r)
    THEN [r EXCEPT !.status = IF r.horn THEN "awaiting_history"
                                        ELSE "not_started",
                   !.armed = r.horn]
    ELSE r

markHistoryAvailable(r) ==
    IF r.status \in {"absent", "live"} THEN r
    ELSE [r EXCEPT !.seqnum = TRUE,
                   !.armed = FALSE,
                   !.status = IF @ \in {"awaiting_history", "not_started",
                                        "discovered", "failed"}
                              THEN "awaiting_details" ELSE @]

\* Mutants: no cap on the fast count; returns the count it was given.
advanceHistoryMissUncapped(fast, slow) ==
    [fast |-> fast + 1, slow |-> slow, done |-> fast > FastLimit]

advanceHistoryMissStuck(fast, slow) ==
    [fast |-> fast, slow |-> slow,
     done |-> fast >= FastLimit /\ slow >= SlowLimit]

advanceHistoryMiss(fast, slow) ==
    [fast |-> IF fast < FastLimit THEN fast + 1 ELSE fast,
     slow |-> IF fast >= FastLimit /\ slow < SlowLimit THEN slow + 1 ELSE slow,
     done |-> fast >= FastLimit /\ slow >= SlowLimit]

\* The UPDATE of recordHistoryPollMisses: everything comes from the row s read
\* by its SELECT, nothing from the row r it overwrites but the kept status.
recordHistoryPollMiss(r, s) ==
    LET next == advanceHistoryMiss(s.fast, s.slow)
    IN  [r EXCEPT !.fast = next.fast,
                  !.slow = next.slow,
                  !.armed = ~next.done,
                  !.status = IF next.done /\ s.awaits
                             THEN "failed" ELSE @]

upsertHistoryMatches(r) ==
    [r EXCEPT !.seqnum = TRUE,
              !.status = IF @ \in Keep \cup {"live", "failed"}
                         THEN @ ELSE "awaiting_details"]

\* Mutant: a late record pulls a match back from the download phases.
saveMatchFactsAlways(r, fetched, seqnum) ==
    [r EXCEPT !.seqnum = @ \/ seqnum,
              !.gcDone = @ \/ fetched = "gc",
              !.status = IF @ = "parsed" THEN @
                         ELSE IF fetched = "gc" \/ r.gcDone
                              THEN "details_ready" ELSE "awaiting_details"]

\* persistMatchRecord: insert the row if there is none, then saveMatchFacts.
saveMatchFacts(r, fetched, seqnum) ==
    [r EXCEPT !.seqnum = @ \/ seqnum,
              !.gcDone = @ \/ fetched = "gc",
              !.status = IF @ \in Keep \ {"details_ready"} THEN @
                         ELSE IF fetched = "gc" \/ r.gcDone
                              THEN "details_ready" ELSE "awaiting_details"]

markMatchReplayStatus(r, s) ==
    IF r.status \in {"absent", "parsed"} THEN r ELSE [r EXCEPT !.status = s]

markParsed(r) ==
    IF r.status \in {"replay_stored", "awaiting_replay", "details_ready"}
    THEN [r EXCEPT !.status = "parsed"] ELSE r

-----------------------------------------------------------------------------
(* Actors *)

Missed == [awaits : BOOLEAN, fast : 0..FastLimit, slow : 0..SlowLimit]

NoSnap == [m \in {} |-> [awaits |-> FALSE, fast |-> 0, slow |-> 0]]

Idle == [pc |-> "idle", waiting |-> {}, found |-> {}, snap |-> NoSnap]

Init ==
    /\ row = [m \in Match |-> NoRow]
    /\ jobs = [m \in Match |-> {}]
    /\ gc = [m \in Match |-> "idle"]
    /\ replay = [m \in Match |-> "none"]
    /\ post = {}
    /\ hist = Idle
    /\ rt = {}
    /\ lost = {}

Enqueued(k, S) == [m \in Match |-> IF m \in S THEN jobs[m] \cup {k} ELSE jobs[m]]

\* The transaction of one live tick of feed f over a listing that holds the
\* professional matches seen; running are those whose game clock has started.
\* An empty listing is suspect: it counts no miss and finishes nothing.
liveTick(r, f, isSeen, running, nonempty) ==
    LET touched == IF isSeen THEN noteLiveClock(touchMatchLive(r, f), running)
                             ELSE r
        missed  == IF nonempty /\ ~isSeen THEN noteLiveFeedMisses(touched, f)
                                          ELSE touched
    IN  IF nonempty THEN finishMissing(missed) ELSE missed

CommitTick(f, seen, running, nonempty) ==
    /\ row' = [m \in Match |->
                  liveTick(row[m], f, m \in seen, m \in running, nonempty)]
    /\ post' = post \cup
               {m \in Match : /\ m \in seen \/ row[m].status = "live"
                              /\ row'[m].status \in {"awaiting_history", "not_started"}}
    /\ UNCHANGED <<jobs, gc, replay, hist, rt, lost>>

PollLiveGames ==
    \E seen \in SUBSET Match, nonempty \in BOOLEAN :
        /\ seen # {} => nonempty
        /\ \E running \in SUBSET seen : CommitTick("league", seen, running, nonempty)

PollTopLive ==
    \E seen \in SUBSET Match, nonempty \in BOOLEAN :
        /\ seen # {} => nonempty
        /\ CommitTick("top", seen, {}, nonempty)

\* Mutant: leaves a match whose waiter is not pending to the waiter.
EnqueueLiveFinishedDetailsPending ==
    /\ post # {}
    /\ jobs' = Enqueued("details", {m \in post : historyWaiterPending(row[m])})
    /\ post' = {}
    /\ UNCHANGED <<row, gc, replay, hist, rt, lost>>

\* After the commit: a details job for each id that still waits for history.
EnqueueLiveFinishedDetails ==
    /\ post # {}
    /\ jobs' = Enqueued("details",
                        {m \in post : row[m].status = "awaiting_history"})
    /\ post' = {}
    /\ UNCHANGED <<row, gc, replay, hist, rt, lost>>

-----------------------------------------------------------------------------
(* poll_realtime_stats: targets are read once, answers arrive one by one *)

RealtimeStart ==
    \E S \in SUBSET {m \in Match : row[m].status = "live" /\ "top" \in row[m].feeds} :
        /\ S # {}
        /\ rt' = rt \cup S
        /\ UNCHANGED <<row, jobs, gc, replay, post, hist, lost>>

RealtimeAnswer(m) ==
    /\ m \in rt
    /\ rt' = rt \ {m}
    /\ \E running \in BOOLEAN :
          row' = [row EXCEPT ![m] = noteLiveClock(touchMatchLive(@, "top"), running)]
    /\ UNCHANGED <<jobs, gc, replay, post, hist, lost>>

\* No answer, a public match, or the tick's deadline.
RealtimeSkip(m) ==
    /\ m \in rt
    /\ rt' = rt \ {m}
    /\ UNCHANGED <<row, jobs, gc, replay, post, hist, lost>>

-----------------------------------------------------------------------------
(* poll_finished_history *)

HistStart ==
    LET waiting == {m \in Match : historyWaiterPending(row[m])}
    IN  /\ hist.pc = "idle"
        /\ waiting # {}
        /\ hist' = [hist EXCEPT !.pc = "crawl", !.waiting = waiting]
        /\ UNCHANGED <<row, jobs, gc, replay, post, rt, lost>>

\* The pages are in; the transaction reads the missed rows it will update.
HistSelect ==
    /\ hist.pc = "crawl"
    /\ \E found \in SUBSET hist.waiting :
          hist' = [pc |-> "tx", waiting |-> {}, found |-> found,
                   snap |-> [m \in {x \in hist.waiting \ found :
                                       historyWaiterPending(row[x])} |->
                               [awaits |-> row[m].status = "awaiting_history",
                                fast |-> row[m].fast, slow |-> row[m].slow]]]
    /\ UNCHANGED <<row, jobs, gc, replay, post, rt, lost>>

HistCommit ==
    /\ hist.pc = "tx"
    /\ row' = [m \in Match |->
                  IF m \in hist.found THEN markHistoryAvailable(row[m])
                  ELSE IF m \in DOMAIN hist.snap
                       THEN recordHistoryPollMiss(row[m], hist.snap[m])
                       ELSE row[m]]
    /\ hist' = [Idle EXCEPT !.pc = "post", !.found = hist.found]
    /\ UNCHANGED <<jobs, gc, replay, post, rt, lost>>

\* Seq and GC details for everything the crawl found, whatever its status.
HistEnqueue ==
    /\ hist.pc = "post"
    /\ jobs' = Enqueued("details", hist.found)
    /\ hist' = Idle
    /\ UNCHANGED <<row, gc, replay, post, rt, lost>>

-----------------------------------------------------------------------------
(* walk_league_history, fetch_seq_window, fetch_seq_details *)

WalkLeaguePage(listed) ==
    /\ row' = [m \in Match |-> IF m \in listed THEN upsertHistoryMatches(row[m])
                                               ELSE row[m]]
    /\ UNCHANGED <<jobs, gc, replay, post, hist, rt, lost>>

\* As many of the rows without GC details as the in-flight limit has room for.
WalkEnqueueDetails ==
    \E S \in SUBSET {m \in Match : /\ ~row[m].gcDone
                                   /\ row[m].status \in {"discovered", "awaiting_details"}} :
        /\ S # {}
        /\ jobs' = Enqueued("details", S)
        /\ UNCHANGED <<row, gc, replay, post, hist, rt, lost>>

\* A sequence window holds m.  The details job is enqueued after the commit.
SeqWindow(m, died) ==     \* died: between the two
    /\ row' = [row EXCEPT ![m] = saveMatchFacts(@, "seq", TRUE)]
    /\ jobs' = IF row'[m].gcDone \/ died THEN jobs ELSE Enqueued("details", {m})
    /\ UNCHANGED <<gc, replay, post, hist, rt, lost>>

\* fetch_seq_details asks for the one record of a known seqnum.
SeqDetails(m) ==
    /\ row[m].seqnum
    /\ row' = [row EXCEPT ![m] = saveMatchFacts(@, "seq", TRUE)]
    /\ UNCHANGED <<jobs, gc, replay, post, hist, rt, lost>>

-----------------------------------------------------------------------------
(* fetch_match_details: one job of m at a time, on its named queue *)

DetailsStart(m) ==
    /\ "details" \in jobs[m]
    /\ gc[m] = "idle"
    /\ jobs' = [jobs EXCEPT ![m] = @ \ {"details"}]
    /\ gc' = [gc EXCEPT ![m] = "asking"]
    /\ UNCHANGED <<row, replay, post, hist, rt, lost>>

\* The answer carries the match record.
DetailsSaved(m) ==
    /\ gc[m] = "asking"
    /\ \E seqnum \in BOOLEAN :
          row' = [row EXCEPT ![m] = saveMatchFacts(@, "gc", seqnum)]
    /\ gc' = [gc EXCEPT ![m] = "saved"]
    /\ UNCHANGED <<jobs, replay, post, hist, rt, lost>>

RunEnds(m) ==
    /\ gc' = [gc EXCEPT ![m] = "idle"]
    /\ UNCHANGED <<post, hist, rt>>

\* GC result 15: the record will never be served.
DetailsRefused(m) ==
    /\ gc[m] = "asking"
    /\ row' = [row EXCEPT ![m] = markMatchReplayStatus(@, "replay_unavailable")]
    /\ RunEnds(m)
    /\ UNCHANGED <<jobs, replay, lost>>

\* No usable GC account, or a replay not recorded or expired: only the replay
\* row is told, the match keeps its status.
DetailsFruitless(m) ==
    /\ gc[m] = "asking"
    /\ lost' = lost \cup {m}
    /\ RunEnds(m)
    /\ UNCHANGED <<row, jobs, replay>>

\* The run threw, or got no cluster and salt: the job is queued again.
DetailsRetry(m) ==
    /\ gc[m] # "idle"
    /\ jobs' = Enqueued("details", {m})
    /\ RunEnds(m)
    /\ UNCHANGED <<row, replay, lost>>

\* The last try threw.
DetailsGiveUp(m) ==
    /\ gc[m] # "idle"
    /\ lost' = lost \cup {m}
    /\ RunEnds(m)
    /\ UNCHANGED <<row, jobs, replay>>

\* From here on the locator is known, from this answer or from before, and
\* skipDownloadIfPresent has looked at the replay row and at the object store.
\* Parsed already: nothing to do.
DetailsKept(m) ==
    /\ gc[m] # "idle"
    /\ replay[m] = "parsed"
    /\ lost' = lost \cup {m}
    /\ RunEnds(m)
    /\ UNCHANGED <<row, jobs, replay>>

\* The object is in the store: the row adopts it.
DetailsAdopt(m) ==
    /\ gc[m] # "idle"
    /\ replay[m] # "parsed"
    /\ row' = [row EXCEPT ![m] = markMatchReplayStatus(@, "replay_stored")]
    /\ replay' = [replay EXCEPT ![m] = "stored"]
    /\ RunEnds(m)
    /\ UNCHANGED <<jobs, lost>>

\* The CDN host of the cluster is not published.
DetailsUnpublished(m) ==
    /\ gc[m] # "idle"
    /\ replay[m] # "parsed"
    /\ row' = [row EXCEPT ![m] = markMatchReplayStatus(@, "replay_unavailable")]
    /\ RunEnds(m)
    /\ UNCHANGED <<jobs, replay, lost>>

DetailsDownload(m) ==
    /\ gc[m] # "idle"
    /\ replay[m] # "parsed"
    /\ jobs' = Enqueued("replay", {m})
    /\ RunEnds(m)
    /\ UNCHANGED <<row, replay, lost>>

\* A match that was never live, and the historical download limit is reached.
DetailsLimited(m) ==
    /\ gc[m] # "idle"
    /\ replay[m] # "parsed"
    /\ row[m].feeds = {}
    /\ lost' = lost \cup {m}
    /\ RunEnds(m)
    /\ UNCHANGED <<row, jobs, replay>>

-----------------------------------------------------------------------------
(* download_replay and the parser *)

\* The object is in the store, fetched now or found there.
DownloadStored(m) ==
    /\ "replay" \in jobs[m]
    /\ jobs' = [jobs EXCEPT ![m] = @ \ {"replay"}]
    /\ \/ /\ replay[m] = "parsed"            \* the row keeps its status
          /\ lost' = lost \cup {m}
          /\ UNCHANGED <<row, replay>>
       \/ /\ replay[m] # "parsed"
          /\ row' = [row EXCEPT ![m] = markMatchReplayStatus(@, "replay_stored")]
          /\ replay' = [replay EXCEPT ![m] = "stored"]
          /\ UNCHANGED lost
    /\ UNCHANGED <<gc, post, hist, rt>>

\* Unpublished host, or the 404 ladder is exhausted.
DownloadUnavailable(m) ==
    /\ "replay" \in jobs[m]
    /\ jobs' = [jobs EXCEPT ![m] = @ \ {"replay"}]
    /\ row' = [row EXCEPT ![m] = markMatchReplayStatus(@, "replay_unavailable")]
    /\ UNCHANGED <<gc, replay, post, hist, rt, lost>>

\* Every try threw.  A 404 or an earlier throw leaves the job in the queue.
DownloadGiveUp(m) ==
    /\ "replay" \in jobs[m]
    /\ jobs' = [jobs EXCEPT ![m] = @ \ {"replay"}]
    /\ lost' = lost \cup {m}
    /\ UNCHANGED <<row, gc, replay, post, hist, rt>>

ParserPublish(m) ==
    /\ replay[m] = "stored"
    /\ replay' = [replay EXCEPT ![m] = "parsed"]
    /\ row' = [row EXCEPT ![m] = markParsed(@)]
    /\ UNCHANGED <<jobs, gc, post, hist, rt, lost>>

ParserFail(m) ==
    /\ replay[m] = "stored"
    /\ replay' = [replay EXCEPT ![m] = "none"]
    /\ UNCHANGED <<row, jobs, gc, post, hist, rt, lost>>

-----------------------------------------------------------------------------
(* A process dies: what it had in memory is gone, and a job that ran on a    *)
(* named queue is not run again.                                             *)

Crash ==
    /\ \/ /\ post # {}
          /\ post' = {}
          /\ lost' = lost \cup post
          /\ UNCHANGED <<gc, hist, rt>>
       \/ /\ hist.pc # "idle"
          /\ hist' = Idle
          /\ lost' = IF hist.pc = "post" THEN lost \cup hist.found ELSE lost
          /\ UNCHANGED <<gc, post, rt>>
       \/ /\ rt # {}
          /\ rt' = {}
          /\ UNCHANGED <<gc, post, hist, lost>>
       \/ \E m \in Match :
             /\ gc[m] # "idle"
             /\ gc' = [gc EXCEPT ![m] = "idle"]
             /\ lost' = lost \cup {m}
             /\ UNCHANGED <<post, hist, rt>>
    /\ UNCHANGED <<row, jobs, replay>>

Next ==
    \/ PollLiveGames
    \/ PollTopLive
    \/ EnqueueLiveFinishedDetails
    \/ RealtimeStart
    \/ HistStart
    \/ HistSelect
    \/ HistCommit
    \/ HistEnqueue
    \/ \E listed \in SUBSET Match : WalkLeaguePage(listed)
    \/ WalkEnqueueDetails
    \/ Crash
    \/ \E m \in Match :
          \/ RealtimeAnswer(m)
          \/ RealtimeSkip(m)
          \/ \E died \in BOOLEAN : SeqWindow(m, died)
          \/ SeqDetails(m)
          \/ DetailsStart(m)
          \/ DetailsSaved(m)
          \/ DetailsRefused(m)
          \/ DetailsFruitless(m)
          \/ DetailsRetry(m)
          \/ DetailsGiveUp(m)
          \/ DetailsKept(m)
          \/ DetailsAdopt(m)
          \/ DetailsUnpublished(m)
          \/ DetailsDownload(m)
          \/ DetailsLimited(m)
          \/ DownloadStored(m)
          \/ DownloadUnavailable(m)
          \/ DownloadGiveUp(m)
          \/ ParserPublish(m)
          \/ ParserFail(m)

\* poll_finished_history reschedules itself in a finally block and its cron
\* revives it, so a poll that has work is started again; a process that dies now
\* and then does not die at the same step of every poll.
Fairness ==
    /\ WF_vars(HistStart \/ HistEnqueue)
    /\ SF_vars(HistSelect)
    /\ SF_vars(HistCommit)

Spec == Init /\ [][Next]_vars /\ Fairness

-----------------------------------------------------------------------------
(* Properties *)

Hist == [pc : {"idle", "crawl", "tx", "post"},
         waiting : SUBSET Match,
         found : SUBSET Match,
         snap : UNION {[D -> Missed] : D \in SUBSET Match}]

\* Every column, queue and actor stays in its domain.
TypeOK ==
    /\ row \in [Match -> Row]
    /\ jobs \in [Match -> SUBSET {"details", "replay"}]
    /\ gc \in [Match -> {"idle", "asking", "saved"}]
    /\ replay \in [Match -> {"none", "stored", "parsed"}]
    /\ post \subseteq Match
    /\ hist \in Hist
    /\ rt \subseteq Match
    /\ lost \subseteq Match

\* A live row can still be finished: some live feed that listed it has not yet
\* dropped it for long enough, so a later tick must take the decision
\* (finishMissingLiveMatches never leaves a decided row live).
LiveStillListed ==
    \A m \in Match :
        row[m].status = "live" =>
            \E f \in row[m].feeds : row[m].missed[f] < MissThreshold

\* The waiter fails a match only after its whole fast and slow budget, and
\* stops polling for it (advanceHistoryMiss, recordHistoryPollMisses).
FailedMeansBudgetSpent ==
    \A m \in Match :
        row[m].status = "failed" =>
            /\ row[m].fast = FastLimit
            /\ row[m].slow = SlowLimit
            /\ ~row[m].armed

phase == [m \in Match |-> row[m].status]

Life == INSTANCE MatchLife

\* What readers of matches.status see from one commit to the next is one of the
\* moves of MatchLife: the feeds, the waiter, the walkers, the details jobs, the
\* download and the parser commit in any order, on what they read before, and
\* still no match moves as none of them is entitled to move it.
ImplementsMatchLife == Life!Spec

\* No step takes a match out of the phases KEEP_ON_LIVE_SIGHTING names, except
\* the history waiter's timeout; a match that reached the download phases does
\* not return to details_ready; parsed is final but for that timeout.
KeptPhase ==
    [][\A m \in Match :
         /\ row[m].status \in Keep =>
               row'[m].status \in Keep \/ (hist.pc = "tx" /\ row'[m].status = "failed")
         /\ row[m].status \in Keep \ {"details_ready"} => row'[m].status # "details_ready"
         /\ row[m].status = "parsed" => row'[m].status \in {"parsed", "failed"}]_vars

\* A finished match is never forgotten: while it awaits history the waiter
\* polls for it, or a details or download job of it is under way or about to
\* be enqueued, unless such a job already ended with nothing done.
FinishNeverOrphaned ==
    \A m \in Match :
        row[m].status = "awaiting_history" =>
            \/ historyWaiterPending(row[m])
            \/ jobs[m] # {}
            \/ gc[m] # "idle"
            \/ m \in post \cup hist.found \cup lost

\* A waiter does not poll for ever: whatever the other writers do to the row,
\* its budget runs out, its seqnum arrives or a sighting brings the match back.
\* (A row that is live and armed can poll for ever: markHistoryAvailable skips
\* live rows, so a found match uses up no budget.)
WaiterTerminates ==
    \A m \in Match :
        historyWaiterPending(row[m])
            ~> ~historyWaiterPending(row[m]) \/ row[m].status = "live"

\* docs/specs/job-graph.md: failed is "history waiter exhausted while still
\* awaiting_history".
TimeoutOnlyWhileAwaiting ==
    [][\A m \in Match :
         row[m].status # "failed" /\ row'[m].status = "failed" =>
             row[m].status = "awaiting_history"]_vars

\* poll-finished-history.ts: the waiter is "not gated on match status, so GC /
\* replay advancing the row still gets a seqnum": a live match whose details
\* came first keeps its waiter until the seqnum is known or the budget spent.
AdvancedKeepsWaiter ==
    \A m \in Match :
        /\ row[m].feeds # {}
        /\ row[m].gcDone
        /\ ~row[m].seqnum
        /\ ~(row[m].fast = FastLimit /\ row[m].slow = SlowLimit)
        => row[m].armed

============================================================================
