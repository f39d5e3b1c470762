----------------------------- MODULE LeagueWalk -----------------------------
(***************************************************************************)
(* walk_league_history: pages of GetMatchHistory of one league after the   *)
(* other, from the newest match down, with a cursor per league.  The walk  *)
(* goes on by itself through the queue (JobQueue has the rows in detail);  *)
(* cron, boot and recovery start it beside that chain, and the API starts  *)
(* a walk of one league, so two walks may be under way at once.            *)
(*                                                                         *)
(* Simplifications.  A league is its place in the order of                 *)
(* pickNextHistoryLeague, the last first; a match is its number in its     *)
(* league, the newest last.  Time is whether a refresh is due.  What a     *)
(* listed match becomes is in MatchPipeline, and the details jobs that a   *)
(* run tops up at its end are left out: they do not steer the walk.        *)
(***************************************************************************)
EXTENDS Integers, FiniteSets, FiniteSetsExt

CONSTANTS
    Leagues,       \* leagues, as numbers: the greatest is walked first
    PlaysTop,      \* bound of the model: matches of the greatest league
    PlaysOther,    \* bound of the model: matches of each other league
    PageSize,      \* settings.history_page_size
    Walkers,       \* walks that may be under way at once
    MaxExtras,     \* bound of the model: walks that start beside the chain
    MaxFaults      \* bound of the model: lost runs, failed pages, early refreshes

ASSUME LeagueWalkAssumption ==
    /\ Leagues \subseteq Nat \ {0} /\ IsFiniteSet(Leagues) /\ Leagues # {}
    /\ PlaysTop \in Nat /\ PlaysOther \in Nat
    /\ PageSize \in Nat /\ PageSize >= 2
    /\ IsFiniteSet(Walkers)
    /\ MaxExtras \in Nat
    /\ MaxFaults \in Nat

Plays == [l \in Leagues |-> IF l = Max(Leagues) THEN PlaysTop ELSE PlaysOther]
Match == UNION {{l} \X (1..Plays[l]) : l \in Leagues}
None == 0

VARIABLES
    newest,     \* newest[l]: the newest match Valve lists for the league
    upcoming,   \* leagues.status is UPCOMING
    tail,       \* leagues.history_tail_match_id
    exhausted,  \* leagues.history_exhausted
    due,        \* newestRefreshDue, from history_checked_at
    listed,     \* matches that persistListed has saved
    row,        \* the waiting row with the key walk_league_history
    parked,     \* the waiting run_scheduled_job row of the walk
    asked,      \* leagues with a waiting row of the API, key walk:{id}
    walk,       \* walk[w]: the run of runWalkLeagueHistory by w
    extras,     \* history: walks that started beside the chain
    faults      \* history: faults so far

league == <<newest, upcoming, tail, exhausted, due>>
queue == <<row, parked, asked>>
vars == <<league, listed, queue, walk, extras, faults>>

Empty == [is |-> "none"]
Waiting(l, queued) == [is |-> "waiting", league |-> l, queued |-> queued]
Idle == [pc |-> "idle"]

RowsOf(queues) ==
    [is : {"waiting"}, league : Leagues \cup {None}, queued : queues]

-----------------------------------------------------------------------------

\* GetMatchHistory: the newest matches, or those from the tail down, with it.
Top(l, from) == IF from = None THEN newest[l] ELSE from
Page(l, from) ==
    {m \in 1..Top(l, from) : m > Top(l, from) - PageSize}
ResultsRemaining(l, from) == Top(l, from) > PageSize

\* pickNextHistoryLeague
Pickable == {l \in Leagues : ~upcoming[l] /\ (~exhausted[l] \/ due[l])}

\* A refresh starts at the newest match; otherwise the walk goes on at the tail.
From(l) == IF due[l] THEN None ELSE tail[l]

\* Mutant: the next page starts below the oldest match.
OldestBelow(r) == IF r.page = {} THEN r.tail ELSE Min(r.page) - 1

\* oldest ?? tail
Oldest(r) == IF r.page = {} THEN r.tail ELSE Min(r.page)

NoMore(r) == ~r.more \/ r.page = {} \/ Min(r.page) = r.tail

\* walkHasOlderPages
HasOlderPages(r) == r.page # {} /\ ~NoMore(r)

\* Mutant: only an empty page ends a league, but a page holds its tail.
ExhaustedNowEmpty(r) == r.page = {}

\* What updateLeagueHistoryCursor is given: a newest page exhausts a league
\* only when it is empty.
ExhaustedNow(r) == IF r.refresh THEN r.page = {} ELSE NoMore(r)

Set(f, l, v) == [f EXCEPT ![l] = v]

Fault ==
    /\ faults < MaxFaults
    /\ faults' = faults + 1

-----------------------------------------------------------------------------

Init ==
    /\ newest = [l \in Leagues |-> 0]
    /\ upcoming = [l \in Leagues |-> TRUE]
    /\ tail = [l \in Leagues |-> None]
    /\ exhausted = [l \in Leagues |-> FALSE]
    /\ due = [l \in Leagues |-> TRUE]
    /\ listed = {}
    /\ row = Waiting(None, FALSE)
    /\ parked = Empty
    /\ asked = {}
    /\ walk = [w \in Walkers |-> Idle]
    /\ extras = 0
    /\ faults = 0

-----------------------------------------------------------------------------
(* A run of the walk *)

Reset(l) ==
    /\ exhausted' = Set(exhausted, l, FALSE)
    /\ due' = Set(due, l, TRUE)

\* pickNextHistoryLeague, or getLeague for the league of the payload,
\* ensureLeagueStub; with no league to walk only the next run is scheduled.
Begin(w, queued, pin, l, reset) ==
    walk' = Set(walk, w,
        IF l = None
        THEN [pc |-> "next", pin |-> None, queued |-> queued]
        ELSE [pc |-> "asking", league |-> l, pin |-> pin, queued |-> queued,
              reset |-> reset, tail |-> tail[l], refresh |-> reset \/ due[l],
              from |-> IF reset THEN None ELSE From(l)])

NextLeague(pinned) ==
    IF pinned # None THEN pinned
    ELSE IF Pickable = {} THEN None ELSE Max(Pickable)

QueueFree == ~\E w \in Walkers : walk[w] # Idle /\ walk[w].queued

TakeRow(w) ==
    /\ walk[w] = Idle /\ row # Empty
    /\ row.queued => QueueFree
    /\ Begin(w, row.queued, row.league, NextLeague(row.league), FALSE)
    /\ row' = Empty
    /\ UNCHANGED <<league, listed, parked, asked, extras, faults>>

\* The job of the API on the named queue; its run resets the league again.
TakeAsked(w, l) ==
    /\ walk[w] = Idle /\ l \in asked
    /\ QueueFree
    /\ Begin(w, TRUE, l, l, TRUE)
    /\ Reset(l)
    /\ asked' = asked \ {l}
    /\ UNCHANGED <<newest, upcoming, tail, listed, row, parked, extras, faults>>

Step(w, pc) == walk[w].pc = pc

\* Valve answers, then persistListed and enqueueSeqForListed: nobody else sees
\* what lies between.
Lists(w) ==
    LET r == walk[w]
        page == Page(r.league, r.from)
    IN
    /\ Step(w, "asking")
    /\ listed' = listed \cup ({r.league} \X page)
    /\ walk' = Set(walk, w,
           [pc |-> "cursor", league |-> r.league, queued |-> r.queued,
            tail |-> r.tail, refresh |-> r.refresh, page |-> page,
            more |-> ResultsRemaining(r.league, r.from)])
    /\ UNCHANGED <<league, queue, extras, faults>>

\* updateLeagueHistoryCursor, which keeps the tail when it is given none
UpdatesCursor(w) ==
    LET r == walk[w]
        l == r.league
    IN
    /\ Step(w, "cursor")
    /\ tail' = Set(tail, l, IF Oldest(r) = None THEN tail[l] ELSE Oldest(r))
    /\ exhausted' = Set(exhausted, l, ExhaustedNow(r))
    /\ due' = Set(due, l, FALSE)
    /\ walk' = Set(walk, w,
           [pc |-> "next", queued |-> r.queued,
            pin |-> IF HasOlderPages(r) THEN l ELSE None])
    /\ UNCHANGED <<newest, upcoming, listed, queue, extras, faults>>

\* Mutant: the next run is given no queue.
NextRunUnqueued(pin) == Waiting(pin, FALSE)

\* The job of scheduleNextWalk, pinned to a league that has older pages.
NextRun(pin) == Waiting(pin, TRUE)

\* scheduleNextWalk
SchedulesNext(w) ==
    /\ Step(w, "next")
    /\ parked' = NextRun(walk[w].pin)
    /\ walk' = Set(walk, w, Idle)
    /\ UNCHANGED <<league, listed, row, asked, extras, faults>>

\* A page fails: a run of the named queue is parked with its payload, another
\* gets its row back unless the key has a new one.
PageFails(w) ==
    LET r == walk[w] IN
    /\ Step(w, "asking")
    /\ Fault
    /\ IF r.queued
       THEN /\ IF r.reset THEN asked' = asked \cup {r.league} /\ UNCHANGED parked
               ELSE parked' = Waiting(r.pin, TRUE) /\ UNCHANGED asked
            /\ UNCHANGED row
       ELSE /\ row' = IF row = Empty THEN Waiting(None, FALSE) ELSE row
            /\ UNCHANGED <<parked, asked>>
    /\ walk' = Set(walk, w, Idle)
    /\ UNCHANGED <<league, listed, extras>>

\* No ready key ends the run, or the process dies; nothing continues it.
RunLost(w) ==
    /\ walk[w] # Idle
    /\ Fault
    /\ walk' = Set(walk, w, Idle)
    /\ UNCHANGED <<league, listed, queue, extras>>

-----------------------------------------------------------------------------
(* Around the walk *)

\* runScheduledJob
Hops ==
    /\ parked # Empty
    /\ row' = parked
    /\ parked' = Empty
    /\ UNCHANGED <<league, listed, asked, walk, extras, faults>>

ChainAlive == row # Empty \/ parked # Empty \/ \E w \in Walkers : walk[w] # Idle

\* The crontab line, the startup job and runEnsureLoopJobs write the key anew.
\* They do so beside a chain that is parked or under way, too.
Restarts ==
    /\ \/ ~ChainAlive /\ UNCHANGED extras
       \/ ChainAlive /\ extras < MaxExtras /\ extras' = extras + 1
    /\ row' = Waiting(None, FALSE)
    /\ UNCHANGED <<league, listed, parked, asked, walk, faults>>

\* /api/leagues/process-finished
ProcessFinished(l) ==
    /\ extras < MaxExtras
    /\ extras' = extras + 1
    /\ Reset(l)
    /\ asked' = asked \cup {l}
    /\ UNCHANGED <<newest, upcoming, tail, listed, row, parked, walk, faults>>

\* Valve lists a finished match.
Plays1(l) ==
    /\ ~upcoming[l]
    /\ newest[l] < Plays[l]
    /\ newest' = Set(newest, l, newest[l] + 1)
    /\ UNCHANGED <<upcoming, tail, exhausted, due, listed, queue, walk, extras,
                   faults>>

\* runFetchLeagues, deriveLeagueStatus: the league is on.
LeagueStarts(l) ==
    /\ upcoming[l]
    /\ upcoming' = Set(upcoming, l, FALSE)
    /\ UNCHANGED <<newest, tail, exhausted, due, listed, queue, walk, extras, faults>>

\* history_exhausted_refresh_ms is a day: the walk of all leagues takes less.
RefreshDue ==
    /\ Pickable = {}
    /\ \E l \in Leagues : ~due[l]
    /\ due' = [l \in Leagues |-> TRUE]
    /\ UNCHANGED <<newest, upcoming, tail, exhausted, listed, queue, walk, extras,
                   faults>>

\* history_newest_refresh_ms is an hour: seldom over before the league is done.
RefreshDueEarly(l) ==
    /\ ~exhausted[l] /\ ~due[l]
    /\ Fault
    /\ due' = Set(due, l, TRUE)
    /\ UNCHANGED <<newest, upcoming, tail, exhausted, listed, queue, walk, extras>>

-----------------------------------------------------------------------------

Works(w) ==
    Lists(w) \/ UpdatesCursor(w) \/ SchedulesNext(w)

Next ==
    \/ \E w \in Walkers :
           \/ TakeRow(w) \/ Works(w) \/ PageFails(w) \/ RunLost(w)
           \/ \E l \in Leagues : TakeAsked(w, l)
    \/ Hops \/ Restarts \/ RefreshDue
    \/ \E l \in Leagues :
           ProcessFinished(l) \/ Plays1(l) \/ LeagueStarts(l) \/ RefreshDueEarly(l)

\* Jobs run and end, the cron comes every five minutes, time passes and leagues
\* start.  Valve owes nobody a match.
Fairness ==
    /\ \A w \in Walkers : WF_vars(Works(w))
    /\ WF_vars(\E w \in Walkers : TakeRow(w))
    /\ WF_vars(\E w \in Walkers, l \in Leagues : TakeAsked(w, l))
    /\ WF_vars(Hops) /\ WF_vars(Restarts) /\ WF_vars(RefreshDue)
    /\ \A l \in Leagues : WF_vars(LeagueStarts(l))

Spec == Init /\ [][Next]_vars /\ Fairness

-----------------------------------------------------------------------------
(* Properties *)

TypeOK ==
    /\ newest \in [Leagues -> Nat] /\ \A l \in Leagues : newest[l] <= Plays[l]
    /\ upcoming \in [Leagues -> BOOLEAN]
    /\ tail \in [Leagues -> Nat] /\ \A l \in Leagues : tail[l] <= newest[l]
    /\ exhausted \in [Leagues -> BOOLEAN]
    /\ due \in [Leagues -> BOOLEAN]
    /\ listed \subseteq Match
    /\ row \in {Empty} \cup RowsOf(BOOLEAN)
    /\ parked \in {Empty} \cup RowsOf({TRUE})
    /\ \A w \in Walkers : walk[w] = Idle \/ walk[w].pc \in {"asking", "cursor", "next"}
    /\ asked \subseteq Leagues
    /\ extras \in 0..MaxExtras
    /\ faults \in 0..MaxFaults

\* The cursor never points at a match that is not saved: after a crash the walk
\* goes on below nothing but what the database has.
TailIsListed == \A l \in Leagues : tail[l] # None => <<l, tail[l]>> \in listed

\* Every match that Valve lists for a league is found, whatever runs, pages and
\* walks are lost or doubled, and whichever other leagues come first: a
\* league without matches or walked to its end does not pin the walk.
EveryMatchListed == \A m \in Match : (m[2] <= newest[m[1]]) ~> (m \in listed)
=============================================================================
