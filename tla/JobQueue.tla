------------------------------ MODULE JobQueue ------------------------------
(***************************************************************************)
(* The graphile queue as this program uses it, in one worker process:      *)
(* enqueueJob with the hop of a delayed job onto its named queue, the      *)
(* retry off-queue, the wrapper `traced' of every task, the three ways a   *)
(* loop comes round again, and its recovery by boot, cron and LISTEN.      *)
(*                                                                         *)
(* One job stands for each way: poll_live_games puts its next tick in the  *)
(* queue before it works (so do poll_top_live and poll_realtime_stats),    *)
(* archive_parsed_replays after it (so do the other loops of allTasks),    *)
(* walk_league_history continues on a named queue, and fetch_match_details *)
(* is the one-shot job of a named queue with a budget of tries.            *)
(*                                                                         *)
(* Simplifications.  Due times are nondeterministic.  A row whose key was  *)
(* taken from it can only complete or fail for good, so it is left out of  *)
(* the table.  What the work of a job does is in the other modules.        *)
(***************************************************************************)
EXTENDS Integers, FiniteSets

CONSTANTS
    Mixes,        \* sets of jobs: a behaviour has the jobs of one of them
    Ensurers,     \* who runs runEnsureLoopJobs: "cron", "listen"
    Slots,        \* WORKER_CONCURRENCY of the process
    LiveMax,      \* settings.live_max_concurrent
    LoopTries,    \* LOOP_JOB_MAX_ATTEMPTS
    Budget,       \* maxAttempts of fetch_match_details
    MaxAsks,      \* bound of the model: times somebody asks for the details
    MaxFaults     \* bound of the model: deaths of the process, failures outside
                  \* the work of fetch_match_details, missing keys, in all

Live == "poll_live_games"
Tail == "archive_parsed_replays"
Walk == "walk_league_history"
Details == "fetch_match_details"

Jobs == {Live, Tail, Walk, Details}

ASSUME JobQueueAssumption ==
    /\ \A mix \in Mixes : mix \subseteq Jobs
    /\ Slots # {} /\ IsFiniteSet(Slots)
    /\ Slots \cap {"free", "dead", "none"} = {}    \* a slot is none of these
    /\ LiveMax \in Nat
    /\ LoopTries \in Nat \ {0}
    /\ Budget \in Nat \ {0}
    /\ MaxAsks \in Nat
    /\ MaxFaults \in Nat

VARIABLES
    jobs,      \* the jobs of this behaviour
    row,       \* row[j]: the row of graphile_worker.jobs with the key of j
    parked,    \* parked[j]: the run_scheduled_job row with the key later:j
    run,       \* run[s]: what slot s of the process does
    inFlight,  \* live-circuit.ts: the live calls of this process
    up,        \* the process runs
    boot,      \* the loops whose startup job is not yet added
    ensure,    \* ensure[e]: loops that a runEnsureLoopJobs found missing
    asks,      \* history: times the details were asked for
    wanted,    \* history: the details are asked for, neither done nor given up
    lost,      \* history: a fault took the details out of the queue
    faults     \* history: faults so far

vars ==
    <<jobs, row, parked, run, inFlight, up, boot, ensure, asks, wanted, lost, faults>>

-----------------------------------------------------------------------------

Loops == jobs \ {Details}
Named == {Walk, Details}     \* jobs that use a named queue

Free == "free"
Dead == "dead"               \* locked by a process that is no more
NoRow == [lock |-> "none"]
Idle == [job |-> "none"]

\* _tries of the payload (0 is absent), up to the larger of the two budgets.
Tries == 0..(IF LoopTries < Budget THEN Budget ELSE LoopTries)

\* attempts, max_attempts, the queue, and the tries.
Row == [lock : Slots \cup {Free, Dead}, attempts : 0..LoopTries,
        max : {1, LoopTries}, queued : BOOLEAN, tries : Tries]

Run == [job : Jobs, pc : {"start", "calling", "thrown", "hop", "done"},
        queued : BOOLEAN, tries : Tries]

Fresh(max, queued, tries) ==
    [lock |-> Free, attempts |-> 0, max |-> max, queued |-> queued,
     tries |-> tries]

Available(r) == r # NoRow /\ r.lock = Free /\ r.attempts < r.max

\* locked_at IS NOT NULL OR attempts < max_attempts
Alive(r) == r # NoRow /\ (r.lock # Free \/ r.attempts < r.max)

-----------------------------------------------------------------------------

\* add_job: replace takes the key away from a locked or a finished row and
\* writes a new one; unsafe_dedupe leaves whatever row has the key.
addJob(table, j, mode, fresh) ==
    IF mode = "unsafe_dedupe" /\ table[j] # NoRow
    THEN table
    ELSE [table EXCEPT ![j] = fresh]

\* Mutant: the retry leaves a hop alone that is just ending.
RetryModeDedupe == "unsafe_dedupe"

\* The key mode of scheduleQueuedJobRetry.
RetryMode == "replace"

\* Mutant: the hop stamps a new budget.
stampRetryBudgetAnew(tries) == 0

\* stampRetryBudget: tries used so far stay in the payload.
stampRetryBudget(tries) == tries

\* enqueueJob of a job without a queue
EnqueueLoop(j) == addJob(row, j, "replace", Fresh(LoopTries, FALSE, 0))

\* enqueueJob on a named queue that is due now
EnqueueNow(j, tries) ==
    addJob(row, j, "replace", Fresh(1, TRUE, stampRetryBudget(tries)))

\* enqueueJob on a named queue with a later run_at
EnqueueLater(j, mode, tries) ==
    addJob(parked, j, mode, Fresh(1, TRUE, tries))

\* Mutant: only a missing row is missing.
loopJobsGone == {j \in Loops : row[j] = NoRow}

\* loopJobsToRequeue, loadAliveLoopKeys
loopJobsToRequeue == {j \in Loops : ~Alive(row[j])}

Fault ==
    /\ faults < MaxFaults
    /\ faults' = faults + 1

\* A queue is locked while a job of it runs, also in a process that died.
QueueFree(j) ==
    /\ \A s \in Slots : run[s].job = j => ~run[s].queued \/ run[s].pc = "hop"
    /\ ~(row[j] # NoRow /\ row[j].lock = Dead /\ row[j].queued)

-----------------------------------------------------------------------------

Init ==
    /\ jobs \in Mixes
    /\ row = [j \in Jobs |-> NoRow]
    /\ parked = [j \in Named |-> NoRow]
    /\ run = [s \in Slots |-> Idle]
    /\ inFlight = 0
    /\ up = FALSE
    /\ boot = {}
    /\ ensure = [e \in Ensurers |-> {}]
    /\ asks = 0
    /\ wanted = FALSE
    /\ lost = FALSE
    /\ faults = 0

-----------------------------------------------------------------------------
(* The process *)

\* get_job
Take(s, j) ==
    /\ up /\ run[s] = Idle /\ Available(row[j])
    /\ row[j].queued => QueueFree(j)
    /\ row' = [row EXCEPT ![j].lock = s, ![j].attempts = @ + 1]
    /\ run' = [run EXCEPT ![s] =
           [job |-> j, pc |-> "start", queued |-> row[j].queued,
            tries |-> row[j].tries]]
    /\ UNCHANGED <<jobs, parked, inFlight, up, boot, ensure, asks, wanted, lost, faults>>

TakeParked(s, j) ==
    /\ up /\ run[s] = Idle /\ Available(parked[j])
    /\ parked' = [parked EXCEPT ![j].lock = s, ![j].attempts = @ + 1]
    /\ run' = [run EXCEPT ![s] =
           [job |-> j, pc |-> "hop", queued |-> FALSE, tries |-> parked[j].tries]]
    /\ UNCHANGED <<jobs, row, inFlight, up, boot, ensure, asks, wanted, lost, faults>>

At(s, j, pc) == run[s] # Idle /\ run[s].job = j /\ run[s].pc = pc

Goto(s, pc) == run' = [run EXCEPT ![s].pc = pc]

\* runScheduledJob
Hop(s, j) ==
    /\ At(s, j, "hop")
    /\ row' = EnqueueNow(j, run[s].tries)
    /\ Goto(s, "done")
    /\ UNCHANGED <<jobs, parked, inFlight, up, boot, ensure, asks, wanted, lost, faults>>

leaveLiveCall == IF inFlight > 0 THEN inFlight - 1 ELSE inFlight

\* Mutant: the skip is thrown inside the try, and its finally leaves.
AfterSkipInTry == leaveLiveCall

\* skipLiveCall is thrown before the try.
AfterSkip == inFlight

\* runLiveTick up to tryEnterLiveCall; skipLiveCall ends the run as a success.
TickStarts(s) ==
    /\ At(s, Live, "start")
    /\ row' = EnqueueLoop(Live)
    /\ IF inFlight >= LiveMax
       THEN /\ Goto(s, "done")
            /\ inFlight' = AfterSkip
       ELSE /\ Goto(s, "calling")
            /\ inFlight' = inFlight + 1
    /\ UNCHANGED <<jobs, parked, up, boot, ensure, asks, wanted, lost, faults>>

\* The finally of runLiveTick: the work may have thrown, but the row of the run
\* has lost its key, so nothing retries it.
TickEnds(s) ==
    /\ At(s, Live, "calling")
    /\ inFlight' = leaveLiveCall
    /\ Goto(s, "done")
    /\ UNCHANGED <<jobs, row, parked, up, boot, ensure, asks, wanted, lost, faults>>

\* The finally of a loop that comes round at its end, whatever the work did.
TailEnds(s) ==
    /\ At(s, Tail, "start")
    /\ row' = EnqueueLoop(Tail)
    /\ Goto(s, "done")
    /\ UNCHANGED <<jobs, parked, inFlight, up, boot, ensure, asks, wanted, lost, faults>>

\* scheduleNextWalk
WalkEnds(s) ==
    /\ At(s, Walk, "start")
    /\ parked' = EnqueueLater(Walk, "replace", 0)
    /\ Goto(s, "done")
    /\ UNCHANGED <<jobs, row, inFlight, up, boot, ensure, asks, wanted, lost, faults>>

\* skipNoKey: the run ends as a success, and nothing continues the walk.
WalkSkips(s) ==
    /\ At(s, Walk, "start")
    /\ Fault
    /\ Goto(s, "done")
    /\ UNCHANGED <<jobs, row, parked, inFlight, up, boot, ensure, asks, wanted, lost>>

DetailsEnds(s) ==
    /\ At(s, Details, "start")
    /\ wanted' = FALSE
    /\ Goto(s, "done")
    /\ UNCHANGED <<jobs, row, parked, inFlight, up, boot, ensure, asks, lost, faults>>

\* No ready key: asked for again in 30 s, with the whole budget.
DetailsPostponed(s) ==
    /\ At(s, Details, "start")
    /\ Fault
    /\ parked' = EnqueueLater(Details, "preserve_run_at", 0)
    /\ Goto(s, "done")
    /\ UNCHANGED <<jobs, row, inFlight, up, boot, ensure, asks, wanted, lost>>

DetailsThrows(s) ==
    /\ At(s, Details, "start")
    /\ Goto(s, "thrown")
    /\ UNCHANGED <<jobs, row, parked, inFlight, up, boot, ensure, asks, wanted, lost,
                   faults>>

\* A loop throws before it has put its next run in the queue, or a hop throws.
Throws(s) ==
    /\ run[s] # Idle /\ run[s].pc \in {"start", "hop"}
    /\ run[s].pc = "start" => run[s].job \in Loops
    /\ Fault
    /\ Goto(s, "thrown")
    /\ lost' = (lost \/ At(s, Details, "hop"))
    /\ UNCHANGED <<jobs, row, parked, inFlight, up, boot, ensure, asks, wanted>>

failedTry(s) == IF run[s].tries = 0 THEN 1 ELSE run[s].tries

TriesOf(j) == IF j = Details THEN Budget ELSE LoopTries

\* Mutant: one try too many.
TryLeftInclusive(s) == failedTry(s) <= TriesOf(run[s].job)

TryLeft(s) == failedTry(s) < TriesOf(run[s].job)

\* scheduleQueuedJobRetry: a try is left, or the job gives up.
RetryOffQueue(s) ==
    LET j == run[s].job IN
    /\ run[s] # Idle /\ run[s].pc = "thrown" /\ run[s].queued
    /\ IF TryLeft(s)
       THEN /\ parked' = EnqueueLater(j, RetryMode, failedTry(s) + 1)
            /\ UNCHANGED wanted
       ELSE /\ wanted' = (wanted /\ j # Details)
            /\ UNCHANGED parked
    /\ Goto(s, "done")
    /\ UNCHANGED <<jobs, row, inFlight, up, boot, ensure, asks, lost, faults>>

Unlocked(table, s) ==
    [j \in DOMAIN table |->
        IF table[j] # NoRow /\ table[j].lock = s
        THEN [table[j] EXCEPT !.lock = Free] ELSE table[j]]

\* fail_job: the row waits for its next attempt, or has none left.
FailJob(s) ==
    /\ run[s] # Idle /\ run[s].pc = "thrown" /\ ~run[s].queued
    /\ row' = Unlocked(row, s)
    /\ parked' = Unlocked(parked, s)
    /\ run' = [run EXCEPT ![s] = Idle]
    /\ UNCHANGED <<jobs, inFlight, up, boot, ensure, asks, wanted, lost, faults>>

Deleted(table, s) ==
    [j \in DOMAIN table |->
        IF table[j] # NoRow /\ table[j].lock = s THEN NoRow ELSE table[j]]

\* complete_job
Complete(s) ==
    /\ run[s] # Idle /\ run[s].pc = "done"
    /\ row' = Deleted(row, s)
    /\ parked' = Deleted(parked, s)
    /\ run' = [run EXCEPT ![s] = Idle]
    /\ UNCHANGED <<jobs, inFlight, up, boot, ensure, asks, wanted, lost, faults>>

-----------------------------------------------------------------------------
(* Who else puts jobs in the queue *)

\* A match has ended, or the walk finds it without details.
Ask ==
    /\ Details \in jobs
    /\ asks < MaxAsks
    /\ asks' = asks + 1
    /\ row' = EnqueueNow(Details, 0)
    /\ wanted' = TRUE
    /\ UNCHANGED <<jobs, parked, run, inFlight, up, boot, ensure, lost, faults>>

\* The crontab line of walk_league_history; preserve_run_at differs from
\* replace in the time only.
CronWalks ==
    /\ up /\ Walk \in jobs
    /\ row' = EnqueueLoop(Walk)
    /\ UNCHANGED <<jobs, parked, run, inFlight, up, boot, ensure, asks, wanted, lost, faults>>

EnsureReads(e) ==
    /\ up /\ ensure[e] = {}
    /\ loopJobsToRequeue # {}
    /\ ensure' = [ensure EXCEPT ![e] = loopJobsToRequeue]
    /\ UNCHANGED <<jobs, row, parked, run, inFlight, up, boot, asks, wanted, lost, faults>>

EnsureAdds(e) ==
    \E j \in ensure[e] :
        /\ up
        /\ row' = EnqueueLoop(j)
        /\ ensure' = [ensure EXCEPT ![e] = @ \ {j}]
        /\ UNCHANGED <<jobs, parked, run, inFlight, up, boot, asks, wanted, lost, faults>>

\* The top level of app.ts: the runner works while the startup jobs are added.
Boot ==
    /\ ~up
    /\ up' = TRUE
    /\ boot' = Loops
    /\ UNCHANGED <<jobs, row, parked, run, inFlight, ensure, asks, wanted, lost, faults>>

AddStartupJob ==
    /\ up
    /\ \E j \in boot :
           /\ row' = EnqueueLoop(j)
           /\ boot' = boot \ {j}
    /\ UNCHANGED <<jobs, parked, run, inFlight, up, ensure, asks, wanted, lost, faults>>

Orphaned(table) ==
    [j \in DOMAIN table |->
        IF table[j] # NoRow /\ table[j].lock \in Slots
        THEN [table[j] EXCEPT !.lock = Dead] ELSE table[j]]

\* A named queue's job has one attempt: the row of a dead process is lost.
Die ==
    /\ up
    /\ Fault
    /\ up' = FALSE
    /\ boot' = {}
    /\ row' = Orphaned(row)
    /\ parked' = Orphaned(parked)
    /\ run' = [s \in Slots |-> Idle]
    /\ inFlight' = 0
    /\ ensure' = [e \in DOMAIN ensure |-> {}]
    /\ lost' = (lost \/ \E s \in Slots : run[s].job = Details)
    /\ UNCHANGED <<jobs, asks, wanted>>

\* graphile gives back rows and queues that were locked for four hours.
UnlockOld ==
    /\ row # Unlocked(row, Dead) \/ parked # Unlocked(parked, Dead)
    /\ row' = Unlocked(row, Dead)
    /\ parked' = Unlocked(parked, Dead)
    /\ UNCHANGED <<jobs, run, inFlight, up, boot, ensure, asks, wanted, lost, faults>>

-----------------------------------------------------------------------------

Works(s) ==
    \/ \E j \in Named : Hop(s, j)
    \/ TickStarts(s) \/ TickEnds(s) \/ TailEnds(s) \/ WalkEnds(s)
    \/ DetailsEnds(s) \/ DetailsThrows(s)
    \/ RetryOffQueue(s) \/ FailJob(s) \/ Complete(s)

Next ==
    \/ \E s \in Slots, j \in Jobs : Take(s, j)
    \/ \E s \in Slots, j \in Named : TakeParked(s, j)
    \/ \E s \in Slots : Works(s) \/ Throws(s) \/ WalkSkips(s) \/ DetailsPostponed(s)
    \/ Ask \/ CronWalks \/ Boot \/ AddStartupJob \/ Die \/ UnlockOld
    \/ \E e \in DOMAIN ensure : EnsureReads(e) \/ EnsureAdds(e)

\* The container restarts a dead process, jobs end, the cron comes every minute,
\* and a due job gets a slot: the loops leave theirs idle between two runs.
Fairness ==
    /\ \A s \in Slots : WF_vars(Works(s))
    /\ \A j \in Jobs : SF_vars(\E s \in Slots : Take(s, j))
    /\ \A j \in Named : SF_vars(\E s \in Slots : TakeParked(s, j))
    /\ WF_vars(Boot) /\ WF_vars(AddStartupJob) /\ WF_vars(UnlockOld)
    /\ WF_vars(EnsureReads("cron")) /\ WF_vars(EnsureAdds("cron"))

Spec == Init /\ [][Next]_vars /\ Fairness

-----------------------------------------------------------------------------
(* Properties *)

TypeOK ==
    /\ jobs \in Mixes
    /\ row \in [Jobs -> Row \cup {NoRow}]
    /\ parked \in [Named -> Row \cup {NoRow}]
    /\ run \in [Slots -> Run \cup {Idle}]
    /\ inFlight \in 0..Cardinality(Slots)
    /\ up \in BOOLEAN
    /\ boot \subseteq Loops
    /\ ensure \in [Ensurers -> SUBSET Loops]
    /\ asks \in 0..MaxAsks
    /\ wanted \in BOOLEAN
    /\ lost \in BOOLEAN
    /\ faults \in 0..MaxFaults

\* live-circuit.ts: the process counts its live calls exactly, over skipped
\* ticks, failed calls and restarts, and never makes more than the setting says.
LiveCallsWithinCap ==
    LET calls == {s \in Slots : run[s] # Idle /\ run[s].pc = "calling"} IN
    /\ inFlight = Cardinality(calls)
    /\ inFlight <= LiveMax

\* scheduleQueuedJobRetry and the hop: details that somebody asked for and
\* that are neither fetched nor given up are in the queue or under way, unless
\* a process died with them or a hop failed, whose row has one attempt.
WantedIsAlive ==
    wanted => \/ lost
              \/ Alive(row[Details]) \/ Alive(parked[Details])
              \/ \E s \in Slots : run[s].job = Details

\* job-graph.md, loop jobs: whatever was lost, each loop runs again and again.
LoopsComeBack ==
    \A j \in Jobs : []<>(j \in Loops => \E s \in Slots : At(s, j, "start"))

\* traced: details that always fail come to rest when the budget of tries is
\* used up, however often they hop between the queues.
DetailsRest == <>[](~Available(row[Details]) /\ ~Available(parked[Details]))
=============================================================================
