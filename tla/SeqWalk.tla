------------------------------ MODULE SeqWalk ------------------------------
(***************************************************************************)
(* The catch-up walk over the global sequence of matches: walk_seq_history *)
(* and the fetch_seq_window jobs move settings.seq_walk_cursor by          *)
(* compare-and-set, by maximum and by a blind write, and claim windows     *)
(* under the job key seq_window:{start}.  Every await is a step boundary.  *)
(*                                                                         *)
(* Simplifications.  Every record is a professional match.  A queued and a *)
(* locked job are the same (both are alive) and time is nondeterministic.  *)
(* What a saved record does to matches is in MatchPipeline.                *)
(***************************************************************************)
EXTENDS Integers, FiniteSets

CONSTANTS
    Num,          \* the sequence numbers that Valve gives out, with gaps
    Batch,        \* settings.seq_batch_size
    Parallelism,  \* settings.seq_walk_parallelism
    Spins,        \* turns of one run of the claim loop, four times Parallelism
    Rewind,       \* SEQ_WALK_REWIND
    Tries,        \* maxAttempts of a window's job
    CountThrows,  \* whether the query of countJobs may throw
    MaxCursor,    \* bound of the model: no claim goes beyond
    MaxThrows     \* bound of the model: throws and deaths of windows, in all;
                  \* with 0, nothing throws

ASSUME SeqAssumption ==
    /\ Num \subseteq Nat \ {0}
    /\ Batch \in Nat \ {0}
    /\ Parallelism \in Nat \ {0}
    /\ Spins \in Nat \ {0}
    /\ Rewind \in Nat
    /\ Tries \in Nat \ {0}
    /\ CountThrows \in BOOLEAN
    /\ MaxCursor \in Nat \ {0}
    /\ MaxThrows \in Nat

VARIABLES
    head,      \* the newest sequence number Valve has published
    cursor,    \* settings.seq_walk_cursor
    cooldown,  \* settings.seq_walk_cooldown_until lies in the future
    window,    \* window[s]: the fetch_seq_window job of start s
    claim,     \* claim[i]: the run of enqueueSeqWalkWindows by window i, or by
               \* walk_seq_history when i is Walker
    saved,     \* numbers whose record is persisted
    asked,     \* history: numbers an answered window has asked for
    throws     \* history: throws and deaths of windows so far

vars == <<head, cursor, cooldown, window, claim, saved, asked, throws>>

-----------------------------------------------------------------------------

Start == 1..MaxCursor

Walker == 0

Published == {n \in Num : n <= head}

\* GetMatchHistoryBySequenceNum: the first Batch records from s on.
Page(s) ==
    {n \in Published :
        /\ s <= n
        /\ Cardinality({k \in Published : s <= k /\ k < n}) < Batch}

\* The numbers a claim of s takes.
Claimed(s) == {n \in Num : s <= n /\ n < s + Batch}

claimAdvance(c) == c + Batch

\* Mutant: no floor.
rewindSeqWalkCursorUnfloored(s) == s - Rewind

rewindSeqWalkCursor(s) == IF s - Rewind > 1 THEN s - Rewind ELSE 1

\* The greatest of the cursor and of the page's numbers, in one statement.
bumpSeqWalkCursor(page) ==
    \E c \in {cursor} \cup page :
        /\ \A n \in {cursor} \cup page : n <= c
        /\ cursor' = c

NoJob == [pc |-> "none", got |-> {}, failed |-> 0]

Queued == [NoJob EXCEPT !.pc = "queued"]

IdleClaim == [pc |-> "idle", at |-> 0, room |-> 0, spins |-> 0]

\* jobKeyIsAlive
Alive == {s \in Start : window[s].pc \notin {"none", "dead"}}

LastTry == {s \in Alive : window[s].failed + 1 = Tries}

\* A window that is locked for its last try has attempts = max_attempts and is
\* not counted; a count that throws is 0.
countJobs ==
    {Cardinality(Alive \ locked) :
        locked \in {l \in SUBSET LastTry :
                      \A s \in LastTry : window[s].pc = "queued" \/ s \in l}}
    \cup (IF CountThrows THEN {0} ELSE {})

Init ==
    /\ head = 0
    /\ cursor = 1
    /\ cooldown = FALSE
    /\ window = [s \in Start |-> NoJob]
    /\ claim = [i \in {Walker} \cup Start |-> IdleClaim]
    /\ saved = {}
    /\ asked = {}
    /\ throws = 0

-----------------------------------------------------------------------------
(* Steam and the clock *)

Publish ==
    /\ \E n \in Num :
          /\ n > head
          /\ \A k \in Num : k > head => n <= k
          /\ head' = n
    /\ UNCHANGED <<cursor, cooldown, window, claim, saved, asked, throws>>

CooldownEnds ==
    /\ cooldown
    /\ cooldown' = FALSE
    /\ UNCHANGED <<head, cursor, window, claim, saved, asked, throws>>

-----------------------------------------------------------------------------
(* enqueueSeqWalkWindows, run by the walker or at the end of a window i      *)

Claiming == UNCHANGED <<head, cooldown, saved, asked, throws>>

\* The run is over; with it the window that made it.
ClaimEnds(i) ==
    /\ claim' = [claim EXCEPT ![i] = IdleClaim]
    /\ window' = IF i = Walker THEN window ELSE [window EXCEPT ![i] = NoJob]

\* Reads the cooldown and counts the jobs.
ClaimStart(i) ==
    /\ IF i = Walker THEN claim[i].pc = "idle" ELSE window[i].pc = "saved"
    /\ ~cooldown
    /\ \E inflight \in countJobs :
          /\ inflight < Parallelism
          /\ claim' = [claim EXCEPT ![i] = [pc |-> "read", at |-> 0,
                                            room |-> Parallelism - inflight,
                                            spins |-> Spins]]
    /\ window' = IF i = Walker THEN window
                 ELSE [window EXCEPT ![i].pc = "refill"]
    /\ UNCHANGED cursor
    /\ Claiming

\* Cooling down, or no room.
ClaimNothing(i) ==
    /\ i # Walker
    /\ window[i].pc = "saved"
    /\ cooldown \/ \E inflight \in countJobs : inflight >= Parallelism
    /\ ClaimEnds(i)
    /\ UNCHANGED cursor
    /\ Claiming

\* Mutant: claims the window before it is enqueued.
ClaimReadAdvances(i) ==
    /\ claim[i].pc = "read"
    /\ claimAdvance(cursor) <= MaxCursor
    /\ claim' = [claim EXCEPT ![i].pc = "check", ![i].at = cursor,
                              ![i].spins = @ - 1]
    /\ cursor' = claimAdvance(cursor)
    /\ UNCHANGED window
    /\ Claiming

ClaimRead(i) ==
    /\ claim[i].pc = "read"
    /\ claimAdvance(cursor) <= MaxCursor
    /\ claim' = [claim EXCEPT ![i].pc = "check", ![i].at = cursor,
                              ![i].spins = @ - 1]
    /\ UNCHANGED <<cursor, window>>
    /\ Claiming

\* The bound of the model: the run ends as if its turns were used up.
ClaimBound(i) ==
    /\ claim[i].pc = "read"
    /\ claimAdvance(cursor) > MaxCursor
    /\ ClaimEnds(i)
    /\ UNCHANGED cursor
    /\ Claiming

\* The key is alive: the start is skipped.
ClaimAlive(i) ==
    /\ claim[i].pc = "check"
    /\ claim[i].at \in Alive
    /\ claim' = [claim EXCEPT ![i].pc = "skip"]
    /\ UNCHANGED <<cursor, window>>
    /\ Claiming

\* The key is not alive, or reading it threw.  unsafe_dedupe adds no job beside
\* one that has the key, be it alive or out of tries.
ClaimEnqueue(i) ==
    /\ claim[i].pc = "check"
    /\ window' = IF window[claim[i].at].pc = "none"
                 THEN [window EXCEPT ![claim[i].at] = Queued] ELSE window
    /\ claim' = [claim EXCEPT ![i].pc = "cas", ![i].room = @ - 1]
    /\ UNCHANGED cursor
    /\ Claiming

\* casAdvanceSeqWalkCursor, whatever it returns, and the next turn of the loop.
ClaimCas(i) ==
    /\ claim[i].pc \in {"cas", "skip"}
    /\ cursor' = IF cursor = claim[i].at THEN claimAdvance(cursor) ELSE cursor
    /\ IF claim[i].room > 0 /\ claim[i].spins > 0
       THEN /\ claim' = [claim EXCEPT ![i].pc = "read"]
            /\ UNCHANGED window
       ELSE ClaimEnds(i)
    /\ Claiming

ClaimStep(i) ==
    \/ ClaimStart(i)
    \/ ClaimNothing(i)
    \/ ClaimRead(i)
    \/ ClaimBound(i)
    \/ ClaimAlive(i)
    \/ ClaimEnqueue(i)
    \/ ClaimCas(i)

\* An await of the walker's run throws, or its process dies: it runs again.  As
\* often as it likes, unless the model has no throws at all.
WalkerThrow ==
    /\ MaxThrows > 0
    /\ claim[Walker].pc # "idle"
    /\ claim' = [claim EXCEPT ![Walker] = IdleClaim]
    /\ UNCHANGED <<cursor, window>>
    /\ Claiming

-----------------------------------------------------------------------------
(* fetch_seq_window *)

Others == UNCHANGED <<head, claim, throws>>

WindowAnswer(s) ==
    /\ window[s].pc = "queued"
    /\ window' = [window EXCEPT ![s].pc = "answered", ![s].got = Page(s)]
    /\ asked' = asked \cup Claimed(s) \cup Page(s)
    /\ UNCHANGED <<cursor, cooldown, saved>>
    /\ Others

\* Caught the tip: the cursor is set, whatever it is by now.
WindowEmpty(s) ==
    /\ window[s].pc = "answered"
    /\ window[s].got = {}
    /\ cursor' = rewindSeqWalkCursor(s)
    /\ window' = [window EXCEPT ![s].pc = "rewound"]
    /\ UNCHANGED <<cooldown, saved, asked>>
    /\ Others

WindowCooldown(s) ==
    /\ window[s].pc = "rewound"
    /\ cooldown' = TRUE
    /\ window' = [window EXCEPT ![s] = NoJob]
    /\ UNCHANGED <<cursor, saved, asked>>
    /\ Others

\* One transaction: the records and the cursor.
WindowSave(s) ==
    /\ window[s].pc = "answered"
    /\ window[s].got # {}
    /\ saved' = saved \cup window[s].got
    /\ bumpSeqWalkCursor(window[s].got)
    /\ window' = [window EXCEPT ![s].pc = "saved", ![s].got = {}]
    /\ UNCHANGED <<cooldown, asked>>
    /\ Others

\* No key is ready: a new job takes over the start, with all its tries.
WindowNoKey(s) ==
    /\ window[s].pc = "queued"
    /\ window[s].failed > 0
    /\ window' = [window EXCEPT ![s] = Queued]
    /\ UNCHANGED <<cursor, cooldown, saved, asked>>
    /\ Others

\* An await throws or the process dies: the same start is tried again, or, out
\* of tries, its row stays behind with the key.
WindowThrow(s) ==
    /\ s \in Alive
    /\ throws < MaxThrows
    /\ throws' = throws + 1
    /\ window' = [window EXCEPT ![s] =
                     LET failed == window[s].failed + 1
                     IN  [NoJob EXCEPT !.pc = IF failed < Tries THEN "queued"
                                                               ELSE "dead",
                                       !.failed = failed]]
    /\ claim' = [claim EXCEPT ![s] = IdleClaim]
    /\ UNCHANGED <<head, cursor, cooldown, saved, asked>>

-----------------------------------------------------------------------------

Next ==
    \/ Publish
    \/ CooldownEnds
    \/ WalkerThrow
    \/ \E i \in {Walker} \cup Start : ClaimStep(i)
    \/ \E s \in Start :
          \/ WindowAnswer(s) \/ WindowEmpty(s) \/ WindowCooldown(s)
          \/ WindowSave(s) \/ WindowNoKey(s) \/ WindowThrow(s)

\* The walker reschedules itself in a finally block and is revived when lost, and
\* does not throw at the same await for ever.  A window has finitely many tries.
Fairness ==
    /\ WF_vars(CooldownEnds)
    /\ WF_vars(ClaimStart(Walker))
    /\ SF_vars(ClaimRead(Walker) \/ ClaimBound(Walker))
    /\ SF_vars(ClaimAlive(Walker) \/ ClaimEnqueue(Walker))
    /\ SF_vars(ClaimCas(Walker))
    /\ \A s \in Start : WF_vars(\/ WindowAnswer(s) \/ WindowEmpty(s)
                                \/ WindowCooldown(s) \/ WindowSave(s)
                                \/ ClaimStep(s))

Spec == Init /\ [][Next]_vars /\ Fairness

-----------------------------------------------------------------------------
(* Properties *)

Job == [pc : {"none", "queued", "answered", "rewound", "saved", "refill", "dead"},
        got : SUBSET Num,
        failed : 0..Tries]

Claim == [pc : {"idle", "read", "check", "skip", "cas"},
          at : {0} \cup Start,
          room : 0..Parallelism,
          spins : 0..Spins]

\* Cursor, jobs and claims stay in their domains; the cursor never falls
\* below 1, where readSeqWalkCursor would throw for good.
TypeOK ==
    /\ head \in Num \cup {0}
    /\ cursor \in Nat \ {0}
    /\ cooldown \in BOOLEAN
    /\ window \in [Start -> Job]
    /\ claim \in [{Walker} \cup Start -> Claim]
    /\ saved \subseteq Num
    /\ asked \subseteq Num
    /\ throws \in 0..MaxThrows

\* No number is passed over: whatever is below the cursor has been asked for, or
\* a window that holds it is queued, in flight or out of tries, although claims
\* race each other, rewinds and their own crash (claimSeqWalkWindow enqueues
\* before it advances).
Covered(n) ==
    \/ n \in asked
    \/ \E s \in Start : window[s].pc # "none" /\ n \in Claimed(s)

NothingPassedOver == \A n \in Num : n < cursor => Covered(n)

\* worker-architecture.md, "Safety net for professional matches that never
\* appeared in a live feed": every published match is saved one day.  It is not
\* when two windows are in flight: each time the one beyond the tip comes back
\* empty and rewinds, the page of the other, saved late, lifts the cursor again.
SafetyNet == \A n \in Num : n <= head ~> n \in saved

\* The same of the behaviours that the bound of the model does not disturb.
SafetyNetWithinBound == [](claimAdvance(cursor) <= MaxCursor) => SafetyNet

=============================================================================
