----------------------------- MODULE MatchFacts -----------------------------
(***************************************************************************)
(* The box score and the draft of one match, and those who write them: the *)
(* live league poll, the realtime poll, the details of the sequence and of *)
(* the GC, and the draft that the parser publishes.  Each writes in a      *)
(* transaction of its own.  Whoever comes after a post-game source may     *)
(* only fill what is empty, and decides it with a read of its own.         *)
(*                                                                         *)
(* Simplifications.  A player row is two columns: kills, which every       *)
(* source has, and damage, which post-game sources have or not.  Live      *)
(* scoreboards are numbered: the clock runs, so that none comes twice, and *)
(* the last one is the final one.  A value is the source it is from.       *)
(* PostgreSQL runs READ COMMITTED: a transaction sees what is committed at *)
(* each statement, and two that write the row of a team or a series run    *)
(* one after the other from there on.  MatchPipeline has the phases in     *)
(* detail; the players' names, ids and links are left out.                 *)
(***************************************************************************)
EXTENDS Integers

CONSTANTS
    Worker,     \* processes that run the live jobs
    Versions    \* bound of the model: scoreboards of the match

ASSUME MatchFactsAssumption == Versions \in Nat \ {0}

Version == 1..Versions
Source == {"seq", "gc"}
Empty == 0      \* NULL, or 0 where zeroEmpty
ValueOf(s) == IF s = "seq" THEN Versions + 1 ELSE Versions + 2
Replay == Versions + 3
Value == Empty..Replay

VARIABLES
    named,      \* the sources name the teams or the series of the match
    feed,       \* the scoreboard that Steam has
    shown,      \* GetLiveLeagueGames lists the match
    row,        \* its matches row and the match_players row of one player
    draft,      \* its match_draft rows
    ticks,      \* ClickHouse has a live tick of the match
    hashes,     \* hashes[w]: the scoreboard whose digest w remembers
    poll,       \* the run of runPollLiveGames
    record,     \* record[s]: the details job of s
    lost        \* history: remembered by a poll that was rolled back

env == <<named, feed, shown>>
stored == <<row, draft>>
vars == <<env, stored, ticks, hashes, poll, record, lost>>

Idle == [pc |-> "idle"]
NoDraft == [of |-> Empty, full |-> FALSE, clock |-> FALSE]

\* Mutant: what the sequence walk wrote may be overwritten.
matchPostgameWrittenByGc(r) == r.gc

\* matchPostgameWritten
matchPostgameWritten(r) == r.seq \/ r.gc

\* takePlayerCol
takePlayerCol(old, new, fillOnly) ==
    LET first == IF fillOnly THEN old ELSE new
        other == IF fillOnly THEN new ELSE old
    IN  IF first = Empty THEN other ELSE first

upsertMatchPlayers(r, facts, fillOnly) ==
    [r EXCEPT !.kills = takePlayerCol(@, facts.kills, fillOnly),
              !.damage = takePlayerCol(@, facts.damage, fillOnly)]

\* liveSightingResumeSet
Sighted(r) ==
    [r EXCEPT !.phase = IF @ = "kept" THEN "kept" ELSE "live"]

\* Mutant: an unchanged game inserts the match.
noteLiveFeedSeenInserts(r) == Sighted(r)

\* noteLiveFeedSeen is an UPDATE: no row, no effect.
noteLiveFeedSeen(r) == IF r.phase = "none" THEN r ELSE Sighted(r)

\* saveMatchFacts: the stamp of the source and the phase.
saveMatchFacts(r, s) ==
    [r EXCEPT !.seq = @ \/ s = "seq", !.gc = @ \/ s = "gc",
              !.phase = IF @ = "kept" \/ s = "gc" \/ r.gc THEN "kept" ELSE "ended"]

\* stampDraftClocks
stampDraftClocks(d, new) == [d EXCEPT !.clock = @ \/ (d.of # Empty /\ new.clock)]

\* Mutant: a complete draft is replaced although the parser timed it.
replaceMatchDraftTimed(d, new, fillOnly) ==
    IF new.of = Empty THEN d
    ELSE IF fillOnly THEN stampDraftClocks(d, new)
    ELSE [new EXCEPT !.clock = @ \/ d.clock]

\* replaceMatchDraft: clocks are carried over by hero.
replaceMatchDraft(d, new, fillOnly) ==
    IF new.of = Empty THEN d
    ELSE IF fillOnly \/ (d.full /\ d.clock) THEN stampDraftClocks(d, new)
    ELSE [new EXCEPT !.clock = @ \/ d.clock]

-----------------------------------------------------------------------------
(* What the sources say *)

\* rosterFromLivePlayers and the scoreboard rows; parseRealtimeTeams
LivePlayer(v) == [kills |-> v, damage |-> Empty]

\* collectDraft, collectRealtimeDraft: complete once the game is on.
LiveDraft(v) == [of |-> v, full |-> v > 1, clock |-> FALSE]

\* extractPlayers: a source leaves out what Valve does not send it.
extractPlayers(s) == {[kills |-> ValueOf(s), damage |-> d] : d \in {Empty, ValueOf(s)}}

\* extractDraft: picks_bans is there or not.
extractDraft(s, picks) ==
    IF picks THEN [of |-> ValueOf(s), full |-> TRUE, clock |-> FALSE] ELSE NoDraft

\* compactDraft, or the official list with clocks
ParsedDraft == {[of |-> Replay, full |-> f, clock |-> TRUE] : f \in BOOLEAN}

-----------------------------------------------------------------------------

Init ==
    /\ named \in BOOLEAN
    /\ feed = Empty /\ shown = FALSE
    /\ row = [phase |-> "none", seq |-> FALSE, gc |-> FALSE,
              kills |-> Empty, damage |-> Empty]
    /\ draft = NoDraft
    /\ ticks = FALSE
    /\ hashes = [w \in Worker |-> Empty]
    /\ poll = Idle
    /\ record = [s \in Source |-> Idle]
    /\ lost = {}

(* Steam: scoreboards follow each other; a match leaves the list for good or *)
(* by a glitch, and may stay in it after the game.                           *)

Play ==
    /\ feed < Versions
    /\ feed' = feed + 1 /\ shown' = TRUE
    /\ UNCHANGED <<named, stored, ticks, hashes, poll, record, lost>>

Flicker ==
    /\ feed # Empty
    /\ shown' = ~shown
    /\ UNCHANGED <<named, feed, stored, ticks, hashes, poll, record, lost>>

\* A transaction starts with upsertTeam and upsertSeriesForMatch, whose rows it
\* then holds.
Free == named => poll.pc # "open" /\ \A s \in Source : record[s].pc # "open"

\* insertLiveTicks comes after the transaction, and may fail.
insertLiveTicks == ticks' \in {ticks, TRUE}

-----------------------------------------------------------------------------
(* runPollLiveGames *)

\* Mutant: a game is written once.
ChangedOnce(w, v) == hashes[w] = Empty

\* The digest differs from the one remembered.
Changed(w, v) == hashes[w] # v

\* The transaction starts: the digest is compared, and fillOnly read, before
\* touchMatchLive has the row.
PollReads(w) ==
    /\ poll = Idle /\ shown /\ Free
    /\ poll' = [pc |-> "open", by |-> w, v |-> feed, changed |-> Changed(w, feed),
                fill |-> Changed(w, feed) /\ matchPostgameWritten(row)]
    /\ UNCHANGED <<env, stored, ticks, hashes, record, lost>>

\* touchMatchLive, upsertMatchPlayers and replaceMatchDraft, or noteLiveFeedSeen.
PollCommits ==
    /\ poll.pc = "open"
    /\ IF poll.changed
       THEN /\ row' = upsertMatchPlayers(Sighted(row), LivePlayer(poll.v), poll.fill)
            /\ draft' = replaceMatchDraft(draft, LiveDraft(poll.v), poll.fill)
            /\ hashes' = [hashes EXCEPT ![poll.by] = poll.v]
       ELSE /\ row' = noteLiveFeedSeen(row)
            /\ UNCHANGED <<draft, hashes>>
    /\ insertLiveTicks
    /\ poll' = Idle
    /\ UNCHANGED <<env, record, lost>>

\* Mutant: the ticks are inserted although the transaction failed.
PollRollsBackQuietly ==
    /\ poll.pc = "open"
    /\ insertLiveTicks
    /\ poll' = Idle
    /\ UNCHANGED <<env, stored, hashes, record, lost>>

\* A statement fails, of this game or of a later one.  hashes.set is not undone.
PollRollsBack ==
    /\ poll.pc = "open"
    /\ \/ UNCHANGED <<hashes, lost>>
       \/ /\ poll.changed
          /\ hashes' = [hashes EXCEPT ![poll.by] = poll.v]
          /\ lost' = lost \cup {poll.v}
    /\ poll' = Idle
    /\ UNCHANGED <<env, stored, ticks, record>>

\* finishMissingLiveMatches, once enough polls missed the match
PollFinishes(w) ==
    /\ poll = Idle /\ ~shown /\ row.phase = "live"
    /\ row' = [row EXCEPT !.phase = "ended"]
    /\ hashes' = [hashes EXCEPT ![w] = Empty]
    /\ UNCHANGED <<env, draft, ticks, poll, record, lost>>

\* The process restarts.
WorkerDies(w) ==
    /\ hashes[w] # Empty
    /\ hashes' = [hashes EXCEPT ![w] = Empty]
    /\ poll' = IF poll # Idle /\ poll.by = w THEN Idle ELSE poll
    /\ UNCHANGED <<env, stored, ticks, record, lost>>

-----------------------------------------------------------------------------
(* runPollRealtimeStats *)

\* listLiveRealtimeTargets listed the match while it was live, which may be over
\* by now.  touchMatchLive has the row before fillOnly is read.
RealtimeWrites ==
    /\ row.phase # "none" /\ Free
    /\ LET fillOnly == matchPostgameWritten(row) IN
       /\ row' = upsertMatchPlayers(Sighted(row), LivePlayer(feed), fillOnly)
       /\ draft' = replaceMatchDraft(draft, LiveDraft(feed), fillOnly)
    /\ insertLiveTicks
    /\ UNCHANGED <<env, hashes, poll, record, lost>>

-----------------------------------------------------------------------------
(* persistMatchRecord, for the sequence and for the GC *)

PersistOnly == UNCHANGED <<env, ticks, hashes, poll, lost>>

\* What comes after fillOnly is read.
Persisted(r, s, fillOnly, picks) ==
    /\ \E facts \in extractPlayers(s) :
           row' = upsertMatchPlayers(saveMatchFacts(r, s), facts, fillOnly)
    /\ draft' = replaceMatchDraft(draft, extractDraft(s, picks), fillOnly)

\* insertUndiscoveredMatch writes the row with its stamp, and holds it.  Only the
\* sequence walk meets a match without a row: the details of the GC write the
\* replay first, which refers to the match.
PersistUndiscovered(picks) ==
    /\ record["seq"] = Idle /\ feed = Versions /\ row.phase = "none" /\ Free
    /\ LET r == saveMatchFacts(row, "seq") IN
       Persisted(r, "seq", matchPostgameWritten(r), picks)
    /\ PersistOnly /\ UNCHANGED record

\* A row is there: fillOnly is read before saveMatchFacts has it.
PersistReads(s) ==
    /\ record[s] = Idle /\ feed = Versions /\ row.phase # "none" /\ Free
    /\ \E picks \in BOOLEAN :
           record' = [record EXCEPT ![s] = [pc |-> "open", picks |-> picks,
                                            fill |-> matchPostgameWritten(row)]]
    /\ PersistOnly /\ UNCHANGED stored

PersistCommits(s) ==
    /\ record[s].pc = "open"
    /\ Persisted(row, s, record[s].fill, record[s].picks)
    /\ record' = [record EXCEPT ![s] = Idle]
    /\ PersistOnly

\* A statement fails, or the process dies: the queue tries again.
PersistRollsBack(s) ==
    /\ record[s].pc = "open"
    /\ record' = [record EXCEPT ![s] = Idle]
    /\ PersistOnly /\ UNCHANGED stored

\* publishDraft: the replay is there after the game.
Publish ==
    /\ feed = Versions /\ row.phase \in {"ended", "kept"}
    /\ row' = [row EXCEPT !.phase = "kept"]
    /\ \E new \in ParsedDraft :
           draft' = IF draft.full THEN stampDraftClocks(draft, new) ELSE new
    /\ UNCHANGED <<env, ticks, hashes, poll, record, lost>>

-----------------------------------------------------------------------------

Next ==
    \/ Play \/ Flicker \/ Publish
    \/ \E w \in Worker : PollReads(w) \/ PollFinishes(w) \/ WorkerDies(w)
    \/ PollCommits \/ PollRollsBack
    \/ RealtimeWrites
    \/ \E picks \in BOOLEAN : PersistUndiscovered(picks)
    \/ \E s \in Source : PersistReads(s) \/ PersistCommits(s) \/ PersistRollsBack(s)

\* The job comes every two seconds, a transaction that is open ends, and those
\* of a game that is shown for good do not all fail.
Fairness ==
    /\ SF_vars(\E w \in Worker : PollReads(w)) /\ SF_vars(PollCommits)
    /\ \A s \in Source : WF_vars(PersistCommits(s) \/ PersistRollsBack(s))

Spec == Init /\ [][Next]_vars /\ Fairness

-----------------------------------------------------------------------------
(* Properties *)

TypeOK ==
    /\ named \in BOOLEAN /\ feed \in 0..Versions /\ shown \in BOOLEAN
    /\ row \in [phase : {"none", "live", "ended", "kept"}, seq : BOOLEAN,
                gc : BOOLEAN, kills : Value, damage : Value]
    /\ (row.phase = "none") = (row.kills = Empty)
    /\ draft \in [of : Value, full : BOOLEAN, clock : BOOLEAN]
    /\ ticks \in BOOLEAN
    /\ hashes \in [Worker -> 0..Versions]
    /\ poll \in {Idle} \cup [pc : {"open"}, by : Worker, v : Version,
                             changed : BOOLEAN, fill : BOOLEAN]
    /\ record \in [Source ->
           {Idle} \cup [pc : {"open"}, picks : BOOLEAN, fill : BOOLEAN]]
    /\ lost \subseteq Version

\* ClickHouse has no ticks of a match that Postgres does not have, though the
\* stores share no transaction and a poll that is rolled back has collected
\* ticks; but once a poll was rolled back after it remembered the match, the
\* next one takes the match for written.
TicksHaveMatch == ticks => row.phase # "none" \/ lost # {}

\* After a post-game source wrote the match, nobody changes a value that is
\* there, whichever polls and details jobs were under way, if the sources name
\* its teams or its series (fillOnly is read before the row is locked).
PostgameIsKept ==
    [][\A c \in {"kills", "damage"} :
           named /\ (row.seq \/ row.gc) /\ row[c] # Empty
               => row'[c] = row[c]]_vars

\* A complete draft with clocks stays complete, timed and the same, whoever
\* writes afterwards, with or without a stamp on the match.
TimedDraftIsKept == [][draft.full /\ draft.clock => draft' = draft]_vars

\* While the match is shown, its scoreboard is written, or post-game facts are:
\* the digests in memory hide it only if a poll was rolled back after it had
\* remembered it.
ShownIsWritten ==
    <>[]shown => []<>(\/ row.kills >= feed \/ feed \in lost
                      \/ row.seq \/ row.gc)

\* data-schema.md, GetMatchHistoryBySequenceNum writes "box score, draft", and
\* worker-architecture.md of a window, "same seq blob as fetch_seq_details", which
\* is an "additive fill of box score, draft": a record of the sequence that has
\* the draft leaves a complete one.
DraftIsFilled ==
    [][PersistUndiscovered(TRUE) \/ (PersistCommits("seq") /\ record["seq"].picks)
           => draft'.full]_vars
=============================================================================
