------------------------ MODULE MatchPipelineProofs ------------------------
(***************************************************************************)
(* Proofs about MatchPipeline, for every set of matches and every limit.   *)
(*                                                                         *)
(* Each UPDATE is an operator on one row, so the argument is made once per *)
(* operator (the lemmas) and the actions only say which operator a row     *)
(* goes through.                                                           *)
(***************************************************************************)
EXTENDS MatchPipeline, TLAPS

USE PipelineAssumption

(***************************************************************************)
(* What each UPDATE returns is a row.                                      *)
(***************************************************************************)
LEMMA SightingType ==
    ASSUME NEW r \in Row, NEW f \in Feed
    PROVE  liveSightingResumeSet(r, f) \in Row
<1>1. r.status \in Status /\ r.missed \in [Feed -> 0..MissThreshold]
  BY DEF Row
<1>2. 0 \in 0..MissThreshold /\ 0 \in 0..FastLimit /\ 0 \in 0..SlowLimit
  OBVIOUS
<1>3. [r.missed EXCEPT ![f] = 0] \in [Feed -> 0..MissThreshold]
  BY <1>1, <1>2
<1>4. (IF r.status \in Keep THEN r.status ELSE "live") \in Status
  BY <1>1 DEF Status
<1> QED
  BY <1>2, <1>3, <1>4 DEF liveSightingResumeSet, Row

LEMMA TouchType ==
    ASSUME NEW r \in Row, NEW f \in Feed
    PROVE  touchMatchLive(r, f) \in Row
BY SightingType DEF touchMatchLive, Row

LEMMA ClockType ==
    ASSUME NEW r \in Row, NEW running \in BOOLEAN
    PROVE  noteLiveClock(r, running) \in Row
BY DEF noteLiveClock, Row

LEMMA MissType ==
    ASSUME NEW r \in Row, NEW f \in Feed
    PROVE  noteLiveFeedMisses(r, f) \in Row
<1> r.missed \in [Feed -> 0..MissThreshold]
  BY DEF Row
<1> r.missed[f] < MissThreshold =>
       [r.missed EXCEPT ![f] = @ + 1] \in [Feed -> 0..MissThreshold]
  OBVIOUS
<1> QED
  BY DEF noteLiveFeedMisses, Row

LEMMA FinishType ==
    ASSUME NEW r \in Row
    PROVE  finishMissing(r) \in Row
BY DEF finishMissing, Row, Status

LEMMA TickType ==
    ASSUME NEW r \in Row, NEW f \in Feed, NEW isSeen \in BOOLEAN,
           NEW running \in BOOLEAN, NEW nonempty \in BOOLEAN
    PROVE  liveTick(r, f, isSeen, running, nonempty) \in Row
<1> DEFINE touched == IF isSeen THEN noteLiveClock(touchMatchLive(r, f), running)
                                ELSE r
           missed  == IF nonempty /\ ~isSeen THEN noteLiveFeedMisses(touched, f)
                                             ELSE touched
<1>1. touched \in Row
  BY TouchType, ClockType
<1>2. missed \in Row
  BY <1>1, MissType
<1>3. finishMissing(missed) \in Row
  BY <1>2, FinishType
<1> QED
  BY <1>2, <1>3 DEF liveTick

LEMMA ListingTypes ==
    ASSUME NEW r \in Row
    PROVE  /\ markHistoryAvailable(r) \in Row
           /\ upsertHistoryMatches(r) \in Row
BY DEF markHistoryAvailable, upsertHistoryMatches, Row, Status

LEMMA PollMissType ==
    ASSUME NEW r \in Row, NEW s \in Missed
    PROVE  recordHistoryPollMiss(r, s) \in Row
<1>1. advanceHistoryMiss(s.fast, s.slow).fast \in 0..FastLimit
  BY DEF advanceHistoryMiss, Missed
<1>2. advanceHistoryMiss(s.fast, s.slow).slow \in 0..SlowLimit
  BY DEF advanceHistoryMiss, Missed
<1>3. advanceHistoryMiss(s.fast, s.slow).done \in BOOLEAN
  BY DEF advanceHistoryMiss, Missed
<1> QED
  BY <1>1, <1>2, <1>3 DEF recordHistoryPollMiss, Row, Status

LEMMA FactTypes ==
    ASSUME NEW r \in Row, NEW seqnum \in BOOLEAN
    PROVE  /\ saveMatchFacts(r, "seq", seqnum) \in Row
           /\ saveMatchFacts(r, "gc", seqnum) \in Row
           /\ markMatchReplayStatus(r, "replay_stored") \in Row
           /\ markMatchReplayStatus(r, "replay_unavailable") \in Row
           /\ markParsed(r) \in Row
<1>1. saveMatchFacts(r, "seq", seqnum) \in Row
  BY DEF saveMatchFacts, Row, Status, Keep
<1>2. saveMatchFacts(r, "gc", seqnum) \in Row
  BY DEF saveMatchFacts, Row, Status, Keep
<1>3. /\ markMatchReplayStatus(r, "replay_stored") \in Row
      /\ markMatchReplayStatus(r, "replay_unavailable") \in Row
  BY DEF markMatchReplayStatus, Row, Status, Keep
<1>4. markParsed(r) \in Row
  BY DEF markParsed, Row, Status, Keep
<1> QED
  BY <1>1, <1>2, <1>3, <1>4

(***************************************************************************)
(* Type correctness.                                                       *)
(***************************************************************************)
Enq == {"details", "replay"}

LEMMA EnqueuedType ==
    ASSUME jobs \in [Match -> SUBSET Enq], NEW k \in Enq, NEW S
    PROVE  Enqueued(k, S) \in [Match -> SUBSET Enq]
BY DEF Enqueued

LEMMA IdleType == Idle \in Hist
<1>1. NoSnap \in [{} -> Missed]
  BY DEF NoSnap
<1>2. NoSnap \in UNION {[D -> Missed] : D \in SUBSET Match}
  BY <1>1
<1> QED
  BY <1>2 DEF Idle, Hist

LEMMA SnapType ==
    ASSUME hist \in Hist
    PROVE  /\ DOMAIN hist.snap \subseteq Match
           /\ \A m \in DOMAIN hist.snap : hist.snap[m] \in Missed
<1>1. PICK D \in SUBSET Match : hist.snap \in [D -> Missed]
  BY DEF Hist
<1> QED
  BY <1>1

LEMMA CommitTickType ==
    ASSUME TypeOK, NEW f \in Feed, NEW seen \in SUBSET Match,
           NEW running \in SUBSET Match, NEW nonempty \in BOOLEAN,
           CommitTick(f, seen, running, nonempty)
    PROVE  TypeOK'
<1>1. row' \in [Match -> Row]
  <2> SUFFICES ASSUME NEW m \in Match
               PROVE  liveTick(row[m], f, m \in seen, m \in running, nonempty) \in Row
    BY DEF CommitTick
  <2>1. row[m] \in Row /\ (m \in seen) \in BOOLEAN /\ (m \in running) \in BOOLEAN
    BY DEF TypeOK
  <2> QED
    BY <2>1, TickType
<1>2. post' \subseteq Match
  BY DEF CommitTick, TypeOK
<1> QED
  BY <1>1, <1>2 DEF CommitTick, TypeOK

LEMMA HistType ==
    ASSUME TypeOK, HistStart \/ HistSelect \/ HistCommit \/ HistEnqueue
    PROVE  TypeOK'
<1>1. CASE HistStart
  <2>1. hist' \in Hist
    BY <1>1 DEF HistStart, TypeOK, Hist
  <2> QED
    BY <1>1, <2>1 DEF HistStart, TypeOK
<1>2. CASE HistSelect
  <2>1. PICK found \in SUBSET hist.waiting :
          hist' = [pc |-> "tx", waiting |-> {}, found |-> found,
                   snap |-> [m \in {x \in hist.waiting \ found :
                                      historyWaiterPending(row[x])} |->
                              [awaits |-> row[m].status = "awaiting_history",
                               fast |-> row[m].fast, slow |-> row[m].slow]]]
    BY <1>2 DEF HistSelect
  <2>2. hist.waiting \subseteq Match
    BY DEF TypeOK, Hist
  <2> DEFINE D == {x \in hist.waiting \ found : historyWaiterPending(row[x])}
             snap(m) == [awaits |-> row[m].status = "awaiting_history",
                         fast |-> row[m].fast, slow |-> row[m].slow]
  <2>3. ASSUME NEW m \in D PROVE snap(m) \in Missed
    <3>1. row[m] \in Row
      BY <2>2 DEF TypeOK
    <3> QED
      BY <3>1 DEF Row, Missed
  <2>4. [m \in D |-> snap(m)] \in [D -> Missed]
    BY <2>3
  <2>5. D \in SUBSET Match
    BY <2>2
  <2>6. hist'.snap \in UNION {[E -> Missed] : E \in SUBSET Match}
    BY <2>1, <2>4, <2>5
  <2>7. hist' \in Hist
    BY <2>1, <2>2, <2>6 DEF Hist
  <2> QED
    BY <1>2, <2>7 DEF HistSelect, TypeOK
<1>3. CASE HistCommit
  <2>1. row' \in [Match -> Row]
    <3> SUFFICES ASSUME NEW m \in Match PROVE row'[m] \in Row
      BY <1>3 DEF HistCommit
    <3>1. row[m] \in Row
      BY DEF TypeOK
    <3>2. m \in DOMAIN hist.snap => hist.snap[m] \in Missed
      BY SnapType DEF TypeOK
    <3> QED
      BY <1>3, <3>1, <3>2, ListingTypes, PollMissType DEF HistCommit
  <2>2. hist' \in Hist
    BY <1>3, IdleType DEF HistCommit, TypeOK, Hist
  <2> QED
    BY <1>3, <2>1, <2>2 DEF HistCommit, TypeOK
<1>4. CASE HistEnqueue
  <2>1. jobs' \in [Match -> SUBSET Enq]
    BY <1>4, EnqueuedType DEF HistEnqueue, TypeOK, Enq
  <2> QED
    BY <1>4, <2>1, IdleType DEF HistEnqueue, TypeOK, Enq
<1> QED
  BY <1>1, <1>2, <1>3, <1>4

LEMMA FactsStepType ==
    ASSUME TypeOK, NEW m \in Match,
           \/ RealtimeAnswer(m) \/ SeqDetails(m) \/ DetailsSaved(m)
           \/ \E died \in BOOLEAN : SeqWindow(m, died)
    PROVE  TypeOK'
<1>1. row[m] \in Row
  BY DEF TypeOK
<1>2. CASE RealtimeAnswer(m)
  <2>1. ASSUME NEW running \in BOOLEAN
        PROVE  noteLiveClock(touchMatchLive(row[m], "top"), running) \in Row
    BY <1>1, TouchType, ClockType DEF Feed
  <2> QED
    BY <1>2, <2>1 DEF RealtimeAnswer, TypeOK
<1>3. CASE SeqDetails(m)
  BY <1>1, <1>3, FactTypes DEF SeqDetails, TypeOK
<1>4. CASE DetailsSaved(m)
  BY <1>1, <1>4, FactTypes DEF DetailsSaved, TypeOK
<1>5. ASSUME NEW died \in BOOLEAN, SeqWindow(m, died) PROVE TypeOK'
  <2>1. jobs' \in [Match -> SUBSET Enq]
    BY <1>5, EnqueuedType DEF SeqWindow, TypeOK, Enq
  <2> QED
    BY <1>1, <1>5, <2>1, FactTypes DEF SeqWindow, TypeOK, Enq
<1> QED
  BY <1>2, <1>3, <1>4, <1>5

LEMMA DetailsStepType ==
    ASSUME TypeOK, NEW m \in Match,
           \/ DetailsStart(m) \/ DetailsRefused(m) \/ DetailsFruitless(m)
           \/ DetailsRetry(m) \/ DetailsGiveUp(m) \/ DetailsKept(m)
           \/ DetailsAdopt(m) \/ DetailsUnpublished(m) \/ DetailsDownload(m)
           \/ DetailsLimited(m)
    PROVE  TypeOK'
<1>1. row[m] \in Row
  BY DEF TypeOK
<1>2. /\ markMatchReplayStatus(row[m], "replay_stored") \in Row
      /\ markMatchReplayStatus(row[m], "replay_unavailable") \in Row
  BY <1>1, FactTypes
<1>3. /\ Enqueued("details", {m}) \in [Match -> SUBSET Enq]
      /\ Enqueued("replay", {m}) \in [Match -> SUBSET Enq]
  BY EnqueuedType DEF TypeOK, Enq
<1>4. CASE DetailsStart(m)
  BY <1>4 DEF DetailsStart, TypeOK
<1>5. CASE DetailsRefused(m)
  BY <1>2, <1>5 DEF DetailsRefused, RunEnds, TypeOK
<1>6. CASE DetailsFruitless(m)
  BY <1>6 DEF DetailsFruitless, RunEnds, TypeOK
<1>7. CASE DetailsRetry(m)
  BY <1>3, <1>7 DEF DetailsRetry, RunEnds, TypeOK, Enq
<1>8. CASE DetailsGiveUp(m)
  BY <1>8 DEF DetailsGiveUp, RunEnds, TypeOK
<1>9. CASE DetailsKept(m) \/ DetailsLimited(m)
  BY <1>9 DEF DetailsKept, DetailsLimited, RunEnds, TypeOK
<1>10. CASE DetailsAdopt(m)
  BY <1>2, <1>10 DEF DetailsAdopt, RunEnds, TypeOK
<1>11. CASE DetailsUnpublished(m)
  BY <1>2, <1>11 DEF DetailsUnpublished, RunEnds, TypeOK
<1>12. CASE DetailsDownload(m)
  BY <1>3, <1>12 DEF DetailsDownload, RunEnds, TypeOK, Enq
<1> QED
  BY <1>4, <1>5, <1>6, <1>7, <1>8, <1>9, <1>10, <1>11, <1>12

LEMMA ReplayStepType ==
    ASSUME TypeOK, NEW m \in Match,
           \/ DownloadStored(m) \/ DownloadUnavailable(m) \/ DownloadGiveUp(m)
           \/ ParserPublish(m) \/ ParserFail(m)
    PROVE  TypeOK'
<1>1. row[m] \in Row
  BY DEF TypeOK
<1>2. CASE DownloadStored(m)
  BY <1>1, <1>2, FactTypes DEF DownloadStored, TypeOK
<1>3. CASE DownloadUnavailable(m)
  BY <1>1, <1>3, FactTypes DEF DownloadUnavailable, TypeOK
<1>4. CASE DownloadGiveUp(m)
  BY <1>4 DEF DownloadGiveUp, TypeOK
<1>5. CASE ParserPublish(m)
  BY <1>1, <1>5, FactTypes DEF ParserPublish, TypeOK
<1>6. CASE ParserFail(m)
  BY <1>6 DEF ParserFail, TypeOK
<1> QED
  BY <1>2, <1>3, <1>4, <1>5, <1>6

LEMMA InitType == Init => TypeOK
<1> SUFFICES ASSUME Init PROVE TypeOK
  OBVIOUS
<1>1. NoRow \in Row
  BY DEF NoRow, Row, Status
<1> QED
  BY <1>1, IdleType DEF Init, TypeOK

LEMMA StepType ==
    ASSUME TypeOK, [Next]_vars
    PROVE  TypeOK'
<1>1. CASE PollLiveGames
  <2>1. PICK seen \in SUBSET Match, nonempty \in BOOLEAN :
          \E running \in SUBSET seen : CommitTick("league", seen, running, nonempty)
    BY <1>1 DEF PollLiveGames
  <2> QED
    BY <2>1, CommitTickType DEF Feed
<1>2. CASE PollTopLive
  <2>1. PICK seen \in SUBSET Match, nonempty \in BOOLEAN :
          CommitTick("top", seen, {}, nonempty)
    BY <1>2 DEF PollTopLive
  <2> QED
    BY <2>1, CommitTickType DEF Feed
<1>3. CASE EnqueueLiveFinishedDetails
  <2>1. jobs' \in [Match -> SUBSET Enq]
    BY <1>3, EnqueuedType DEF EnqueueLiveFinishedDetails, TypeOK, Enq
  <2> QED
    BY <1>3, <2>1 DEF EnqueueLiveFinishedDetails, TypeOK, Enq
<1>4. CASE RealtimeStart
  BY <1>4 DEF RealtimeStart, TypeOK
<1>5. CASE HistStart \/ HistSelect \/ HistCommit \/ HistEnqueue
  BY <1>5, HistType
<1>6. ASSUME NEW listed \in SUBSET Match, WalkLeaguePage(listed) PROVE TypeOK'
  <2>1. ASSUME NEW m \in Match PROVE upsertHistoryMatches(row[m]) \in Row
    <3>1. row[m] \in Row
      BY DEF TypeOK
    <3> QED
      BY <3>1, ListingTypes
  <2> QED
    BY <1>6, <2>1 DEF WalkLeaguePage, TypeOK
<1>7. CASE WalkEnqueueDetails
  <2>1. jobs' \in [Match -> SUBSET Enq]
    BY <1>7, EnqueuedType DEF WalkEnqueueDetails, TypeOK, Enq
  <2> QED
    BY <1>7, <2>1 DEF WalkEnqueueDetails, TypeOK, Enq
<1>8. CASE Crash
  <2>1. hist' \in Hist
    BY <1>8, IdleType DEF Crash, TypeOK
  <2>2. /\ gc' \in [Match -> {"idle", "asking", "saved"}]
        /\ post' \subseteq Match
        /\ rt' \subseteq Match
        /\ lost' \subseteq Match
    BY <1>8 DEF Crash, TypeOK, Hist
  <2> QED
    BY <1>8, <2>1, <2>2 DEF Crash, TypeOK
<1>9. ASSUME NEW m \in Match, RealtimeSkip(m) PROVE TypeOK'
  BY <1>9 DEF RealtimeSkip, TypeOK
<1>10. CASE UNCHANGED vars
  BY <1>10 DEF vars, TypeOK
<1> QED
  BY <1>1, <1>2, <1>3, <1>4, <1>5, <1>6, <1>7, <1>8, <1>9, <1>10,
     FactsStepType, DetailsStepType, ReplayStepType DEF Next

\* Every column, queue and actor stays in its domain, whatever the matches and
\* the limits.
THEOREM TypeCorrect == Spec => []TypeOK
BY InitType, StepType, PTL DEF Spec

(***************************************************************************)
(* Safety.  RowOK says of one row what LiveStillListed and                 *)
(* FailedMeansBudgetSpent say of all; Advance(r, q) says what every write  *)
(* but the waiter's timeout may do to a row.  The waiter writes what it    *)
(* read: its transaction is safe because no row it read as pending can be  *)
(* failed when it commits (SnapNotFailed), for only its own commit fails   *)
(* rows.  KeptPhase needs ReadyMeansDetails: a sequence window pulls a    *)
(* details_ready row back unless its GC details are stamped.               *)
(***************************************************************************)
LiveOK(r) ==
    r.status = "live" => \E f \in r.feeds : r.missed[f] < MissThreshold

SpentOK(r) ==
    r.status = "failed" => r.fast = FastLimit /\ r.slow = SlowLimit /\ ~r.armed

ReadyOK(r) == r.status = "details_ready" => r.gcDone

RowOK(r) == r \in Row /\ LiveOK(r) /\ SpentOK(r) /\ ReadyOK(r)

Advance(r, q) ==
    /\ q.status = "failed" => r.status = "failed"
    /\ r.status \in Keep => q.status \in Keep
    /\ r.status \in Keep \ {"details_ready"} => q.status # "details_ready"
    /\ r.status = "parsed" => q.status = "parsed"

SnapNotFailed == \A m \in DOMAIN hist.snap : row[m].status # "failed"

ReadyMeansDetails ==
    \A m \in Match : row[m].status = "details_ready" => row[m].gcDone

IInv ==
    /\ TypeOK
    /\ LiveStillListed
    /\ FailedMeansBudgetSpent
    /\ SnapNotFailed
    /\ ReadyMeansDetails

LEMMA TouchOK ==
    ASSUME NEW r \in Row, NEW f \in Feed, NEW running \in BOOLEAN, RowOK(r)
    PROVE  LET q == noteLiveClock(touchMatchLive(r, f), running)
           IN  RowOK(q) /\ Advance(r, q) /\ (q.status = "live" => q.missed[f] = 0)
<1> DEFINE q == noteLiveClock(touchMatchLive(r, f), running)
<1>1. q \in Row
  BY TouchType, ClockType
<1>2. q.status = IF r.status \in Keep THEN r.status ELSE "live"
  BY DEF noteLiveClock, touchMatchLive, liveSightingResumeSet, Row
<1>3. q.missed = [r.missed EXCEPT ![f] = 0] /\ q.feeds = r.feeds \cup {f}
  BY DEF noteLiveClock, touchMatchLive, liveSightingResumeSet, Row
<1>4. q.missed[f] = 0
  BY <1>3 DEF Row
<1>5. LiveOK(q)
  BY <1>3, <1>4 DEF LiveOK
<1>6. SpentOK(q)
  BY <1>2 DEF SpentOK, Keep
<1>7. Advance(r, q)
  BY <1>2 DEF Advance, Keep
<1>8. q.gcDone = r.gcDone
  BY DEF noteLiveClock, touchMatchLive, liveSightingResumeSet, Row
<1>9. ReadyOK(q)
  BY <1>2, <1>8 DEF RowOK, ReadyOK
<1> QED
  BY <1>1, <1>4, <1>5, <1>6, <1>7, <1>9 DEF RowOK

LEMMA FinishOK ==
    ASSUME NEW r \in Row, SpentOK(r), ReadyOK(r), r.status = "live" => r.feeds # {}
    PROVE  RowOK(finishMissing(r)) /\ Advance(r, finishMissing(r))
<1>1. finishMissing(r) \in Row
  BY FinishType
<1>2. CASE r.status = "live" /\ liveFeedsDone(r)
  <2>1. finishMissing(r).status \in {"awaiting_history", "not_started"}
    BY <1>2 DEF finishMissing, Row
  <2> QED
    BY <1>1, <1>2, <2>1 DEF RowOK, LiveOK, SpentOK, ReadyOK, Advance, Keep
<1>3. CASE ~(r.status = "live" /\ liveFeedsDone(r))
  <2>1. finishMissing(r) = r
    BY <1>3 DEF finishMissing
  <2>2. LiveOK(r)
    BY <1>3 DEF LiveOK, liveFeedsDone, Row
  <2> QED
    BY <2>1, <2>2 DEF RowOK, Advance
<1> QED
  BY <1>2, <1>3

\* A sighting makes the listing nonempty, so no row a tick leaves live is one
\* it should have finished.
LEMMA TickOK ==
    ASSUME NEW r \in Row, NEW f \in Feed, NEW isSeen \in BOOLEAN,
           NEW running \in BOOLEAN, NEW nonempty \in BOOLEAN,
           RowOK(r), isSeen => nonempty
    PROVE  LET q == liveTick(r, f, isSeen, running, nonempty)
           IN  RowOK(q) /\ Advance(r, q)
<1> DEFINE touched == noteLiveClock(touchMatchLive(r, f), running)
           miss    == noteLiveFeedMisses(r, f)
           q       == liveTick(r, f, isSeen, running, nonempty)
<1>1. CASE ~nonempty
  BY <1>1 DEF liveTick, Advance
<1>2. CASE isSeen
  <2>1. RowOK(touched) /\ Advance(r, touched)
    BY TouchOK
  <2>2. touched \in Row /\ SpentOK(touched) /\ ReadyOK(touched)
        /\ (touched.status = "live" => touched.feeds # {})
    BY <2>1 DEF RowOK, LiveOK
  <2>3. RowOK(finishMissing(touched)) /\ Advance(touched, finishMissing(touched))
    BY <2>2, FinishOK
  <2>4. q = finishMissing(touched)
    BY <1>2 DEF liveTick
  <2> QED
    BY <2>1, <2>3, <2>4 DEF Advance
<1>3. CASE nonempty /\ ~isSeen
  <2>1. miss \in Row
    BY MissType
  <2>2. /\ miss.status = r.status
        /\ miss.feeds = r.feeds
        /\ miss.fast = r.fast /\ miss.slow = r.slow /\ miss.armed = r.armed
        /\ miss.gcDone = r.gcDone
    BY DEF noteLiveFeedMisses, Row
  <2>3. SpentOK(miss) /\ ReadyOK(miss) /\ (miss.status = "live" => miss.feeds # {})
    BY <2>2 DEF RowOK, SpentOK, ReadyOK, LiveOK
  <2>4. RowOK(finishMissing(miss)) /\ Advance(miss, finishMissing(miss))
    BY <2>1, <2>3, FinishOK
  <2>5. q = finishMissing(miss)
    BY <1>3 DEF liveTick
  <2> QED
    BY <2>2, <2>4, <2>5 DEF Advance
<1> QED
  BY <1>1, <1>2, <1>3

LEMMA ListingOK ==
    ASSUME NEW r \in Row, RowOK(r)
    PROVE  /\ RowOK(markHistoryAvailable(r)) /\ Advance(r, markHistoryAvailable(r))
           /\ RowOK(upsertHistoryMatches(r)) /\ Advance(r, upsertHistoryMatches(r))
<1>1. markHistoryAvailable(r) \in Row /\ upsertHistoryMatches(r) \in Row
  BY ListingTypes
<1>2. RowOK(markHistoryAvailable(r)) /\ Advance(r, markHistoryAvailable(r))
  <2>1. CASE r.status \in {"absent", "live"}
    BY <2>1 DEF markHistoryAvailable, Advance
  <2>2. CASE r.status \notin {"absent", "live"}
    <3>1. markHistoryAvailable(r).status \notin {"failed", "live"}
      BY <2>2 DEF markHistoryAvailable, Row, Status, Keep
    <3>2. r.status \in Keep => markHistoryAvailable(r).status = r.status
      BY <2>2 DEF markHistoryAvailable, Row, Keep
    <3>3. /\ markHistoryAvailable(r).status = "details_ready" => r.status = "details_ready"
          /\ markHistoryAvailable(r).gcDone = r.gcDone
      BY <2>2 DEF markHistoryAvailable, Row
    <3>4. r.status \in Keep => markHistoryAvailable(r).status \in Keep
      BY <3>2
    <3>5. Advance(r, markHistoryAvailable(r))
      BY <3>1, <3>2, <3>3, <3>4 DEF Advance, Keep
    <3> QED
      BY <1>1, <3>1, <3>3, <3>5 DEF RowOK, LiveOK, SpentOK, ReadyOK
  <2> QED
    BY <2>1, <2>2
<1>3. RowOK(upsertHistoryMatches(r)) /\ Advance(r, upsertHistoryMatches(r))
  <2> DEFINE q == upsertHistoryMatches(r)
  <2>1. /\ q.feeds = r.feeds /\ q.missed = r.missed
        /\ q.fast = r.fast /\ q.slow = r.slow /\ q.armed = r.armed
        /\ q.gcDone = r.gcDone
        /\ q.status = IF r.status \in Keep \cup {"live", "failed"}
                      THEN r.status ELSE "awaiting_details"
    BY DEF upsertHistoryMatches, Row
  <2> QED
    BY <1>1, <2>1 DEF RowOK, LiveOK, SpentOK, ReadyOK, Advance, Keep
<1> QED
  BY <1>2, <1>3

LEMMA FactsOK ==
    ASSUME NEW r \in Row, NEW seqnum \in BOOLEAN, NEW fetched \in {"seq", "gc"},
           RowOK(r)
    PROVE  LET q == saveMatchFacts(r, fetched, seqnum)
           IN  RowOK(q) /\ Advance(r, q)
<1> DEFINE q == saveMatchFacts(r, fetched, seqnum)
<1>1. q \in Row
  BY FactTypes
<1>2. q.status = IF r.status \in Keep \ {"details_ready"} THEN r.status
                 ELSE IF fetched = "gc" \/ r.gcDone
                      THEN "details_ready" ELSE "awaiting_details"
  BY DEF saveMatchFacts, Row
<1>3. q.status # "live" /\ q.status # "failed"
  BY <1>2 DEF Keep
<1>4. r.status = "details_ready" => q.status = "details_ready"
  BY <1>2 DEF RowOK, ReadyOK
<1>5. r.status \in Keep \ {"details_ready"} => q.status = r.status
  BY <1>2
<1>6. q.gcDone = (r.gcDone \/ fetched = "gc")
  BY DEF saveMatchFacts, Row
<1>7. ReadyOK(q)
  BY <1>2, <1>6 DEF ReadyOK, Keep
<1>8. Advance(r, q)
  BY <1>3, <1>4, <1>5 DEF Advance, Keep
<1> QED
  BY <1>1, <1>3, <1>7, <1>8 DEF RowOK, LiveOK, SpentOK

LEMMA ReplayOK ==
    ASSUME NEW r \in Row, RowOK(r),
           NEW s \in {"replay_stored", "replay_unavailable"}
    PROVE  /\ RowOK(markMatchReplayStatus(r, s))
           /\ Advance(r, markMatchReplayStatus(r, s))
           /\ RowOK(markParsed(r)) /\ Advance(r, markParsed(r))
<1>1. markMatchReplayStatus(r, s) \in Row /\ markParsed(r) \in Row
  BY FactTypes
<1>2. markMatchReplayStatus(r, s).status =
        IF r.status \in {"absent", "parsed"} THEN r.status ELSE s
  BY DEF markMatchReplayStatus, Row
<1>3. markMatchReplayStatus(r, s) = r \/ markMatchReplayStatus(r, s).status = s
  BY DEF markMatchReplayStatus, Row
<1>4. RowOK(markMatchReplayStatus(r, s)) /\ Advance(r, markMatchReplayStatus(r, s))
  BY <1>1, <1>2, <1>3 DEF RowOK, LiveOK, SpentOK, ReadyOK, Advance, Keep
<1>5. \/ markParsed(r) = r
      \/ markParsed(r).status = "parsed"
  BY DEF markParsed, Row
<1>6. RowOK(markParsed(r)) /\ Advance(r, markParsed(r))
  BY <1>1, <1>5 DEF RowOK, LiveOK, SpentOK, ReadyOK, Advance, Keep
<1> QED
  BY <1>4, <1>6

\* The waiter's UPDATE, of a row that is not failed: it fails the row only with
\* the budget spent, and changes no other status.
LEMMA PollMissOK ==
    ASSUME NEW r \in Row, RowOK(r), r.status # "failed", NEW s \in Missed
    PROVE  LET q == recordHistoryPollMiss(r, s)
           IN  RowOK(q) /\ q.status \in {r.status, "failed"}
<1> DEFINE q    == recordHistoryPollMiss(r, s)
           next == advanceHistoryMiss(s.fast, s.slow)
<1>1. q \in Row
  BY PollMissType
<1>2. /\ q.feeds = r.feeds /\ q.missed = r.missed /\ q.gcDone = r.gcDone
      /\ q.fast = next.fast /\ q.slow = next.slow /\ q.armed = ~next.done
      /\ q.status = IF next.done /\ s.awaits THEN "failed" ELSE r.status
  BY DEF recordHistoryPollMiss, Row
<1>3. next.done => next.fast = FastLimit /\ next.slow = SlowLimit
  <2>1. s.fast \in 0..FastLimit /\ s.slow \in 0..SlowLimit
    BY DEF Missed
  <2>2. CASE s.fast >= FastLimit /\ s.slow >= SlowLimit
    <3>1. s.fast = FastLimit /\ s.slow = SlowLimit
      BY <2>1, <2>2
    <3>2. ~(s.fast < FastLimit) /\ ~(s.slow < SlowLimit)
      BY <3>1
    <3>3. next.fast = s.fast /\ next.slow = s.slow
      BY <3>2 DEF advanceHistoryMiss
    <3> QED
      BY <3>1, <3>3
  <2>3. CASE ~(s.fast >= FastLimit /\ s.slow >= SlowLimit)
    <3>1. ~next.done
      BY <2>3 DEF advanceHistoryMiss
    <3> QED
      BY <3>1
  <2> QED
    BY <2>2, <2>3
<1>4. SpentOK(q)
  BY <1>2, <1>3 DEF SpentOK
<1> QED
  BY <1>1, <1>2, <1>4 DEF RowOK, LiveOK, ReadyOK

(***************************************************************************)
(* From rows to the invariant.  Every step but the waiter's SELECT and     *)
(* COMMIT takes each row to itself or through one of the lemmas above.     *)
(***************************************************************************)
LEMMA RowsOK ==
    IInv <=> /\ TypeOK
             /\ \A m \in Match : RowOK(row[m])
             /\ SnapNotFailed
BY DEF IInv, TypeOK, LiveStillListed, FailedMeansBudgetSpent,
       ReadyMeansDetails, RowOK, LiveOK, SpentOK, ReadyOK

LEMMA RowsOKNext ==
    IInv' <=> /\ TypeOK'
              /\ \A m \in Match : RowOK(row'[m])
              /\ SnapNotFailed'
BY DEF IInv, TypeOK, LiveStillListed, FailedMeansBudgetSpent,
       ReadyMeansDetails, RowOK, LiveOK, SpentOK, ReadyOK

Moves == \A m \in Match : RowOK(row'[m]) /\ Advance(row[m], row'[m])

LEMMA MovesKeepInvariant ==
    ASSUME IInv, TypeOK', Moves, hist'.snap = hist.snap \/ hist'.snap = NoSnap
    PROVE  IInv'
<1>1. SnapNotFailed'
  <2>1. DOMAIN hist.snap \subseteq Match
    BY SnapType DEF IInv, TypeOK
  <2>2. CASE hist'.snap = hist.snap
    BY <2>1, <2>2 DEF IInv, SnapNotFailed, Moves, Advance
  <2>3. CASE hist'.snap = NoSnap
    BY <2>3 DEF SnapNotFailed, NoSnap
  <2> QED
    BY <2>2, <2>3
<1> QED
  BY <1>1, RowsOKNext DEF Moves

LEMMA TickMoves ==
    ASSUME IInv, NEW f \in Feed, NEW seen \in SUBSET Match,
           NEW running \in SUBSET Match, NEW nonempty \in BOOLEAN,
           seen # {} => nonempty, CommitTick(f, seen, running, nonempty)
    PROVE  Moves /\ hist' = hist
<1> SUFFICES ASSUME NEW m \in Match
             PROVE  RowOK(row'[m]) /\ Advance(row[m], row'[m])
  BY DEF Moves, CommitTick
<1>1. row[m] \in Row /\ RowOK(row[m])
  BY RowsOK DEF TypeOK
<1>2. row'[m] = liveTick(row[m], f, m \in seen, m \in running, nonempty)
  BY DEF CommitTick
<1>3. (m \in seen) \in BOOLEAN /\ (m \in running) \in BOOLEAN
  OBVIOUS
<1> QED
  BY <1>1, <1>2, <1>3, TickOK

LEMMA RowMoves ==
    ASSUME IInv, NEW m \in Match, NEW q, RowOK(q), Advance(row[m], q),
           row' = [row EXCEPT ![m] = q]
    PROVE  Moves
<1> SUFFICES ASSUME NEW n \in Match
             PROVE  RowOK(row'[n]) /\ Advance(row[n], row'[n])
  BY DEF Moves
<1>1. CASE n = m
  BY <1>1 DEF IInv, TypeOK
<1>2. CASE n # m
  BY <1>2, RowsOK DEF TypeOK, Advance
<1> QED
  BY <1>1, <1>2

LEMMA StillMoves ==
    ASSUME IInv, row' = row
    PROVE  Moves
BY RowsOK DEF Moves, Advance

LEMMA FactsStepMoves ==
    ASSUME IInv, NEW m \in Match,
           \/ RealtimeAnswer(m) \/ SeqDetails(m) \/ DetailsSaved(m)
           \/ \E died \in BOOLEAN : SeqWindow(m, died)
    PROVE  Moves
<1>1. row[m] \in Row /\ RowOK(row[m])
  BY RowsOK DEF TypeOK
<1>2. CASE RealtimeAnswer(m)
  <2>1. PICK running \in BOOLEAN :
          row' = [row EXCEPT ![m] = noteLiveClock(touchMatchLive(row[m], "top"), running)]
    BY <1>2 DEF RealtimeAnswer
  <2> QED
    BY <1>1, <2>1, TouchOK, RowMoves DEF Feed
<1>3. CASE SeqDetails(m)
  <2>1. row' = [row EXCEPT ![m] = saveMatchFacts(row[m], "seq", TRUE)]
    BY <1>3 DEF SeqDetails
  <2> QED
    BY <1>1, <2>1, FactsOK, RowMoves
<1>4. CASE DetailsSaved(m)
  <2>1. PICK seqnum \in BOOLEAN :
          row' = [row EXCEPT ![m] = saveMatchFacts(row[m], "gc", seqnum)]
    BY <1>4 DEF DetailsSaved
  <2> QED
    BY <1>1, <2>1, FactsOK, RowMoves
<1>5. ASSUME NEW died \in BOOLEAN, SeqWindow(m, died) PROVE Moves
  <2>1. row' = [row EXCEPT ![m] = saveMatchFacts(row[m], "seq", TRUE)]
    BY <1>5 DEF SeqWindow
  <2> QED
    BY <1>1, <2>1, FactsOK, RowMoves
<1> QED
  BY <1>2, <1>3, <1>4, <1>5

LEMMA ReplayStepMoves ==
    ASSUME IInv, NEW m \in Match,
           \/ DetailsStart(m) \/ DetailsRefused(m) \/ DetailsFruitless(m)
           \/ DetailsRetry(m) \/ DetailsGiveUp(m) \/ DetailsKept(m)
           \/ DetailsAdopt(m) \/ DetailsUnpublished(m) \/ DetailsDownload(m)
           \/ DetailsLimited(m)
           \/ DownloadStored(m) \/ DownloadUnavailable(m) \/ DownloadGiveUp(m)
           \/ ParserPublish(m) \/ ParserFail(m)
    PROVE  Moves
<1>1. row[m] \in Row /\ RowOK(row[m])
  BY RowsOK DEF TypeOK
<1>2. \/ row' = row
      \/ row' = [row EXCEPT ![m] = markMatchReplayStatus(row[m], "replay_stored")]
      \/ row' = [row EXCEPT ![m] = markMatchReplayStatus(row[m], "replay_unavailable")]
      \/ row' = [row EXCEPT ![m] = markParsed(row[m])]
  BY DEF DetailsStart, DetailsRefused, DetailsFruitless, DetailsRetry,
         DetailsGiveUp, DetailsKept, DetailsAdopt, DetailsUnpublished,
         DetailsDownload, DetailsLimited, DownloadStored, DownloadUnavailable,
         DownloadGiveUp, ParserPublish, ParserFail
<1> QED
  BY <1>1, <1>2, StillMoves, ReplayOK, RowMoves

LEMMA SelectKeepsInvariant ==
    ASSUME IInv, TypeOK', HistSelect
    PROVE  IInv'
<1>1. row' = row
  BY DEF HistSelect
<1>2. ASSUME NEW m \in DOMAIN hist'.snap PROVE row[m].status # "failed"
  <2>1. PICK found \in SUBSET hist.waiting :
          hist' = [pc |-> "tx", waiting |-> {}, found |-> found,
                   snap |-> [x \in {y \in hist.waiting \ found :
                                      historyWaiterPending(row[y])} |->
                              [awaits |-> row[x].status = "awaiting_history",
                               fast |-> row[x].fast, slow |-> row[x].slow]]]
    BY DEF HistSelect
  <2>2. m \in hist.waiting /\ historyWaiterPending(row[m])
    BY <1>2, <2>1
  <2>3. m \in Match
    BY <2>2 DEF IInv, TypeOK, Hist
  <2> QED
    BY <2>2, <2>3 DEF IInv, FailedMeansBudgetSpent, historyWaiterPending
<1>3. SnapNotFailed'
  BY <1>1, <1>2 DEF SnapNotFailed
<1> QED
  BY <1>1, <1>3, RowsOK, RowsOKNext

\* The waiter's commit: a row it marks as found advances, a row it counts a miss
\* for was not failed when the commit came.
LEMMA CommitRow ==
    ASSUME IInv, HistCommit, NEW m \in Match
    PROVE  /\ RowOK(row'[m])
           /\ Advance(row[m], row'[m]) \/ row'[m].status \in {row[m].status, "failed"}
<1>1. row[m] \in Row /\ RowOK(row[m])
  BY RowsOK DEF TypeOK
<1>2. row'[m] = IF m \in hist.found THEN markHistoryAvailable(row[m])
                ELSE IF m \in DOMAIN hist.snap
                     THEN recordHistoryPollMiss(row[m], hist.snap[m])
                     ELSE row[m]
  BY DEF HistCommit
<1>3. CASE m \in hist.found
  BY <1>1, <1>2, <1>3, ListingOK
<1>4. CASE m \notin hist.found /\ m \in DOMAIN hist.snap
  <2>1. hist.snap[m] \in Missed /\ row[m].status # "failed"
    BY <1>4, SnapType DEF IInv, TypeOK, SnapNotFailed
  <2> QED
    BY <1>1, <1>2, <1>4, <2>1, PollMissOK
<1>5. CASE m \notin hist.found /\ m \notin DOMAIN hist.snap
  BY <1>1, <1>2, <1>5
<1> QED
  BY <1>3, <1>4, <1>5

LEMMA CommitKeepsInvariant ==
    ASSUME IInv, TypeOK', HistCommit
    PROVE  IInv'
<1>1. \A m \in Match : RowOK(row'[m])
  BY CommitRow
<1>2. SnapNotFailed'
  BY DEF HistCommit, Idle, NoSnap, SnapNotFailed
<1> QED
  BY <1>1, <1>2, RowsOKNext

\* Every step but the waiter's SELECT and COMMIT moves the rows.
LEMMA StepMoves ==
    ASSUME IInv, [Next]_vars
    PROVE  \/ HistSelect
           \/ HistCommit
           \/ Moves /\ (hist'.snap = hist.snap \/ hist'.snap = NoSnap)
<1>1. CASE PollLiveGames
  <2>1. PICK seen \in SUBSET Match, nonempty \in BOOLEAN :
          /\ seen # {} => nonempty
          /\ \E running \in SUBSET seen : CommitTick("league", seen, running, nonempty)
    BY <1>1 DEF PollLiveGames
  <2> QED
    BY <2>1, TickMoves DEF Feed
<1>2. CASE PollTopLive
  <2>1. PICK seen \in SUBSET Match, nonempty \in BOOLEAN :
          /\ seen # {} => nonempty
          /\ CommitTick("top", seen, {}, nonempty)
    BY <1>2 DEF PollTopLive
  <2> QED
    BY <2>1, TickMoves DEF Feed
<1>3. CASE EnqueueLiveFinishedDetails \/ RealtimeStart \/ WalkEnqueueDetails
  BY <1>3, StillMoves
     DEF EnqueueLiveFinishedDetails, RealtimeStart, WalkEnqueueDetails
<1>4. CASE HistStart
  BY <1>4, StillMoves DEF HistStart, IInv, TypeOK, Hist
<1>5. CASE HistEnqueue
  BY <1>5, StillMoves DEF HistEnqueue, Idle
<1>6. CASE Crash
  BY <1>6, StillMoves DEF Crash, Idle
<1>7. ASSUME NEW listed \in SUBSET Match, WalkLeaguePage(listed)
      PROVE  Moves /\ hist'.snap = hist.snap
  <2> SUFFICES ASSUME NEW m \in Match
               PROVE  RowOK(row'[m]) /\ Advance(row[m], row'[m])
    BY <1>7 DEF Moves, WalkLeaguePage
  <2>1. row[m] \in Row /\ RowOK(row[m])
    BY RowsOK DEF TypeOK
  <2>2. row'[m] = IF m \in listed THEN upsertHistoryMatches(row[m]) ELSE row[m]
    BY <1>7 DEF WalkLeaguePage
  <2>3. CASE m \in listed
    BY <2>1, <2>2, <2>3, ListingOK
  <2>4. CASE m \notin listed
    BY <2>1, <2>2, <2>4 DEF Advance
  <2> QED
    BY <2>3, <2>4
<1>8. ASSUME NEW m \in Match,
             \/ RealtimeAnswer(m) \/ SeqDetails(m) \/ DetailsSaved(m)
             \/ \E died \in BOOLEAN : SeqWindow(m, died)
      PROVE  Moves /\ hist'.snap = hist.snap
  BY <1>8, FactsStepMoves DEF RealtimeAnswer, SeqDetails, DetailsSaved, SeqWindow
<1>9. ASSUME NEW m \in Match,
             \/ DetailsStart(m) \/ DetailsRefused(m) \/ DetailsFruitless(m)
             \/ DetailsRetry(m) \/ DetailsGiveUp(m) \/ DetailsKept(m)
             \/ DetailsAdopt(m) \/ DetailsUnpublished(m) \/ DetailsDownload(m)
             \/ DetailsLimited(m)
             \/ DownloadStored(m) \/ DownloadUnavailable(m) \/ DownloadGiveUp(m)
             \/ ParserPublish(m) \/ ParserFail(m)
      PROVE  Moves /\ hist'.snap = hist.snap
  <2>1. hist' = hist
    BY <1>9 DEF DetailsStart, DetailsRefused, DetailsFruitless, DetailsRetry,
           DetailsGiveUp, DetailsKept, DetailsAdopt, DetailsUnpublished,
           DetailsDownload, DetailsLimited, DownloadStored, DownloadUnavailable,
           DownloadGiveUp, ParserPublish, ParserFail, RunEnds
  <2> QED
    BY <1>9, <2>1, ReplayStepMoves
<1>10. ASSUME NEW m \in Match, RealtimeSkip(m) PROVE Moves /\ hist'.snap = hist.snap
  BY <1>10, StillMoves DEF RealtimeSkip
<1>11. CASE UNCHANGED vars
  BY <1>11, StillMoves DEF vars
<1> QED
  BY <1>1, <1>2, <1>3, <1>4, <1>5, <1>6, <1>7, <1>8, <1>9, <1>10, <1>11 DEF Next

LEMMA InitInvariant == Init => IInv
<1> SUFFICES ASSUME Init PROVE IInv
  OBVIOUS
<1>1. TypeOK
  BY InitType
<1>2. \A m \in Match : row[m].status = "absent"
  BY DEF Init, NoRow
<1>3. SnapNotFailed
  BY DEF Init, Idle, NoSnap, SnapNotFailed
<1> QED
  BY <1>1, <1>2, <1>3 DEF IInv, LiveStillListed, FailedMeansBudgetSpent,
     ReadyMeansDetails

\* The inductive invariant holds in every reachable state.
THEOREM Invariance == Spec => []IInv
<1>1. ASSUME IInv, [Next]_vars PROVE IInv'
  <2>1. TypeOK'
    BY <1>1, StepType DEF IInv
  <2> QED
    BY <1>1, <2>1, StepMoves, MovesKeepInvariant, SelectKeepsInvariant,
       CommitKeepsInvariant
<1> QED
  BY <1>1, InitInvariant, PTL DEF Spec

\* A live row can still be finished, however the feeds and the other writers
\* interleave.
THEOREM LiveRowsStayListed == Spec => []LiveStillListed
<1>1. IInv => LiveStillListed
  BY DEF IInv
<1> QED
  BY <1>1, Invariance, PTL

\* The waiter never fails a match early, although it writes counters it read
\* before.
THEOREM TimeoutsSpendBudget == Spec => []FailedMeansBudgetSpent
<1>1. IInv => FailedMeansBudgetSpent
  BY DEF IInv
<1> QED
  BY <1>1, Invariance, PTL

\* No writer but the waiter takes a match out of the kept phases, and nothing
\* takes it back to an earlier one.
THEOREM PhasesAreKept == Spec => KeptPhase
<1> DEFINE Kept(m) ==
      /\ row[m].status \in Keep =>
            row'[m].status \in Keep \/ (hist.pc = "tx" /\ row'[m].status = "failed")
      /\ row[m].status \in Keep \ {"details_ready"} => row'[m].status # "details_ready"
      /\ row[m].status = "parsed" => row'[m].status \in {"parsed", "failed"}
<1>1. ASSUME IInv, [Next]_vars, NEW m \in Match PROVE Kept(m)
  <2>1. CASE HistSelect
    BY <2>1 DEF HistSelect
  <2>2. CASE HistCommit
    <3>1. hist.pc = "tx"
      BY <2>2 DEF HistCommit
    <3>2. CASE Advance(row[m], row'[m])
      BY <3>2 DEF Advance
    <3>3. CASE row'[m].status \in {row[m].status, "failed"}
      BY <3>1, <3>3
    <3> QED
      BY <1>1, <2>2, <3>2, <3>3, CommitRow
  <2>3. CASE Moves
    BY <2>3 DEF Moves, Advance
  <2> QED
    BY <1>1, <2>1, <2>2, <2>3, StepMoves
<1>2. IInv /\ [Next]_vars => [\A m \in Match : Kept(m)]_vars
  BY <1>1
<1> QED
  BY <1>2, Invariance, PTL DEF Spec, KeptPhase

(***************************************************************************)
(* No finish is forgotten.  The invariant is stronger than the property:   *)
(* the waiter's polling is not needed to carry a match.  Only a live tick  *)
(* brings a row to awaiting_history, and it puts the match into post; from *)
(* there each step that ends a job of the match hands it on, takes the row *)
(* out of awaiting_history or counts the match as lost.                    *)
(***************************************************************************)
Carried(m) == jobs[m] # {} \/ gc[m] # "idle" \/ m \in post \cup lost

FinishIsCarried ==
    \A m \in Match : row[m].status = "awaiting_history" => Carried(m)

\* A write of anybody but a live tick does not bring a row to awaiting_history.
LEMMA WritesDoNotFinish ==
    ASSUME NEW r \in Row
    PROVE  /\ \A f \in Feed, running \in BOOLEAN :
                 noteLiveClock(touchMatchLive(r, f), running).status # "awaiting_history"
           /\ markHistoryAvailable(r).status # "awaiting_history"
           /\ upsertHistoryMatches(r).status # "awaiting_history"
           /\ \A s : recordHistoryPollMiss(r, s).status \in {r.status, "failed"}
           /\ \A fetched \in {"seq", "gc"}, seqnum \in BOOLEAN :
                 saveMatchFacts(r, fetched, seqnum).status # "awaiting_history"
           /\ \A s \in {"replay_stored", "replay_unavailable"} :
                 markMatchReplayStatus(r, s).status # "awaiting_history"
           /\ markParsed(r).status \in {r.status, "parsed"}
<1>1. ASSUME NEW f \in Feed, NEW running \in BOOLEAN
      PROVE  noteLiveClock(touchMatchLive(r, f), running).status # "awaiting_history"
  <2> DEFINE t == touchMatchLive(r, f)
  <2>1. t \in Row
    BY TouchType
  <2>2. t.status \in Keep \cup {"live"}
    <3>1. liveSightingResumeSet(r, f) \in Row
      BY SightingType
    <3>2. t.status = liveSightingResumeSet(r, f).status
      BY <3>1 DEF touchMatchLive, Row
    <3>3. liveSightingResumeSet(r, f).status =
              IF r.status \in Keep THEN r.status ELSE "live"
      BY DEF liveSightingResumeSet, Row
    <3> QED
      BY <3>2, <3>3
  <2> HIDE DEF t
  <2>3. noteLiveClock(t, running).status = t.status
    BY <2>1 DEF noteLiveClock, Row
  <2> QED
    BY <2>2, <2>3 DEF Keep, t
<1>2. markHistoryAvailable(r).status # "awaiting_history"
  BY DEF markHistoryAvailable, Row
<1>3. upsertHistoryMatches(r).status # "awaiting_history"
  BY DEF upsertHistoryMatches, Row, Keep
<1>4. \A s : recordHistoryPollMiss(r, s).status \in {r.status, "failed"}
  BY DEF recordHistoryPollMiss, Row
<1>5. ASSUME NEW fetched \in {"seq", "gc"}, NEW seqnum \in BOOLEAN
      PROVE  saveMatchFacts(r, fetched, seqnum).status # "awaiting_history"
  BY DEF saveMatchFacts, Row, Keep
<1>6. \A s \in {"replay_stored", "replay_unavailable"} :
          markMatchReplayStatus(r, s).status # "awaiting_history"
  BY DEF markMatchReplayStatus, Row
<1>7. markParsed(r).status \in {r.status, "parsed"}
  BY DEF markParsed, Row
<1> QED
  BY <1>1, <1>2, <1>3, <1>4, <1>5, <1>6, <1>7

\* What enqueueing leaves in the queue of each match.
LEMMA EnqueuedKeeps ==
    ASSUME TypeOK, NEW k \in Enq, NEW S, NEW m \in Match
    PROVE  /\ m \in S => Enqueued(k, S)[m] # {}
           /\ jobs[m] # {} => Enqueued(k, S)[m] # {}
BY DEF Enqueued

LEMMA TicksCarry ==
    ASSUME TypeOK, FinishIsCarried, NEW f \in Feed, NEW seen \in SUBSET Match,
           NEW running \in SUBSET Match, NEW nonempty \in BOOLEAN,
           CommitTick(f, seen, running, nonempty)
    PROVE  FinishIsCarried'
<1> SUFFICES ASSUME NEW m \in Match, row'[m].status = "awaiting_history"
             PROVE  Carried(m)'
  BY DEF FinishIsCarried
<1>1. UNCHANGED <<jobs, gc, lost>> /\ post \subseteq post'
  BY DEF CommitTick
<1>2. CASE m \in seen \/ row[m].status = "live"
  BY <1>2 DEF CommitTick, Carried
<1>3. CASE m \notin seen /\ row[m].status # "live"
  <2>1. row'[m] = liveTick(row[m], f, m \in seen, m \in running, nonempty)
    BY DEF CommitTick
  <2>2. row'[m] = row[m]
    BY <1>3, <2>1 DEF liveTick, noteLiveFeedMisses, finishMissing
  <2>3. Carried(m)
    BY <2>2 DEF FinishIsCarried
  <2> QED
    BY <1>1, <2>3 DEF Carried
<1> QED
  BY <1>2, <1>3
\* A step about one match leaves the carriers of the others alone.
LEMMA OneMatchCarries ==
    ASSUME FinishIsCarried, NEW m \in Match, post' = post, lost \subseteq lost',
           \A n \in Match \ {m} : /\ row'[n] = row[n]
                                  /\ gc'[n] = gc[n]
                                  /\ jobs[n] # {} => jobs'[n] # {},
           row'[m].status = "awaiting_history" => Carried(m)'
    PROVE  FinishIsCarried'
<1> SUFFICES ASSUME NEW n \in Match, row'[n].status = "awaiting_history"
             PROVE  Carried(n)'
  BY DEF FinishIsCarried
<1>1. CASE n = m
  BY <1>1
<1>2. CASE n # m
  BY <1>2 DEF FinishIsCarried, Carried
<1> QED
  BY <1>1, <1>2

LEMMA FactsCarry ==
    ASSUME TypeOK, FinishIsCarried, NEW m \in Match,
           \/ RealtimeAnswer(m) \/ SeqDetails(m) \/ DetailsSaved(m)
           \/ \E died \in BOOLEAN : SeqWindow(m, died)
    PROVE  FinishIsCarried'
<1>1. row[m] \in Row /\ row \in [Match -> Row]
  BY DEF TypeOK
<1>2. row'[m].status # "awaiting_history" /\ \A n \in Match \ {m} : row'[n] = row[n]
  <2>1. CASE RealtimeAnswer(m)
    <3>1. PICK running \in BOOLEAN :
            row' = [row EXCEPT ![m] = noteLiveClock(touchMatchLive(row[m], "top"), running)]
      BY <2>1 DEF RealtimeAnswer
    <3>2. noteLiveClock(touchMatchLive(row[m], "top"), running).status # "awaiting_history"
      BY <1>1, WritesDoNotFinish DEF Feed
    <3> QED
      BY <1>1, <3>1, <3>2
  <2>2. CASE SeqDetails(m) \/ \E died \in BOOLEAN : SeqWindow(m, died)
    <3>1. row' = [row EXCEPT ![m] = saveMatchFacts(row[m], "seq", TRUE)]
      BY <2>2 DEF SeqDetails, SeqWindow
    <3>2. saveMatchFacts(row[m], "seq", TRUE).status # "awaiting_history"
      BY <1>1, WritesDoNotFinish
    <3> QED
      BY <1>1, <3>1, <3>2
  <2>3. CASE DetailsSaved(m)
    <3>1. PICK seqnum \in BOOLEAN :
            row' = [row EXCEPT ![m] = saveMatchFacts(row[m], "gc", seqnum)]
      BY <2>3 DEF DetailsSaved
    <3>2. saveMatchFacts(row[m], "gc", seqnum).status # "awaiting_history"
      BY <1>1, WritesDoNotFinish
    <3> QED
      BY <1>1, <3>1, <3>2
  <2> QED
    BY <2>1, <2>2, <2>3
<1>3. post' = post /\ lost' = lost
  BY DEF RealtimeAnswer, SeqDetails, DetailsSaved, SeqWindow
<1>4. ASSUME NEW n \in Match \ {m}
      PROVE  gc'[n] = gc[n] /\ (jobs[n] # {} => jobs'[n] # {})
  <2>1. CASE UNCHANGED <<jobs, gc>>
    BY <2>1
  <2>2. CASE DetailsSaved(m)
    BY <2>2 DEF DetailsSaved, TypeOK
  <2>3. CASE gc' = gc /\ jobs' = Enqueued("details", {m})
    BY <2>3, EnqueuedKeeps DEF Enq
  <2> QED
    BY <2>1, <2>2, <2>3 DEF RealtimeAnswer, SeqDetails, SeqWindow
<1> QED
  BY <1>2, <1>3, <1>4, OneMatchCarries

\* Whatever way a details job ends, its match is handed on, counted as lost or
\* taken out of awaiting_history.
LEMMA DetailsCarry ==
    ASSUME TypeOK, FinishIsCarried, NEW m \in Match,
           \/ DetailsStart(m) \/ DetailsRefused(m) \/ DetailsFruitless(m)
           \/ DetailsRetry(m) \/ DetailsGiveUp(m) \/ DetailsKept(m)
           \/ DetailsAdopt(m) \/ DetailsUnpublished(m) \/ DetailsDownload(m)
           \/ DetailsLimited(m)
    PROVE  FinishIsCarried'
<1>1. row[m] \in Row /\ row \in [Match -> Row] /\ gc \in [Match -> {"idle", "asking", "saved"}]
      /\ jobs \in [Match -> SUBSET Enq]
  BY DEF TypeOK, Enq
<1>2. CASE DetailsStart(m)
  <2>1. gc'[m] = "asking" /\ post' = post /\ lost' = lost /\ row' = row
    BY <1>1, <1>2 DEF DetailsStart
  <2>2. \A n \in Match \ {m} : gc'[n] = gc[n] /\ jobs'[n] = jobs[n]
    BY <1>1, <1>2 DEF DetailsStart
  <2> QED
    BY <2>1, <2>2, OneMatchCarries DEF Carried
<1>3. CASE DetailsRefused(m) \/ DetailsAdopt(m) \/ DetailsUnpublished(m)
  <2>1. PICK s \in {"replay_stored", "replay_unavailable"} :
          row' = [row EXCEPT ![m] = markMatchReplayStatus(row[m], s)]
    BY <1>3 DEF DetailsRefused, DetailsAdopt, DetailsUnpublished
  <2>2. row'[m].status # "awaiting_history" /\ \A n \in Match \ {m} : row'[n] = row[n]
    BY <1>1, <2>1, WritesDoNotFinish
  <2>3. post' = post /\ lost' = lost /\ jobs' = jobs
        /\ \A n \in Match \ {m} : gc'[n] = gc[n]
    BY <1>1, <1>3 DEF DetailsRefused, DetailsAdopt, DetailsUnpublished, RunEnds
  <2> QED
    BY <2>2, <2>3, OneMatchCarries
<1>4. CASE DetailsFruitless(m) \/ DetailsGiveUp(m) \/ DetailsKept(m) \/ DetailsLimited(m)
  <2>1. /\ post' = post /\ lost' = lost \cup {m} /\ row' = row /\ jobs' = jobs
        /\ \A n \in Match \ {m} : gc'[n] = gc[n]
    BY <1>1, <1>4 DEF DetailsFruitless, DetailsGiveUp, DetailsKept, DetailsLimited,
                      RunEnds
  <2> QED
    BY <2>1, OneMatchCarries DEF Carried
<1>5. CASE DetailsRetry(m) \/ DetailsDownload(m)
  <2>1. PICK k \in Enq : jobs' = Enqueued(k, {m})
    BY <1>5 DEF DetailsRetry, DetailsDownload, Enq
  <2>2. /\ post' = post /\ lost' = lost /\ row' = row
        /\ \A n \in Match \ {m} : gc'[n] = gc[n]
    BY <1>1, <1>5 DEF DetailsRetry, DetailsDownload, RunEnds
  <2>3. jobs'[m] # {} /\ \A n \in Match : jobs[n] # {} => jobs'[n] # {}
    BY <2>1, EnqueuedKeeps
  <2> QED
    BY <2>2, <2>3, OneMatchCarries DEF Carried
<1> QED
  BY <1>2, <1>3, <1>4, <1>5

LEMMA ReplayCarries ==
    ASSUME TypeOK, FinishIsCarried, NEW m \in Match,
           \/ DownloadStored(m) \/ DownloadUnavailable(m) \/ DownloadGiveUp(m)
           \/ ParserPublish(m) \/ ParserFail(m)
    PROVE  FinishIsCarried'
<1>1. row[m] \in Row /\ row \in [Match -> Row] /\ jobs \in [Match -> SUBSET Enq]
  BY DEF TypeOK, Enq
<1>2. post' = post /\ gc' = gc /\ lost \subseteq lost'
      /\ \A n \in Match \ {m} : jobs'[n] = jobs[n]
  BY <1>1 DEF DownloadStored, DownloadUnavailable, DownloadGiveUp, ParserPublish,
              ParserFail
<1>3. CASE m \in lost' /\ row' = row
  BY <1>2, <1>3, OneMatchCarries DEF Carried
<1>4. ASSUME NEW s \in {"replay_stored", "replay_unavailable"},
             row' = [row EXCEPT ![m] = markMatchReplayStatus(row[m], s)]
      PROVE  FinishIsCarried'
  <2>1. row'[m].status # "awaiting_history" /\ \A n \in Match \ {m} : row'[n] = row[n]
    BY <1>1, <1>4, WritesDoNotFinish
  <2> QED
    BY <1>2, <2>1, OneMatchCarries
<1>5. CASE ParserPublish(m) \/ ParserFail(m)
  <2>1. jobs' = jobs /\ lost' = lost
        /\ (row' = row \/ row' = [row EXCEPT ![m] = markParsed(row[m])])
    BY <1>5 DEF ParserPublish, ParserFail
  <2>2. row'[m].status \in {row[m].status, "parsed"}
        /\ \A n \in Match \ {m} : row'[n] = row[n]
    BY <1>1, <2>1, WritesDoNotFinish
  <2>3. row'[m].status = "awaiting_history" => Carried(m)'
    BY <1>2, <2>1, <2>2 DEF FinishIsCarried, Carried
  <2> QED
    BY <1>2, <2>2, <2>3, OneMatchCarries
<1> QED
  BY <1>3, <1>4, <1>5 DEF DownloadStored, DownloadUnavailable, DownloadGiveUp
\* A step after which no row awaits history that did not before, and nobody is
\* dropped, keeps the invariant.
LEMMA AllCarried ==
    ASSUME FinishIsCarried,
           \A m \in Match :
               /\ row'[m].status = "awaiting_history" => row[m].status = "awaiting_history"
               /\ row[m].status = "awaiting_history" /\ Carried(m) => Carried(m)'
    PROVE  FinishIsCarried'
BY DEF FinishIsCarried

\* The waiter may stop polling for a match that awaits history; what carries the
\* match does not depend on it.
LEMMA WaiterCarries ==
    ASSUME TypeOK, FinishIsCarried, HistStart \/ HistSelect \/ HistCommit \/ HistEnqueue
    PROVE  FinishIsCarried'
<1>1. CASE HistStart \/ HistSelect
  <2>1. UNCHANGED <<row, jobs, gc, post, lost>>
    BY <1>1 DEF HistStart, HistSelect
  <2> QED
    BY <2>1, AllCarried DEF Carried
<1>2. CASE HistCommit
  <2>1. UNCHANGED <<jobs, gc, post, lost>>
    BY <1>2 DEF HistCommit
  <2>2. ASSUME NEW m \in Match, row'[m].status = "awaiting_history"
        PROVE  row[m].status = "awaiting_history"
    <3>1. row[m] \in Row
      BY DEF TypeOK
    <3>2. \/ row'[m] = markHistoryAvailable(row[m])
          \/ row'[m] = recordHistoryPollMiss(row[m], hist.snap[m])
          \/ row'[m] = row[m]
      BY <1>2 DEF HistCommit
    <3>3. recordHistoryPollMiss(row[m], hist.snap[m]).status \in {row[m].status, "failed"}
      BY <3>1, WritesDoNotFinish
    <3> QED
      BY <2>2, <3>1, <3>2, <3>3, WritesDoNotFinish
  <2> QED
    BY <2>1, <2>2, AllCarried DEF Carried
<1>3. CASE HistEnqueue
  <2>1. UNCHANGED <<row, gc, post, lost>> /\ jobs' = Enqueued("details", hist.found)
    BY <1>3 DEF HistEnqueue
  <2>2. \A m \in Match : jobs[m] # {} => jobs'[m] # {}
    BY <2>1, EnqueuedKeeps DEF Enq
  <2> QED
    BY <2>1, <2>2, AllCarried DEF Carried
<1> QED
  BY <1>1, <1>2, <1>3

\* After the commit of a tick each match that still awaits history gets its job,
\* whatever its waiter does.
LEMMA EnqueuersCarry ==
    ASSUME TypeOK, FinishIsCarried, EnqueueLiveFinishedDetails \/ WalkEnqueueDetails
    PROVE  FinishIsCarried'
<1>1. CASE EnqueueLiveFinishedDetails
  <2> DEFINE S == {m \in post : row[m].status = "awaiting_history"}
  <2>1. UNCHANGED <<row, gc, lost>> /\ jobs' = Enqueued("details", S)
    BY <1>1 DEF EnqueueLiveFinishedDetails
  <2>2. ASSUME NEW m \in Match
        PROVE  /\ m \in S => jobs'[m] # {}
               /\ jobs[m] # {} => jobs'[m] # {}
    <3> HIDE DEF S
    <3> QED
      BY <2>1, EnqueuedKeeps DEF Enq
  <2>3. ASSUME NEW m \in Match, row[m].status = "awaiting_history", Carried(m)
        PROVE  Carried(m)'
    BY <2>1, <2>2, <2>3 DEF Carried
  <2> QED
    BY <2>1, <2>3, AllCarried
<1>2. CASE WalkEnqueueDetails
  <2>1. PICK S \in SUBSET Match : jobs' = Enqueued("details", S)
    BY <1>2 DEF WalkEnqueueDetails
  <2>2. \A m \in Match : jobs[m] # {} => jobs'[m] # {}
    BY <2>1, EnqueuedKeeps DEF Enq
  <2>3. UNCHANGED <<row, gc, post, lost>>
    BY <1>2 DEF WalkEnqueueDetails
  <2> QED
    BY <2>2, <2>3, AllCarried DEF Carried
<1> QED
  BY <1>1, <1>2

LEMMA CrashCarries ==
    ASSUME TypeOK, FinishIsCarried, Crash
    PROVE  FinishIsCarried'
<1>1. row' = row /\ jobs' = jobs
  BY DEF Crash
<1>2. ASSUME NEW m \in Match, Carried(m) PROVE Carried(m)'
  <2>1. CASE post' = {} /\ lost' = lost \cup post /\ gc' = gc
    BY <1>1, <1>2, <2>1 DEF Carried
  <2>2. CASE gc' = gc /\ post' = post /\ lost \subseteq lost'
    BY <1>1, <1>2, <2>2 DEF Carried
  <2>3. ASSUME NEW n \in Match, gc' = [gc EXCEPT ![n] = "idle"],
               lost' = lost \cup {n}, post' = post
        PROVE  Carried(m)'
    BY <1>1, <1>2, <2>3 DEF Carried, TypeOK
  <2> QED
    BY <2>1, <2>2, <2>3 DEF Crash
<1> QED
  BY <1>1, <1>2, AllCarried

LEMMA StepCarries ==
    ASSUME TypeOK, FinishIsCarried, [Next]_vars
    PROVE  FinishIsCarried'
<1>1. CASE PollLiveGames
  <2>1. PICK seen \in SUBSET Match, nonempty \in BOOLEAN :
          \E running \in SUBSET seen : CommitTick("league", seen, running, nonempty)
    BY <1>1 DEF PollLiveGames
  <2> QED
    BY <2>1, TicksCarry DEF Feed
<1>2. CASE PollTopLive
  <2>1. PICK seen \in SUBSET Match, nonempty \in BOOLEAN :
          CommitTick("top", seen, {}, nonempty)
    BY <1>2 DEF PollTopLive
  <2> QED
    BY <2>1, TicksCarry DEF Feed
<1>3. CASE EnqueueLiveFinishedDetails \/ WalkEnqueueDetails
  BY <1>3, EnqueuersCarry
<1>4. CASE HistStart \/ HistSelect \/ HistCommit \/ HistEnqueue
  BY <1>4, WaiterCarries
<1>5. CASE RealtimeStart \/ (\E m \in Match : RealtimeSkip(m)) \/ UNCHANGED vars
  <2>1. UNCHANGED <<row, jobs, gc, post, lost>>
    BY <1>5 DEF RealtimeStart, RealtimeSkip, vars
  <2> QED
    BY <2>1, AllCarried DEF Carried
<1>6. ASSUME NEW listed \in SUBSET Match, WalkLeaguePage(listed)
      PROVE  FinishIsCarried'
  <2>1. UNCHANGED <<jobs, gc, post, lost>>
    BY <1>6 DEF WalkLeaguePage
  <2>2. ASSUME NEW m \in Match, row'[m].status = "awaiting_history"
        PROVE  row[m].status = "awaiting_history"
    <3>1. row[m] \in Row
      BY DEF TypeOK
    <3>2. row'[m] = upsertHistoryMatches(row[m]) \/ row'[m] = row[m]
      BY <1>6 DEF WalkLeaguePage
    <3> QED
      BY <2>2, <3>1, <3>2, WritesDoNotFinish
  <2> QED
    BY <2>1, <2>2, AllCarried DEF Carried
<1>7. CASE Crash
  BY <1>7, CrashCarries
<1> QED
  BY <1>1, <1>2, <1>3, <1>4, <1>5, <1>6, <1>7, FactsCarry, DetailsCarry,
     ReplayCarries DEF Next

\* A finished match that awaits history is under way to its details, or one of
\* its jobs ended with nothing done: its waiter is not what keeps it from being
\* forgotten.
THEOREM FinishedAreCarried == Spec => []FinishIsCarried
<1>1. Init => FinishIsCarried
  BY DEF Init, FinishIsCarried, NoRow
<1>2. TypeOK /\ FinishIsCarried /\ [Next]_vars => FinishIsCarried'
  BY StepCarries
<1> QED
  BY <1>1, <1>2, TypeCorrect, PTL DEF Spec

\* A finished match is never forgotten, whatever the feeds, the waiter, the
\* details and download jobs and deaths of processes do to it.
THEOREM FinishesAreNotForgotten == Spec => []FinishNeverOrphaned
<1>1. FinishIsCarried => FinishNeverOrphaned
  BY DEF FinishIsCarried, FinishNeverOrphaned, Carried
<1> QED
  BY <1>1, FinishedAreCarried, PTL
(***************************************************************************)
(* The phase of each match moves as MatchLife allows.  The waiter fails no *)
(* match that was never seen: its SELECT finds armed rows only, and a row  *)
(* that is not there is not armed (UnbornAtRest).                          *)
(***************************************************************************)
UnbornAtRest ==
    \A m \in Match :
        row[m].status = "absent" => ~row[m].armed /\ m \notin DOMAIN hist.snap

\* What a step may do to the phase of one match, by the part it plays.
Goes(r, q, from, to) == r.status \in from /\ q.status \in to

SightingGoes(r, q) == q.status = r.status \/ Goes(r, q, Status \ Keep, {"live"})

TickGoes(r, q) ==
    SightingGoes(r, q) \/ Goes(r, q, {"live"}, {"awaiting_history", "not_started"})

FoundGoes(r, q) ==
    \/ q.status = r.status
    \/ Goes(r, q, {"discovered", "not_started", "awaiting_history", "failed"},
                  {"awaiting_details"})

PageGoes(r, q) ==
    \/ q.status = r.status
    \/ Goes(r, q, {"discovered", "not_started", "awaiting_history", "awaiting_details",
                   "absent"}, {"awaiting_details"})

RecordGoes(r, q) ==
    \/ q.status = r.status
    \/ Goes(r, q, Status \ (Keep \ {"details_ready"}), {"details_ready"})
    \/ Goes(r, q, Status \ Keep, {"awaiting_details"})

VerdictGoes(r, q) ==
    \/ q.status = r.status
    \/ Goes(r, q, Status \ {"absent", "parsed"}, {"replay_stored", "replay_unavailable"})

PublishGoes(r, q) ==
    \/ q.status = r.status
    \/ Goes(r, q, {"details_ready", "awaiting_replay", "replay_stored"}, {"parsed"})

\* What is not there after a write was not there before, and was not written.
Unborn(r, q) == q.status = "absent" => q = r

LEMMA SightingMovesOn ==
    ASSUME NEW r \in Row, NEW f \in Feed, NEW running \in BOOLEAN
    PROVE  LET q == noteLiveClock(touchMatchLive(r, f), running)
           IN  SightingGoes(r, q) /\ Unborn(r, q) /\ (q.status = "live" \/ q.status \in Keep)
<1> DEFINE q == noteLiveClock(touchMatchLive(r, f), running)
<1>1. q.status = IF r.status \in Keep THEN r.status ELSE "live"
  BY DEF noteLiveClock, touchMatchLive, liveSightingResumeSet, Row
<1>2. r.status \in Status
  BY DEF Row
<1> QED
  BY <1>1, <1>2 DEF SightingGoes, Goes, Unborn, Keep

LEMMA FinishMovesOn ==
    ASSUME NEW r \in Row
    PROVE  LET q == finishMissing(r)
           IN  /\ q = r \/ Goes(r, q, {"live"}, {"awaiting_history", "not_started"})
               /\ LiveOK(r) => q = r
<1>1. finishMissing(r) = r \/
      Goes(r, finishMissing(r), {"live"}, {"awaiting_history", "not_started"})
  BY DEF finishMissing, Goes, Row
<1>2. ASSUME LiveOK(r) PROVE ~(r.status = "live" /\ liveFeedsDone(r))
  BY <1>2 DEF LiveOK, liveFeedsDone, Row
<1>3. LiveOK(r) => finishMissing(r) = r
  BY <1>2 DEF finishMissing
<1> QED
  BY <1>1, <1>3

\* A tick finishes no match that it saw: the sighting has reset the misses of
\* its feed.
LEMMA TickMovesOn ==
    ASSUME NEW r \in Row, NEW f \in Feed, NEW isSeen \in BOOLEAN,
           NEW running \in BOOLEAN, NEW nonempty \in BOOLEAN, RowOK(r)
    PROVE  LET q == liveTick(r, f, isSeen, running, nonempty)
           IN  TickGoes(r, q) /\ Unborn(r, q)
<1> DEFINE touched == noteLiveClock(touchMatchLive(r, f), running)
           miss    == noteLiveFeedMisses(r, f)
           q       == liveTick(r, f, isSeen, running, nonempty)
<1>1. CASE isSeen
  <2>1. touched \in Row /\ LiveOK(touched)
    BY TouchOK DEF RowOK
  <2>2. q = touched
    <3>1. finishMissing(touched) = touched
      BY <2>1, FinishMovesOn
    <3> QED
      BY <1>1, <3>1 DEF liveTick
  <2> QED
    BY <2>2, SightingMovesOn DEF TickGoes
<1>2. CASE ~isSeen /\ nonempty
  <2>1. miss \in Row /\ miss.status = r.status /\ (r.status # "live" => miss = r)
    BY MissType DEF noteLiveFeedMisses, Row
  <2>2. q = finishMissing(miss)
    BY <1>2 DEF liveTick
  <2>3. q = miss \/ Goes(miss, q, {"live"}, {"awaiting_history", "not_started"})
    BY <2>1, <2>2, FinishMovesOn
  <2> QED
    BY <2>1, <2>3 DEF TickGoes, SightingGoes, Goes, Unborn
<1>3. CASE ~isSeen /\ ~nonempty
  BY <1>3 DEF liveTick, TickGoes, SightingGoes, Unborn
<1> QED
  BY <1>1, <1>2, <1>3

LEMMA ListingMovesOn ==
    ASSUME NEW r \in Row
    PROVE  /\ FoundGoes(r, markHistoryAvailable(r)) /\ Unborn(r, markHistoryAvailable(r))
           /\ PageGoes(r, upsertHistoryMatches(r)) /\ Unborn(r, upsertHistoryMatches(r))
<1>1. r.status \in Status
  BY DEF Row
<1>2. FoundGoes(r, markHistoryAvailable(r)) /\ Unborn(r, markHistoryAvailable(r))
  BY DEF markHistoryAvailable, FoundGoes, Goes, Unborn, Row
<1>3. upsertHistoryMatches(r).status = IF r.status \in Keep \cup {"live", "failed"}
                                       THEN r.status ELSE "awaiting_details"
  BY DEF upsertHistoryMatches, Row
<1> QED
  BY <1>1, <1>2, <1>3 DEF PageGoes, Goes, Unborn, Status, Keep

\* A sequence record does not take the phase back to awaiting_details once the
\* details are there: details_ready is never without its stamp (ReadyOK).
LEMMA RecordMovesOn ==
    ASSUME NEW r \in Row, RowOK(r), NEW seqnum \in BOOLEAN, NEW fetched \in {"seq", "gc"}
    PROVE  LET q == saveMatchFacts(r, fetched, seqnum)
           IN  RecordGoes(r, q) /\ Unborn(r, q)
<1> DEFINE q == saveMatchFacts(r, fetched, seqnum)
<1>1. r.status \in Status
  BY DEF Row
<1>2. q.status = IF r.status \in Keep \ {"details_ready"} THEN r.status
                 ELSE IF fetched = "gc" \/ r.gcDone
                      THEN "details_ready" ELSE "awaiting_details"
  BY DEF saveMatchFacts, Row
<1>3. r.status = "details_ready" => r.gcDone
  BY DEF RowOK, ReadyOK
<1> QED
  BY <1>1, <1>2, <1>3 DEF RecordGoes, Goes, Unborn, Keep

LEMMA ReplayMovesOn ==
    ASSUME NEW r \in Row, NEW s \in {"replay_stored", "replay_unavailable"}
    PROVE  /\ VerdictGoes(r, markMatchReplayStatus(r, s)) /\ Unborn(r, markMatchReplayStatus(r, s))
           /\ PublishGoes(r, markParsed(r)) /\ Unborn(r, markParsed(r))
<1>1. r.status \in Status
  BY DEF Row
<1>2. \/ markMatchReplayStatus(r, s) = r
      \/ /\ r.status \notin {"absent", "parsed"}
         /\ markMatchReplayStatus(r, s).status = s
  BY DEF markMatchReplayStatus, Row
<1>3. \/ markParsed(r) = r
      \/ /\ r.status \in {"replay_stored", "awaiting_replay", "details_ready"}
         /\ markParsed(r).status = "parsed"
  BY DEF markParsed, Row
<1> QED
  BY <1>1, <1>2, <1>3 DEF VerdictGoes, PublishGoes, Goes, Unborn

(***************************************************************************)
(* From rows to steps.                                                     *)
(***************************************************************************)

\* The row of one match changes, in one of the ways of a record, a verdict, a
\* publication or a sighting.
OneGoes(m) ==
    /\ \A n \in Match \ {m} : row'[n] = row[n]
    /\ \/ SightingGoes(row[m], row'[m])
       \/ RecordGoes(row[m], row'[m])
       \/ VerdictGoes(row[m], row'[m])
       \/ PublishGoes(row[m], row'[m])

RowsGo ==
    \/ \A m \in Match : TickGoes(row[m], row'[m])
    \/ \A m \in Match : \/ FoundGoes(row[m], row'[m])
                        \/ Goes(row[m], row'[m], Status \ {"absent"}, {"failed"})
    \/ \A m \in Match : PageGoes(row[m], row'[m])
    \/ \E m \in Match : OneGoes(m)

AllUnborn == \A m \in Match : Unborn(row[m], row'[m])

LEMMA OneRowGoes ==
    ASSUME IInv, NEW m \in Match, NEW q, row' = [row EXCEPT ![m] = q], Unborn(row[m], q),
           \/ SightingGoes(row[m], q) \/ RecordGoes(row[m], q)
           \/ VerdictGoes(row[m], q) \/ PublishGoes(row[m], q)
    PROVE  RowsGo /\ AllUnborn
<1>1. row'[m] = q /\ \A n \in Match \ {m} : row'[n] = row[n]
  BY DEF IInv, TypeOK
<1>2. OneGoes(m)
  BY <1>1 DEF OneGoes
<1>3. AllUnborn
  BY <1>1 DEF AllUnborn, Unborn
<1> QED
  BY <1>2, <1>3 DEF RowsGo

LEMMA NoRowGoes ==
    ASSUME row' = row
    PROVE  RowsGo /\ AllUnborn
BY DEF RowsGo, TickGoes, SightingGoes, AllUnborn, Unborn

LEMMA TickRowsGo ==
    ASSUME IInv, NEW f \in Feed, NEW seen \in SUBSET Match,
           NEW running \in SUBSET Match, NEW nonempty \in BOOLEAN,
           CommitTick(f, seen, running, nonempty)
    PROVE  RowsGo /\ AllUnborn
<1>1. ASSUME NEW m \in Match
      PROVE  TickGoes(row[m], row'[m]) /\ Unborn(row[m], row'[m])
  <2>1. row[m] \in Row /\ RowOK(row[m])
    BY RowsOK DEF TypeOK
  <2>2. row'[m] = liveTick(row[m], f, m \in seen, m \in running, nonempty)
    BY DEF CommitTick
  <2>3. (m \in seen) \in BOOLEAN /\ (m \in running) \in BOOLEAN
    OBVIOUS
  <2> QED
    BY <2>1, <2>2, <2>3, TickMovesOn
<1> QED
  BY <1>1 DEF RowsGo, AllUnborn

LEMMA WaiterRowsGo ==
    ASSUME IInv, UnbornAtRest, HistCommit
    PROVE  RowsGo /\ AllUnborn
<1>1. ASSUME NEW m \in Match
      PROVE  /\ \/ FoundGoes(row[m], row'[m])
                \/ Goes(row[m], row'[m], Status \ {"absent"}, {"failed"})
             /\ Unborn(row[m], row'[m])
  <2>1. row[m] \in Row /\ row[m].status \in Status
    BY DEF IInv, TypeOK, Row
  <2>2. row'[m] = IF m \in hist.found THEN markHistoryAvailable(row[m])
                  ELSE IF m \in DOMAIN hist.snap
                       THEN recordHistoryPollMiss(row[m], hist.snap[m])
                       ELSE row[m]
    BY DEF HistCommit
  <2>3. CASE m \in hist.found
    BY <2>1, <2>2, <2>3, ListingMovesOn
  <2>4. CASE m \notin hist.found /\ m \in DOMAIN hist.snap
    <3>1. row'[m].status \in {row[m].status, "failed"}
      BY <2>1, <2>2, <2>4 DEF recordHistoryPollMiss, Row
    <3>2. row[m].status # "absent"
      BY <2>4 DEF UnbornAtRest
    <3> QED
      BY <2>1, <3>1, <3>2 DEF FoundGoes, Goes, Unborn
  <2>5. CASE m \notin hist.found /\ m \notin DOMAIN hist.snap
    BY <2>2, <2>5 DEF FoundGoes, Unborn
  <2> QED
    BY <2>3, <2>4, <2>5
<1> QED
  BY <1>1 DEF RowsGo, AllUnborn

LEMMA FactsRowsGo ==
    ASSUME IInv, NEW m \in Match,
           \/ RealtimeAnswer(m) \/ SeqDetails(m) \/ DetailsSaved(m)
           \/ \E died \in BOOLEAN : SeqWindow(m, died)
    PROVE  RowsGo /\ AllUnborn
<1>1. row[m] \in Row /\ RowOK(row[m])
  BY RowsOK DEF TypeOK
<1>2. CASE RealtimeAnswer(m)
  <2>1. PICK running \in BOOLEAN :
          row' = [row EXCEPT ![m] = noteLiveClock(touchMatchLive(row[m], "top"), running)]
    BY <1>2 DEF RealtimeAnswer
  <2> QED
    BY <1>1, <2>1, SightingMovesOn, OneRowGoes DEF Feed
<1>3. CASE SeqDetails(m) \/ \E died \in BOOLEAN : SeqWindow(m, died)
  <2>1. row' = [row EXCEPT ![m] = saveMatchFacts(row[m], "seq", TRUE)]
    BY <1>3 DEF SeqDetails, SeqWindow
  <2> QED
    BY <1>1, <2>1, RecordMovesOn, OneRowGoes
<1>4. CASE DetailsSaved(m)
  <2>1. PICK seqnum \in BOOLEAN :
          row' = [row EXCEPT ![m] = saveMatchFacts(row[m], "gc", seqnum)]
    BY <1>4 DEF DetailsSaved
  <2> QED
    BY <1>1, <2>1, RecordMovesOn, OneRowGoes
<1> QED
  BY <1>2, <1>3, <1>4

LEMMA ReplayRowsGo ==
    ASSUME IInv, NEW m \in Match,
           \/ DetailsStart(m) \/ DetailsRefused(m) \/ DetailsFruitless(m)
           \/ DetailsRetry(m) \/ DetailsGiveUp(m) \/ DetailsKept(m)
           \/ DetailsAdopt(m) \/ DetailsUnpublished(m) \/ DetailsDownload(m)
           \/ DetailsLimited(m)
           \/ DownloadStored(m) \/ DownloadUnavailable(m) \/ DownloadGiveUp(m)
           \/ ParserPublish(m) \/ ParserFail(m)
    PROVE  RowsGo /\ AllUnborn
<1>1. row[m] \in Row
  BY DEF IInv, TypeOK
<1>2. \/ row' = row
      \/ row' = [row EXCEPT ![m] = markMatchReplayStatus(row[m], "replay_stored")]
      \/ row' = [row EXCEPT ![m] = markMatchReplayStatus(row[m], "replay_unavailable")]
      \/ row' = [row EXCEPT ![m] = markParsed(row[m])]
  BY DEF DetailsStart, DetailsRefused, DetailsFruitless, DetailsRetry,
         DetailsGiveUp, DetailsKept, DetailsAdopt, DetailsUnpublished,
         DetailsDownload, DetailsLimited, DownloadStored, DownloadUnavailable,
         DownloadGiveUp, ParserPublish, ParserFail
<1> QED
  BY <1>1, <1>2, NoRowGoes, ReplayMovesOn, OneRowGoes

\* Every transaction moves the phases as one of its kind does.
LEMMA StepRowsGo ==
    ASSUME IInv, UnbornAtRest, [Next]_vars
    PROVE  RowsGo /\ AllUnborn
<1>1. CASE PollLiveGames
  <2>1. PICK seen \in SUBSET Match, nonempty \in BOOLEAN :
          \E running \in SUBSET seen : CommitTick("league", seen, running, nonempty)
    BY <1>1 DEF PollLiveGames
  <2> QED
    BY <2>1, TickRowsGo DEF Feed
<1>2. CASE PollTopLive
  <2>1. PICK seen \in SUBSET Match, nonempty \in BOOLEAN :
          CommitTick("top", seen, {}, nonempty)
    BY <1>2 DEF PollTopLive
  <2> QED
    BY <2>1, TickRowsGo DEF Feed
<1>3. CASE HistCommit
  BY <1>3, WaiterRowsGo
<1>4. ASSUME NEW listed \in SUBSET Match, WalkLeaguePage(listed)
      PROVE  RowsGo /\ AllUnborn
  <2>1. ASSUME NEW m \in Match
        PROVE  PageGoes(row[m], row'[m]) /\ Unborn(row[m], row'[m])
    <3>1. row[m] \in Row
      BY DEF IInv, TypeOK
    <3>2. row'[m] = upsertHistoryMatches(row[m]) \/ row'[m] = row[m]
      BY <1>4 DEF WalkLeaguePage
    <3> QED
      BY <3>1, <3>2, ListingMovesOn DEF PageGoes, Unborn
  <2> QED
    BY <2>1 DEF RowsGo, AllUnborn
<1>5. ASSUME \/ EnqueueLiveFinishedDetails \/ RealtimeStart \/ HistStart \/ HistSelect
             \/ HistEnqueue \/ WalkEnqueueDetails \/ Crash \/ UNCHANGED vars
             \/ \E m \in Match : RealtimeSkip(m)
      PROVE  RowsGo /\ AllUnborn
  <2>1. row' = row
    BY <1>5 DEF EnqueueLiveFinishedDetails, RealtimeStart, HistStart, HistSelect,
       HistEnqueue, WalkEnqueueDetails, Crash, RealtimeSkip, vars
  <2> QED
    BY <2>1, NoRowGoes
<1> QED
  BY <1>1, <1>2, <1>3, <1>4, <1>5, FactsRowsGo, ReplayRowsGo DEF Next

\* The waiter's SELECT finds armed rows; nothing else arms one that is not there.
LEMMA UnbornStay ==
    ASSUME IInv, UnbornAtRest, [Next]_vars
    PROVE  UnbornAtRest'
<1> SUFFICES ASSUME NEW m \in Match, row'[m].status = "absent"
             PROVE  ~row'[m].armed /\ m \notin DOMAIN hist'.snap
  BY DEF UnbornAtRest
<1>1. row'[m] = row[m]
  BY StepRowsGo DEF AllUnborn, Unborn
<1>2. ~row[m].armed /\ m \notin DOMAIN hist.snap
  BY <1>1 DEF UnbornAtRest
<1>3. CASE HistSelect
  <2>1. PICK found \in SUBSET hist.waiting :
          hist' = [pc |-> "tx", waiting |-> {}, found |-> found,
                   snap |-> [x \in {y \in hist.waiting \ found :
                                      historyWaiterPending(row[y])} |->
                              [awaits |-> row[x].status = "awaiting_history",
                               fast |-> row[x].fast, slow |-> row[x].slow]]]
    BY <1>3 DEF HistSelect
  <2> QED
    BY <1>1, <1>2, <2>1 DEF historyWaiterPending
<1>4. CASE hist'.snap = hist.snap \/ hist'.snap = NoSnap
  BY <1>1, <1>2, <1>4 DEF NoSnap
<1>5. CASE HistCommit
  BY <1>1, <1>2, <1>5 DEF HistCommit, Idle, NoSnap
<1> QED
  BY <1>3, <1>4, <1>5, StepMoves

(***************************************************************************)
(* The refinement.                                                         *)
(***************************************************************************)
LEMMA SamePhases == Life!Phase = Status /\ Life!Kept = Keep
BY DEF Life!Phase, Life!Kept, Life!Early, Life!Download, Status, Keep

LEMMA MovesOfRows ==
    ASSUME NEW m \in Match, NEW from, NEW to
    PROVE  /\ Life!Moves(m, from, to) <=> Goes(row[m], row'[m], from, to)
           /\ Life!Stays(m) <=> row'[m].status = row[m].status
BY DEF Life!Moves, Life!Stays, Goes, phase

LEMMA InitLives == ASSUME Init PROVE Life!Init
BY DEF Init, Life!Init, NoRow, phase

LEMMA OneLives ==
    ASSUME NEW m \in Match, OneGoes(m)
    PROVE  [Life!Next]_phase
<1>1. phase' = [x \in Match |-> phase'[x]]
  BY DEF phase
<1>2. Life!Only(m)
  BY MovesOfRows DEF Life!Only, OneGoes
<1>3. CASE row'[m].status = row[m].status
  BY <1>3 DEF OneGoes, phase
<1>4. CASE SightingGoes(row[m], row'[m]) /\ row'[m].status # row[m].status
  <2>1. Life!LiveTick
    BY <1>2, <1>4, SamePhases, MovesOfRows DEF SightingGoes, Life!LiveTick, Life!Only
  <2> QED
    BY <1>1, <2>1 DEF Life!Next
<1>5. CASE RecordGoes(row[m], row'[m]) /\ row'[m].status # row[m].status
  <2>1. Life!Phase \ Life!Download = Status \ (Keep \ {"details_ready"})
    BY SamePhases DEF Life!Download, Keep
  <2>2. Life!Record(m)
    BY <1>2, <1>5, <2>1, SamePhases, MovesOfRows DEF RecordGoes, Life!Record
  <2> QED
    BY <1>1, <2>2 DEF Life!Next
<1>6. CASE VerdictGoes(row[m], row'[m]) /\ row'[m].status # row[m].status
  <2>1. Life!Verdict(m)
    BY <1>2, <1>6, SamePhases, MovesOfRows DEF VerdictGoes, Life!Verdict
  <2> QED
    BY <1>1, <2>1 DEF Life!Next
<1>7. CASE PublishGoes(row[m], row'[m]) /\ row'[m].status # row[m].status
  <2>1. Life!Publish(m)
    BY <1>2, <1>7, MovesOfRows DEF PublishGoes, Life!Publish
  <2> QED
    BY <1>1, <2>1 DEF Life!Next
<1> QED
  BY <1>3, <1>4, <1>5, <1>6, <1>7 DEF OneGoes

LEMMA StepLives ==
    ASSUME RowsGo
    PROVE  [Life!Next]_phase
<1>1. phase' = [x \in Match |-> phase'[x]]
  BY DEF phase
<1>2. CASE \A m \in Match : TickGoes(row[m], row'[m])
  <2>1. Life!LiveTick
    BY <1>2, SamePhases, MovesOfRows DEF TickGoes, SightingGoes, Life!LiveTick
  <2> QED
    BY <1>1, <2>1 DEF Life!Next
<1>3. CASE \A m \in Match : \/ FoundGoes(row[m], row'[m])
                            \/ Goes(row[m], row'[m], Status \ {"absent"}, {"failed"})
  <2>1. Life!WaiterPoll
    BY <1>3, SamePhases, MovesOfRows DEF FoundGoes, Life!WaiterPoll
  <2> QED
    BY <1>1, <2>1 DEF Life!Next
<1>4. CASE \A m \in Match : PageGoes(row[m], row'[m])
  <2>1. Life!Early \cup {"absent"} = {"discovered", "not_started", "awaiting_history",
                                      "awaiting_details", "absent"}
    BY DEF Life!Early
  <2>2. Life!HistoryPage
    BY <1>4, <2>1, MovesOfRows DEF PageGoes, Life!HistoryPage
  <2> QED
    BY <1>1, <2>2 DEF Life!Next
<1> QED
  BY <1>2, <1>3, <1>4, OneLives DEF RowsGo

\* A match that was never seen is not polled for: the waiter cannot fail it.
THEOREM UnbornAreNotPolled == Spec => []UnbornAtRest
<1>1. Init => UnbornAtRest
  BY DEF Init, UnbornAtRest, NoRow, Idle, NoSnap
<1>2. IInv /\ UnbornAtRest /\ [Next]_vars => UnbornAtRest'
  BY UnbornStay
<1> QED
  BY <1>1, <1>2, Invariance, PTL DEF Spec

\* The rows implement MatchLife: whatever transactions interleave, and whatever
\* a process forgets when it dies, a match moves from phase to phase only as
\* some writer of matches.status is entitled to move it.
THEOREM LivesOfMatches == Spec => ImplementsMatchLife
<1>1. Init => Life!Init
  BY InitLives
<1>2. IInv /\ UnbornAtRest /\ [Next]_vars
        => [Life!Next]_phase
  BY StepRowsGo, StepLives
<1> QED
  BY <1>1, <1>2, Invariance, UnbornAreNotPolled, PTL
  DEF Spec, ImplementsMatchLife, Life!Spec, Life!Moving
====================
