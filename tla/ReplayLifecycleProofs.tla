----------------------- MODULE ReplayLifecycleProofs -----------------------
(***************************************************************************)
(* Safety of ReplayLifecycle for every set of slots and every budget.      *)
(*                                                                         *)
(* The properties are not inductive alone.  ArchivedIsCold needs to know   *)
(* that whoever is about to write a cold locator has seen the cold object  *)
(* (ColdSeen), and that the archive job deletes hot objects only;          *)
(* RetryNeverOrphaned needs to know that a download about to end has left  *)
(* the row in a status that does not wait for it (Settled), and that a row *)
(* that is not there yet was never tried (Fresh).                          *)
(***************************************************************************)
EXTENDS ReplayLifecycle, TLAPS

ColdSeen ==
    /\ details.pc = "adopt" /\ details.at = "cold" => "cold" \in store
    /\ download.pc = "adopt" /\ download.at = "cold" => "cold" \in store
    /\ archive.pc = "copy" /\ archive.at = "cold" => "cold" \in store
    /\ archive.pc \in {"mark", "delete"} => "cold" \in store
    /\ archive.pc = "delete" => archive.at # "cold"

Waiting == \/ row.status = "downloading"
           \/ row.status = "pending" /\ row.attempts > 0

Settled ==
    \/ download.pc \in {"stored", "refused"}
    \/ download.pc = "look" /\ download.keep
    => ~Waiting

Fresh == row.status = "absent" => row.attempts = 0

IInv == /\ TypeOK /\ ArchivedIsCold /\ ColdSeen
        /\ RetryNeverOrphaned /\ Settled /\ Fresh

-----------------------------------------------------------------------------
(* Types *)

LEMMA InitTypeOK == Init => TypeOK
  <1> SUFFICES ASSUME Init PROVE TypeOK
    OBVIOUS
  <1> USE ReplayAssumption DEF ReplayAssumption, Init
  <1>1. row \in Row
    BY DEF Row, Status, Located, Url
  <1>2. /\ details \in Job(DetailsPc)
        /\ download \in Job(DownloadPc)
        /\ archive \in Job(ArchivePc)
    BY DEF Idle, Job, Located, DetailsPc, DownloadPc, ArchivePc
  <1>3. parse \in [Slot -> Parse]
    BY DEF IdleParse, Located, Parse
  <1> QED
    BY <1>1, <1>2, <1>3 DEF TypeOK, MatchPhase, Publishable

\* A row keeps its type under every UPDATE.
LEMMA UpdatesKeepType ==
    ASSUME NEW r \in Row
    PROVE  /\ ensureReplayRow(r) \in Row
           /\ \A at \in Located : updateReplayStored(r, at) \in Row
           /\ \A s \in Status : updateReplayStatus(r, s) \in Row
           /\ bumpAttempt(r) \in Row
           /\ markReplayArchived(r) \in Row
           /\ \A u \in Url : [r EXCEPT !.url = u] \in Row
  <1> USE ReplayAssumption DEF ReplayAssumption, Row
  <1>1. ensureReplayRow(r) \in Row
    BY DEF ensureReplayRow, Status
  <1>2. \A at \in Located : updateReplayStored(r, at) \in Row
    BY DEF updateReplayStored, Status
  <1>3. \A s \in Status : updateReplayStatus(r, s) \in Row
    BY DEF updateReplayStatus
  <1>4. bumpAttempt(r) \in Row
    <2>1. (IF r.attempts < Budget THEN r.attempts + 1 ELSE r.attempts)
              \in 0..Budget
      OBVIOUS
    <2> QED
      BY <2>1 DEF bumpAttempt
  <1>5. markReplayArchived(r) \in Row
    BY DEF markReplayArchived, Located
  <1>6. \A u \in Url : [r EXCEPT !.url = u] \in Row
    OBVIOUS
  <1> QED
    BY <1>1, <1>2, <1>3, <1>4, <1>5, <1>6

\* What a worker job remembers has its type.
LEMMA JobTypes ==
    ASSUME NEW pcs, NEW pc \in pcs
    PROVE  /\ \A at \in Located :
                 [Idle EXCEPT !.pc = pc, !.at = at] \in Job(pcs)
           /\ [Idle EXCEPT !.pc = pc] \in Job(pcs)
           /\ \A j \in Job(pcs) : [j EXCEPT !.pc = pc] \in Job(pcs)
           /\ "idle" \in pcs => Idle \in Job(pcs)
           /\ "dropped" \in pcs => Dropped \in Job(pcs)
           /\ \A r \in Row : "look" \in pcs
                 => /\ Looking(r) \in Job(pcs)
                    /\ \A n \in 0..Budget :
                          [Looking(r) EXCEPT !.tries = n] \in Job(pcs)
  <1>0. 0 \in 0..Budget
    BY ReplayAssumption DEF ReplayAssumption
  <1> USE <1>0 DEF Job, Idle
  <1>1. \A at \in Located : [Idle EXCEPT !.pc = pc, !.at = at] \in Job(pcs)
    OBVIOUS
  <1>2. [Idle EXCEPT !.pc = pc] \in Job(pcs)
    BY DEF Located
  <1>3. \A j \in Job(pcs) : [j EXCEPT !.pc = pc] \in Job(pcs)
    OBVIOUS
  <1>4. "idle" \in pcs => Idle \in Job(pcs)
    BY DEF Located
  <1>5. "dropped" \in pcs => Dropped \in Job(pcs)
    BY DEF Dropped, Located
  <1>6. ASSUME NEW r \in Row, "look" \in pcs
        PROVE  Looking(r) \in Job(pcs)
    <2>1. replayDownloadShouldKeepStatus(r.status) \in BOOLEAN
      BY DEF replayDownloadShouldKeepStatus
    <2>2. "none" \in Located
      BY DEF Located
    <2> QED
      BY <1>6, <2>1, <2>2 DEF Looking
  <1>7. ASSUME NEW r \in Row, "look" \in pcs, NEW n \in 0..Budget
        PROVE  [Looking(r) EXCEPT !.tries = n] \in Job(pcs)
    BY <1>6, <1>7
  <1> QED
    BY <1>1, <1>2, <1>3, <1>4, <1>5, <1>6, <1>7

\* The bodies above are not needed any more: what follows cites the two lemmas.
LEMMA DetailsTypes ==
    /\ Idle \in Job(DetailsPc)
    /\ \A pc \in DetailsPc : [Idle EXCEPT !.pc = pc] \in Job(DetailsPc)
    /\ \A pc \in DetailsPc, at \in Located :
          [Idle EXCEPT !.pc = pc, !.at = at] \in Job(DetailsPc)
    /\ \A r \in Row : Looking(r) \in Job(DetailsPc)
  BY JobTypes DEF DetailsPc

LEMMA DownloadTypes ==
    /\ Idle \in Job(DownloadPc)
    /\ Dropped \in Job(DownloadPc)
    /\ \A pc \in DownloadPc : [Idle EXCEPT !.pc = pc] \in Job(DownloadPc)
    /\ \A pc \in DownloadPc, at \in Located :
          [Idle EXCEPT !.pc = pc, !.at = at] \in Job(DownloadPc)
    /\ \A pc \in DownloadPc, j \in Job(DownloadPc) :
          [j EXCEPT !.pc = pc] \in Job(DownloadPc)
    /\ \A r \in Row, n \in 0..Budget :
          [Looking(r) EXCEPT !.tries = n] \in Job(DownloadPc)
  BY JobTypes DEF DownloadPc

LEMMA ArchiveTypes ==
    /\ Idle \in Job(ArchivePc)
    /\ \A pc \in ArchivePc, at \in Located :
          [Idle EXCEPT !.pc = pc, !.at = at] \in Job(ArchivePc)
    /\ \A pc \in ArchivePc, j \in Job(ArchivePc) :
          [j EXCEPT !.pc = pc] \in Job(ArchivePc)
  BY JobTypes DEF ArchivePc

LEMMA ParseTypes ==
    /\ IdleParse \in Parse
    /\ \A c \in Parse : /\ [c EXCEPT !.pc = "decode"] \in Parse
                        /\ [c EXCEPT !.pc = "flushed"] \in Parse
    /\ \A r \in Row : [pc |-> "claimed", at |-> r.at, again |-> r.versioned]
                          \in Parse
  BY DEF IdleParse, Parse, Located, Row

LEMMA LocateType ==
    ASSUME TypeOK
    PROVE  locateReplayObject \subseteq Located
  BY DEF TypeOK, locateReplayObject, Located

LEMMA DetailsStepType ==
    ASSUME TypeOK,
           \/ DetailsStart \/ DetailsLocator \/ DetailsVerdict \/ DetailsFound
           \/ DetailsAdopt \/ DetailsMiss \/ DetailsMark \/ DetailsThrow
    PROVE  TypeOK'
  <1>0. /\ row \in Row /\ match \in MatchPhase /\ queued \in BOOLEAN
        /\ details \in Job(DetailsPc) /\ details.at \in Located
    BY DEF TypeOK, Job
  <1> SUFFICES /\ row' \in Row /\ match' \in MatchPhase /\ queued' \in BOOLEAN
               /\ details' \in Job(DetailsPc)
               /\ DetailsOnly
    BY DEF TypeOK, DetailsOnly
  <1> USE <1>0, UpdatesKeepType, DetailsTypes
  <1>s. \A pc \in {"ask", "adopt", "adopted", "refused"} : pc \in DetailsPc
    BY DEF DetailsPc
  <1>t. \A st \in {"unavailable", "failed"} : st \in Status
    BY DEF Status
  <1>m. \A st \in {"replay_stored", "replay_unavailable"} :
           markMatchReplayStatus(st) \in MatchPhase
    BY DEF markMatchReplayStatus, MatchPhase, Publishable
  <1>1. CASE DetailsStart
    BY <1>1, <1>s DEF DetailsStart
  <1>2. CASE DetailsLocator
    BY <1>2 DEF DetailsLocator, MatchPhase, Publishable
  <1>3. CASE DetailsVerdict
    BY <1>3, <1>s, <1>t DEF DetailsVerdict
  <1>4. CASE DetailsFound
    <2>1. locateReplayObject \subseteq Located
      BY LocateType
    <2>2. \A hit \in locateReplayObject :
             [Idle EXCEPT !.pc = "adopt", !.at = hit] \in Job(DetailsPc)
      BY <1>s, <2>1
    <2>3. details' \in Job(DetailsPc)
      BY <1>4, <2>2 DEF DetailsFound
    <2> QED
      BY <1>4, <2>3 DEF DetailsFound
  <1>5. CASE DetailsAdopt
    BY <1>5, <1>s DEF DetailsAdopt
  <1>6. CASE DetailsMiss
    BY <1>6, <1>s, <1>t DEF DetailsMiss
  <1>7. CASE DetailsMark
    <2>1. match' \in MatchPhase
      BY <1>7, <1>m DEF DetailsMark
    <2> QED
      BY <1>7, <2>1 DEF DetailsMark
  <1>8. CASE DetailsThrow
    BY <1>8 DEF DetailsThrow
  <1> QED
    BY <1>1, <1>2, <1>3, <1>4, <1>5, <1>6, <1>7, <1>8

LEMMA DownloadStepType ==
    ASSUME TypeOK,
           \/ DownloadStart \/ DownloadFound \/ DownloadAdopt \/ DownloadAsk
           \/ DownloadNotFound \/ DownloadRequeue \/ DownloadWrite
           \/ DownloadStored \/ DownloadMark \/ DownloadThrow
    PROVE  TypeOK'
  <1>0. /\ row \in Row /\ row.attempts \in 0..Budget
        /\ match \in MatchPhase /\ queued \in BOOLEAN
        /\ store \subseteq {"hot", "cold"}
        /\ download \in Job(DownloadPc) /\ download.at \in Located
    BY DEF TypeOK, Job, Row
  <1> SUFFICES /\ row' \in Row /\ match' \in MatchPhase /\ queued' \in BOOLEAN
               /\ store' \subseteq {"hot", "cold"}
               /\ download' \in Job(DownloadPc)
               /\ DownloadOnly
    BY DEF TypeOK, DownloadOnly
  <1> USE <1>0, UpdatesKeepType, DownloadTypes
  <1>s. \A pc \in {"adopt", "fetch", "written", "requeue", "stored", "refused"} :
           pc \in DownloadPc
    BY DEF DownloadPc
  <1>t. \A st \in {"unavailable", "failed", "downloading", "pending"} :
           st \in Status
    BY DEF Status
  <1>m. \A st \in {"replay_stored", "replay_unavailable"} :
           markMatchReplayStatus(st) \in MatchPhase
    BY DEF markMatchReplayStatus, MatchPhase, Publishable
  <1>1. CASE DownloadStart
    BY <1>1 DEF DownloadStart
  <1>2. CASE DownloadFound
    <2>1. locateReplayObject \subseteq Located
      BY LocateType
    <2>2. \A hit \in locateReplayObject :
             [Idle EXCEPT !.pc = "adopt", !.at = hit] \in Job(DownloadPc)
      BY <1>s, <2>1
    <2>3. download' \in Job(DownloadPc)
      BY <1>2, <2>2 DEF DownloadFound
    <2> QED
      BY <1>2, <2>3 DEF DownloadFound
  <1>3. CASE DownloadAdopt
    BY <1>3, <1>s DEF DownloadAdopt
  <1>4. CASE DownloadAsk
    <2>1. row' \in Row
      BY <1>4, <1>t DEF DownloadAsk
    <2>2. download' \in Job(DownloadPc)
      <3>1. /\ [Idle EXCEPT !.pc = "refused"] \in Job(DownloadPc)
            /\ [download EXCEPT !.pc = "fetch"] \in Job(DownloadPc)
        BY <1>s
      <3> QED
        BY <1>4, <3>1 DEF DownloadAsk
    <2> QED
      BY <1>4, <2>1, <2>2 DEF DownloadAsk
  <1>5. CASE DownloadNotFound
    <2>1. \A st \in Status : bumpAttempt(updateReplayStatus(row, st)) \in Row
      OBVIOUS
    <2> QED
      BY <1>5, <1>s, <1>t, <2>1 DEF DownloadNotFound
  <1>6. CASE DownloadRequeue
    BY <1>6 DEF DownloadRequeue
  <1>7. CASE DownloadWrite
    BY <1>7, <1>s DEF DownloadWrite
  <1>8. CASE DownloadStored
    <2>1. "hot" \in Located
      BY DEF Located
    <2> QED
      BY <1>8, <1>s, <2>1 DEF DownloadStored
  <1>9. CASE DownloadMark
    <2>1. match' \in MatchPhase
      BY <1>9, <1>m DEF DownloadMark
    <2> QED
      BY <1>9, <2>1 DEF DownloadMark
  <1>10. CASE DownloadThrow
    <2>1. row' \in Row
      BY <1>10, <1>t DEF DownloadThrow
    <2> QED
      BY <1>10, <2>1 DEF DownloadThrow
  <1> QED
    BY <1>1, <1>2, <1>3, <1>4, <1>5, <1>6, <1>7, <1>8, <1>9, <1>10

LEMMA ArchiveStepType ==
    ASSUME TypeOK,
           \/ ArchiveList \/ ArchiveCopy \/ ArchiveMark \/ ArchiveDelete
           \/ ArchiveThrow
    PROVE  TypeOK'
  <1>0. /\ row \in Row /\ row.at \in Located
        /\ store \subseteq {"hot", "cold"} /\ archive \in Job(ArchivePc)
    BY DEF TypeOK, Row
  <1> SUFFICES /\ row' \in Row
               /\ store' \subseteq {"hot", "cold"}
               /\ archive' \in Job(ArchivePc)
               /\ ArchiveOnly
    BY DEF TypeOK, ArchiveOnly
  <1> USE <1>0, UpdatesKeepType, ArchiveTypes
  <1>s. \A pc \in {"copy", "mark", "delete"} : pc \in ArchivePc
    BY DEF ArchivePc
  <1>1. CASE ArchiveList
    BY <1>1, <1>s DEF ArchiveList
  <1>2. CASE ArchiveCopy
    BY <1>2, <1>s DEF ArchiveCopy
  <1>3. CASE ArchiveMark
    BY <1>3, <1>s DEF ArchiveMark
  <1>4. CASE ArchiveDelete
    BY <1>4 DEF ArchiveDelete
  <1>5. CASE ArchiveThrow
    BY <1>5 DEF ArchiveThrow
  <1> QED
    BY <1>1, <1>2, <1>3, <1>4, <1>5

LEMMA ParserStepType ==
    ASSUME TypeOK,
           \/ ReclaimStale \/ ParserCrash
           \/ \E p \in Slot : \/ Claim(p) \/ ParserNoObject(p) \/ ParserOpen(p)
                              \/ ParserFlush(p) \/ ParserFail(p) \/ Publish(p)
    PROVE  TypeOK'
  <1>0. /\ row \in Row /\ match \in MatchPhase
        /\ parse \in [Slot -> Parse]
        /\ extract \subseteq Slot \cup {"whole", "left"}
    BY DEF TypeOK
  <1> SUFFICES /\ row' \in Row /\ match' \in MatchPhase
               /\ parse' \in [Slot -> Parse]
               /\ extract' \subseteq Slot \cup {"whole", "left"}
               /\ ParserOnly
    BY DEF TypeOK, ParserOnly
  <1> USE <1>0, UpdatesKeepType, ParseTypes
  <1>t. \A st \in {"stored", "parsing", "failed"} : st \in Status
    BY DEF Status
  <1>f. bumpAttempt(updateReplayStatus(row, "failed")) \in Row
    BY <1>t
  <1>1. CASE ReclaimStale
    BY <1>1, <1>t DEF ReclaimStale
  <1>2. CASE ParserCrash
    BY <1>2 DEF ParserCrash
  <1>3. ASSUME NEW p \in Slot,
               \/ Claim(p) \/ ParserNoObject(p) \/ ParserOpen(p)
               \/ ParserFlush(p) \/ ParserFail(p) \/ Publish(p)
        PROVE  /\ row' \in Row /\ match' \in MatchPhase
               /\ parse' \in [Slot -> Parse]
               /\ extract' \subseteq Slot \cup {"whole", "left"}
               /\ ParserOnly
    <2>1. CASE Claim(p)
      BY <2>1, <1>t DEF Claim
    <2>2. CASE ParserNoObject(p)
      BY <2>2, <1>f DEF ParserNoObject, Fail, Free
    <2>3. CASE ParserOpen(p)
      BY <2>3 DEF ParserOpen
    <2>4. CASE ParserFlush(p)
      BY <2>4 DEF ParserFlush
    <2>5. CASE ParserFail(p)
      BY <2>5, <1>f DEF ParserFail, Fail, Free
    <2>6. CASE Publish(p)
      <3>1. row' \in Row
        BY <2>6 DEF Publish, Row, Status
      <3>2. match' \in MatchPhase
        BY <2>6 DEF Publish, MatchPhase
      <3>3. extract' \subseteq Slot \cup {"whole", "left"}
        BY <2>6 DEF Publish, Ended
      <3> QED
        BY <2>6, <3>1, <3>2, <3>3 DEF Publish, Free
    <2> QED
      BY <1>3, <2>1, <2>2, <2>3, <2>4, <2>5, <2>6
  <1> QED
    BY <1>1, <1>2, <1>3

LEMMA StepTypeOK == TypeOK /\ [Next]_vars => TypeOK'
  <1> SUFFICES ASSUME TypeOK, [Next]_vars PROVE TypeOK'
    OBVIOUS
  <1>1. CASE SeqDetails
    BY <1>1 DEF SeqDetails, TypeOK, MatchPhase, Publishable
  <1>2. CASE WorkerCrash
    BY <1>2, DetailsTypes, DownloadTypes, ArchiveTypes DEF WorkerCrash, TypeOK
  <1>3. CASE UNCHANGED vars
    BY <1>3 DEF vars, TypeOK
  <1> QED
    BY <1>1, <1>2, <1>3, DetailsStepType, DownloadStepType, ArchiveStepType,
       ParserStepType DEF Next

\* The replay row, the jobs and the extract keep to their types (TypeOK).
THEOREM ReplayTypeCorrect == Spec => []TypeOK
  BY InitTypeOK, StepTypeOK, PTL DEF Spec

-----------------------------------------------------------------------------
(* The inductive invariant *)

LEMMA InitIInv == Init => IInv
  <1> SUFFICES ASSUME Init PROVE IInv
    OBVIOUS
  <1>1. /\ row.status = "absent" /\ row.attempts = 0 /\ row.at = "none" /\ ~row.archived
        /\ details.pc = "idle" /\ download.pc = "idle" /\ archive.pc = "idle"
    BY DEF Init, Idle
  <1> QED
    BY <1>1, InitTypeOK DEF IInv, ArchivedIsCold, ColdSeen, RetryNeverOrphaned,
       Settled, Waiting, Fresh

\* What the UPDATEs do to the row's part of the invariant.
LEMMA SameRow ==
    ASSUME ArchivedIsCold, Fresh, row' = row,
           "cold" \in store => "cold" \in store'
    PROVE  ArchivedIsCold' /\ Fresh' /\ (Waiting' => Waiting)
  BY DEF ArchivedIsCold, Fresh, Waiting

LEMMA EnsuredRow ==
    ASSUME row \in Row, ArchivedIsCold, Fresh, row' = ensureReplayRow(row),
           "cold" \in store => "cold" \in store'
    PROVE  ArchivedIsCold' /\ Fresh' /\ (Waiting' => Waiting)
  <1>1. /\ row'.at = row.at /\ row'.archived = row.archived
        /\ row'.attempts = row.attempts
        /\ row'.status = IF row.status = "absent" THEN "pending"
                                                  ELSE row.status
    BY DEF ensureReplayRow, Row
  <1>2. ArchivedIsCold'
    BY <1>1 DEF ArchivedIsCold
  <1>3. Fresh' /\ (Waiting' => Waiting)
    <2>1. row.attempts = 0 => ~(row.attempts > 0)
      OBVIOUS
    <2> QED
      BY <1>1, <2>1 DEF Fresh, Waiting
  <1> QED
    BY <1>2, <1>3

LEMMA StatusRow ==
    ASSUME row \in Row, ArchivedIsCold, NEW s \in Status \ {"absent"},
           \/ row' = updateReplayStatus(row, s)
           \/ row' = bumpAttempt(updateReplayStatus(row, s)),
           "cold" \in store => "cold" \in store'
    PROVE  /\ ArchivedIsCold' /\ Fresh'
           /\ s \notin {"downloading", "pending"} => ~Waiting'
  <1>1. /\ row'.at = row.at /\ row'.archived = row.archived /\ row'.status = s
    BY DEF updateReplayStatus, bumpAttempt, Row
  <1> QED
    BY <1>1 DEF ArchivedIsCold, Fresh, Waiting

\* An adoption or a finished download writes a locator it has seen.
LEMMA StoredRow ==
    ASSUME row \in Row, ArchivedIsCold, NEW at \in Located,
           row' = updateReplayStored(row, at),
           at = "cold" => "cold" \in store'
    PROVE  ArchivedIsCold' /\ Fresh' /\ ~Waiting'
  <1>1. /\ row'.at = at /\ row'.status = "stored"
        /\ row'.archived = (row.archived /\ at = "cold")
    BY DEF updateReplayStored, Row
  <1> QED
    BY <1>1 DEF ArchivedIsCold, Fresh, Waiting

LEMMA ArchivedRow ==
    ASSUME row \in Row, ArchivedIsCold, Fresh, row' = markReplayArchived(row),
           "cold" \in store'
    PROVE  ArchivedIsCold' /\ Fresh' /\ (Waiting' => Waiting)
  <1>1. /\ row'.status = row.status /\ row'.attempts = row.attempts
        /\ row'.at = "cold" \/ row' = row
    BY DEF markReplayArchived, Row
  <1> QED
    BY <1>1 DEF ArchivedIsCold, Fresh, Waiting

LEMMA LocateSees ==
    ASSUME "cold" \in locateReplayObject
    PROVE  "cold" \in store
  BY DEF locateReplayObject

LEMMA Remembered ==
    /\ Idle.pc = "idle" /\ ~Idle.keep /\ Dropped.pc = "dropped"
    /\ \A x : [Idle EXCEPT !.pc = x].pc = x
    /\ \A x, y : /\ [Idle EXCEPT !.pc = x, !.at = y].pc = x
                 /\ [Idle EXCEPT !.pc = x, !.at = y].at = y
    /\ \A r, n : /\ Looking(r).pc = "look"
                 /\ [Looking(r) EXCEPT !.tries = n].pc = "look"
                 /\ [Looking(r) EXCEPT !.tries = n].keep
                        = replayDownloadShouldKeepStatus(r.status)
  BY DEF Idle, Dropped, Looking

LEMMA DetailsStep ==
    ASSUME IInv,
           \/ DetailsStart \/ DetailsLocator \/ DetailsVerdict \/ DetailsFound
           \/ DetailsAdopt \/ DetailsMiss \/ DetailsMark \/ DetailsThrow
    PROVE  IInv'
  <1>0. /\ TypeOK' /\ row \in Row /\ details \in Job(DetailsPc)
        /\ ArchivedIsCold /\ Fresh
    BY DetailsStepType DEF IInv, TypeOK
  <1>1. /\ UNCHANGED <<store, download, archive>>
        /\ queued => queued'
    <2>1. DetailsOnly
      BY DEF DetailsStart, DetailsLocator, DetailsVerdict, DetailsFound,
         DetailsAdopt, DetailsMiss, DetailsMark, DetailsThrow
    <2>2. queued => queued'
      BY DEF DetailsStart, DetailsLocator, DetailsVerdict, DetailsFound,
         DetailsAdopt, DetailsMiss, DetailsMark, DetailsThrow
    <2> QED
      BY <2>1, <2>2 DEF DetailsOnly
  <1>2. ArchivedIsCold' /\ Fresh' /\ (Waiting' => Waiting)
    <2>1. CASE row' = row
      BY <2>1, <1>0, <1>1, SameRow
    <2>2. CASE row' = ensureReplayRow(row)
      BY <2>2, <1>0, <1>1, EnsuredRow
    <2>3. CASE \E s \in {"unavailable", "failed"} :
                  row' = updateReplayStatus(row, s)
      BY <2>3, <1>0, <1>1, StatusRow DEF Status
    <2>4. CASE DetailsAdopt
      <3>1. /\ row' = updateReplayStored(row, details.at)
            /\ details.at \in Located
            /\ details.at = "cold" => "cold" \in store'
        BY <2>4, <1>0, <1>1 DEF DetailsAdopt, IInv, ColdSeen, Job
      <3> QED
        BY <3>1, <1>0, StoredRow
    <2>5. CASE DetailsLocator
      <3>1. PICK u \in Url : row' = [row EXCEPT !.url = u]
        BY <2>5 DEF DetailsLocator
      <3>2. /\ row'.at = row.at /\ row'.archived = row.archived
            /\ row'.status = row.status /\ row'.attempts = row.attempts
        BY <3>1, <1>0 DEF Row
      <3> QED
        BY <3>2, <1>0, <1>1 DEF ArchivedIsCold, Fresh, Waiting
    <2> QED
      BY <2>1, <2>2, <2>3, <2>4, <2>5 DEF DetailsStart, DetailsVerdict,
         DetailsFound, DetailsMiss, DetailsMark, DetailsThrow
  <1>3. details'.pc = "adopt" /\ details'.at = "cold" => "cold" \in store'
    <2>1. CASE DetailsFound
      <3>1. \/ details' = Idle
            \/ \E hit \in locateReplayObject :
                  details' = [Idle EXCEPT !.pc = "adopt", !.at = hit]
        BY <2>1 DEF DetailsFound
      <3>2. "cold" \in locateReplayObject => "cold" \in store
        BY LocateSees
      <3>3. CASE details' = Idle
        BY <3>3, Remembered
      <3>4. CASE \E hit \in locateReplayObject :
                    details' = [Idle EXCEPT !.pc = "adopt", !.at = hit]
        <4>1. details'.at \in locateReplayObject
          BY <3>4, Remembered
        <4> QED
          BY <4>1, <3>2, <1>1
      <3> QED
        BY <3>1, <3>3, <3>4
    <2>2. CASE ~DetailsFound
      <3>1. \/ details' = Idle
            \/ details' = Looking(row')
            \/ \E pc \in {"ask", "refused", "adopted"} :
                  details' = [Idle EXCEPT !.pc = pc]
        BY <2>2 DEF DetailsStart, DetailsLocator, DetailsVerdict, DetailsAdopt,
           DetailsMiss, DetailsMark, DetailsThrow
      <3> QED
        BY <3>1, Remembered
    <2> QED
      BY <2>1, <2>2
  <1> QED
    BY <1>0, <1>1, <1>2, <1>3 DEF IInv, ColdSeen, RetryNeverOrphaned, Settled,
       Waiting

LEMMA DownloadStep ==
    ASSUME IInv,
           \/ DownloadStart \/ DownloadFound \/ DownloadAdopt \/ DownloadAsk
           \/ DownloadNotFound \/ DownloadRequeue \/ DownloadWrite
           \/ DownloadStored \/ DownloadMark \/ DownloadThrow
    PROVE  IInv'
  <1>0. /\ TypeOK' /\ row \in Row /\ download \in Job(DownloadPc)
        /\ ArchivedIsCold /\ Fresh /\ RetryNeverOrphaned /\ Settled /\ ColdSeen
        /\ download.at \in Located
    BY DownloadStepType DEF IInv, TypeOK, Job
  <1>1. UNCHANGED <<details, archive>> /\ store \subseteq store'
    BY DEF DownloadStart, DownloadFound, DownloadAdopt, DownloadAsk,
       DownloadNotFound, DownloadRequeue, DownloadWrite, DownloadStored,
       DownloadMark, DownloadThrow, DownloadOnly
  <1> SUFFICES /\ ArchivedIsCold' /\ Fresh' /\ RetryNeverOrphaned' /\ Settled'
               /\ (/\ download'.pc = "adopt"
                   /\ download'.at = "cold") => "cold" \in store'
    BY <1>0, <1>1 DEF IInv, ColdSeen
  <1> USE DEF Settled
  <1>i. /\ download = Idle => download.pc = "idle"
        /\ \A j : j.pc # "idle" => j # Idle
    BY Remembered
  <1>w. RetryNeverOrphaned <=> (Waiting => download # Idle \/ queued)
    BY DEF Waiting, RetryNeverOrphaned
  <1>x. RetryNeverOrphaned' <=> (Waiting' => download' # Idle \/ queued')
    BY DEF Waiting, RetryNeverOrphaned
  <1>s. \A st \in {"unavailable", "failed", "downloading", "pending"} :
           st \in Status \ {"absent"}
    BY DEF Status
  <1>11. CASE DownloadStart
    <2>1. /\ download'.pc = "look"
          /\ download'.keep = replayDownloadShouldKeepStatus(row'.status)
      BY <1>11, Remembered DEF DownloadStart
    <2>2. ArchivedIsCold' /\ Fresh'
      BY <1>11, <1>0, <1>1, EnsuredRow DEF DownloadStart
    <2>3. download'.keep => ~Waiting'
      BY <2>1 DEF replayDownloadShouldKeepStatus, Waiting
    <2> QED
      BY <2>1, <2>2, <2>3, <1>i, <1>x
  <1>2. CASE DownloadFound
    <2>1. ArchivedIsCold' /\ Fresh' /\ (Waiting' => Waiting)
      BY <1>2, <1>0, <1>1, SameRow DEF DownloadFound
    <2>2. CASE download.keep
      <3>1. download' = Idle /\ ~Waiting
        BY <1>2, <2>2, <1>0 DEF DownloadFound
      <3> QED
        BY <3>1, <2>1, <1>x, Remembered
    <2>3. CASE ~download.keep
      <3>1. PICK hit \in locateReplayObject :
                   download' = [Idle EXCEPT !.pc = "adopt", !.at = hit]
        BY <1>2, <2>3 DEF DownloadFound
      <3>2. download'.pc = "adopt" /\ download'.at \in locateReplayObject
        BY <3>1, Remembered
      <3>3. "cold" \in locateReplayObject => "cold" \in store
        BY LocateSees
      <3> QED
        BY <3>2, <3>3, <2>1, <1>1, <1>i, <1>x
    <2> QED
      BY <2>2, <2>3
  <1>3. CASE DownloadAdopt
    <2>1. /\ row' = updateReplayStored(row, download.at)
          /\ download' = [Idle EXCEPT !.pc = "stored"]
          /\ download.at = "cold" => "cold" \in store'
      BY <1>3, <1>0, <1>1 DEF DownloadAdopt, ColdSeen
    <2>2. ArchivedIsCold' /\ Fresh' /\ ~Waiting'
      BY <2>1, <1>0, StoredRow
    <2> QED
      BY <2>1, <2>2, <1>x, Remembered
  <1>4. CASE DownloadAsk
    <2>1. CASE /\ row' = updateReplayStatus(row, "unavailable")
               /\ download' = [Idle EXCEPT !.pc = "refused"]
      <3>1. ArchivedIsCold' /\ Fresh' /\ ~Waiting'
        BY <2>1, <1>0, <1>1, <1>s, StatusRow
      <3> QED
        BY <2>1, <3>1, <1>x, Remembered
    <2>2. CASE /\ row' = updateReplayStatus(row, "downloading")
               /\ download' = [download EXCEPT !.pc = "fetch"]
      <3>1. ArchivedIsCold' /\ Fresh'
        BY <2>2, <1>0, <1>1, <1>s, StatusRow
      <3>2. download'.pc = "fetch"
        BY <2>2, <1>0 DEF Job
      <3> QED
        BY <3>1, <3>2, <1>i, <1>x
    <2> QED
      BY <1>4, <2>1, <2>2 DEF DownloadAsk
  <1>5. CASE DownloadNotFound
    <2>1. CASE /\ row' = bumpAttempt(updateReplayStatus(row, "pending"))
               /\ download' = [Idle EXCEPT !.pc = "requeue"]
      <3>1. ArchivedIsCold' /\ Fresh'
        BY <2>1, <1>0, <1>1, <1>s, StatusRow
      <3>2. download'.pc = "requeue"
        BY <2>1, Remembered
      <3> QED
        BY <3>1, <3>2, <1>i, <1>x
    <2>2. CASE /\ row' = bumpAttempt(updateReplayStatus(row, "unavailable"))
               /\ download' = [Idle EXCEPT !.pc = "refused"]
      <3>1. ArchivedIsCold' /\ Fresh' /\ ~Waiting'
        BY <2>2, <1>0, <1>1, <1>s, StatusRow
      <3> QED
        BY <2>2, <3>1, <1>x, Remembered
    <2> QED
      BY <1>5, <2>1, <2>2 DEF DownloadNotFound
  <1>6. CASE DownloadRequeue
    <2>1. row' = row /\ queued' /\ download' = Idle
      BY <1>6 DEF DownloadRequeue
    <2> QED
      BY <2>1, <1>0, <1>1, <1>x, SameRow, Remembered
  <1>7. CASE DownloadWrite
    <2>1. row' = row /\ download' = [Idle EXCEPT !.pc = "written"]
      BY <1>7 DEF DownloadWrite
    <2>2. download'.pc = "written"
      BY <2>1, Remembered
    <2> QED
      BY <2>1, <2>2, <1>0, <1>1, <1>x, <1>i, SameRow
  <1>8. CASE DownloadStored
    <2>1. /\ row' = updateReplayStored(row, "hot") /\ "hot" \in Located
          /\ download' = [Idle EXCEPT !.pc = "stored"]
      BY <1>8 DEF DownloadStored, Located
    <2>2. ArchivedIsCold' /\ Fresh' /\ ~Waiting'
      BY <2>1, <1>0, StoredRow
    <2> QED
      BY <2>1, <2>2, <1>x, Remembered
  <1>9. CASE DownloadMark
    <2>1. row' = row /\ download' = Idle /\ ~Waiting
      BY <1>9, <1>0 DEF DownloadMark
    <2> QED
      BY <2>1, <1>0, <1>1, <1>x, SameRow, Remembered
  <1>10. CASE DownloadThrow
    <2>1. \/ download' = Idle /\ queued'
          \/ download' = Dropped
      BY <1>10 DEF DownloadThrow
    <2>2. ArchivedIsCold' /\ Fresh'
      <3>1. row' = row \/ row' = updateReplayStatus(row, "failed")
        BY <1>10 DEF DownloadThrow
      <3> QED
        BY <3>1, <1>0, <1>1, <1>s, SameRow, StatusRow
    <2> QED
      BY <2>1, <2>2, <1>x, Remembered
  <1> QED
    BY <1>11, <1>2, <1>3, <1>4, <1>5, <1>6, <1>7, <1>8, <1>9, <1>10

\* Archiving marks the row only once the cold object is there, and deletes hot
\* objects only.
LEMMA ArchiveStep ==
    ASSUME IInv,
           \/ ArchiveList \/ ArchiveCopy \/ ArchiveMark \/ ArchiveDelete
           \/ ArchiveThrow
    PROVE  IInv'
  <1>0. /\ TypeOK' /\ row \in Row /\ archive \in Job(ArchivePc)
        /\ ArchivedIsCold /\ Fresh /\ RetryNeverOrphaned /\ Settled /\ ColdSeen
    BY ArchiveStepType DEF IInv, TypeOK
  <1>1. UNCHANGED <<details, download, queued>>
    BY DEF ArchiveList, ArchiveCopy, ArchiveMark, ArchiveDelete, ArchiveThrow,
       ArchiveOnly
  <1>2. "cold" \in store => "cold" \in store'
    BY <1>0 DEF ArchiveList, ArchiveCopy, ArchiveMark, ArchiveDelete,
       ArchiveThrow, ColdSeen
  <1>3. ArchivedIsCold' /\ Fresh' /\ (Waiting' => Waiting)
    <2>1. CASE row' = row
      BY <2>1, <1>0, <1>2, SameRow
    <2>2. CASE ArchiveMark
      BY <2>2, <1>0, <1>2, ArchivedRow DEF ArchiveMark, ColdSeen
    <2> QED
      BY <2>1, <2>2 DEF ArchiveList, ArchiveCopy, ArchiveDelete, ArchiveThrow
  <1>4. /\ archive'.pc = "copy" /\ archive'.at = "cold" => "cold" \in store'
        /\ archive'.pc \in {"mark", "delete"} => "cold" \in store'
        /\ archive'.pc = "delete" => archive'.at # "cold"
    <2>1. CASE archive' = Idle
      BY <2>1, Remembered
    <2>2. CASE ArchiveList
      <3>1. archive'.pc = "copy" /\ archive'.at = row.at
        BY <2>2, Remembered DEF ArchiveList
      <3> QED
        BY <3>1, <1>0, <1>2 DEF ArchivedIsCold
    <2>3. CASE ArchiveCopy
      <3>1. archive'.pc = "mark" /\ "cold" \in store'
        BY <2>3, <1>0 DEF ArchiveCopy, Job, ColdSeen
      <3> QED
        BY <3>1
    <2>4. CASE ArchiveMark /\ archive.at # "cold"
      <3>1. /\ archive'.pc = "delete" /\ archive'.at = archive.at
            /\ "cold" \in store'
        BY <2>4, <1>0, <1>2 DEF ArchiveMark, Job, ColdSeen
      <3> QED
        BY <3>1, <2>4
    <2> QED
      BY <2>1, <2>2, <2>3, <2>4 DEF ArchiveMark, ArchiveDelete, ArchiveThrow
  <1> QED
    BY <1>0, <1>1, <1>3, <1>4, <1>2 DEF IInv, ColdSeen, RetryNeverOrphaned,
       Settled, Waiting

LEMMA ParserStep ==
    ASSUME IInv,
           \/ ReclaimStale \/ ParserCrash
           \/ \E p \in Slot : \/ Claim(p) \/ ParserNoObject(p) \/ ParserOpen(p)
                              \/ ParserFlush(p) \/ ParserFail(p) \/ Publish(p)
    PROVE  IInv'
  <1>0. /\ TypeOK' /\ row \in Row /\ ArchivedIsCold /\ Fresh
    BY ParserStepType DEF IInv, TypeOK
  <1>1. UNCHANGED <<store, details, download, archive, queued>>
    BY DEF ReclaimStale, ParserCrash, Claim, ParserNoObject, ParserOpen,
       ParserFlush, ParserFail, Publish, ParserOnly
  <1>s. \A st \in {"stored", "parsing", "failed"} : st \in Status \ {"absent"}
    BY DEF Status
  <1>2. ArchivedIsCold' /\ Fresh' /\ (Waiting' => Waiting)
    <2>1. CASE row' = row
      BY <2>1, <1>0, <1>1, SameRow
    <2>2. CASE \E st \in {"stored", "parsing", "failed"} :
                  \/ row' = updateReplayStatus(row, st)
                  \/ row' = bumpAttempt(updateReplayStatus(row, st))
      BY <2>2, <1>0, <1>1, <1>s, StatusRow
    <2>3. CASE row' = [row EXCEPT !.status = "parsed", !.versioned = TRUE]
      <3>1. /\ row'.at = row.at /\ row'.archived = row.archived
            /\ row'.status = "parsed"
        BY <2>3, <1>0 DEF Row
      <3> QED
        BY <3>1, <1>0, <1>1 DEF ArchivedIsCold, Fresh, Waiting
    <2> QED
      BY <2>1, <2>2, <2>3 DEF ReclaimStale, ParserCrash, Claim, ParserNoObject,
         ParserOpen, ParserFlush, ParserFail, Publish, Fail
  <1> QED
    BY <1>0, <1>1, <1>2 DEF IInv, ColdSeen, RetryNeverOrphaned, Settled, Waiting

LEMMA OtherStep ==
    ASSUME IInv, SeqDetails \/ WorkerCrash \/ UNCHANGED vars
    PROVE  IInv'
  <1>0. /\ TypeOK' /\ ArchivedIsCold /\ Fresh
    BY StepTypeOK DEF IInv, Next
  <1>1. /\ UNCHANGED <<row, store, queued>>
        /\ details' = details \/ details' = Idle
        /\ archive' = archive \/ archive' = Idle
        /\ download' = download \/ download' = Dropped
    BY DEF SeqDetails, WorkerCrash, vars
  <1>2. ArchivedIsCold' /\ Fresh' /\ (Waiting' => Waiting)
    BY <1>0, <1>1, SameRow
  <1>3. ColdSeen'
    BY <1>1, Remembered DEF IInv, ColdSeen
  <1>4. RetryNeverOrphaned'
    BY <1>1, <1>2, Remembered DEF IInv, RetryNeverOrphaned, Waiting
  <1>5. Settled'
    BY <1>1, <1>2, Remembered DEF IInv, Settled
  <1> QED
    BY <1>0, <1>2, <1>3, <1>4, <1>5 DEF IInv

LEMMA StepIInv == IInv /\ [Next]_vars => IInv'
  BY DetailsStep, DownloadStep, ArchiveStep, ParserStep, OtherStep DEF Next

THEOREM ReplayInvariance == Spec => []IInv
  BY InitIInv, StepIInv, PTL DEF Spec

-----------------------------------------------------------------------------
(* The properties *)

\* A row marked archived points at the cold store, and finds its object there
\* (ArchivedIsCold), for every interleaving of adoptions, downloads, parses and
\* archiving.
THEOREM ArchivedRowsPointCold == Spec => []ArchivedIsCold
  BY ReplayInvariance, PTL DEF IInv

\* A row that waits for its download has a job, unless the job died or spent
\* its tries (RetryNeverOrphaned).
THEOREM WaitingRowsHaveAJob == Spec => []RetryNeverOrphaned
  BY ReplayInvariance, PTL DEF IInv

\* No step takes the last copy of the object away (LastCopySurvives).
THEOREM CopiesSurvive == Spec => LastCopySurvives
  <1>1. IInv /\ [Next]_vars => (store # {} => store' # {})
    <2> SUFFICES ASSUME IInv, [Next]_vars, store # {} PROVE store' # {}
      OBVIOUS
    <2>1. CASE ArchiveDelete
      BY <2>1 DEF ArchiveDelete, IInv, ColdSeen
    <2>2. CASE ~ArchiveDelete
      <3>1. store \subseteq store'
        BY <2>2 DEF Next, vars, SeqDetails, DetailsStart, DetailsLocator,
           DetailsVerdict, DetailsFound, DetailsAdopt, DetailsMiss,
           DetailsMark, DetailsThrow, DetailsOnly, DownloadStart,
           DownloadFound, DownloadAdopt, DownloadAsk, DownloadNotFound,
           DownloadRequeue, DownloadWrite, DownloadStored, DownloadMark,
           DownloadThrow, ArchiveList, ArchiveCopy, ArchiveMark,
           ArchiveThrow, WorkerCrash, ReclaimStale, ParserCrash, Claim,
           ParserNoObject, ParserOpen, ParserFlush, ParserFail, Publish,
           ParserOnly
      <3> QED
        BY <3>1
    <2> QED
      BY <2>1, <2>2
  <1> QED
    BY <1>1, ReplayInvariance, PTL DEF Spec, LastCopySurvives

-----------------------------------------------------------------------------
(* The phase of the match: the moves of MatchLife *)

LEMMA MovesOfMatch ==
    ASSUME NEW from, NEW to
    PROVE  /\ Life!Moves(0, from, to) <=> match \in from /\ match' \in to
           /\ Life!Only(0)
           /\ UNCHANGED match => UNCHANGED phase
           /\ phase' = [m \in {0} |-> phase'[m]]
  BY DEF Life!Moves, Life!Only, phase

LEMMA MatchPhases ==
    /\ MatchPhase \subseteq Life!Phase
    /\ MatchPhase \ {"parsed"} \subseteq Life!Phase \ {"absent", "parsed"}
    /\ "awaiting_history" \in Life!Phase \ Life!Download
    /\ Publishable \subseteq {"details_ready", "awaiting_replay", "replay_stored"}
  BY DEF MatchPhase, Publishable, Life!Phase, Life!Kept, Life!Early, Life!Download

LEMMA MarksMove ==
    ASSUME match \in MatchPhase,
           NEW s \in {"replay_stored", "replay_unavailable"},
           match' = markMatchReplayStatus(s)
    PROVE  [Life!Next]_phase
  <1>1. CASE match = "parsed"
    BY <1>1, MovesOfMatch DEF markMatchReplayStatus
  <1>2. CASE match # "parsed"
    <2>1. match' = s /\ match \in Life!Phase \ {"absent", "parsed"}
      BY <1>2, MatchPhases DEF markMatchReplayStatus
    <2>2. Life!Verdict(0)
      BY <2>1, MovesOfMatch DEF Life!Verdict
    <2> QED
      BY <2>2, MovesOfMatch DEF Life!Next
  <1> QED
    BY <1>1, <1>2

LEMMA RecordsMove ==
    ASSUME match = "awaiting_history", match' = "details_ready"
    PROVE  Life!Next
  <1>1. Life!Record(0)
    BY MovesOfMatch, MatchPhases DEF Life!Record
  <1> QED
    BY <1>1, MovesOfMatch DEF Life!Next

\* A step marks, records, publishes or leaves the match alone.
LEMMA StepMovesMatch ==
    ASSUME TypeOK, [Next]_vars
    PROVE  [Life!Next]_phase
  <1>1. match \in MatchPhase
    BY DEF TypeOK
  <1>2. CASE UNCHANGED match
    BY <1>2, MovesOfMatch
  <1>3. CASE SeqDetails
    BY <1>3, RecordsMove DEF SeqDetails
  <1>4. CASE DetailsLocator
    <2>1. CASE match = "awaiting_history" /\ match' = "details_ready"
      BY <2>1, RecordsMove
    <2> QED
      BY <1>2, <1>4, <2>1 DEF DetailsLocator
  <1>5. CASE DetailsMark
    BY <1>1, <1>5, MarksMove DEF DetailsMark
  <1>6. CASE DownloadMark
    BY <1>1, <1>6, MarksMove DEF DownloadMark
  <1>7. ASSUME NEW p \in Slot, Publish(p) PROVE [Life!Next]_phase
    <2>1. CASE match \in Publishable /\ match' = "parsed"
      <3>1. Life!Publish(0)
        BY <2>1, MovesOfMatch, MatchPhases DEF Life!Publish
      <3> QED
        BY <3>1, MovesOfMatch DEF Life!Next
    <2> QED
      BY <1>2, <1>7, <2>1 DEF Publish
  <1>8. CASE \/ DetailsStart \/ DetailsVerdict \/ DetailsFound \/ DetailsAdopt
             \/ DetailsMiss \/ DetailsThrow
             \/ DownloadStart \/ DownloadFound \/ DownloadAdopt \/ DownloadAsk
             \/ DownloadNotFound \/ DownloadRequeue \/ DownloadWrite \/ DownloadStored
             \/ DownloadThrow
    BY <1>2, <1>8
    DEF DetailsStart, DetailsVerdict, DetailsFound, DetailsAdopt, DetailsMiss,
        DetailsThrow, DownloadStart, DownloadFound, DownloadAdopt, DownloadAsk,
        DownloadNotFound, DownloadRequeue, DownloadWrite, DownloadStored, DownloadThrow
  <1>9. CASE \/ ArchiveList \/ ArchiveCopy \/ ArchiveMark \/ ArchiveDelete
             \/ ArchiveThrow \/ WorkerCrash \/ ReclaimStale \/ ParserCrash
             \/ UNCHANGED vars
    BY <1>2, <1>9
    DEF ArchiveList, ArchiveCopy, ArchiveMark, ArchiveDelete, ArchiveThrow, ArchiveOnly,
        WorkerCrash, ReclaimStale, ParserCrash, vars
  <1>10. CASE \E p \in Slot : \/ Claim(p) \/ ParserNoObject(p) \/ ParserOpen(p)
                              \/ ParserFlush(p) \/ ParserFail(p)
    BY <1>2, <1>10 DEF Claim, ParserNoObject, ParserOpen, ParserFlush, ParserFail
  <1> QED
    BY <1>3, <1>4, <1>5, <1>6, <1>7, <1>8, <1>9, <1>10 DEF Next

\* Whatever download, adoption, archive and parser interleave, and however old
\* what they read is, they move matches.status only as MatchLife has it: a
\* publish takes a match to parsed from its details or its stored replay only,
\* and no mark takes it away from there.
THEOREM MatchIsMoved == Spec => MovesMatch
  <1>1. TypeOK /\ [Next]_vars => [Life!Next]_phase
    BY StepMovesMatch
  <1> QED
    BY <1>1, ReplayTypeCorrect, PTL DEF Spec, MovesMatch, Life!Moving
=============================================================================
