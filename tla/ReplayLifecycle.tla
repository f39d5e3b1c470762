-------------------------- MODULE ReplayLifecycle --------------------------
(***************************************************************************)
(* The replay of one match: its match_replays row, its .dem.bz2 in the hot *)
(* and in the cold store, and the rows the parser extracts from it into    *)
(* ClickHouse.  fetch_match_details, download_replay and the archive job   *)
(* read the row, await an object store or a CDN, and write the row on the  *)
(* strength of what they read; the parser claims the row, decodes for      *)
(* minutes, and publishes.  Every await is a step boundary here.           *)
(*                                                                         *)
(* Simplifications.  The cold store is a bucket of its own, an object is   *)
(* there whole or not at all, and a ClickHouse delete that is asked for is *)
(* carried out.  Ages are nondeterministic: a claim may be stale at any    *)
(* time (nothing bounds how long a decode takes).  One details job and one *)
(* download of a match run at a time (their named queues).  Of the matches *)
(* row only the phase is kept; MatchPipeline has the rest of it.           *)
(***************************************************************************)
EXTENDS Integers, FiniteSets

CONSTANTS
    Slot,      \* parses the parser process runs at once
    Budget     \* 404 answers after which replayBackoffMs gives up

ASSUME ReplayAssumption == Budget \in Nat

VARIABLES
    row,       \* the match_replays row
    match,     \* matches.status
    store,     \* the stores that hold the object: hot, cold
    queued,    \* a download_replay job waits
    details,   \* the running fetch_match_details job
    download,  \* the running download_replay job, or that the last one ended
               \* with its process or its last try (pc dropped, a history)
    archive,   \* the running archive_parsed_replays job, at this row
    parse,     \* parse[p]: the parse in slot p
    extract    \* what ClickHouse holds of the match

vars == <<row, match, store, queued, details, download, archive, parse,
          extract>>

-----------------------------------------------------------------------------

Located == {"none", "hot", "cold"}       \* s3_bucket and s3_key

\* source_url: not known, on a CDN host that Valve publishes, or on one that
\* does not exist (cluster 0 or 1).
Url == {"none", "published", "unpublished"}

Status == {"absent", "pending", "downloading", "stored", "parsing", "parsed",
           "unavailable", "failed"}

\* Phases of matches that a publish moves to parsed, and those it does not.
Publishable == {"details_ready", "replay_stored"}
MatchPhase == Publishable \cup {"awaiting_history", "replay_unavailable",
                                "parsed"}

\* What a worker job remembers of the row it read, and the object it located.
Idle == [pc |-> "idle", keep |-> FALSE, at |-> "none", tries |-> 0]

Dropped == [Idle EXCEPT !.pc = "dropped"]

IdleParse == [pc |-> "idle", at |-> "none", again |-> FALSE]

Init ==
    /\ row = [status |-> "absent", at |-> "none", archived |-> FALSE,
              url |-> "none", versioned |-> FALSE, attempts |-> 0]
    /\ match \in {"awaiting_history", "details_ready"}
    /\ store = {}
    /\ queued = FALSE
    /\ details = Idle
    /\ download = Idle
    /\ archive = Idle
    /\ parse = [p \in Slot |-> IdleParse]
    /\ extract = {}

-----------------------------------------------------------------------------
(* What one UPDATE does *)

ensureReplayRow(r) ==
    [r EXCEPT !.status = IF @ = "absent" THEN "pending" ELSE @]

\* Mutant: the locator moves, archived_at stays.
updateReplayStoredUncleared(r, at) ==
    [r EXCEPT !.status = "stored", !.at = at]

\* updateReplay as an adoption and a finished download call it: a hot object
\* clears archived_at.
updateReplayStored(r, at) ==
    [r EXCEPT !.status = "stored",
              !.at = at,
              !.archived = @ /\ at = "cold"]

updateReplayStatus(r, status) == [r EXCEPT !.status = status]

\* attempts + 1.  The ladder only asks whether the budget is spent: saturated there.
bumpAttempt(r) == [r EXCEPT !.attempts = IF @ < Budget THEN @ + 1 ELSE @]

markReplayArchived(r) ==
    IF r.archived THEN r ELSE [r EXCEPT !.at = "cold", !.archived = TRUE]

\* Mutant: copies the status of match_replays.
markMatchReplayStatusCopied(status) ==
    IF match = "parsed" THEN match ELSE row.status

markMatchReplayStatus(status) == IF match = "parsed" THEN match ELSE status

\* Parsed / in-flight parse already passed download; do not demote to stored.
replayDownloadShouldKeepStatus(status) == status \in {"parsed", "parsing"}

\* The row's locator, the hot and the cold key are tried in that order, but a
\* stat that throws reads as an absent object: any object that is there may be
\* the first hit, and there may be no hit at all.
locateReplayObject == store \cup {"none"}

-----------------------------------------------------------------------------
(* The match moves on through its sequence details (MatchPipeline).          *)

SeqDetails ==
    /\ match = "awaiting_history"
    /\ match' = "details_ready"
    /\ UNCHANGED <<row, store, queued, details, download, archive,
                   parse, extract>>

-----------------------------------------------------------------------------
(* fetch_match_details *)

DetailsOnly == UNCHANGED <<store, download, archive, parse, extract>>

Looking(r) == [Idle EXCEPT !.pc = "look",
                           !.keep = replayDownloadShouldKeepStatus(r.status)]

\* The row is read; the GC is asked only when the url is not known yet.
DetailsStart ==
    /\ details.pc = "idle"
    /\ row' = ensureReplayRow(row)
    /\ details' = IF row.url # "none" THEN Looking(row')
                             ELSE [Idle EXCEPT !.pc = "ask"]
    /\ UNCHANGED <<match, queued>>
    /\ DetailsOnly

\* The GC told the locator; the record, if it sent one, moves the match on.
DetailsLocator ==
    /\ details.pc = "ask"
    /\ \E u \in Url \ {"none"} : row' = [row EXCEPT !.url = u]
    /\ match' \in {match,
                   IF match = "awaiting_history" THEN "details_ready" ELSE match}
    /\ details' = Looking(row')
    /\ UNCHANGED queued
    /\ DetailsOnly

\* Result 15 (mark), or not recorded, expired, no account (no mark).
DetailsVerdict ==
    /\ details.pc = "ask"
    /\ \/ /\ row' = updateReplayStatus(row, "unavailable")
          /\ details' \in {Idle, [Idle EXCEPT !.pc = "refused"]}
       \/ /\ row' = updateReplayStatus(row, "failed")
          /\ details' = Idle
    /\ UNCHANGED <<match, queued>>
    /\ DetailsOnly

\* skipDownloadIfPresent on the row read before: kept, or found in a store.
DetailsFound ==
    /\ details.pc = "look"
    /\ \/ /\ details.keep
          /\ details' = Idle
       \/ /\ ~details.keep
          /\ \E hit \in locateReplayObject \ {"none"} :
                details' = [Idle EXCEPT !.pc = "adopt", !.at = hit]
    /\ UNCHANGED <<row, match, queued>>
    /\ DetailsOnly

DetailsAdopt ==
    /\ details.pc = "adopt"
    /\ row' = updateReplayStored(row, details.at)
    /\ details' = [Idle EXCEPT !.pc = "adopted"]
    /\ UNCHANGED <<match, queued>>
    /\ DetailsOnly

\* No object is seen: the CDN host is not published, or download.
DetailsMiss ==
    /\ details.pc = "look"
    /\ ~details.keep
    /\ "none" \in locateReplayObject
    /\ \/ /\ row.url = "unpublished"
          /\ row' = updateReplayStatus(row, "unavailable")
          /\ details' = [Idle EXCEPT !.pc = "refused"]
          /\ UNCHANGED queued
       \/ /\ row.url = "published"
          /\ row' = ensureReplayRow(row)
          /\ queued' = TRUE
          /\ details' = Idle
    /\ UNCHANGED match
    /\ DetailsOnly

DetailsMark ==
    /\ details.pc \in {"adopted", "refused"}
    /\ match' = markMatchReplayStatus(IF details.pc = "adopted"
                                      THEN "replay_stored"
                                      ELSE "replay_unavailable")
    /\ details' = Idle
    /\ UNCHANGED <<row, queued>>
    /\ DetailsOnly

\* Another GC result, or no cluster and salt yet: a later job starts over.
DetailsThrow ==
    /\ details.pc # "idle"
    /\ details' = Idle
    /\ UNCHANGED <<row, match, queued>>
    /\ DetailsOnly

-----------------------------------------------------------------------------
(* download_replay *)

DownloadOnly == UNCHANGED <<details, archive, parse, extract>>

DownloadStart ==
    /\ queued
    /\ download \in {Idle, Dropped}
    /\ queued' = FALSE
    /\ row' = ensureReplayRow(row)
    /\ download' = [Looking(row') EXCEPT !.tries = row.attempts]
    /\ UNCHANGED <<match, store>>
    /\ DownloadOnly

\* The object is in a store: the row keeps its status or adopts the object.
DownloadFound ==
    /\ download.pc = "look"
    /\ \E hit \in locateReplayObject \ {"none"} :
          download' = IF download.keep THEN Idle
                      ELSE [Idle EXCEPT !.pc = "adopt", !.at = hit]
    /\ UNCHANGED <<row, match, store, queued>>
    /\ DownloadOnly

DownloadAdopt ==
    /\ download.pc = "adopt"
    /\ row' = updateReplayStored(row, download.at)
    /\ download' = [Idle EXCEPT !.pc = "stored"]
    /\ UNCHANGED <<match, store, queued>>
    /\ DownloadOnly

\* No object is seen: an unpublished host, or the CDN is asked.  This branch
\* does not look at the status the row had.
DownloadAsk ==
    /\ download.pc = "look"
    /\ "none" \in locateReplayObject
    /\ \/ /\ row.url = "unpublished"
          /\ row' = updateReplayStatus(row, "unavailable")
          /\ download' = [Idle EXCEPT !.pc = "refused"]
       \/ /\ row.url = "published"
          /\ row' = updateReplayStatus(row, "downloading")
          /\ download' = [download EXCEPT !.pc = "fetch"]
    /\ UNCHANGED <<match, store, queued>>
    /\ DownloadOnly

\* 404: another try while the ladder lasts, by the attempts read at the start.
DownloadNotFound ==
    /\ download.pc = "fetch"
    /\ \/ /\ download.tries < Budget
          /\ row' = bumpAttempt(updateReplayStatus(row, "pending"))
          /\ download' = [Idle EXCEPT !.pc = "requeue"]
       \/ /\ download.tries >= Budget
          /\ row' = bumpAttempt(updateReplayStatus(row, "unavailable"))
          /\ download' = [Idle EXCEPT !.pc = "refused"]
    /\ UNCHANGED <<match, store, queued>>
    /\ DownloadOnly

\* Mutant: the job of the next try is left to whoever comes by.
DownloadRequeueForgotten ==
    /\ download.pc = "requeue"
    /\ download' = Idle
    /\ UNCHANGED <<row, match, store, queued>>
    /\ DownloadOnly

DownloadRequeue ==
    /\ download.pc = "requeue"
    /\ queued' = TRUE
    /\ download' = Idle
    /\ UNCHANGED <<row, match, store>>
    /\ DownloadOnly

\* s3.write
DownloadWrite ==
    /\ download.pc = "fetch"
    /\ store' = store \cup {"hot"}
    /\ download' = [Idle EXCEPT !.pc = "written"]
    /\ UNCHANGED <<row, match, queued>>
    /\ DownloadOnly

DownloadStored ==
    /\ download.pc = "written"
    /\ row' = updateReplayStored(row, "hot")
    /\ download' = [Idle EXCEPT !.pc = "stored"]
    /\ UNCHANGED <<match, store, queued>>
    /\ DownloadOnly

DownloadMark ==
    /\ download.pc \in {"stored", "refused"}
    /\ match' = markMatchReplayStatus(IF download.pc = "stored"
                                      THEN "replay_stored"
                                      ELSE "replay_unavailable")
    /\ download' = Idle
    /\ UNCHANGED <<row, store, queued>>
    /\ DownloadOnly

\* Any await may throw, another answer of the CDN does: the job is queued again
\* while it has tries left.
DownloadThrow ==
    /\ download \notin {Idle, Dropped}
    /\ row' \in {row} \cup (IF download.pc = "fetch"
                            THEN {updateReplayStatus(row, "failed")} ELSE {})
    /\ \/ download' = Idle /\ queued' = TRUE
       \/ download' = Dropped /\ UNCHANGED queued
    /\ UNCHANGED <<match, store>>
    /\ DownloadOnly

-----------------------------------------------------------------------------
(* archive_parsed_replays *)

ArchiveOnly ==
    UNCHANGED <<match, queued, details, download, parse, extract>>

listParsedUnarchived ==
    /\ row.status = "parsed"
    /\ ~row.archived
    /\ row.at # "none"

ArchiveList ==
    /\ archive.pc = "idle"
    /\ listParsedUnarchived
    /\ archive' = [Idle EXCEPT !.pc = "copy", !.at = row.at]
    /\ UNCHANGED <<row, store>>
    /\ ArchiveOnly

\* Mutant: takes the copy for granted.
ArchiveCopyAssumed ==
    /\ archive.pc = "copy"
    /\ archive' = [archive EXCEPT !.pc = "mark"]
    /\ UNCHANGED <<row, store>>
    /\ ArchiveOnly

ArchiveCopy ==
    /\ archive.pc = "copy"
    /\ \/ archive.at = "cold" /\ UNCHANGED store
       \/ "cold" \in store /\ UNCHANGED store
       \/ archive.at \in store /\ store' = store \cup {"cold"}
    /\ archive' = [archive EXCEPT !.pc = "mark"]
    /\ UNCHANGED row
    /\ ArchiveOnly

ArchiveMark ==
    /\ archive.pc = "mark"
    /\ row' = markReplayArchived(row)
    /\ archive' = IF archive.at = "cold" THEN Idle
                  ELSE [archive EXCEPT !.pc = "delete"]
    /\ UNCHANGED store
    /\ ArchiveOnly

\* A failed delete is only logged.
ArchiveDelete ==
    /\ archive.pc = "delete"
    /\ store' \in {store, store \ {archive.at}}
    /\ archive' = Idle
    /\ UNCHANGED row
    /\ ArchiveOnly

\* The object is missing, or a store call throws.
ArchiveThrow ==
    /\ archive.pc \in {"copy", "mark"}
    /\ archive' = Idle
    /\ UNCHANGED <<row, store>>
    /\ ArchiveOnly

-----------------------------------------------------------------------------
(* The worker process dies.  The jobs it ran are not run again.              *)

WorkerCrash ==
    /\ \/ details # Idle
       \/ download \notin {Idle, Dropped}
       \/ archive # Idle
    /\ details' = Idle
    /\ download' = IF download = Idle THEN Idle ELSE Dropped
    /\ archive' = Idle
    /\ UNCHANGED <<row, match, store, queued, parse, extract>>

-----------------------------------------------------------------------------
(* The parser.  extract holds p while rows of the parse in slot p are in,    *)
(* "whole" for a complete published parse, "left" for any other rows.        *)

ParserOnly ==
    UNCHANGED <<store, queued, details, download, archive>>

\* Mutant: only the claim of a first parse goes stale.
ReclaimStaleFirstParse ==
    /\ row.status = "parsing"
    /\ ~row.versioned
    /\ row' = updateReplayStatus(row, "stored")
    /\ UNCHANGED <<match, parse, extract>>
    /\ ParserOnly

ReclaimStale ==
    /\ row.status = "parsing"
    /\ row' = updateReplayStatus(row, "stored")
    /\ UNCHANGED <<match, parse, extract>>
    /\ ParserOnly

Claim(p) ==
    /\ parse[p].pc = "idle"
    /\ row.status = "stored"
    /\ row.at # "none"
    /\ row' = updateReplayStatus(row, "parsing")
    /\ parse' = [parse EXCEPT ![p] = [pc |-> "claimed", at |-> row.at,
                                      again |-> row.versioned]]
    /\ UNCHANGED <<match, extract>>
    /\ ParserOnly

Fail == row' = bumpAttempt(updateReplayStatus(row, "failed"))

Free(p) == parse' = [parse EXCEPT ![p] = IdleParse]

\* The object cannot be read.
ParserNoObject(p) ==
    /\ parse[p].pc = "claimed"
    /\ Fail
    /\ Free(p)
    /\ UNCHANGED <<match, extract>>
    /\ ParserOnly

\* A row that has published a version before loses its rows first.
ParserOpen(p) ==
    /\ parse[p].pc = "claimed"
    /\ parse[p].at \in store
    /\ extract' = IF parse[p].again THEN {} ELSE extract
    /\ parse' = [parse EXCEPT ![p].pc = "decode"]
    /\ UNCHANGED <<row, match>>
    /\ ParserOnly

\* Rows are inserted as the demo is decoded.
ParserFlush(p) ==
    /\ parse[p].pc = "decode"
    /\ extract' = extract \cup {p}
    /\ parse' = [parse EXCEPT ![p].pc = "flushed"]
    /\ UNCHANGED <<row, match>>
    /\ ParserOnly

\* Decode, insert or publish failed.
ParserFail(p) ==
    /\ parse[p].pc \in {"decode", "flushed"}
    /\ extract' = {}
    /\ Fail
    /\ Free(p)
    /\ UNCHANGED match
    /\ ParserOnly

Ended(p, x) == (extract \ {p}) \cup (IF p \in extract THEN {x} ELSE {"left"})

Publish(p) ==
    /\ parse[p].pc = "flushed"
    /\ row' = [row EXCEPT !.status = "parsed", !.versioned = TRUE]
    /\ match' = IF match \in Publishable THEN "parsed" ELSE match
    /\ extract' = Ended(p, IF extract = {p} THEN "whole" ELSE "left")
    /\ Free(p)
    /\ ParserOnly

\* The parser process dies: what was flushed stays in ClickHouse.
ParserCrash ==
    /\ \E p \in Slot : parse[p].pc # "idle"
    /\ parse' = [p \in Slot |-> IdleParse]
    /\ extract' = (extract \ Slot)
                  \cup (IF extract \cap Slot = {} THEN {} ELSE {"left"})
    /\ UNCHANGED <<row, match>>
    /\ ParserOnly

-----------------------------------------------------------------------------

Next ==
    \/ SeqDetails
    \/ DetailsStart \/ DetailsLocator \/ DetailsVerdict \/ DetailsFound
    \/ DetailsAdopt \/ DetailsMiss \/ DetailsMark \/ DetailsThrow
    \/ DownloadStart \/ DownloadFound \/ DownloadAdopt \/ DownloadAsk
    \/ DownloadNotFound \/ DownloadRequeue \/ DownloadWrite \/ DownloadStored
    \/ DownloadMark \/ DownloadThrow
    \/ ArchiveList \/ ArchiveCopy \/ ArchiveMark \/ ArchiveDelete
    \/ ArchiveThrow \/ WorkerCrash
    \/ ReclaimStale \/ ParserCrash
    \/ \E p \in Slot : \/ Claim(p) \/ ParserNoObject(p) \/ ParserOpen(p)
                       \/ ParserFlush(p) \/ ParserFail(p) \/ Publish(p)

\* The parser polls for ever, and a parse ends, published or failed, unless the
\* process dies, which it does not do in every parse.
Fairness ==
    /\ WF_vars(ReclaimStale)
    /\ WF_vars(\E p \in Slot : Claim(p))
    /\ \A p \in Slot :
          SF_vars(ParserNoObject(p) \/ ParserFail(p) \/ Publish(p))

Spec == Init /\ [][Next]_vars /\ Fairness

-----------------------------------------------------------------------------
(* Properties *)

Row == [status : Status, at : Located, archived : BOOLEAN, url : Url,
        versioned : BOOLEAN, attempts : 0..Budget]

Job(pcs) == [pc : pcs, keep : BOOLEAN, at : Located, tries : 0..Budget]

DetailsPc == {"idle", "ask", "look", "adopt", "adopted", "refused"}
DownloadPc == {"idle", "look", "adopt", "fetch", "written", "requeue", "stored",
               "refused", "dropped"}
ArchivePc == {"idle", "copy", "mark", "delete"}

Parse == [pc : {"idle", "claimed", "decode", "flushed"}, at : Located,
          again : BOOLEAN]

TypeOK ==
    /\ row \in Row
    /\ match \in MatchPhase
    /\ store \subseteq {"hot", "cold"}
    /\ queued \in BOOLEAN
    /\ details \in Job(DetailsPc)
    /\ download \in Job(DownloadPc)
    /\ archive \in Job(ArchivePc)
    /\ parse \in [Slot -> Parse]
    /\ extract \subseteq Slot \cup {"whole", "left"}

phase == [m \in {0} |-> match]

Life == INSTANCE MatchLife WITH Match <- {0}

\* The jobs of the replay mark the match on the strength of what they read long
\* ago, and the parser publishes beside them; each mark is still a move of
\* MatchLife, the same that MatchPipeline implements: the two components write
\* one column and neither is in the way of the other.
MovesMatch == Life!Moving

\* Archiving never destroys the last copy of an object, whatever a details job
\* or a download does to the row between the listing and the delete
\* (archiveOne: exists, copy, markReplayArchived, delete).
LastCopySurvives == [][store # {} => store' # {}]_vars

\* archived_at is set only on a row that points at the cold store, and a row
\* that points there finds its object: a download or an adoption that races the
\* archive job must not leave archived_at on a hot locator, since the row would
\* then never be listed for archiving again.
ArchivedIsCold ==
    /\ row.archived => row.at = "cold"
    /\ row.at = "cold" => "cold" \in store

\* A row that waits for its download has one: the job runs, or is queued, or
\* ended with its last try or with its process.  Nothing else looks for
\* downloading rows, or for pending ones that were tried before, so the 404
\* branch must not leave one behind (it writes the row, then enqueues).
RetryNeverOrphaned ==
    (\/ row.status = "downloading"
     \/ row.status = "pending" /\ row.attempts > 0)
    => download # Idle \/ queued

\* A stored replay does not wait for the parser, or stay claimed by it, for
\* ever: parser restarts, stale claims and adoptions notwithstanding, the row
\* gets its verdict, or a download that saw no object took it over.
StoredIsSettled ==
    row.status = "stored" /\ row.at # "none"
        ~> row.status \notin {"stored", "parsing"}

\* replays.ts:185, "Parsed / in-flight parse already passed download; do not
\* demote to stored": an adoption leaves such a row alone.
AdoptKeepsParsed ==
    [][(DetailsAdopt \/ DownloadAdopt)
        => row.status \notin {"parsed", "parsing"}]_vars

\* replay-parser.md, "A failed attempt deletes the same match_id so MergeTree
\* does not keep a partial write": with no parse in flight, a parsed row has
\* the rows of one complete parse.
ParsedIsOneExtract ==
    row.status = "parsed" /\ (\A p \in Slot : parse[p].pc = "idle")
        => extract = {"whole"}

\* replay-parser.md, "A successful commit also sets matches.status = parsed":
\* with no worker job about to mark the match, both rows say so.
ParsedOnBothRows ==
    (/\ row.status = "parsed"
     /\ details = Idle
     /\ download \in {Idle, Dropped}
     /\ ~queued)
    => match = "parsed"
=============================================================================
