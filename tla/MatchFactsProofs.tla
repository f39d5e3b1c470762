------------------------- MODULE MatchFactsProofs -------------------------
(***************************************************************************)
(* Safety of MatchFacts for every set of workers and every number of       *)
(* scoreboards.                                                            *)
(*                                                                         *)
(* PostgameIsKept is not inductive alone: what a transaction read at its   *)
(* start has to hold still when it writes (FillRead), which is so because  *)
(* the rows of teams and series keep the transactions apart (Apart).       *)
(* TicksHaveMatch needs what a remembered digest says (Remembered).        *)
(***************************************************************************)
EXTENDS MatchFacts, TLAPS

Open(s) == record[s].pc = "open"

\* With named teams or series, at most one transaction is open.
Apart ==
    named => /\ \A s \in Source : Open(s) => poll.pc # "open"
             /\ \A s, t \in Source : Open(s) /\ Open(t) => s = t

\* No post-game facts have come since fillOnly was read as false.
FillRead ==
    named /\ (row.seq \/ row.gc) =>
        /\ poll.pc = "open" /\ poll.changed => poll.fill
        /\ \A s \in Source : Open(s) => record[s].fill

\* A match comes from a scoreboard, and its stamps with its row.
Fresh ==
    /\ shown \/ row.phase # "none" \/ poll.pc = "open" => feed # Empty
    /\ row.phase = "none" => ~row.seq /\ ~row.gc
    /\ \A s \in Source : Open(s) => row.phase # "none"

Known == row.phase # "none" \/ lost # {}

\* A digest is remembered of a match that is there, or was rolled back.
Remembered ==
    /\ \A w \in Worker : hashes[w] # Empty => Known
    /\ poll.pc = "open" /\ ~poll.changed => Known

TypeInv == TypeOK /\ Fresh

IInv == TypeInv /\ Apart /\ FillRead /\ Remembered /\ TicksHaveMatch

-----------------------------------------------------------------------------
(* What one write does *)

RowType == [phase : {"none", "live", "ended", "kept"}, seq : BOOLEAN,
            gc : BOOLEAN, kills : Value, damage : Value]

FactsType == [kills : Value \ {Empty}, damage : Value]

DraftType == [of : Value, full : BOOLEAN, clock : BOOLEAN]

Columns == {"kills", "damage"}

\* takePlayerCol keeps what is there, if it may only fill.
LEMMA ColumnTaken ==
    ASSUME NEW old \in Value, NEW new \in Value, NEW fillOnly \in BOOLEAN
    PROVE  /\ takePlayerCol(old, new, fillOnly) \in Value
           /\ new # Empty => takePlayerCol(old, new, fillOnly) # Empty
           /\ fillOnly /\ old # Empty => takePlayerCol(old, new, fillOnly) = old
  BY DEF takePlayerCol

\* w is r with a source's columns written over it, or filled in.
WrittenOver(w, r, fillOnly) ==
    /\ w \in RowType
    /\ w.kills # Empty
    /\ w.phase = r.phase /\ w.seq = r.seq /\ w.gc = r.gc
    /\ fillOnly => \A c \in Columns : r[c] # Empty => w[c] = r[c]

LEMMA PlayersWritten ==
    ASSUME NEW r \in RowType, NEW facts \in FactsType, NEW fillOnly \in BOOLEAN
    PROVE  WrittenOver(upsertMatchPlayers(r, facts, fillOnly), r, fillOnly)
  <1> DEFINE w == upsertMatchPlayers(r, facts, fillOnly)
             k == takePlayerCol(r.kills, facts.kills, fillOnly)
             d == takePlayerCol(r.damage, facts.damage, fillOnly)
  <1>1. /\ r.kills \in Value /\ facts.kills \in Value /\ facts.kills # Empty
        /\ r.damage \in Value /\ facts.damage \in Value
    BY DEF RowType, FactsType
  <1>2. /\ k \in Value /\ k # Empty
        /\ fillOnly /\ r.kills # Empty => k = r.kills
    BY <1>1, ColumnTaken
  <1>3. /\ d \in Value
        /\ fillOnly /\ r.damage # Empty => d = r.damage
    BY <1>1, ColumnTaken
  <1>4. w = [r EXCEPT !.kills = k, !.damage = d]
    BY DEF upsertMatchPlayers
  <1> HIDE DEF k, d, w
  <1>5. WrittenOver(w, r, fillOnly)
    BY <1>2, <1>3, <1>4 DEF WrittenOver, RowType, Columns
  <1> QED
    BY <1>5 DEF w

LEMMA SightingWritten ==
    ASSUME NEW r \in RowType
    PROVE  /\ Sighted(r) \in RowType
           /\ Sighted(r).phase # "none"
           /\ Sighted(r).seq = r.seq /\ Sighted(r).gc = r.gc
           /\ \A c \in Columns : Sighted(r)[c] = r[c]
  BY DEF Sighted, RowType, Columns

LEMMA FactsWritten ==
    ASSUME NEW r \in RowType, NEW s \in Source
    PROVE  LET w == saveMatchFacts(r, s)
           IN  /\ w \in RowType
               /\ w.phase # "none"
               /\ w.seq \/ w.gc
               /\ \A c \in Columns : w[c] = r[c]
  BY DEF saveMatchFacts, RowType, Source, Columns

LEMMA DraftWritten ==
    ASSUME NEW d \in DraftType, NEW new \in DraftType, NEW fillOnly \in BOOLEAN
    PROVE  /\ stampDraftClocks(d, new) \in DraftType
           /\ d.clock => stampDraftClocks(d, new) = d
           /\ replaceMatchDraft(d, new, fillOnly) \in DraftType
           /\ d.full /\ d.clock => replaceMatchDraft(d, new, fillOnly) = d
  BY DEF replaceMatchDraft, stampDraftClocks, DraftType

\* What the sources say is facts and a draft, and never without kills.
LEMMA SourcesTyped ==
    /\ \A v \in Version : LivePlayer(v) \in FactsType /\ LiveDraft(v) \in DraftType
    /\ \A s \in Source : extractPlayers(s) \subseteq FactsType
    /\ \A s \in Source, picks \in BOOLEAN : extractDraft(s, picks) \in DraftType
    /\ ParsedDraft \subseteq DraftType
  <1> USE MatchFactsAssumption
      DEF MatchFactsAssumption, Version, Value, Empty, Replay, FactsType, DraftType
  <1>1. \A v \in Version : LivePlayer(v) \in FactsType /\ LiveDraft(v) \in DraftType
    BY DEF LivePlayer, LiveDraft
  <1>2. \A s \in Source : ValueOf(s) \in Value \ {Empty}
    BY DEF ValueOf
  <1>3. \A s \in Source : extractPlayers(s) \subseteq FactsType
    BY <1>2 DEF extractPlayers
  <1>4. \A s \in Source, picks \in BOOLEAN : extractDraft(s, picks) \in DraftType
    BY <1>2 DEF extractDraft, NoDraft
  <1>5. ASSUME NEW new \in ParsedDraft PROVE new \in DraftType
    <2>1. PICK f \in BOOLEAN : new = [of |-> Replay, full |-> f, clock |-> TRUE]
      BY DEF ParsedDraft
    <2>2. Replay \in Value
      OBVIOUS
    <2> QED
      BY <2>1, <2>2 DEF DraftType
  <1> QED
    BY <1>1, <1>3, <1>4, <1>5

-----------------------------------------------------------------------------
(* Types *)

PollType == {Idle} \cup [pc : {"open"}, by : Worker, v : Version,
                         changed : BOOLEAN, fill : BOOLEAN]

RecordType == {Idle} \cup [pc : {"open"}, picks : BOOLEAN, fill : BOOLEAN]

LEMMA InitTypeInv == Init => TypeInv
  <1> SUFFICES ASSUME Init PROVE TypeInv
    OBVIOUS
  <1> USE MatchFactsAssumption DEF MatchFactsAssumption, Init
  <1>1. 0 \in Value /\ Empty = 0
    BY DEF Value, Empty, Replay
  <1>2. Fresh
    BY DEF Fresh, Open, Idle
  <1>3. draft \in [of : Value, full : BOOLEAN, clock : BOOLEAN]
    BY <1>1 DEF NoDraft
  <1>4. /\ row \in [phase : {"none", "live", "ended", "kept"}, seq : BOOLEAN,
                     gc : BOOLEAN, kills : Value, damage : Value]
        /\ (row.phase = "none") = (row.kills = Empty)
    BY <1>1
  <1>5. hashes \in [Worker -> 0..Versions] /\ feed \in 0..Versions
    BY DEF Empty
  <1> QED
    BY <1>2, <1>3, <1>4, <1>5 DEF TypeInv, TypeOK

\* A value that is there stays.
Kept(c) == row[c] # Empty => row'[c] = row[c]

LEMMA PollWrites ==
    ASSUME TypeInv, PollCommits
    PROVE  /\ row' \in RowType /\ draft' \in DraftType
           /\ row'.phase = "none" => row' = row /\ ~poll.changed
           /\ row'.phase # "none" => row'.kills # Empty
           /\ row'.seq = row.seq /\ row'.gc = row.gc
           /\ ~poll.changed \/ poll.fill => \A c \in Columns : Kept(c)
           /\ draft.full /\ draft.clock => draft' = draft
           /\ row.phase # "none" => row'.phase # "none"
  <1> USE DEF TypeInv, TypeOK
  <1>1. row \in RowType /\ draft \in DraftType
    BY DEF RowType, DraftType
  <1>2. poll \in [pc : {"open"}, by : Worker, v : Version,
                  changed : BOOLEAN, fill : BOOLEAN]
    BY DEF PollCommits, Idle
  <1>3. CASE poll.changed
    <2>1. /\ row' = upsertMatchPlayers(Sighted(row), LivePlayer(poll.v), poll.fill)
          /\ draft' = replaceMatchDraft(draft, LiveDraft(poll.v), poll.fill)
      BY <1>3 DEF PollCommits
    <2>2. /\ LivePlayer(poll.v) \in FactsType /\ LiveDraft(poll.v) \in DraftType
          /\ poll.fill \in BOOLEAN
      BY <1>2, SourcesTyped
    <2>3. /\ row' \in RowType /\ row'.kills # Empty
          /\ row'.phase = Sighted(row).phase
          /\ row'.seq = Sighted(row).seq /\ row'.gc = Sighted(row).gc
          /\ poll.fill => \A c \in Columns :
                 Sighted(row)[c] # Empty => row'[c] = Sighted(row)[c]
      <3>1. WrittenOver(row', Sighted(row), poll.fill)
        BY <1>1, <2>1, <2>2, SightingWritten, PlayersWritten
      <3> QED
        BY <3>1 DEF WrittenOver
    <2>4. draft' \in DraftType /\ (draft.full /\ draft.clock => draft' = draft)
      BY <1>1, <2>1, <2>2, DraftWritten
    <2> QED
      BY <1>1, <1>3, <2>3, <2>4, SightingWritten DEF Kept
  <1>4. CASE ~poll.changed
    <2>1. row' = noteLiveFeedSeen(row) /\ draft' = draft
      BY <1>4 DEF PollCommits
    <2>2. CASE row.phase = "none"
      BY <1>1, <1>4, <2>1, <2>2 DEF noteLiveFeedSeen, Kept, RowType, DraftType
    <2>3. CASE row.phase # "none"
      <3>1. row' = Sighted(row) /\ row.kills # Empty
        BY <2>1, <2>3 DEF noteLiveFeedSeen
      <3>2. \A c \in Columns : row'[c] = row[c]
        BY <1>1, <3>1, SightingWritten
      <3>3. row'.kills = row.kills
        BY <3>2 DEF Columns
      <3> QED
        BY <1>1, <2>1, <3>1, <3>2, <3>3, SightingWritten DEF Kept
    <2> QED
      BY <2>2, <2>3
  <1> QED
    BY <1>2, <1>3, <1>4

LEMMA RealtimeKeeps ==
    ASSUME TypeInv, RealtimeWrites
    PROVE  /\ row' \in RowType /\ draft' \in DraftType
           /\ row'.phase # "none" /\ row'.kills # Empty
           /\ row'.seq = row.seq /\ row'.gc = row.gc
           /\ row.seq \/ row.gc => \A c \in Columns : Kept(c)
           /\ draft.full /\ draft.clock => draft' = draft
  <1> USE DEF TypeInv, TypeOK
  <1>1. row \in RowType /\ draft \in DraftType
    BY DEF RowType, DraftType
  <1> DEFINE fillOnly == matchPostgameWritten(row)
  <1>2. /\ row' = upsertMatchPlayers(Sighted(row), LivePlayer(feed), fillOnly)
        /\ draft' = replaceMatchDraft(draft, LiveDraft(feed), fillOnly)
    BY DEF RealtimeWrites
  <1>3. feed \in Version
    BY MatchFactsAssumption
       DEF MatchFactsAssumption, RealtimeWrites, Fresh, Version, Empty
  <1>4. /\ LivePlayer(feed) \in FactsType /\ LiveDraft(feed) \in DraftType
        /\ fillOnly \in BOOLEAN /\ fillOnly = (row.seq \/ row.gc)
    BY <1>1, <1>3, SourcesTyped DEF matchPostgameWritten, RowType
  <1> HIDE DEF fillOnly
  <1>5. /\ row' \in RowType /\ row'.kills # Empty
        /\ row'.phase = Sighted(row).phase
        /\ row'.seq = Sighted(row).seq /\ row'.gc = Sighted(row).gc
        /\ fillOnly => \A c \in Columns :
               Sighted(row)[c] # Empty => row'[c] = Sighted(row)[c]
    <2>1. WrittenOver(row', Sighted(row), fillOnly)
      BY <1>1, <1>2, <1>4, SightingWritten, PlayersWritten
    <2> QED
      BY <2>1 DEF WrittenOver
  <1>6. draft' \in DraftType /\ (draft.full /\ draft.clock => draft' = draft)
    BY <1>1, <1>2, <1>4, DraftWritten
  <1> QED
    BY <1>1, <1>4, <1>5, <1>6, SightingWritten DEF Kept

\* The two transactions of persistMatchRecord.
LEMMA RecordWrites ==
    ASSUME TypeInv,
           NEW s \in Source, NEW fillOnly \in BOOLEAN, NEW picks \in BOOLEAN,
           NEW r \in RowType, \A c \in Columns : r[c] = row[c],
           Persisted(r, s, fillOnly, picks)
    PROVE  /\ row' \in RowType /\ draft' \in DraftType
           /\ row'.phase # "none" /\ row'.kills # Empty
           /\ fillOnly => \A c \in Columns : Kept(c)
           /\ draft.full /\ draft.clock => draft' = draft
  <1> USE DEF TypeInv, TypeOK
  <1>1. draft \in DraftType
    BY DEF DraftType
  <1> DEFINE saved == saveMatchFacts(r, s)
  <1>2. PICK facts \in extractPlayers(s) :
            row' = upsertMatchPlayers(saved, facts, fillOnly)
    BY DEF Persisted
  <1>3. draft' = replaceMatchDraft(draft, extractDraft(s, picks), fillOnly)
    BY DEF Persisted
  <1>4. facts \in FactsType /\ extractDraft(s, picks) \in DraftType
    BY SourcesTyped
  <1>5. /\ saved \in RowType /\ saved.phase # "none"
        /\ \A c \in Columns : saved[c] = row[c]
    BY FactsWritten
  <1> HIDE DEF saved
  <1>6. /\ row' \in RowType /\ row'.kills # Empty /\ row'.phase = saved.phase
        /\ fillOnly => \A c \in Columns : saved[c] # Empty => row'[c] = saved[c]
    <2>1. WrittenOver(row', saved, fillOnly)
      BY <1>2, <1>4, <1>5, PlayersWritten
    <2> QED
      BY <2>1 DEF WrittenOver
  <1>7. draft' \in DraftType /\ (draft.full /\ draft.clock => draft' = draft)
    BY <1>1, <1>3, <1>4, DraftWritten
  <1> QED
    BY <1>5, <1>6, <1>7 DEF Kept

-----------------------------------------------------------------------------
(* Steps that leave the match and its draft alone *)

LEMMA QuietTypes ==
    ASSUME TypeInv, UNCHANGED stored,
           \/ Play \/ Flicker \/ PollRollsBack
           \/ \E w \in Worker : PollReads(w) \/ WorkerDies(w)
           \/ \E s \in Source : PersistReads(s) \/ PersistRollsBack(s)
    PROVE  TypeInv'
  <1> USE MatchFactsAssumption DEF MatchFactsAssumption, TypeInv, stored, env
  <1>0. feed # Empty => feed \in Version
    BY DEF TypeOK, Version, Empty
  <1>1. CASE Play
    BY <1>1 DEF Play, TypeOK, Fresh, Open, Empty
  <1>2. CASE Flicker
    BY <1>2 DEF Flicker, TypeOK, Fresh, Open
  <1>3. CASE PollRollsBack
    <2>1. poll \in [pc : {"open"}, by : Worker, v : Version,
                    changed : BOOLEAN, fill : BOOLEAN]
      BY <1>3 DEF PollRollsBack, TypeOK, Idle
    <2>2. poll.v \in Version /\ poll.v \in 0..Versions /\ poll.by \in Worker
      BY <2>1 DEF Version
    <2>3. \/ hashes' = hashes /\ lost' = lost
          \/ /\ hashes' = [hashes EXCEPT ![poll.by] = poll.v]
             /\ lost' = lost \cup {poll.v}
      BY <1>3 DEF PollRollsBack
    <2>4. hashes' \in [Worker -> 0..Versions] /\ lost' \subseteq Version
      BY <2>2, <2>3 DEF TypeOK
    <2> QED
      BY <1>3, <2>4 DEF PollRollsBack, TypeOK, Fresh, Open
  <1>4. CASE \E w \in Worker : PollReads(w)
    <2>1. PICK w \in Worker : PollReads(w)
      BY <1>4
    <2>2. poll' \in [pc : {"open"}, by : Worker, v : Version,
                     changed : BOOLEAN, fill : BOOLEAN]
      BY <1>0, <2>1
         DEF PollReads, TypeOK, Fresh, Changed, matchPostgameWritten
    <2> QED
      BY <2>1, <2>2 DEF PollReads, TypeOK, Fresh, Open
  <1>5. CASE \E w \in Worker : WorkerDies(w)
    <2>1. PICK w \in Worker : WorkerDies(w)
      BY <1>5
    <2>2. hashes' \in [Worker -> 0..Versions] /\ (poll' = poll \/ poll' = Idle)
      BY <2>1 DEF WorkerDies, TypeOK, Empty
    <2> QED
      BY <2>1, <2>2 DEF WorkerDies, TypeOK, Fresh, Open
  <1>6. CASE \E s \in Source : PersistReads(s)
    <2>1. PICK s \in Source : PersistReads(s)
      BY <1>6
    <2>2. PICK picks \in BOOLEAN :
              record' = [record EXCEPT ![s] = [pc |-> "open", picks |-> picks,
                                               fill |-> matchPostgameWritten(row)]]
      BY <2>1 DEF PersistReads
    <2>3. [pc |-> "open", picks |-> picks, fill |-> matchPostgameWritten(row)]
              \in [pc : {"open"}, picks : BOOLEAN, fill : BOOLEAN]
      BY DEF TypeOK, matchPostgameWritten
    <2>4. record' \in [Source -> {Idle} \cup
                          [pc : {"open"}, picks : BOOLEAN, fill : BOOLEAN]]
      BY <2>2, <2>3 DEF TypeOK
    <2> QED
      BY <2>1, <2>4 DEF PersistReads, PersistOnly, TypeOK, Fresh, Open
  <1>7. CASE \E s \in Source : PersistRollsBack(s)
    <2>1. PICK s \in Source : PersistRollsBack(s)
      BY <1>7
    <2>2. \A t \in Source : record'[t] = record[t] \/ record'[t] = Idle
      BY <2>1 DEF PersistRollsBack, TypeOK
    <2>3. record' \in [Source -> {Idle} \cup
                          [pc : {"open"}, picks : BOOLEAN, fill : BOOLEAN]]
      BY <2>1 DEF PersistRollsBack, TypeOK
    <2> QED
      BY <2>1, <2>2, <2>3 DEF PersistRollsBack, PersistOnly, TypeOK, Fresh, Open, Idle
  <1> QED
    BY <1>1, <1>2, <1>3, <1>4, <1>5, <1>6, <1>7

\* The rest of the invariant: who is open, and what he read.
LEMMA QuietRest ==
    ASSUME IInv, UNCHANGED stored,
           \/ Play \/ Flicker \/ PollRollsBack
           \/ \E w \in Worker : PollReads(w) \/ WorkerDies(w)
           \/ \E s \in Source : PersistReads(s) \/ PersistRollsBack(s)
    PROVE  Apart' /\ FillRead' /\ Remembered' /\ TicksHaveMatch'
  <1> USE DEF IInv, TypeInv, stored, env
  <1> USE DEF Apart, FillRead, Remembered, TicksHaveMatch, Known, Open
  <1>1. CASE Play \/ Flicker
    BY <1>1 DEF Play, Flicker
  <1>2. CASE PollRollsBack
    <2>1. lost \subseteq lost' /\ poll' = Idle
      BY <1>2 DEF PollRollsBack
    <2>2. \A w \in Worker : hashes'[w] = hashes[w] \/ lost' # {}
      BY <1>2 DEF PollRollsBack
    <2> QED
      BY <1>2, <2>1, <2>2 DEF PollRollsBack, Idle
  <1>3. CASE \E w \in Worker : PollReads(w)
    <2>1. PICK w \in Worker : PollReads(w)
      BY <1>3
    <2>2. /\ poll'.pc = "open" /\ poll'.changed = Changed(w, feed)
          /\ poll'.fill = (Changed(w, feed) /\ matchPostgameWritten(row))
      BY <2>1 DEF PollReads
    <2>3. poll'.changed /\ (row.seq \/ row.gc) => poll'.fill
      BY <2>2 DEF matchPostgameWritten
    <2>4. ~poll'.changed => hashes[w] # Empty
      BY <2>1, <2>2 DEF Changed, PollReads, Fresh
    <2> QED
      BY <2>1, <2>3, <2>4 DEF PollReads, Free
  <1>4. CASE \E w \in Worker : WorkerDies(w)
    <2>1. PICK w \in Worker : WorkerDies(w)
      BY <1>4
    <2>2. /\ poll' = poll \/ poll' = Idle
          /\ \A u \in Worker : hashes'[u] \in {hashes[u], Empty}
      BY <2>1 DEF WorkerDies, TypeOK
    <2> QED
      BY <2>1, <2>2 DEF WorkerDies, Idle
  <1>5. CASE \E s \in Source : PersistReads(s)
    <2>1. PICK s \in Source : PersistReads(s)
      BY <1>5
    <2>2. /\ \A t \in Source \ {s} : record'[t] = record[t]
          /\ record'[s].fill = matchPostgameWritten(row)
      BY <2>1 DEF PersistReads, TypeOK
    <2>3. \A t \in Source : record'[t].pc = "open" => record'[t] = record[t] \/ t = s
      BY <2>2
    <2>4. row.seq \/ row.gc => record'[s].fill
      BY <2>2 DEF matchPostgameWritten
    <2> QED
      BY <2>1, <2>2, <2>3, <2>4 DEF PersistReads, PersistOnly, Free
  <1>6. CASE \E s \in Source : PersistRollsBack(s)
    <2>1. PICK s \in Source : PersistRollsBack(s)
      BY <1>6
    <2>2. \A t \in Source : record'[t] = record[t] \/ record'[t] = Idle
      BY <2>1 DEF PersistRollsBack, TypeOK
    <2> QED
      BY <2>1, <2>2 DEF PersistRollsBack, PersistOnly, Idle
  <1> QED
    BY <1>1, <1>2, <1>3, <1>4, <1>5, <1>6

-----------------------------------------------------------------------------
(* Steps that write *)

LEMMA PollCommitsKeeps == IInv /\ PollCommits => IInv'
  <1> SUFFICES ASSUME IInv, PollCommits PROVE IInv'
    OBVIOUS
  <1> USE DEF IInv, PollCommits, env
  <1>1. /\ row' \in RowType /\ draft' \in DraftType
        /\ row'.phase = "none" => row' = row /\ ~poll.changed
        /\ row'.phase # "none" => row'.kills # Empty
        /\ row'.seq = row.seq /\ row'.gc = row.gc
        /\ row.phase # "none" => row'.phase # "none"
    BY PollWrites
  <1>2. poll \in [pc : {"open"}, by : Worker, v : Version,
                  changed : BOOLEAN, fill : BOOLEAN]
    BY DEF TypeInv, TypeOK, Idle
  <1>3. hashes' \in [Worker -> 0..Versions] /\ ticks' \in BOOLEAN
    <2>1. poll.by \in Worker /\ poll.v \in 0..Versions
      BY <1>2, MatchFactsAssumption DEF MatchFactsAssumption, Version
    <2> QED
      BY <2>1 DEF TypeInv, TypeOK, insertLiveTicks
  <1>4. poll.changed => row'.phase # "none"
    BY <1>1
  <1>5. TypeOK'
    BY <1>1, <1>3 DEF TypeInv, TypeOK, RowType, DraftType
  <1>6. Fresh'
    <2>1. feed # Empty
      BY DEF TypeInv, Fresh
    <2> QED
      BY <1>1, <2>1 DEF TypeInv, Fresh, Open
  <1>7. Apart' /\ FillRead'
    BY <1>1 DEF Apart, FillRead, Open, Idle
  <1>8. Known => Known'
    BY <1>1 DEF Known
  <1>9. Known'
    BY <1>4, <1>8 DEF Remembered, Known
  <1>10. Remembered' /\ TicksHaveMatch'
    BY <1>9 DEF Remembered, TicksHaveMatch, Known, Idle
  <1> QED
    BY <1>5, <1>6, <1>7, <1>10 DEF TypeInv

LEMMA PollFinishesKeeps ==
    ASSUME IInv, NEW w \in Worker, PollFinishes(w)
    PROVE  IInv'
  <1> USE DEF IInv, PollFinishes, env
  <1>1. /\ row' \in RowType /\ row'.phase = "ended" /\ row'.kills = row.kills
        /\ row'.seq = row.seq /\ row'.gc = row.gc
    BY DEF TypeInv, TypeOK, RowType
  <1>2. hashes' \in [Worker -> 0..Versions]
    BY MatchFactsAssumption DEF MatchFactsAssumption, TypeInv, TypeOK, Empty
  <1>3. TypeOK' /\ Fresh'
    BY <1>1, <1>2 DEF TypeInv, TypeOK, Fresh, RowType, Open
  <1>4. Apart' /\ FillRead'
    BY <1>1 DEF Apart, FillRead, Open
  <1>5. Remembered' /\ TicksHaveMatch'
    BY <1>1 DEF Remembered, TicksHaveMatch, Known
  <1> QED
    BY <1>3, <1>4, <1>5 DEF TypeInv

LEMMA RealtimeWritesKeeps == IInv /\ RealtimeWrites => IInv'
  <1> SUFFICES ASSUME IInv, RealtimeWrites PROVE IInv'
    OBVIOUS
  <1> USE DEF IInv, env
  <1>1. /\ row' \in RowType /\ draft' \in DraftType
        /\ row'.phase # "none" /\ row'.kills # Empty
        /\ row'.seq = row.seq /\ row'.gc = row.gc
    BY RealtimeKeeps
  <1>2. /\ ticks' \in BOOLEAN /\ row.phase # "none"
        /\ UNCHANGED <<named, feed, shown, hashes, poll, record, lost>>
    BY DEF RealtimeWrites, insertLiveTicks, TypeInv, TypeOK
  <1>3. TypeOK' /\ Fresh'
    BY <1>1, <1>2 DEF TypeInv, TypeOK, Fresh, RowType, DraftType, Open
  <1>4. Apart' /\ FillRead'
    BY <1>1, <1>2 DEF Apart, FillRead, Open
  <1>5. Remembered' /\ TicksHaveMatch'
    BY <1>1, <1>2 DEF Remembered, TicksHaveMatch, Known
  <1> QED
    BY <1>3, <1>4, <1>5 DEF TypeInv

LEMMA PublishKeeps == IInv /\ Publish => IInv'
  <1> SUFFICES ASSUME IInv, Publish PROVE IInv'
    OBVIOUS
  <1> USE DEF IInv, env
  <1>1. /\ row' \in RowType /\ row'.phase = "kept" /\ row'.kills = row.kills
        /\ row'.seq = row.seq /\ row'.gc = row.gc
        /\ row.phase # "none"
    BY DEF Publish, TypeInv, TypeOK, RowType
  <1>2. draft' \in DraftType
    BY SourcesTyped, DraftWritten DEF Publish, TypeInv, TypeOK, DraftType
  <1>3. UNCHANGED <<named, feed, shown, ticks, hashes, poll, record, lost>>
    BY DEF Publish
  <1>4. TypeOK' /\ Fresh'
    BY <1>1, <1>2, <1>3 DEF TypeInv, TypeOK, Fresh, RowType, DraftType, Open
  <1>5. Apart' /\ FillRead'
    BY <1>1, <1>3 DEF Apart, FillRead, Open
  <1>6. Remembered' /\ TicksHaveMatch'
    BY <1>1, <1>3 DEF Remembered, TicksHaveMatch, Known
  <1> QED
    BY <1>4, <1>5, <1>6 DEF TypeInv

\* What a details job leaves behind: nobody else was open, or nothing is named.
LEMMA PersistedKeeps ==
    ASSUME IInv, PersistOnly, row' \in RowType, draft' \in DraftType,
           row'.phase # "none", row'.kills # Empty, feed # Empty,
           named => poll.pc # "open",
           named => \A s \in Source : record'[s].pc # "open",
           record' \in [Source -> RecordType]
    PROVE  IInv'
  <1> USE DEF IInv, PersistOnly, env
  <1>1. TypeOK' /\ Fresh'
    BY DEF TypeInv, TypeOK, Fresh, RowType, DraftType, RecordType
  <1>2. Apart' /\ FillRead'
    BY DEF Apart, FillRead, Open
  <1>3. Remembered' /\ TicksHaveMatch'
    BY DEF Remembered, TicksHaveMatch, Known
  <1> QED
    BY <1>1, <1>2, <1>3 DEF TypeInv

LEMMA UndiscoveredWrites ==
    ASSUME TypeInv, NEW picks \in BOOLEAN, PersistUndiscovered(picks)
    PROVE  /\ row' \in RowType /\ draft' \in DraftType
           /\ row'.phase # "none" /\ row'.kills # Empty
           /\ draft.full /\ draft.clock => draft' = draft
  <1> DEFINE r == saveMatchFacts(row, "seq")
             fillOnly == matchPostgameWritten(r)
  <1>0. "seq" \in Source
    BY DEF Source
  <1>1. row \in RowType
    BY DEF TypeInv, TypeOK, RowType
  <1>2. r \in RowType /\ \A c \in Columns : r[c] = row[c]
    BY <1>0, <1>1, FactsWritten
  <1>3. fillOnly \in BOOLEAN
    BY <1>2 DEF matchPostgameWritten, RowType
  <1>4. Persisted(r, "seq", fillOnly, picks)
    BY DEF PersistUndiscovered
  <1> HIDE DEF r, fillOnly
  <1> QED
    BY <1>0, <1>2, <1>3, <1>4, RecordWrites

LEMMA CommitWrites ==
    ASSUME TypeInv, NEW s \in Source, PersistCommits(s)
    PROVE  /\ row' \in RowType /\ draft' \in DraftType
           /\ row'.phase # "none" /\ row'.kills # Empty
           /\ record[s].fill => \A c \in Columns : Kept(c)
           /\ draft.full /\ draft.clock => draft' = draft
           /\ record' = [record EXCEPT ![s] = Idle]
  <1>1. row \in RowType
    BY DEF TypeInv, TypeOK, RowType
  <1>2. record[s].fill \in BOOLEAN /\ record[s].picks \in BOOLEAN
    BY DEF TypeInv, TypeOK, PersistCommits, Idle
  <1>3. Persisted(row, s, record[s].fill, record[s].picks)
    BY DEF PersistCommits
  <1> QED
    BY <1>1, <1>2, <1>3, RecordWrites DEF PersistCommits

\* Whoever finds no row is alone, if the teams or the series are named.
LEMMA UndiscoveredKeeps ==
    ASSUME IInv, NEW picks \in BOOLEAN, PersistUndiscovered(picks)
    PROVE  IInv'
  <1>1. /\ row' \in RowType /\ draft' \in DraftType
        /\ row'.phase # "none" /\ row'.kills # Empty
    BY UndiscoveredWrites DEF IInv
  <1>2. /\ PersistOnly /\ record' = record
        /\ named => poll.pc # "open" /\ \A t \in Source : record[t].pc # "open"
    BY DEF PersistUndiscovered, Free
  <1>3. feed # Empty /\ record \in [Source -> RecordType]
    BY MatchFactsAssumption
       DEF MatchFactsAssumption, PersistUndiscovered, Empty, IInv, TypeInv, TypeOK, RecordType
  <1> QED
    BY <1>1, <1>2, <1>3, PersistedKeeps

LEMMA CommitKeeps ==
    ASSUME IInv, NEW s \in Source, PersistCommits(s)
    PROVE  IInv'
  <1>1. /\ row' \in RowType /\ draft' \in DraftType
        /\ row'.phase # "none" /\ row'.kills # Empty
        /\ record' = [record EXCEPT ![s] = Idle]
    BY CommitWrites DEF IInv
  <1>2. record \in [Source -> RecordType]
    BY DEF IInv, TypeInv, TypeOK, RecordType
  <1>3. /\ record' \in [Source -> RecordType]
        /\ record'[s].pc # "open"
        /\ \A t \in Source \ {s} : record'[t] = record[t]
    BY <1>1, <1>2 DEF RecordType, Idle
  <1>4. PersistOnly /\ Open(s)
    BY DEF PersistCommits, Open
  <1>5. named => poll.pc # "open" /\ \A t \in Source : record'[t].pc # "open"
    BY <1>3, <1>4 DEF IInv, Apart, Open
  <1>6. feed # Empty
    BY <1>4 DEF IInv, TypeInv, Fresh
  <1> QED
    BY <1>1, <1>3, <1>4, <1>5, <1>6, PersistedKeeps

-----------------------------------------------------------------------------
(* Every step *)

\* One step of Next, named: a step that writes, or one that does not.
LEMMA StepKinds ==
    ASSUME Next
    PROVE  \/ PollCommits \/ RealtimeWrites \/ Publish
           \/ \E w \in Worker : PollFinishes(w)
           \/ \E picks \in BOOLEAN : PersistUndiscovered(picks)
           \/ \E s \in Source : PersistCommits(s)
           \/ /\ UNCHANGED stored
              /\ \/ Play \/ Flicker \/ PollRollsBack
                 \/ \E w \in Worker : PollReads(w) \/ WorkerDies(w)
                 \/ \E s \in Source : PersistReads(s) \/ PersistRollsBack(s)
  <1>1. ASSUME \/ Play \/ Flicker \/ PollRollsBack
               \/ \E w \in Worker : PollReads(w) \/ WorkerDies(w)
               \/ \E s \in Source : PersistReads(s) \/ PersistRollsBack(s)
        PROVE  UNCHANGED stored
    BY <1>1 DEF Play, Flicker, PollRollsBack, PollReads, WorkerDies, PersistReads,
                PersistRollsBack
  <1> QED
    BY <1>1 DEF Next

LEMMA InitIInv == Init => IInv
  <1> SUFFICES ASSUME Init PROVE IInv
    OBVIOUS
  <1>1. TypeInv
    BY InitTypeInv
  <1>2. Apart /\ FillRead /\ Remembered /\ TicksHaveMatch
    BY DEF Init, Idle, Apart, FillRead, Remembered, TicksHaveMatch, Known, Open
  <1> QED
    BY <1>1, <1>2 DEF IInv

LEMMA StepIInv == IInv /\ [Next]_vars => IInv'
  <1> SUFFICES ASSUME IInv, [Next]_vars PROVE IInv'
    OBVIOUS
  <1>1. CASE UNCHANGED vars
    BY <1>1 DEF vars, env, stored, IInv, TypeInv, TypeOK, Fresh, Apart, FillRead,
                Remembered, TicksHaveMatch, Known, Open
  <1>2. CASE PollCommits
    BY <1>2, PollCommitsKeeps
  <1>3. CASE RealtimeWrites
    BY <1>3, RealtimeWritesKeeps
  <1>4. CASE Publish
    BY <1>4, PublishKeeps
  <1>5. CASE \E w \in Worker : PollFinishes(w)
    BY <1>5, PollFinishesKeeps
  <1>6. CASE \E picks \in BOOLEAN : PersistUndiscovered(picks)
    BY <1>6, UndiscoveredKeeps
  <1>7. CASE \E s \in Source : PersistCommits(s)
    BY <1>7, CommitKeeps
  <1>8. CASE /\ UNCHANGED stored
             /\ \/ Play \/ Flicker \/ PollRollsBack
                \/ \E w \in Worker : PollReads(w) \/ WorkerDies(w)
                \/ \E s \in Source : PersistReads(s) \/ PersistRollsBack(s)
    <2>1. TypeInv'
      BY <1>8, QuietTypes DEF IInv
    <2>2. Apart' /\ FillRead' /\ Remembered' /\ TicksHaveMatch'
      BY <1>8, QuietRest
    <2> QED
      BY <2>1, <2>2 DEF IInv
  <1> QED
    BY <1>1, <1>2, <1>3, <1>4, <1>5, <1>6, <1>7, <1>8, StepKinds

\* The invariant that the theorems below rest on holds in every state, for every
\* set of workers and every number of scoreboards.
THEOREM FactsInvariance == Spec => []IInv
  <1>1. Init => IInv
    BY InitIInv
  <1>2. IInv /\ [Next]_vars => IInv'
    BY StepIInv
  <1> QED
    BY <1>1, <1>2, PTL DEF Spec

\* Every write of a poll, a details job or the parser leaves a match, a player
\* and a draft of their types, and a match is there iff a player is.
THEOREM FactsTypeCorrect == Spec => []TypeOK
  <1>1. IInv => TypeOK
    BY DEF IInv, TypeInv
  <1> QED
    BY <1>1, FactsInvariance, PTL

\* Ticks in ClickHouse are of a match in Postgres, unless a poll was rolled back
\* after it had remembered the match, for insertLiveTicks waits for the commit.
THEOREM TicksHaveTheirMatch == Spec => []TicksHaveMatch
  <1>1. IInv => TicksHaveMatch
    BY DEF IInv
  <1> QED
    BY <1>1, FactsInvariance, PTL

\* One column of one step: what a post-game source wrote stays.
LEMMA PostgameStep ==
    ASSUME IInv, Next, NEW c \in Columns,
           named, row.seq \/ row.gc, row[c] # Empty
    PROVE  row'[c] = row[c]
  <1> USE DEF Kept
  <1>1. row \in RowType /\ row.phase # "none"
    BY DEF IInv, TypeInv, TypeOK, Fresh, RowType
  <1>2. CASE PollCommits
    <2>1. ~poll.changed \/ poll.fill
      BY <1>2 DEF IInv, FillRead, PollCommits
    <2> QED
      BY <1>2, <2>1, PollWrites DEF IInv
  <1>3. CASE RealtimeWrites
    BY <1>3, RealtimeKeeps DEF IInv
  <1>4. CASE Publish \/ \E w \in Worker : PollFinishes(w)
    BY <1>1, <1>4 DEF Publish, PollFinishes, RowType, Columns
  <1>5. CASE \E picks \in BOOLEAN : PersistUndiscovered(picks)
    BY <1>1, <1>5 DEF PersistUndiscovered
  <1>6. CASE \E s \in Source : PersistCommits(s)
    <2>1. PICK s \in Source : PersistCommits(s)
      BY <1>6
    <2>2. record[s].fill
      BY <2>1 DEF IInv, FillRead, Open, PersistCommits
    <2> QED
      BY <2>1, <2>2, CommitWrites DEF IInv
  <1>7. CASE UNCHANGED stored
    BY <1>7 DEF stored
  <1> QED
    BY <1>2, <1>3, <1>4, <1>5, <1>6, <1>7, StepKinds

\* What a post-game source wrote of a match whose teams or series are named is
\* never changed, though fillOnly is read before the row is locked.
THEOREM PostgameStays == Spec => PostgameIsKept
  <1>1. IInv /\ [Next]_vars =>
            [\A c \in {"kills", "damage"} :
                 named /\ (row.seq \/ row.gc) /\ row[c] # Empty
                     => row'[c] = row[c]]_vars
    BY PostgameStep DEF Columns
  <1> QED
    BY <1>1, FactsInvariance, PTL DEF Spec, PostgameIsKept

\* One step: a complete timed draft is not replaced.
LEMMA TimedDraftStep ==
    ASSUME IInv, Next, draft.full, draft.clock
    PROVE  draft' = draft
  <1>1. CASE PollCommits
    BY <1>1, PollWrites DEF IInv
  <1>2. CASE RealtimeWrites
    BY <1>2, RealtimeKeeps DEF IInv
  <1>3. CASE Publish
    <2>1. draft \in DraftType
      BY DEF IInv, TypeInv, TypeOK, DraftType
    <2>2. PICK new \in ParsedDraft : draft' = stampDraftClocks(draft, new)
      BY <1>3 DEF Publish
    <2> QED
      BY <2>1, <2>2, SourcesTyped, DraftWritten
  <1>4. CASE \E w \in Worker : PollFinishes(w)
    BY <1>4 DEF PollFinishes
  <1>5. CASE \E picks \in BOOLEAN : PersistUndiscovered(picks)
    BY <1>5, UndiscoveredWrites DEF IInv
  <1>6. CASE \E s \in Source : PersistCommits(s)
    BY <1>6, CommitWrites DEF IInv
  <1>7. CASE UNCHANGED stored
    BY <1>7 DEF stored
  <1> QED
    BY <1>1, <1>2, <1>3, <1>4, <1>5, <1>6, <1>7, StepKinds

\* A complete draft with clocks survives every later writer, live, post-game or
\* parser.
THEOREM TimedDraftStays == Spec => TimedDraftIsKept
  <1>1. IInv /\ [Next]_vars => [draft.full /\ draft.clock => draft' = draft]_vars
    BY TimedDraftStep
  <1> QED
    BY <1>1, FactsInvariance, PTL DEF Spec, TimedDraftIsKept
=============================================================================
