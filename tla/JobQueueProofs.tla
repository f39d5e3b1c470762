--------------------------- MODULE JobQueueProofs ---------------------------
(***************************************************************************)
(* Theorems about JobQueue, for any slots, settings, mixes of jobs and     *)
(* budgets.  That asked-for details stay alive (WantedIsAlive) is not      *)
(* inductive: a row that is alive may be locked by a run that is done, and *)
(* completing it deletes the row.  WantedIsCarried names what carries the  *)
(* request instead: a row that a slot can still take, or a run that has    *)
(* not come to its end.  It rests on the details always running on their   *)
(* named queue, so that a throw of their work is retried off the queue and *)
(* only that of a hop is graphile's.                                       *)
(***************************************************************************)
EXTENDS JobQueue, FiniteSetTheorems, TLAPS

-----------------------------------------------------------------------------
(* The invariant *)

Pc == {"start", "calling", "thrown", "hop", "done"}

Callers == {s \in Slots : run[s] # Idle /\ run[s].pc = "calling"}

\* A run of the details is queued from its start; one that throws without being
\* queued was a hop.
DetailsRunOK(s) ==
    run[s].job = Details =>
        /\ run[s].pc \in {"start", "calling"} => run[s].queued
        /\ run[s].pc = "thrown" => run[s].queued \/ lost

DetailsQueued ==
    /\ row[Details] # NoRow => row[Details].queued
    /\ \A s \in Slots : DetailsRunOK(s)

Carries(s) == run[s].job = Details /\ run[s].pc \in {"start", "thrown", "hop"}

Carried ==
    \/ lost
    \/ Available(row[Details]) \/ Available(parked[Details])
    \/ \E s \in Slots : Carries(s)

\* Details that somebody waits for can still be taken, or are under way.
WantedIsCarried == wanted => Carried

\* However often a job hops between the queues, it never has used up more tries
\* than its own budget has.
TriesWithinBudget ==
    /\ \A j \in Jobs : row[j] # NoRow => row[j].tries <= TriesOf(j)
    /\ \A j \in Named : parked[j] # NoRow => parked[j].tries <= TriesOf(j)
    /\ \A s \in Slots : run[s] # Idle => run[s].tries <= TriesOf(run[s].job)

Inv ==
    /\ TypeOK
    /\ DetailsQueued
    /\ WantedIsCarried
    /\ TriesWithinBudget
    /\ LiveCallsWithinCap

-----------------------------------------------------------------------------
(* Rows and runs *)

LEMMA Constants ==
    /\ LoopTries \in Nat \ {0} /\ Budget \in Nat \ {0} /\ LiveMax \in Nat
    /\ Free \notin Slots /\ Dead \notin Slots /\ "none" \notin Slots
    /\ IsFiniteSet(Slots) /\ Cardinality(Slots) \in Nat
    /\ Named \subseteq Jobs /\ Details \in Named
<1>1. Cardinality(Slots) \in Nat
  BY JobQueueAssumption, FS_CardinalityType
<1> QED
  BY <1>1, JobQueueAssumption DEF Free, Dead, Named, Jobs, Details, Walk

LEMMA TriesOfIsTries ==
    ASSUME NEW j \in Jobs
    PROVE  /\ TriesOf(j) \in Nat \ {0}
           /\ \A n \in 0..TriesOf(j) : n \in Tries
           /\ \A n \in Tries : n \in Nat
<1>1. TriesOf(j) \in {LoopTries, Budget}
  BY DEF TriesOf
<1>2. LoopTries \in Nat \ {0} /\ Budget \in Nat \ {0}
  BY Constants
<1>3. CASE LoopTries < Budget
  BY <1>1, <1>2, <1>3 DEF Tries
<1>4. CASE ~(LoopTries < Budget)
  BY <1>1, <1>2, <1>4 DEF Tries
<1> QED
  BY <1>3, <1>4

\* A row is not the absence of one, and a run is not an idle slot.
LEMMA RowShapes ==
    /\ \A r \in Row : /\ r # NoRow
                      /\ r.lock \in Slots \cup {Free, Dead}
                      /\ r.attempts \in Nat /\ r.max \in Nat /\ r.attempts <= LoopTries
                      /\ r.queued \in BOOLEAN /\ r.tries \in Nat
    /\ \A x \in Run : /\ x # Idle
                      /\ x.job \in Jobs /\ x.pc \in Pc
                      /\ x.queued \in BOOLEAN /\ x.tries \in Nat
    /\ Idle.job = "none" /\ NoRow.lock = "none" /\ "none" \notin Jobs
<1>1. ASSUME NEW r \in Row
      PROVE  /\ r # NoRow
             /\ r.lock \in Slots \cup {Free, Dead}
             /\ r.attempts \in Nat /\ r.max \in Nat /\ r.attempts <= LoopTries
             /\ r.queued \in BOOLEAN /\ r.tries \in Nat
  <2>1. /\ r.lock \in Slots \cup {Free, Dead}
        /\ r.attempts \in 0..LoopTries /\ r.max \in {1, LoopTries}
        /\ r.queued \in BOOLEAN /\ r.tries \in Tries
    BY DEF Row
  <2>2. r.lock # "none"
    BY <2>1, Constants DEF Free, Dead
  <2>3. r.attempts \in Nat /\ r.max \in Nat /\ r.attempts <= LoopTries
    BY <2>1, Constants
  <2>4. r.tries \in Nat
    BY <2>1, TriesOfIsTries, Constants
  <2> QED
    BY <2>1, <2>2, <2>3, <2>4 DEF NoRow
<1>2. ASSUME NEW x \in Run
      PROVE  /\ x # Idle
             /\ x.job \in Jobs /\ x.pc \in Pc
             /\ x.queued \in BOOLEAN /\ x.tries \in Nat
  <2>1. x.job \in Jobs /\ x.pc \in Pc /\ x.queued \in BOOLEAN /\ x.tries \in Tries
    BY DEF Run, Pc
  <2>2. x.job # "none"
    BY <2>1 DEF Jobs, Live, Tail, Walk, Details
  <2>3. x.tries \in Nat
    BY <2>1, TriesOfIsTries
  <2> QED
    BY <2>1, <2>2, <2>3 DEF Idle
<1>3. Idle.job = "none" /\ NoRow.lock = "none" /\ "none" \notin Jobs
  BY DEF Idle, NoRow, Jobs, Live, Tail, Walk, Details
<1> QED
  BY <1>1, <1>2, <1>3

\* A job that is written anew can be taken.
LEMMA FreshRow ==
    ASSUME NEW j \in Jobs, NEW max \in {1, LoopTries}, NEW queued \in BOOLEAN,
           NEW tries \in 0..TriesOf(j)
    PROVE  /\ Fresh(max, queued, tries) \in Row
           /\ Available(Fresh(max, queued, tries))
           /\ Fresh(max, queued, tries).queued = queued
           /\ Fresh(max, queued, tries).tries = tries
<1> DEFINE r == Fresh(max, queued, tries)
<1>1. tries \in Tries
  BY TriesOfIsTries
<1>2. 0 \in 0..LoopTries /\ 0 < max
  BY Constants
<1>3. r \in Row
  BY <1>1, <1>2 DEF Fresh, Row
<1>4. /\ r.lock = Free /\ r.attempts = 0 /\ r.max = max /\ r.queued = queued
      /\ r.tries = tries
  BY DEF Fresh
<1> HIDE DEF r
<1>5. Available(r)
  BY <1>2, <1>3, <1>4, RowShapes DEF Available
<1> QED
  BY <1>3, <1>4, <1>5 DEF r
-----------------------------------------------------------------------------
(* What a step may do to the queue and to the slots *)

\* A table whose rows are typed and within their budgets.
RowsGood ==
    /\ row' \in [Jobs -> Row \cup {NoRow}]
    /\ \A j \in Jobs : row'[j] # NoRow => row'[j].tries <= TriesOf(j)
    /\ row'[Details] # NoRow => row'[Details].queued

ParkedGood ==
    /\ parked' \in [Named -> Row \cup {NoRow}]
    /\ \A j \in Named : parked'[j] # NoRow => parked'[j].tries <= TriesOf(j)

\* Details that a slot can take, it can take afterwards.
DetailsStay ==
    /\ Available(row[Details]) => Available(row'[Details])
    /\ Available(parked[Details]) => Available(parked'[Details])

\* Each row that is there was there before, with what its payload says; one that
\* can be taken can still be.
Kept(table, new) ==
    \A j \in DOMAIN table :
        /\ Available(table[j]) => Available(new[j])
        /\ new[j] # NoRow => /\ table[j] # NoRow
                             /\ new[j].tries = table[j].tries
                             /\ new[j].queued = table[j].queued

LEMMA KeptIsGood ==
    ASSUME Inv
    PROVE  /\ row' \in [Jobs -> Row \cup {NoRow}] /\ Kept(row, row') => RowsGood
           /\ parked' \in [Named -> Row \cup {NoRow}] /\ Kept(parked, parked')
                  => ParkedGood
           /\ Kept(row, row') /\ Kept(parked, parked') => DetailsStay
<1>1. DOMAIN row = Jobs /\ DOMAIN parked = Named /\ Details \in Jobs /\ Details \in Named
  BY Constants DEF Inv, TypeOK
<1> QED
  BY <1>1 DEF Inv, TriesWithinBudget, DetailsQueued, RowsGood, ParkedGood, Kept,
              DetailsStay

LEMMA SameIsKept ==
    ASSUME Inv
    PROVE  /\ row' = row => RowsGood /\ Kept(row, row')
           /\ parked' = parked => ParkedGood /\ Kept(parked, parked')
<1>1. row' = row => Kept(row, row') /\ row' \in [Jobs -> Row \cup {NoRow}]
  BY DEF Kept, Inv, TypeOK
<1>2. parked' = parked => Kept(parked, parked') /\ parked' \in [Named -> Row \cup {NoRow}]
  BY DEF Kept, Inv, TypeOK
<1> QED
  BY <1>1, <1>2, KeptIsGood

\* Unlocking and deleting the rows of a slot, and the locks of a process that
\* died, leave free rows alone.
LEMMA LocksAreKept ==
    ASSUME NEW D, NEW table \in [D -> Row \cup {NoRow}], NEW s \in Slots \cup {Dead}
    PROVE  /\ Unlocked(table, s) \in [D -> Row \cup {NoRow}]
           /\ Kept(table, Unlocked(table, s))
           /\ Deleted(table, s) \in [D -> Row \cup {NoRow}]
           /\ Kept(table, Deleted(table, s))
           /\ Orphaned(table) \in [D -> Row \cup {NoRow}]
           /\ Kept(table, Orphaned(table))
<1>1. ASSUME NEW r \in Row, NEW l \in {Free, Dead}
      PROVE  /\ [r EXCEPT !.lock = l] \in Row
             /\ [r EXCEPT !.lock = l].tries = r.tries
             /\ [r EXCEPT !.lock = l].queued = r.queued
  BY DEF Row
<1>2. s # Free /\ Free \notin Slots /\ Free # Dead
  BY Constants DEF Free, Dead
<1>3. \A r \in Row : r # NoRow
  BY RowShapes
<1>4. Unlocked(table, s) \in [D -> Row \cup {NoRow}] /\ Kept(table, Unlocked(table, s))
  <2> DEFINE new == Unlocked(table, s)
  <2>1. ASSUME NEW j \in D
        PROVE  /\ new[j] = table[j] \/ /\ table[j] \in Row /\ table[j].lock = s
                                       /\ new[j] = [table[j] EXCEPT !.lock = Free]
               /\ table[j] \in Row \cup {NoRow}
    BY DEF Unlocked
  <2>2. new = [j \in D |-> new[j]] /\ DOMAIN table = D
    BY DEF Unlocked
  <2> HIDE DEF new
  <2>3. \A j \in D : new[j] \in Row \cup {NoRow}
    BY <1>1, <2>1
  <2>4. Kept(table, new)
    BY <1>1, <1>2, <1>3, <2>1, <2>2 DEF Kept, Available
  <2> QED
    BY <2>2, <2>3, <2>4 DEF new
<1>5. Deleted(table, s) \in [D -> Row \cup {NoRow}] /\ Kept(table, Deleted(table, s))
  <2> DEFINE new == Deleted(table, s)
  <2>1. ASSUME NEW j \in D
        PROVE  new[j] = table[j] \/ (table[j].lock = s /\ new[j] = NoRow)
    BY DEF Deleted
  <2>2. new = [j \in D |-> new[j]] /\ DOMAIN table = D
    BY DEF Deleted
  <2> HIDE DEF new
  <2>3. \A j \in D : new[j] \in Row \cup {NoRow}
    BY <2>1
  <2>4. Kept(table, new)
    BY <1>2, <2>1, <2>2 DEF Kept, Available
  <2> QED
    BY <2>2, <2>3, <2>4 DEF new
<1>6. Orphaned(table) \in [D -> Row \cup {NoRow}] /\ Kept(table, Orphaned(table))
  <2> DEFINE new == Orphaned(table)
  <2>1. ASSUME NEW j \in D
        PROVE  /\ new[j] = table[j] \/ /\ table[j] \in Row /\ table[j].lock \in Slots
                                       /\ new[j] = [table[j] EXCEPT !.lock = Dead]
               /\ table[j] \in Row \cup {NoRow}
    BY DEF Orphaned
  <2>2. new = [j \in D |-> new[j]] /\ DOMAIN table = D
    BY DEF Orphaned
  <2> HIDE DEF new
  <2>3. \A j \in D : new[j] \in Row \cup {NoRow}
    BY <1>1, <2>1
  <2>4. Kept(table, new)
    BY <1>1, <1>2, <1>3, <2>1, <2>2 DEF Kept, Available
  <2> QED
    BY <2>2, <2>3, <2>4 DEF new
<1> QED
  BY <1>4, <1>5, <1>6

\* enqueueJob with replace: one row is new, and can be taken.
LEMMA Enqueues ==
    ASSUME Inv, NEW j \in Jobs, NEW max \in {1, LoopTries}, NEW queued \in BOOLEAN,
           NEW tries \in 0..TriesOf(j), j = Details => queued
    PROVE  /\ row' = addJob(row, j, "replace", Fresh(max, queued, tries))
              => /\ RowsGood
                 /\ j = Details => Available(row'[Details])
                 /\ Available(row[Details]) => Available(row'[Details])
           /\ j \in Named /\ parked' = [parked EXCEPT ![j] = Fresh(max, queued, tries)]
              => /\ ParkedGood
                 /\ j = Details => Available(parked'[Details])
                 /\ Available(parked[Details]) => Available(parked'[Details])
<1> DEFINE r == Fresh(max, queued, tries)
<1>1. r \in Row /\ Available(r) /\ r.queued = queued /\ r.tries = tries
  BY FreshRow
<1>2. tries <= TriesOf(j)
  BY TriesOfIsTries
<1>3. addJob(row, j, "replace", r) = [row EXCEPT ![j] = r]
  BY DEF addJob
<1> HIDE DEF r
<1>4. ASSUME row' = [row EXCEPT ![j] = r]
      PROVE  /\ RowsGood
             /\ j = Details => Available(row'[Details])
             /\ Available(row[Details]) => Available(row'[Details])
  <2>1. row \in [Jobs -> Row \cup {NoRow}] /\ Details \in Jobs
    BY Constants DEF Inv, TypeOK
  <2>2. row' \in [Jobs -> Row \cup {NoRow}] /\ row'[j] = r
        /\ \A k \in Jobs : k # j => row'[k] = row[k]
    BY <1>1, <1>4, <2>1
  <2> QED
    BY <1>1, <1>2, <2>1, <2>2 DEF Inv, TriesWithinBudget, DetailsQueued, RowsGood
<1>5. ASSUME j \in Named, parked' = [parked EXCEPT ![j] = r]
      PROVE  /\ ParkedGood
             /\ j = Details => Available(parked'[Details])
             /\ Available(parked[Details]) => Available(parked'[Details])
  <2>1. parked \in [Named -> Row \cup {NoRow}] /\ Details \in Named
    BY Constants DEF Inv, TypeOK
  <2>2. parked' \in [Named -> Row \cup {NoRow}] /\ parked'[j] = r
        /\ \A k \in Named : k # j => parked'[k] = parked[k]
    BY <1>1, <1>5, <2>1
  <2> QED
    BY <1>1, <1>2, <2>1, <2>2 DEF Inv, TriesWithinBudget, ParkedGood
<1> QED
  BY <1>3, <1>4, <1>5 DEF r
\* The other slots go on with what they do.
RunMoves(s) ==
    /\ run' \in [Slots -> Run \cup {Idle}]
    /\ \A t \in Slots : t # s => run'[t] = run[t]
    /\ run'[s] # Idle => run'[s].tries <= TriesOf(run'[s].job)

LEMMA GotoMoves ==
    ASSUME Inv, NEW s \in Slots, run[s] # Idle, NEW pc \in Pc, Goto(s, pc)
    PROVE  /\ RunMoves(s)
           /\ run'[s] # Idle /\ run'[s].pc = pc /\ run'[s].job = run[s].job
           /\ run'[s].queued = run[s].queued
<1>1. run \in [Slots -> Run \cup {Idle}] /\ run[s] \in Run
  BY DEF Inv, TypeOK
<1> DEFINE x == [run[s] EXCEPT !.pc = pc]
<1>2. /\ x \in Run /\ x.pc = pc /\ x.job = run[s].job /\ x.queued = run[s].queued
      /\ x.tries = run[s].tries
  BY <1>1 DEF Run, Pc
<1>3. run' = [run EXCEPT ![s] = x]
  BY DEF Goto
<1> HIDE DEF x
<1>4. x # Idle
  BY <1>2, RowShapes
<1>5. /\ run' \in [Slots -> Run \cup {Idle}] /\ run'[s] = x
      /\ \A t \in Slots : t # s => run'[t] = run[t]
  BY <1>1, <1>2, <1>3
<1>6. x.tries <= TriesOf(x.job)
  BY <1>2 DEF Inv, TriesWithinBudget
<1> QED
  BY <1>2, <1>4, <1>5, <1>6 DEF RunMoves

LEMMA IdleMoves ==
    ASSUME Inv, NEW s \in Slots, run' = [run EXCEPT ![s] = Idle]
    PROVE  RunMoves(s) /\ run'[s] = Idle
BY DEF Inv, TypeOK, RunMoves

\* The other variables keep their types; what was lost stays lost.
RestGood ==
    /\ jobs' = jobs
    /\ up' \in BOOLEAN
    /\ boot' \subseteq Loops
    /\ ensure' \in [Ensurers -> SUBSET Loops]
    /\ asks' \in 0..MaxAsks
    /\ wanted' \in BOOLEAN
    /\ lost' \in BOOLEAN
    /\ lost => lost'
    /\ faults' \in 0..MaxFaults

LEMMA SameRest ==
    ASSUME Inv, UNCHANGED <<jobs, up, boot, ensure, asks>>,
           wanted' \in BOOLEAN, lost' \in BOOLEAN, lost => lost',
           faults' = faults \/ Fault
    PROVE  RestGood
<1>1. faults' \in 0..MaxFaults
  BY JobQueueAssumption DEF Inv, TypeOK, Fault
<1> QED
  BY <1>1 DEF Inv, TypeOK, RestGood

\* The calls that are counted are calls of slots of the process.
LEMMA CountIsBounded ==
    ASSUME LiveCallsWithinCap
    PROVE  inFlight \in 0..Cardinality(Slots)
<1>1. inFlight = Cardinality(Callers) /\ Callers \subseteq Slots
  BY DEF LiveCallsWithinCap, Callers
<1>2. Cardinality(Callers) \in Nat /\ Cardinality(Callers) <= Cardinality(Slots)
  BY <1>1, Constants, FS_Subset, FS_CardinalityType
<1> QED
  BY <1>1, <1>2, Constants

LEMMA CountIsBoundedNext ==
    ASSUME LiveCallsWithinCap'
    PROVE  inFlight' \in 0..Cardinality(Slots)
<1>1. inFlight' = Cardinality(Callers') /\ Callers' \subseteq Slots
  BY DEF LiveCallsWithinCap, Callers
<1>2. Cardinality(Callers') \in Nat /\ Cardinality(Callers') <= Cardinality(Slots)
  BY <1>1, Constants, FS_Subset, FS_CardinalityType
<1> QED
  BY <1>1, <1>2, Constants

LEMMA Assemble ==
    ASSUME Inv, NEW s \in Slots, RowsGood, ParkedGood, RunMoves(s), RestGood,
           DetailsRunOK(s)', WantedIsCarried', LiveCallsWithinCap'
    PROVE  Inv'
<1>1. TypeOK'
  BY CountIsBoundedNext DEF Inv, TypeOK, RowsGood, ParkedGood, RunMoves, RestGood,
     Loops
<1>2. ASSUME NEW t \in Slots PROVE DetailsRunOK(t)'
  <2>1. CASE t = s
    BY <2>1
  <2>2. CASE t # s
    BY <2>2 DEF Inv, DetailsQueued, DetailsRunOK, RunMoves, RestGood
  <2> QED
    BY <2>1, <2>2
<1>3. DetailsQueued'
  BY <1>2 DEF RowsGood, DetailsQueued
<1>4. TriesWithinBudget'
  BY DEF Inv, TriesWithinBudget, RowsGood, ParkedGood, RunMoves
<1> QED
  BY <1>1, <1>3, <1>4 DEF Inv

LEMMA CarryOn ==
    ASSUME Inv, NEW s \in Slots, RunMoves(s), DetailsStay, RestGood, wanted' => wanted,
           Carries(s) => Carried'
    PROVE  WantedIsCarried'
<1> SUFFICES ASSUME wanted' PROVE Carried'
  BY DEF WantedIsCarried
<1>1. Carried
  BY DEF Inv, WantedIsCarried
<1>2. CASE lost
  BY <1>2 DEF Carried, RestGood
<1>3. CASE Available(row[Details]) \/ Available(parked[Details])
  BY <1>3 DEF Carried, DetailsStay
<1>4. ASSUME NEW t \in Slots, Carries(t) PROVE Carried'
  <2>1. CASE t = s
    BY <1>4, <2>1
  <2>2. CASE t # s
    BY <1>4, <2>2 DEF Carries, Carried, RunMoves
  <2> QED
    BY <2>1, <2>2
<1> QED
  BY <1>1, <1>2, <1>3, <1>4 DEF Carried

LEMMA CallsStay ==
    ASSUME Inv, NEW s \in Slots, RunMoves(s), inFlight' = inFlight,
           s \in Callers' <=> s \in Callers
    PROVE  LiveCallsWithinCap'
<1>1. Callers' = Callers
  BY DEF Callers, RunMoves
<1> QED
  BY <1>1 DEF Inv, LiveCallsWithinCap, Callers

\* A step of one slot that makes no live call and ends none.
LEMMA SlotKeeps ==
    ASSUME Inv, NEW s \in Slots, RowsGood, ParkedGood, DetailsStay, RunMoves(s),
           RestGood, DetailsRunOK(s)', wanted' => wanted, Carries(s) => Carried',
           inFlight' = inFlight, s \notin Callers, s \notin Callers'
    PROVE  Inv'
BY Assemble, CarryOn, CallsStay
-----------------------------------------------------------------------------
(* Taking a job *)

\* A row that is locked for a try keeps what its payload says.
LEMMA LockedRow ==
    ASSUME NEW r \in Row, Available(r), NEW s \in Slots
    PROVE  LET x == [r EXCEPT !.lock = s, !.attempts = @ + 1]
           IN  x \in Row /\ x.tries = r.tries /\ x.queued = r.queued
<1>1. r.attempts \in 0..LoopTries /\ r.max \in {1, LoopTries} /\ r.attempts < r.max
  BY DEF Row, Available
<1>2. r.attempts + 1 \in 0..LoopTries
  BY <1>1, Constants
<1> QED
  BY <1>2 DEF Row

LEMMA TakeKeeps ==
    ASSUME Inv, NEW s \in Slots, NEW j \in Jobs, Take(s, j)
    PROVE  Inv'
<1>1. /\ row \in [Jobs -> Row \cup {NoRow}] /\ run \in [Slots -> Run \cup {Idle}]
      /\ run[s] = Idle /\ Available(row[j]) /\ row[j] \in Row
  BY DEF Inv, TypeOK, Take, Available
<1> DEFINE x == [row[j] EXCEPT !.lock = s, !.attempts = @ + 1]
           y == [job |-> j, pc |-> "start", queued |-> row[j].queued,
                 tries |-> row[j].tries]
<1>2. x \in Row /\ x.tries = row[j].tries /\ x.queued = row[j].queued
  BY <1>1, LockedRow
<1>3. row' = [row EXCEPT ![j] = x] /\ run' = [run EXCEPT ![s] = y]
  BY DEF Take
<1>4. y \in Run
  BY <1>1 DEF Run, Row
<1>5. /\ y.job = j /\ y.pc = "start" /\ y.queued = row[j].queued
      /\ y.tries = row[j].tries
  OBVIOUS
<1> HIDE DEF x, y
<1>6. row[j] # NoRow /\ row[j].tries <= TriesOf(j)
  BY <1>1 DEF Inv, TriesWithinBudget, Available
<1>7. row' \in [Jobs -> Row \cup {NoRow}] /\ row'[j] = x
      /\ \A k \in Jobs : k # j => row'[k] = row[k]
  BY <1>1, <1>2, <1>3
<1>8. RowsGood
  BY <1>2, <1>6, <1>7, Constants DEF Inv, TriesWithinBudget, DetailsQueued, RowsGood
<1>9. RunMoves(s) /\ run'[s] = y
  BY <1>1, <1>3, <1>4, <1>5, <1>6 DEF RunMoves
<1>10. /\ UNCHANGED <<jobs, parked, inFlight, up, boot, ensure, asks, wanted, lost, faults>>
  BY DEF Take
<1>11. ParkedGood /\ Kept(parked, parked')
  BY <1>10, SameIsKept
<1>12. RestGood
  BY <1>10, SameRest DEF Inv, TypeOK
<1>13. DetailsRunOK(s)'
  BY <1>5, <1>6, <1>9 DEF DetailsRunOK, Inv, DetailsQueued
<1>14. WantedIsCarried'
  <2>1. CASE j = Details
    BY <1>5, <1>9, <2>1 DEF WantedIsCarried, Carried, Carries
  <2>2. CASE j # Details
    <3>1. DetailsStay
      BY <1>7, <1>10, <2>2, Constants DEF DetailsStay
    <3>2. ~Carries(s)
      BY <1>1, RowShapes, Constants DEF Carries
    <3> QED
      BY <1>9, <1>10, <1>12, <3>1, <3>2, CarryOn
  <2> QED
    BY <2>1, <2>2
<1>15. s \notin Callers /\ s \notin Callers'
  BY <1>1, <1>5, <1>9 DEF Callers
<1> QED
  BY <1>8, <1>9, <1>10, <1>11, <1>12, <1>13, <1>14, <1>15, CallsStay, Assemble

LEMMA TakeParkedKeeps ==
    ASSUME Inv, NEW s \in Slots, NEW j \in Named, TakeParked(s, j)
    PROVE  Inv'
<1>1. /\ parked \in [Named -> Row \cup {NoRow}] /\ run \in [Slots -> Run \cup {Idle}]
      /\ run[s] = Idle /\ Available(parked[j]) /\ parked[j] \in Row /\ j \in Jobs
  BY Constants DEF Inv, TypeOK, TakeParked, Available
<1> DEFINE x == [parked[j] EXCEPT !.lock = s, !.attempts = @ + 1]
           y == [job |-> j, pc |-> "hop", queued |-> FALSE, tries |-> parked[j].tries]
<1>2. x \in Row /\ x.tries = parked[j].tries
  BY <1>1, LockedRow
<1>3. parked' = [parked EXCEPT ![j] = x] /\ run' = [run EXCEPT ![s] = y]
  BY DEF TakeParked
<1>4. y \in Run
  BY <1>1 DEF Run, Row
<1>5. y.job = j /\ y.pc = "hop" /\ y.tries = parked[j].tries
  OBVIOUS
<1> HIDE DEF x, y
<1>6. parked[j] # NoRow /\ parked[j].tries <= TriesOf(j)
  BY <1>1 DEF Inv, TriesWithinBudget, Available
<1>7. parked' \in [Named -> Row \cup {NoRow}] /\ parked'[j] = x
      /\ \A k \in Named : k # j => parked'[k] = parked[k]
  BY <1>1, <1>2, <1>3
<1>8. ParkedGood
  BY <1>2, <1>6, <1>7 DEF Inv, TriesWithinBudget, ParkedGood
<1>9. RunMoves(s) /\ run'[s] = y
  BY <1>1, <1>3, <1>4, <1>5, <1>6 DEF RunMoves
<1>10. UNCHANGED <<jobs, row, inFlight, up, boot, ensure, asks, wanted, lost, faults>>
  BY DEF TakeParked
<1>11. RowsGood /\ Kept(row, row')
  BY <1>10, SameIsKept
<1>12. RestGood
  BY <1>10, SameRest DEF Inv, TypeOK
<1>13. DetailsRunOK(s)'
  BY <1>5, <1>9 DEF DetailsRunOK
<1>14. WantedIsCarried'
  <2>1. CASE j = Details
    BY <1>5, <1>9, <2>1 DEF WantedIsCarried, Carried, Carries
  <2>2. CASE j # Details
    <3>1. DetailsStay
      BY <1>7, <1>10, <2>2, Constants DEF DetailsStay
    <3>2. ~Carries(s)
      BY <1>1, RowShapes, Constants DEF Carries
    <3> QED
      BY <1>9, <1>10, <1>12, <3>1, <3>2, CarryOn
  <2> QED
    BY <2>1, <2>2
<1>15. s \notin Callers /\ s \notin Callers'
  BY <1>1, <1>5, <1>9 DEF Callers
<1> QED
  BY <1>8, <1>9, <1>10, <1>11, <1>12, <1>13, <1>14, <1>15, CallsStay, Assemble
-----------------------------------------------------------------------------
(* The work of a run *)

LEMMA AtRun ==
    ASSUME Inv, NEW s \in Slots, run[s] # Idle
    PROVE  run[s] \in Run /\ run[s].tries \in 0..TriesOf(run[s].job)
<1>1. run[s] \in Run
  BY DEF Inv, TypeOK
<1>2. run[s].tries \in Nat /\ run[s].job \in Jobs /\ run[s].tries <= TriesOf(run[s].job)
  BY <1>1, RowShapes DEF Inv, TriesWithinBudget
<1> QED
  BY <1>1, <1>2, TriesOfIsTries

\* A run that comes to its end without a live call: the request that it carried,
\* if any, goes elsewhere.
LEMMA DoneKeeps ==
    ASSUME Inv, NEW s \in Slots, run[s] # Idle, run[s].pc # "calling", Goto(s, "done"),
           inFlight' = inFlight, RowsGood, ParkedGood, DetailsStay, RestGood,
           wanted' => wanted, Carries(s) => Carried'
    PROVE  Inv'
<1>1. "done" \in Pc
  BY DEF Pc
<1>2. RunMoves(s) /\ run'[s].pc = "done"
  BY <1>1, GotoMoves
<1>3. DetailsRunOK(s)' /\ s \notin Callers /\ s \notin Callers'
  BY <1>2 DEF DetailsRunOK, Callers
<1> QED
  BY <1>2, <1>3, SlotKeeps

LEMMA HopKeeps ==
    ASSUME Inv, NEW s \in Slots, NEW j \in Named, Hop(s, j)
    PROVE  Inv'
<1>1. /\ run[s] # Idle /\ run[s].job = j /\ run[s].pc = "hop" /\ Goto(s, "done")
      /\ UNCHANGED <<jobs, parked, inFlight, up, boot, ensure, asks, wanted, lost, faults>>
      /\ row' = addJob(row, j, "replace", Fresh(1, TRUE, run[s].tries))
  BY DEF Hop, At, EnqueueNow, stampRetryBudget
<1>2. run[s].tries \in 0..TriesOf(j) /\ j \in Jobs
  BY <1>1, AtRun, Constants
<1>3. /\ RowsGood
      /\ j = Details => Available(row'[Details])
      /\ Available(row[Details]) => Available(row'[Details])
  BY <1>1, <1>2, Enqueues
<1>4. ParkedGood /\ DetailsStay
  BY <1>1, <1>3, SameIsKept DEF DetailsStay
<1>5. Carries(s) => Carried'
  BY <1>1, <1>3 DEF Carries, Carried
<1>6. RestGood
  BY <1>1, SameRest DEF Inv, TypeOK
<1> QED
  BY <1>1, <1>3, <1>4, <1>5, <1>6, DoneKeeps

\* Putting the next run of a loop in the queue disturbs no details.
LEMMA LoopEnqueued ==
    ASSUME Inv, NEW j \in Jobs, j # Details, row' = EnqueueLoop(j), parked' = parked
    PROVE  RowsGood /\ ParkedGood /\ DetailsStay
<1>1. row' = addJob(row, j, "replace", Fresh(LoopTries, FALSE, 0))
  BY DEF EnqueueLoop
<1>2. 0 \in 0..TriesOf(j)
  BY TriesOfIsTries
<1>3. RowsGood /\ (Available(row[Details]) => Available(row'[Details]))
  BY <1>1, <1>2, Enqueues
<1> QED
  BY <1>3, SameIsKept DEF DetailsStay

LEMMA JobNames ==
    /\ Live \in Jobs /\ Tail \in Jobs /\ Walk \in Jobs /\ Walk \in Named
    /\ Live # Details /\ Tail # Details /\ Walk # Details
BY DEF Jobs, Named, Live, Tail, Walk, Details

LEMMA EndsKeep ==
    ASSUME Inv, NEW s \in Slots, TailEnds(s) \/ WalkEnds(s) \/ WalkSkips(s)
    PROVE  Inv'
<1>1. /\ run[s] # Idle /\ run[s].job \in {Tail, Walk} /\ run[s].pc = "start"
      /\ Goto(s, "done") /\ UNCHANGED <<jobs, inFlight, up, boot, ensure, asks, wanted, lost>>
      /\ faults' = faults \/ Fault
  BY DEF TailEnds, WalkEnds, WalkSkips, At
<1>2. ~Carries(s)
  BY <1>1, JobNames DEF Carries
<1>3. RestGood
  BY <1>1, SameRest DEF Inv, TypeOK
<1>4. RowsGood /\ ParkedGood /\ DetailsStay
  <2>1. CASE TailEnds(s)
    BY <2>1, LoopEnqueued, JobNames DEF TailEnds
  <2>2. CASE WalkEnds(s)
    <3>1. row' = row /\ parked' = [parked EXCEPT ![Walk] = Fresh(1, TRUE, 0)]
      BY <2>2 DEF WalkEnds, EnqueueLater, addJob
    <3>2. 0 \in 0..TriesOf(Walk)
      BY TriesOfIsTries, JobNames
    <3>3. ParkedGood /\ (Available(parked[Details]) => Available(parked'[Details]))
      BY <3>1, <3>2, Enqueues, JobNames
    <3> QED
      BY <3>1, <3>3, SameIsKept DEF DetailsStay
  <2>3. CASE WalkSkips(s)
    BY <2>3, SameIsKept, KeptIsGood DEF WalkSkips
  <2> QED
    BY <2>1, <2>2, <2>3
<1> QED
  BY <1>1, <1>2, <1>3, <1>4, DoneKeeps

LEMMA DetailsDoneKeep ==
    ASSUME Inv, NEW s \in Slots, DetailsEnds(s) \/ DetailsPostponed(s)
    PROVE  Inv'
<1>1. /\ run[s] # Idle /\ run[s].job = Details /\ run[s].pc = "start"
      /\ Goto(s, "done") /\ UNCHANGED <<jobs, row, inFlight, up, boot, ensure, asks, lost>>
      /\ faults' = faults \/ Fault
  BY DEF DetailsEnds, DetailsPostponed, At
<1>2. RowsGood /\ Kept(row, row')
  BY <1>1, SameIsKept
<1>3. CASE DetailsEnds(s)
  <2>1. wanted' = FALSE /\ parked' = parked
    BY <1>3 DEF DetailsEnds
  <2>2. RestGood /\ ParkedGood /\ DetailsStay
    BY <1>1, <1>2, <2>1, SameRest, SameIsKept, KeptIsGood DEF Inv, TypeOK
  <2>3. "done" \in Pc
    BY DEF Pc
  <2>4. RunMoves(s) /\ run'[s].pc = "done"
    BY <1>1, <2>3, GotoMoves
  <2>5. DetailsRunOK(s)' /\ s \notin Callers /\ s \notin Callers'
    BY <1>1, <2>4 DEF DetailsRunOK, Callers
  <2>6. WantedIsCarried'
    BY <2>1 DEF WantedIsCarried
  <2>7. LiveCallsWithinCap'
    BY <1>1, <2>4, <2>5, CallsStay
  <2> QED
    BY <1>2, <2>2, <2>4, <2>5, <2>6, <2>7, Assemble
<1>4. CASE DetailsPostponed(s)
  <2>1. wanted' = wanted /\ parked' = [parked EXCEPT ![Details] = Fresh(1, TRUE, 0)]
    BY <1>4 DEF DetailsPostponed, EnqueueLater, addJob
  <2>2. 0 \in 0..TriesOf(Details) /\ Details \in Named /\ Details \in Jobs
    BY TriesOfIsTries, Constants
  <2>3. ParkedGood /\ Available(parked'[Details])
    BY <2>1, <2>2, Enqueues
  <2>4. RestGood /\ DetailsStay /\ Carried'
    BY <1>1, <1>2, <2>1, <2>3, SameRest DEF Inv, TypeOK, DetailsStay, Carried
  <2> QED
    BY <1>1, <1>2, <2>1, <2>3, <2>4, DoneKeeps
<1> QED
  BY <1>3, <1>4
LEMMA ThrowsKeep ==
    ASSUME Inv, NEW s \in Slots, DetailsThrows(s) \/ Throws(s)
    PROVE  Inv'
<1>1. /\ run[s] # Idle /\ run[s].pc \in {"start", "hop"} /\ Goto(s, "thrown")
      /\ UNCHANGED <<jobs, row, parked, inFlight, up, boot, ensure, asks, wanted>>
      /\ faults' = faults \/ Fault
  BY DEF DetailsThrows, Throws, At
<1>2. /\ lost' \in BOOLEAN
      /\ lost => lost'
      /\ run[s].job = Details /\ run[s].pc = "hop" => lost'
  <2>1. CASE DetailsThrows(s)
    BY <2>1 DEF DetailsThrows, At, Inv, TypeOK
  <2>2. CASE Throws(s)
    <3>1. lost' = (lost \/ At(s, Details, "hop"))
      BY <2>2 DEF Throws
    <3>2. lost' \in BOOLEAN /\ (lost => lost') /\ (At(s, Details, "hop") => lost')
      BY <3>1, Zenon
    <3> QED
      BY <1>1, <3>2 DEF At
  <2> QED
    BY <2>1, <2>2
<1>3. "thrown" \in Pc
  BY DEF Pc
<1>4. /\ RunMoves(s)
      /\ run'[s] # Idle /\ run'[s].pc = "thrown" /\ run'[s].job = run[s].job
      /\ run'[s].queued = run[s].queued
  BY <1>1, <1>3, GotoMoves
<1>5. RowsGood /\ ParkedGood /\ DetailsStay
  BY <1>1, SameIsKept, KeptIsGood
<1>6. RestGood
  <2>1. wanted' \in BOOLEAN
    BY <1>1 DEF Inv, TypeOK
  <2> QED
    BY <1>1, <1>2, <2>1, SameRest
<1>7. DetailsRunOK(s)'
  BY <1>1, <1>2, <1>4 DEF Inv, DetailsQueued, DetailsRunOK
<1>8. Carries(s) => Carried'
  BY <1>4 DEF Carries, Carried
<1>9. s \notin Callers /\ s \notin Callers'
  BY <1>1, <1>4 DEF Callers
<1> QED
  BY <1>1, <1>4, <1>5, <1>6, <1>7, <1>8, <1>9, SlotKeeps

\* The retry off the queue parks the job with one try more, or its budget is
\* spent and nobody waits for the details any longer.
LEMMA RetryKeeps ==
    ASSUME Inv, NEW s \in Slots, RetryOffQueue(s)
    PROVE  Inv'
<1> DEFINE j == run[s].job
<1>1. /\ run[s] # Idle /\ run[s].pc = "thrown" /\ run[s].queued /\ Goto(s, "done")
      /\ UNCHANGED <<jobs, row, inFlight, up, boot, ensure, asks, lost, faults>>
  BY DEF RetryOffQueue
<1>2. run[s] \in Run /\ j \in Jobs /\ run[s].tries \in 0..TriesOf(j)
  BY <1>1, AtRun, RowShapes
<1>3. RowsGood /\ Kept(row, row')
  BY <1>1, SameIsKept
<1>4. CASE TryLeft(s) /\ j \in Named
  <2>1. wanted' = wanted /\ parked' = EnqueueLater(j, RetryMode, failedTry(s) + 1)
    BY <1>4 DEF RetryOffQueue
  <2>2. parked' = [parked EXCEPT ![j] = Fresh(1, TRUE, failedTry(s) + 1)]
    BY <2>1 DEF EnqueueLater, RetryMode, addJob
  <2>3. failedTry(s) + 1 \in 0..TriesOf(j)
    <3>1. failedTry(s) \in Nat
      BY <1>2, TriesOfIsTries DEF failedTry
    <3>2. failedTry(s) < TriesOf(j) /\ TriesOf(j) \in Nat
      BY <1>2, <1>4, TriesOfIsTries DEF TryLeft
    <3> QED
      BY <3>1, <3>2
  <2>4. /\ ParkedGood
        /\ j = Details => Available(parked'[Details])
        /\ Available(parked[Details]) => Available(parked'[Details])
    BY <1>2, <1>4, <2>2, <2>3, Enqueues
  <2>5. RestGood /\ DetailsStay
    BY <1>1, <1>3, <2>1, <2>4, SameRest, KeptIsGood, Constants
       DEF Inv, TypeOK, DetailsStay
  <2>6. Carries(s) => Carried'
    BY <2>4 DEF Carries, Carried
  <2> QED
    BY <1>1, <1>3, <2>1, <2>4, <2>5, <2>6, DoneKeeps
<1>5. CASE TryLeft(s) /\ j \notin Named
  <2>1. wanted' = wanted /\ parked' = EnqueueLater(j, RetryMode, failedTry(s) + 1)
    BY <1>5 DEF RetryOffQueue
  <2>2. parked' = parked
    <3>1. DOMAIN parked = Named
      BY DEF Inv, TypeOK
    <3>2. parked' = [parked EXCEPT ![j] = Fresh(1, TRUE, failedTry(s) + 1)]
      BY <2>1 DEF EnqueueLater, RetryMode, addJob
    <3>3. parked \in [Named -> Row \cup {NoRow}]
      BY DEF Inv, TypeOK
    <3> QED
      BY <1>5, <3>1, <3>2, <3>3
  <2>3. RestGood /\ ParkedGood /\ DetailsStay
    BY <1>1, <1>3, <2>1, <2>2, SameRest, SameIsKept, KeptIsGood DEF Inv, TypeOK
  <2>4. ~Carries(s)
    BY <1>5, Constants DEF Carries
  <2> QED
    BY <1>1, <1>3, <2>1, <2>3, <2>4, DoneKeeps
<1>6. CASE ~TryLeft(s)
  <2>1. wanted' = (wanted /\ j # Details) /\ parked' = parked
    BY <1>6 DEF RetryOffQueue
  <2>2. wanted' \in BOOLEAN /\ (wanted' => wanted /\ j # Details)
    BY <2>1, Zenon
  <2>3. RestGood /\ ParkedGood /\ DetailsStay
    BY <1>1, <1>3, <2>1, <2>2, SameRest, SameIsKept, KeptIsGood DEF Inv, TypeOK
  <2>4. "done" \in Pc
    BY DEF Pc
  <2>5. RunMoves(s) /\ run'[s].pc = "done"
    BY <1>1, <2>4, GotoMoves
  <2>6. DetailsRunOK(s)' /\ s \notin Callers /\ s \notin Callers'
    BY <1>1, <2>5 DEF DetailsRunOK, Callers
  <2>7. WantedIsCarried'
    <3>1. CASE j = Details
      BY <2>2, <3>1 DEF WantedIsCarried
    <3>2. CASE j # Details
      BY <2>2, <2>3, <2>5, <3>2, CarryOn DEF Carries
    <3> QED
      BY <3>1, <3>2
  <2>8. LiveCallsWithinCap'
    BY <1>1, <2>5, <2>6, CallsStay
  <2> QED
    BY <1>3, <2>3, <2>5, <2>6, <2>7, <2>8, Assemble
<1> QED
  BY <1>4, <1>5, <1>6

\* fail_job and complete_job of a run.  A run of the details that has thrown and
\* is not queued was a hop, whose failure counts as lost.
LEMMA LeavesKeep ==
    ASSUME Inv, NEW s \in Slots, FailJob(s) \/ Complete(s)
    PROVE  Inv'
<1>1. /\ run[s] # Idle /\ run' = [run EXCEPT ![s] = Idle]
      /\ run[s].pc = "done" \/ (run[s].pc = "thrown" /\ ~run[s].queued)
      /\ UNCHANGED <<jobs, inFlight, up, boot, ensure, asks, wanted, lost, faults>>
      /\ \/ row' = Unlocked(row, s) /\ parked' = Unlocked(parked, s)
         \/ row' = Deleted(row, s) /\ parked' = Deleted(parked, s)
  BY DEF FailJob, Complete
<1>2. row \in [Jobs -> Row \cup {NoRow}] /\ parked \in [Named -> Row \cup {NoRow}]
  BY DEF Inv, TypeOK
<1>3. /\ row' \in [Jobs -> Row \cup {NoRow}] /\ Kept(row, row')
      /\ parked' \in [Named -> Row \cup {NoRow}] /\ Kept(parked, parked')
  BY <1>1, <1>2, LocksAreKept
<1>4. RowsGood /\ ParkedGood /\ DetailsStay
  BY <1>3, KeptIsGood
<1>5. RunMoves(s) /\ run'[s] = Idle
  BY <1>1, IdleMoves
<1>6. RestGood
  BY <1>1, SameRest DEF Inv, TypeOK
<1>7. DetailsRunOK(s)' /\ s \notin Callers /\ s \notin Callers'
  BY <1>1, <1>5, RowShapes, Constants DEF DetailsRunOK, Callers
<1>8. Carries(s) => Carried'
  BY <1>1 DEF Carries, Carried, Inv, DetailsQueued, DetailsRunOK
<1> QED
  BY <1>1, <1>4, <1>5, <1>6, <1>7, <1>8, SlotKeeps
-----------------------------------------------------------------------------
(* Live calls *)

\* A tick is counted when it calls, and only below the setting.
LEMMA TickStartsKeeps ==
    ASSUME Inv, NEW s \in Slots, TickStarts(s)
    PROVE  Inv'
<1>1. /\ run[s] # Idle /\ run[s].job = Live /\ run[s].pc = "start"
      /\ row' = EnqueueLoop(Live)
      /\ UNCHANGED <<jobs, parked, up, boot, ensure, asks, wanted, lost, faults>>
  BY DEF TickStarts, At
<1>2. RowsGood /\ ParkedGood /\ DetailsStay
  BY <1>1, LoopEnqueued, JobNames
<1>3. RestGood
  BY <1>1, SameRest DEF Inv, TypeOK
<1>4. ~Carries(s)
  BY <1>1, JobNames DEF Carries
<1>5. CASE inFlight >= LiveMax
  <2>1. Goto(s, "done") /\ inFlight' = inFlight
    BY <1>5 DEF TickStarts, AfterSkip
  <2> QED
    BY <1>1, <1>2, <1>3, <1>4, <2>1, DoneKeeps
<1>6. CASE ~(inFlight >= LiveMax)
  <2>1. Goto(s, "calling") /\ inFlight' = inFlight + 1
    BY <1>6 DEF TickStarts
  <2>2. "calling" \in Pc
    BY DEF Pc
  <2>3. RunMoves(s) /\ run'[s] # Idle /\ run'[s].pc = "calling" /\ run'[s].job = Live
    BY <1>1, <2>1, <2>2, GotoMoves
  <2>4. DetailsRunOK(s)' /\ WantedIsCarried'
    BY <1>1, <1>2, <1>3, <1>4, <2>3, CarryOn, JobNames DEF DetailsRunOK
  <2>5. LiveCallsWithinCap'
    <3>1. Callers' = Callers \cup {s} /\ s \notin Callers
      BY <1>1, <2>3 DEF Callers, RunMoves
    <3>2. IsFiniteSet(Callers) /\ inFlight = Cardinality(Callers)
      BY Constants, FS_Subset DEF Callers, Inv, LiveCallsWithinCap
    <3>3. Cardinality(Callers \cup {s}) = Cardinality(Callers) + 1
      BY <3>1, <3>2, FS_AddElement
    <3>4. inFlight \in Nat /\ inFlight + 1 <= LiveMax
      BY <1>6, <3>2, FS_CardinalityType, Constants
    <3>5. Callers' = {t \in Slots : run'[t] # Idle /\ run'[t].pc = "calling"}
      BY DEF Callers
    <3> QED
      BY <2>1, <3>1, <3>2, <3>3, <3>4, <3>5 DEF LiveCallsWithinCap
  <2> QED
    BY <1>2, <1>3, <2>3, <2>4, <2>5, Assemble
<1> QED
  BY <1>5, <1>6

\* A call that ends was counted, so the count is not empty when it is taken off.
LEMMA TickEndsKeeps ==
    ASSUME Inv, NEW s \in Slots, TickEnds(s)
    PROVE  Inv'
<1>1. /\ run[s] # Idle /\ run[s].job = Live /\ run[s].pc = "calling" /\ Goto(s, "done")
      /\ inFlight' = leaveLiveCall
      /\ UNCHANGED <<jobs, row, parked, up, boot, ensure, asks, wanted, lost, faults>>
  BY DEF TickEnds, At
<1>2. RowsGood /\ ParkedGood /\ DetailsStay
  BY <1>1, SameIsKept, KeptIsGood
<1>3. RestGood
  BY <1>1, SameRest DEF Inv, TypeOK
<1>4. "done" \in Pc
  BY DEF Pc
<1>5. RunMoves(s) /\ run'[s].pc = "done"
  BY <1>1, <1>4, GotoMoves
<1>6. DetailsRunOK(s)' /\ WantedIsCarried'
  BY <1>1, <1>2, <1>3, <1>5, CarryOn DEF DetailsRunOK, Carries
<1>7. LiveCallsWithinCap'
  <2>1. Callers' = Callers \ {s} /\ s \in Callers
    BY <1>1, <1>5 DEF Callers, RunMoves
  <2>2. IsFiniteSet(Callers) /\ inFlight = Cardinality(Callers) /\ inFlight <= LiveMax
    BY Constants, FS_Subset DEF Callers, Inv, LiveCallsWithinCap
  <2>3. Cardinality(Callers \ {s}) = Cardinality(Callers) - 1
    BY <2>1, <2>2, FS_RemoveElement
  <2>4. inFlight \in Nat /\ inFlight # 0
    BY <2>1, <2>2, FS_CardinalityType, FS_EmptySet
  <2>5. inFlight' = inFlight - 1 /\ inFlight' <= LiveMax
    BY <1>1, <2>2, <2>4, Constants DEF leaveLiveCall
  <2>6. Callers' = {t \in Slots : run'[t] # Idle /\ run'[t].pc = "calling"}
    BY DEF Callers
  <2> QED
    BY <2>1, <2>2, <2>3, <2>5, <2>6 DEF LiveCallsWithinCap
<1> QED
  BY <1>2, <1>3, <1>5, <1>6, <1>7, Assemble

-----------------------------------------------------------------------------
(* Who else puts jobs in the queue; deaths *)

LEMMA OffSlotKeeps ==
    ASSUME Inv, UNCHANGED <<run, inFlight>>, RowsGood, ParkedGood, DetailsStay, RestGood,
           wanted' => wanted \/ Available(row'[Details])
    PROVE  Inv'
<1>1. PICK s \in Slots : TRUE
  BY JobQueueAssumption
<1>2. RunMoves(s)
  BY DEF Inv, TypeOK, RunMoves, TriesWithinBudget
<1>3. DetailsRunOK(s)'
  BY DEF DetailsRunOK, Inv, DetailsQueued, RestGood
<1>4. s \in Callers' <=> s \in Callers
  BY DEF Callers
<1>5. LiveCallsWithinCap'
  BY <1>2, <1>4, CallsStay
<1>6. WantedIsCarried'
  <2>1. CASE Available(row'[Details])
    BY <2>1 DEF WantedIsCarried, Carried
  <2>2. CASE wanted' => wanted
    <3>1. Carries(s) => Carried'
      BY DEF Carries, Carried
    <3> QED
      BY <1>2, <2>2, <3>1, CarryOn
  <2> QED
    BY <2>1, <2>2
<1> QED
  BY <1>2, <1>3, <1>5, <1>6, Assemble

LEMMA AskKeeps ==
    ASSUME Inv, Ask
    PROVE  Inv'
<1>1. /\ row' = addJob(row, Details, "replace", Fresh(1, TRUE, 0))
      /\ UNCHANGED <<jobs, parked, run, inFlight, up, boot, ensure, lost, faults>>
      /\ asks' \in 0..MaxAsks /\ wanted' \in BOOLEAN
  BY JobQueueAssumption DEF Ask, EnqueueNow, stampRetryBudget, Inv, TypeOK
<1>2. 0 \in 0..TriesOf(Details) /\ Details \in Jobs
  BY TriesOfIsTries, Constants
<1>3. RowsGood /\ Available(row'[Details])
  BY <1>1, <1>2, Enqueues
<1>4. ParkedGood /\ DetailsStay
  BY <1>1, <1>3, SameIsKept DEF DetailsStay
<1>5. RestGood
  BY <1>1 DEF RestGood, Inv, TypeOK
<1> QED
  BY <1>1, <1>3, <1>4, <1>5, OffSlotKeeps

LEMMA LoopsAreNoDetails ==
    ASSUME Inv
    PROVE  /\ Loops \subseteq Jobs /\ Details \notin Loops
           /\ boot \subseteq Loops /\ \A e \in Ensurers : ensure[e] \subseteq Loops
<1>1. jobs \subseteq Jobs
  BY JobQueueAssumption DEF Inv, TypeOK
<1> QED
  BY <1>1 DEF Inv, TypeOK, Loops

LEMMA LoopersKeep ==
    ASSUME Inv, \/ CronWalks \/ Boot \/ AddStartupJob
                \/ \E e \in DOMAIN ensure : EnsureReads(e) \/ EnsureAdds(e)
    PROVE  Inv'
<1>1. UNCHANGED <<jobs, parked, run, inFlight, asks, wanted, lost, faults>>
  BY DEF CronWalks, Boot, AddStartupJob, EnsureReads, EnsureAdds
<1>2. DOMAIN ensure = Ensurers /\ loopJobsToRequeue \subseteq Loops
  BY DEF Inv, TypeOK, loopJobsToRequeue
<1>3. RestGood
  BY <1>1, <1>2 DEF RestGood, Inv, TypeOK, CronWalks, Boot, AddStartupJob, EnsureReads,
                    EnsureAdds
<1>4. row' = row \/ \E j \in Jobs : j # Details /\ row' = EnqueueLoop(j)
  BY <1>2, LoopsAreNoDetails, JobNames
     DEF CronWalks, Boot, AddStartupJob, EnsureReads, EnsureAdds
<1>5. RowsGood /\ ParkedGood /\ DetailsStay
  <2>1. CASE row' = row
    BY <1>1, <2>1, SameIsKept, KeptIsGood
  <2>2. CASE \E j \in Jobs : j # Details /\ row' = EnqueueLoop(j)
    BY <1>1, <2>2, LoopEnqueued
  <2> QED
    BY <1>4, <2>1, <2>2
<1> QED
  BY <1>1, <1>3, <1>5, OffSlotKeeps

LEMMA UnlockOldKeeps ==
    ASSUME Inv, UnlockOld
    PROVE  Inv'
<1>1. /\ row' = Unlocked(row, Dead) /\ parked' = Unlocked(parked, Dead)
      /\ UNCHANGED <<jobs, run, inFlight, up, boot, ensure, asks, wanted, lost, faults>>
  BY DEF UnlockOld
<1>2. row \in [Jobs -> Row \cup {NoRow}] /\ parked \in [Named -> Row \cup {NoRow}]
  BY DEF Inv, TypeOK
<1>3. /\ row' \in [Jobs -> Row \cup {NoRow}] /\ Kept(row, row')
      /\ parked' \in [Named -> Row \cup {NoRow}] /\ Kept(parked, parked')
  BY <1>1, <1>2, LocksAreKept
<1>4. RowsGood /\ ParkedGood /\ DetailsStay
  BY <1>3, KeptIsGood
<1>5. RestGood
  BY <1>1, SameRest DEF Inv, TypeOK
<1> QED
  BY <1>1, <1>4, <1>5, OffSlotKeeps

\* A death takes every run: of the details it may be the only one left.
LEMMA DieKeeps ==
    ASSUME Inv, Die
    PROVE  Inv'
<1>1. /\ row' = Orphaned(row) /\ parked' = Orphaned(parked)
      /\ run' = [s \in Slots |-> Idle] /\ inFlight' = 0
      /\ UNCHANGED <<jobs, asks, wanted>>
  BY DEF Die
<1>2. row \in [Jobs -> Row \cup {NoRow}] /\ parked \in [Named -> Row \cup {NoRow}]
      /\ Dead \in Slots \cup {Dead}
  BY DEF Inv, TypeOK
<1>3. /\ row' \in [Jobs -> Row \cup {NoRow}] /\ Kept(row, row')
      /\ parked' \in [Named -> Row \cup {NoRow}] /\ Kept(parked, parked')
  BY <1>1, <1>2, LocksAreKept
<1>4. RowsGood /\ ParkedGood /\ DetailsStay
  BY <1>3, KeptIsGood
<1>5. lost' \in BOOLEAN /\ (lost' <=> lost \/ \E s \in Slots : run[s].job = Details)
  BY Zenon DEF Die
<1>6. RestGood
  <2>1. faults' \in 0..MaxFaults
    BY JobQueueAssumption DEF Inv, TypeOK, Die, Fault
  <2>2. ensure' \in [Ensurers -> SUBSET Loops] /\ up' \in BOOLEAN /\ boot' \subseteq Loops
    BY DEF Inv, TypeOK, Die
  <2>3. asks' \in 0..MaxAsks /\ wanted' \in BOOLEAN
    BY <1>1 DEF Inv, TypeOK
  <2> QED
    BY <1>1, <1>5, <2>1, <2>2, <2>3 DEF RestGood
<1>7. \A s \in Slots : run'[s] = Idle
  BY <1>1
<1>8. WantedIsCarried'
  BY <1>1, <1>4, <1>5 DEF Inv, WantedIsCarried, Carried, Carries, DetailsStay
<1>9. DetailsQueued'
  BY <1>4, <1>7, RowShapes, Constants DEF DetailsQueued, DetailsRunOK, RowsGood
<1>10. TriesWithinBudget'
  BY <1>4, <1>7 DEF TriesWithinBudget, RowsGood, ParkedGood
<1>11. LiveCallsWithinCap'
  <2>1. {s \in Slots : run'[s] # Idle /\ run'[s].pc = "calling"} = {}
    BY <1>7
  <2> QED
    BY <1>1, <2>1, FS_EmptySet, Constants DEF LiveCallsWithinCap
<1>12. TypeOK'
  <2>1. run' \in [Slots -> Run \cup {Idle}]
    BY <1>1
  <2> QED
    BY <1>4, <1>6, <1>11, <2>1, CountIsBoundedNext
       DEF Inv, TypeOK, RowsGood, ParkedGood, RestGood, Loops
<1> QED
  BY <1>8, <1>9, <1>10, <1>11, <1>12 DEF Inv
-----------------------------------------------------------------------------
(* The theorems *)

LEMMA InitInv == Init => Inv
<1> SUFFICES ASSUME Init PROVE Inv
  OBVIOUS
<1>1. \A s \in Slots : run[s] = Idle
  BY DEF Init
<1>2. LiveCallsWithinCap
  <2>1. {s \in Slots : run[s] # Idle /\ run[s].pc = "calling"} = {}
    BY <1>1
  <2> QED
    BY <2>1, FS_EmptySet, Constants DEF Init, LiveCallsWithinCap
<1>3. \A j \in Jobs : row[j] = NoRow
  BY DEF Init
<1>4. \A j \in Named : parked[j] = NoRow
  BY DEF Init
<1>5. DetailsQueued
  BY <1>1, <1>3, RowShapes, Constants DEF DetailsQueued, DetailsRunOK
<1>6. WantedIsCarried
  BY DEF Init, WantedIsCarried
<1>7. TriesWithinBudget
  BY <1>1, <1>3, <1>4 DEF TriesWithinBudget
<1>8. TypeOK
  <2>1. /\ row \in [Jobs -> Row \cup {NoRow}] /\ parked \in [Named -> Row \cup {NoRow}]
        /\ run \in [Slots -> Run \cup {Idle}] /\ ensure \in [Ensurers -> SUBSET Loops]
    BY DEF Init
  <2>2. asks \in 0..MaxAsks /\ faults \in 0..MaxFaults
    BY JobQueueAssumption DEF Init
  <2>3. inFlight \in 0..Cardinality(Slots)
    BY <1>2, CountIsBounded
  <2> QED
    BY <2>1, <2>2, <2>3 DEF Init, TypeOK
<1> QED
  BY <1>2, <1>5, <1>6, <1>7, <1>8 DEF Inv

LEMMA StepInv == Inv /\ [Next]_vars => Inv'
<1> SUFFICES ASSUME Inv, [Next]_vars PROVE Inv'
  OBVIOUS
<1>1. CASE UNCHANGED vars
  BY <1>1 DEF vars, Inv, TypeOK, DetailsQueued, DetailsRunOK, WantedIsCarried, Carried,
              Carries, TriesWithinBudget, LiveCallsWithinCap, Loops
<1>2. ASSUME NEW s \in Slots, NEW j \in Jobs, Take(s, j)
      PROVE  Inv'
  BY <1>2, TakeKeeps
<1>3. ASSUME NEW s \in Slots, NEW j \in Named, TakeParked(s, j) \/ Hop(s, j)
      PROVE  Inv'
  BY <1>3, TakeParkedKeeps, HopKeeps
<1>4. ASSUME NEW s \in Slots,
             \/ TickStarts(s) \/ TickEnds(s) \/ TailEnds(s) \/ WalkEnds(s)
             \/ WalkSkips(s) \/ DetailsEnds(s) \/ DetailsPostponed(s)
      PROVE  Inv'
  BY <1>4, TickStartsKeeps, TickEndsKeeps, EndsKeep, DetailsDoneKeep
<1>5. ASSUME NEW s \in Slots,
             \/ DetailsThrows(s) \/ Throws(s) \/ RetryOffQueue(s) \/ FailJob(s)
             \/ Complete(s)
      PROVE  Inv'
  BY <1>5, ThrowsKeep, RetryKeeps, LeavesKeep
<1>6. ASSUME NEW s \in Slots, Works(s)
      PROVE  Inv'
  BY <1>3, <1>4, <1>5, <1>6 DEF Works
<1>7. CASE Ask \/ Die \/ UnlockOld
  BY <1>7, AskKeeps, DieKeeps, UnlockOldKeeps
<1>8. CASE \/ CronWalks \/ Boot \/ AddStartupJob
           \/ \E e \in DOMAIN ensure : EnsureReads(e) \/ EnsureAdds(e)
  BY <1>8, LoopersKeep
<1> QED
  BY <1>1, <1>2, <1>3, <1>4, <1>5, <1>6, <1>7, <1>8 DEF Next

\* The inductive invariant of the queue holds in every reachable state.
THEOREM Invariance == Spec => []Inv
BY InitInv, StepInv, PTL DEF Spec

\* Rows, runs, counts and sets keep their types, whatever the slots and budgets.
THEOREM TypeCorrect == Spec => []TypeOK
<1>1. Inv => TypeOK
  BY DEF Inv
<1> QED
  BY <1>1, Invariance, PTL

\* live-circuit.ts: the count of live calls is exact and never above the setting,
\* over skipped ticks, calls that throw, deaths and restarts.
THEOREM LiveCallsStayWithinCap == Spec => []LiveCallsWithinCap
<1>1. Inv => LiveCallsWithinCap
  BY DEF Inv
<1> QED
  BY <1>1, Invariance, PTL

\* stampRetryBudget: no row and no run of a job has more tries in its payload than
\* the budget of that job, however often it leaves its queue and comes back.
THEOREM TriesStayWithinBudget == Spec => []TriesWithinBudget
<1>1. Inv => TriesWithinBudget
  BY DEF Inv
<1> QED
  BY <1>1, Invariance, PTL

\* What carries a request is alive.
LEMMA CarriedIsAlive == Inv => WantedIsAlive
<1> SUFFICES ASSUME Inv, wanted PROVE WantedIsAlive
  BY DEF WantedIsAlive
<1>1. Carried
  BY DEF Inv, WantedIsCarried
<1>2. \A r : Available(r) => Alive(r)
  BY DEF Available, Alive
<1> QED
  BY <1>1, <1>2 DEF Carried, Carries, WantedIsAlive

\* Details that somebody asked for stay alive through retries, hops, a second
\* request and unlocks, unless a process died with them or a hop failed.
THEOREM WantedStaysAlive == Spec => []WantedIsAlive
BY CarriedIsAlive, Invariance, PTL
=============================================================================
