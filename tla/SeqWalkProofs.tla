--------------------------- MODULE SeqWalkProofs ---------------------------
(***************************************************************************)
(* Safety of SeqWalk for every set of sequence numbers, batch size,        *)
(* parallelism, rewind and number of tries.                                *)
(*                                                                         *)
(* NothingPassedOver is not inductive alone.  A job or a claim outlives    *)
(* the cursor it was made from, so what lies below its start must be       *)
(* covered as well (WindowsFollow, ClaimsFollow); a job that is forgotten  *)
(* must have asked for what its claim took (AnsweredAsked); a page has no  *)
(* hole below its highest number (PageAsked).                              *)
(*                                                                         *)
(* LeagueWalk, the walk that finds the matches this one asks for, follows  *)
(* from "Safety of LeagueWalk" on.                                         *)
(***************************************************************************)
EXTENDS SeqWalk, FiniteSetTheorems, WellFoundedInduction, TLAPS

\* The counters of the claim loop and of a job's tries, as the guards need them.
Counters ==
    /\ \A i \in {Walker} \cup Start :
          /\ claim[i].pc \in {"read", "check"} => claim[i].room > 0
          /\ claim[i].pc = "read" => claim[i].spins > 0
          /\ claim[i].pc \in {"check", "skip", "cas"} => claim[i].at \in Start
    /\ \A s \in Start : window[s].pc # "dead" => window[s].failed < Tries

CoveredNums == {n \in Num : Covered(n)}

CoveredBelow(c) == \A n \in Num : n < c => n \in CoveredNums

WindowsFollow ==
    \A s \in Start : window[s].pc # "none" => CoveredBelow(s)

AnsweredAsked ==
    \A s \in Start :
        window[s].pc \in {"answered", "rewound", "saved", "refill"}
            => Claimed(s) \subseteq asked

PageAsked ==
    \A s \in Start : \A m \in window[s].got : \A n \in Num :
        s <= n /\ n <= m => n \in asked

ClaimsFollow ==
    \A i \in {Walker} \cup Start :
        /\ claim[i].pc \in {"check", "skip", "cas"} => CoveredBelow(claim[i].at)
        /\ claim[i].pc \in {"skip", "cas"}
              => Claimed(claim[i].at) \subseteq CoveredNums

\* A window that claims is still there, and is in its refill.
ClaimOwned ==
    \A s \in Start : claim[s].pc # "idle" => window[s].pc = "refill"

TypeInv == TypeOK /\ Counters

IInv == /\ TypeInv /\ CoveredBelow(cursor)
        /\ WindowsFollow /\ AnsweredAsked /\ PageAsked
        /\ ClaimsFollow /\ ClaimOwned

-----------------------------------------------------------------------------
(* Types *)

LEMMA InitTypeInv == Init => TypeInv
  <1> SUFFICES ASSUME Init PROVE TypeInv
    OBVIOUS
  <1> USE SeqAssumption DEF SeqAssumption, Init
  <1>1. NoJob \in Job /\ NoJob.failed < Tries
    BY DEF NoJob, Job
  <1>2. IdleClaim \in Claim /\ IdleClaim.pc = "idle"
    BY DEF IdleClaim, Claim
  <1>3. TypeOK
    <2>1. window \in [Start -> Job]
      BY <1>1
    <2>2. claim \in [{Walker} \cup Start -> Claim]
      BY <1>2
    <2>3. cursor \in Nat \ {0} /\ throws \in 0..MaxThrows
      OBVIOUS
    <2> QED
      BY <2>1, <2>2, <2>3 DEF TypeOK
  <1>4. Counters
    BY <1>1, <1>2 DEF Counters
  <1> QED
    BY <1>3, <1>4 DEF TypeInv

\* Whatever it counts, countJobs returns a natural number.
LEMMA JobsCounted == countJobs \subseteq Nat
  <1>1. IsFiniteSet(Start) /\ Alive \subseteq Start
    BY SeqAssumption, FS_Interval DEF SeqAssumption, Start, Alive
  <1>2. ASSUME NEW locked \in SUBSET LastTry
        PROVE  Cardinality(Alive \ locked) \in Nat
    <2>1. Alive \ locked \subseteq Start
      BY <1>1
    <2> QED
      BY <1>1, <2>1, FS_Subset, FS_CardinalityType
  <1>3. ASSUME NEW n \in countJobs
        PROVE  n \in Nat
    <2> DEFINE Missed == {l \in SUBSET LastTry :
                            \A s \in LastTry : window[s].pc = "queued" \/ s \in l}
    <2>1. CASE n \in {Cardinality(Alive \ locked) : locked \in Missed}
      BY <1>2, <2>1
    <2>2. CASE n \in (IF CountThrows THEN {0} ELSE {})
      BY <2>2
    <2> QED
      BY <2>1, <2>2 DEF countJobs
  <1> QED
    BY <1>3

\* The end of a claim changes nothing but the claim and the window that made it.
LEMMA EndsKeepTypes ==
    ASSUME TypeInv, NEW i \in {Walker} \cup Start, ClaimEnds(i)
    PROVE  /\ window' \in [Start -> Job]
           /\ claim' \in [{Walker} \cup Start -> Claim]
           /\ Counters'
  <1> USE SeqAssumption DEF SeqAssumption, TypeInv, ClaimEnds
  <1>1. NoJob \in Job /\ NoJob.failed < Tries
    BY DEF NoJob, Job
  <1>2. IdleClaim \in Claim /\ IdleClaim.pc = "idle"
    BY DEF IdleClaim, Claim
  <1>3. i # Walker => i \in Start
    OBVIOUS
  <1>4. /\ window' \in [Start -> Job]
        /\ claim' \in [{Walker} \cup Start -> Claim]
    BY <1>1, <1>2, <1>3 DEF TypeOK
  <1>5. \A j \in {Walker} \cup Start : claim'[j] = claim[j] \/ claim'[j].pc = "idle"
    BY <1>2 DEF TypeOK
  <1>6. \A s \in Start : window'[s] = window[s] \/ window'[s].failed < Tries
    BY <1>1, <1>3 DEF TypeOK
  <1> QED
    BY <1>4, <1>5, <1>6 DEF Counters

LEMMA ClaimKeepsTypes ==
    ASSUME TypeInv, NEW i \in {Walker} \cup Start, ClaimStep(i)
    PROVE  TypeInv'
  <1> USE SeqAssumption DEF SeqAssumption, TypeInv
  <1>0. SUFFICES /\ window' \in [Start -> Job]
                 /\ claim' \in [{Walker} \cup Start -> Claim]
                 /\ cursor' \in Nat \ {0}
                 /\ Counters'
                 /\ Claiming
    BY DEF TypeOK, Claiming
  <1>1. /\ window \in [Start -> Job]
        /\ claim \in [{Walker} \cup Start -> Claim]
        /\ cursor \in Nat \ {0}
    BY DEF TypeOK
  <1>2. i # Walker => i \in Start
    OBVIOUS
  <1>a. CASE ClaimStart(i)
    <2>1. PICK inflight \in countJobs :
             /\ inflight < Parallelism
             /\ claim' = [claim EXCEPT ![i] = [pc |-> "read", at |-> 0,
                                               room |-> Parallelism - inflight,
                                               spins |-> Spins]]
      BY <1>a DEF ClaimStart
    <2>2. inflight \in Nat
      BY JobsCounted
    <2>3. /\ Parallelism - inflight \in 0..Parallelism
          /\ Parallelism - inflight > 0
          /\ Spins \in 0..Spins /\ Spins > 0
      BY <2>1, <2>2
    <2>4. claim' \in [{Walker} \cup Start -> Claim]
      BY <1>1, <2>1, <2>3 DEF Claim
    <2>5. window' \in [Start -> Job]
      BY <1>a, <1>1, <1>2 DEF ClaimStart, Job
    <2>6. Counters'
      BY <1>a, <1>1, <1>2, <2>1, <2>3 DEF ClaimStart, Counters, Job, Claim
    <2> QED
      BY <1>a, <1>1, <2>4, <2>5, <2>6 DEF ClaimStart
  <1>b. CASE ClaimNothing(i)
    BY <1>b, <1>1, EndsKeepTypes DEF ClaimNothing
  <1>c. CASE ClaimRead(i)
    <2>1. cursor \in Start
      BY <1>c, <1>1 DEF ClaimRead, claimAdvance, Start
    <2>2. claim[i].spins - 1 \in 0..Spins /\ claim[i].room > 0
      BY <1>c, <1>1 DEF ClaimRead, Counters, Claim
    <2>3. claim' \in [{Walker} \cup Start -> Claim]
      BY <1>c, <1>1, <2>1, <2>2 DEF ClaimRead, Claim
    <2>4. Counters'
      BY <1>c, <1>1, <2>1, <2>2 DEF ClaimRead, Claim, Counters
    <2> QED
      BY <1>c, <1>1, <2>3, <2>4 DEF ClaimRead
  <1>d. CASE ClaimBound(i)
    BY <1>d, <1>1, EndsKeepTypes DEF ClaimBound
  <1>e. CASE ClaimAlive(i)
    <2>1. claim' \in [{Walker} \cup Start -> Claim]
      BY <1>e, <1>1 DEF ClaimAlive, Claim
    <2>2. Counters'
      BY <1>e, <1>1 DEF ClaimAlive, Claim, Counters
    <2> QED
      BY <1>e, <1>1, <2>1, <2>2 DEF ClaimAlive
  <1>f. CASE ClaimEnqueue(i)
    <2>1. claim[i].room - 1 \in 0..Parallelism
      BY <1>f, <1>1 DEF ClaimEnqueue, Counters, Claim
    <2>2. Queued \in Job /\ Queued.failed < Tries
      BY DEF Queued, NoJob, Job
    <2>3. claim' \in [{Walker} \cup Start -> Claim]
      BY <1>f, <1>1, <2>1 DEF ClaimEnqueue, Claim
    <2>4. window' \in [Start -> Job]
      BY <1>f, <1>1, <2>2 DEF ClaimEnqueue
    <2>5. Counters'
      BY <1>f, <1>1, <2>1, <2>2 DEF ClaimEnqueue, Claim, Counters
    <2> QED
      BY <1>f, <1>1, <2>3, <2>4, <2>5 DEF ClaimEnqueue
  <1>g. CASE ClaimCas(i)
    <2>1. cursor' \in Nat \ {0}
      BY <1>g, <1>1 DEF ClaimCas, claimAdvance
    <2>2. CASE ClaimEnds(i)
      BY <1>g, <2>1, <2>2, EndsKeepTypes DEF ClaimCas
    <2>3. CASE /\ claim[i].room > 0 /\ claim[i].spins > 0
               /\ claim' = [claim EXCEPT ![i].pc = "read"]
               /\ UNCHANGED window
      <3>1. claim' \in [{Walker} \cup Start -> Claim]
        BY <2>3, <1>1 DEF Claim
      <3>2. Counters'
        BY <2>3, <1>1 DEF Claim, Counters
      <3> QED
        BY <1>g, <1>1, <2>1, <2>3, <3>1, <3>2 DEF ClaimCas
    <2> QED
      BY <1>g, <2>2, <2>3 DEF ClaimCas
  <1> QED
    BY <1>a, <1>b, <1>c, <1>d, <1>e, <1>f, <1>g DEF ClaimStep

LEMMA WindowKeepsTypes ==
    ASSUME TypeInv, NEW s \in Start,
           \/ WindowAnswer(s) \/ WindowEmpty(s) \/ WindowCooldown(s)
           \/ WindowSave(s) \/ WindowNoKey(s) \/ WindowThrow(s)
    PROVE  TypeInv'
  <1> USE SeqAssumption DEF SeqAssumption, TypeInv
  <1>1. /\ window \in [Start -> Job]
        /\ claim \in [{Walker} \cup Start -> Claim]
        /\ cursor \in Nat \ {0}
        /\ asked \subseteq Num /\ saved \subseteq Num
        /\ head \in Num \cup {0} /\ throws \in 0..MaxThrows
        /\ cooldown \in BOOLEAN
    BY DEF TypeOK
  <1>2. Page(s) \subseteq Num /\ Claimed(s) \subseteq Num
    BY DEF Page, Published, Claimed
  <1>3. NoJob \in Job /\ NoJob.failed < Tries
    BY DEF NoJob, Job
  <1>a. CASE WindowAnswer(s)
    <2>1. window' \in [Start -> Job] /\ asked' \subseteq Num
      BY <1>a, <1>1, <1>2 DEF WindowAnswer, Job
    <2>2. Counters'
      BY <1>a, <1>1 DEF WindowAnswer, Others, Counters, Job
    <2> QED
      BY <1>a, <1>1, <2>1, <2>2 DEF WindowAnswer, Others, TypeOK
  <1>b. CASE WindowEmpty(s)
    <2>1. window' \in [Start -> Job]
      BY <1>b, <1>1 DEF WindowEmpty, Job
    <2>2. cursor' \in Nat \ {0}
      BY <1>b DEF WindowEmpty, rewindSeqWalkCursor, Start
    <2>3. Counters'
      BY <1>b, <1>1 DEF WindowEmpty, Others, Counters, Job
    <2> QED
      BY <1>b, <1>1, <2>1, <2>2, <2>3 DEF WindowEmpty, Others, TypeOK
  <1>c. CASE WindowCooldown(s)
    <2>1. window' \in [Start -> Job]
      BY <1>c, <1>1, <1>3 DEF WindowCooldown
    <2>2. Counters'
      BY <1>c, <1>1, <1>3 DEF WindowCooldown, Others, Counters
    <2> QED
      BY <1>c, <1>1, <2>1, <2>2 DEF WindowCooldown, Others, TypeOK
  <1>d. CASE WindowSave(s)
    <2>0. window[s].got \subseteq Num
      BY <1>1 DEF Job
    <2>1. window' \in [Start -> Job]
      BY <1>d, <1>1 DEF WindowSave, Job
    <2>2. cursor' \in Nat \ {0}
      BY <1>d, <1>1, <2>0 DEF WindowSave, bumpSeqWalkCursor
    <2>3. Counters'
      BY <1>d, <1>1 DEF WindowSave, Others, Counters, Job
    <2> QED
      BY <1>d, <1>1, <2>0, <2>1, <2>2, <2>3 DEF WindowSave, Others, TypeOK
  <1>e. CASE WindowThrow(s)
    <2> DEFINE failed == window[s].failed + 1
               after == [NoJob EXCEPT !.pc = IF failed < Tries THEN "queued"
                                                                ELSE "dead",
                                      !.failed = failed]
    <2>1. failed \in 0..Tries
      BY <1>e, <1>1 DEF WindowThrow, Alive, Counters, Job
    <2>2. after \in Job /\ (after.pc # "dead" => after.failed < Tries)
      BY <2>1, <1>3 DEF NoJob, Job
    <2>3. window' = [window EXCEPT ![s] = after]
      BY <1>e DEF WindowThrow
    <2>4. IdleClaim \in Claim /\ IdleClaim.pc = "idle"
      BY DEF IdleClaim, Claim
    <2> HIDE DEF after
    <2>5. /\ window' \in [Start -> Job]
          /\ claim' \in [{Walker} \cup Start -> Claim]
          /\ throws' \in 0..MaxThrows
      BY <1>e, <1>1, <2>2, <2>3, <2>4 DEF WindowThrow
    <2>6. Counters'
      BY <1>e, <1>1, <2>2, <2>3, <2>4 DEF WindowThrow, Counters
    <2> QED
      BY <1>e, <1>1, <2>5, <2>6 DEF WindowThrow, TypeOK
  <1>f. CASE WindowNoKey(s)
    <2>1. Queued \in Job /\ Queued.failed < Tries
      BY DEF Queued, NoJob, Job
    <2>2. window' \in [Start -> Job]
      BY <1>f, <1>1, <2>1 DEF WindowNoKey
    <2>3. Counters'
      BY <1>f, <1>1, <2>1 DEF WindowNoKey, Others, Counters
    <2> QED
      BY <1>f, <1>1, <2>2, <2>3 DEF WindowNoKey, Others, TypeOK
  <1> QED
    BY <1>a, <1>b, <1>c, <1>d, <1>e, <1>f

LEMMA NextTypeInv == TypeInv /\ [Next]_vars => TypeInv'
  <1> SUFFICES ASSUME TypeInv, [Next]_vars PROVE TypeInv'
    OBVIOUS
  <1> USE SeqAssumption DEF SeqAssumption
  <1>1. CASE Publish
    BY <1>1 DEF Publish, TypeInv, TypeOK, Counters
  <1>2. CASE CooldownEnds
    BY <1>2 DEF CooldownEnds, TypeInv, TypeOK, Counters
  <1>3. CASE WalkerThrow
    <2>1. IdleClaim \in Claim /\ IdleClaim.pc = "idle"
      BY DEF IdleClaim, Claim
    <2> QED
      BY <1>3, <2>1 DEF WalkerThrow, Claiming, TypeInv, TypeOK, Counters
  <1>4. CASE \E i \in {Walker} \cup Start : ClaimStep(i)
    BY <1>4, ClaimKeepsTypes
  <1>5. CASE \E s \in Start :
                \/ WindowAnswer(s) \/ WindowEmpty(s) \/ WindowCooldown(s)
                \/ WindowSave(s) \/ WindowNoKey(s) \/ WindowThrow(s)
    BY <1>5, WindowKeepsTypes
  <1>6. CASE UNCHANGED vars
    BY <1>6 DEF vars, TypeInv, TypeOK, Counters
  <1> QED
    BY <1>1, <1>2, <1>3, <1>4, <1>5, <1>6 DEF Next

\* Cursor, jobs and claims stay in their domains for every value of the
\* constants; the cursor never falls below 1.
THEOREM TypeCorrect == Spec => []TypeOK
  <1>1. TypeInv => TypeOK
    BY DEF TypeInv
  <1> QED
    BY InitTypeInv, NextTypeInv, <1>1, PTL DEF Spec

-----------------------------------------------------------------------------
(* What a step does to jobs, claims and what is covered *)

WindowStep(s) ==
    \/ WindowAnswer(s) \/ WindowEmpty(s) \/ WindowCooldown(s)
    \/ WindowSave(s) \/ WindowNoKey(s) \/ WindowThrow(s)

Types ==
    /\ window \in [Start -> Job]
    /\ claim \in [{Walker} \cup Start -> Claim]
    /\ cursor \in Nat \ {0}
    /\ Num \subseteq Nat

LEMMA TypesHold == TypeInv => Types
  BY SeqAssumption DEF SeqAssumption, TypeInv, TypeOK, Types

\* A window that ends its claim has asked for what was claimed for it.
LEMMA EndAsked ==
    ASSUME IInv, NEW i \in {Walker} \cup Start, ClaimEnds(i),
           i \in Start => window[i].pc \in {"saved", "refill"}
    PROVE  \A s \in Start : window'[s].pc # "none"
                            \/ window[s].pc = "none"
                            \/ Claimed(s) \subseteq asked
  <1>1. i # Walker => i \in Start
    OBVIOUS
  <1> QED
    BY <1>1, TypesHold DEF IInv, Types, ClaimEnds, AnsweredAsked

\* A window that has a claim going is in its refill.
LEMMA EnderRefills ==
    ASSUME IInv, NEW i \in Start, claim[i].pc # "idle"
    PROVE  window[i].pc = "refill"
  BY DEF IInv, ClaimOwned

\* No job is forgotten before it has asked.
LEMMA JobsRemembered ==
    ASSUME IInv, Next
    PROVE  /\ asked \subseteq asked'
           /\ \A s \in Start : \/ window'[s].pc # "none"
                               \/ window[s].pc = "none"
                               \/ Claimed(s) \subseteq asked'
  <1>0. Types
    BY TypesHold DEF IInv
  <1>1. CASE Publish \/ CooldownEnds \/ WalkerThrow
    BY <1>1 DEF Publish, CooldownEnds, WalkerThrow, Claiming
  <1>2. ASSUME NEW i \in {Walker} \cup Start, ClaimStep(i)
        PROVE  /\ asked \subseteq asked'
               /\ \A s \in Start : \/ window'[s].pc # "none"
                                   \/ window[s].pc = "none"
                                   \/ Claimed(s) \subseteq asked'
    <2>0. asked' = asked
      BY <1>2 DEF ClaimStep, ClaimStart, ClaimNothing, ClaimRead, ClaimBound,
                  ClaimAlive, ClaimEnqueue, ClaimCas, Claiming
    <2>1. CASE ClaimEnds(i)
      <3>1. i \in Start => window[i].pc \in {"saved", "refill"}
        <4>1. CASE claim[i].pc # "idle"
          BY <4>1, EnderRefills
        <4>2. CASE ClaimStart(i) \/ ClaimNothing(i)
          BY <4>2, SeqAssumption
             DEF ClaimStart, ClaimNothing, SeqAssumption, Start, Walker
        <4> QED
          BY <1>2, <4>1, <4>2 DEF ClaimStep, ClaimRead, ClaimBound, ClaimAlive,
                                  ClaimEnqueue, ClaimCas
      <3> QED
        BY <2>0, <2>1, <3>1, EndAsked
    <2>2. CASE UNCHANGED window
      BY <2>0, <2>2
    <2>3. CASE ClaimStart(i)
      BY <1>0, <2>0, <2>3 DEF ClaimStart, Types, Job
    <2>4. CASE ClaimEnqueue(i)
      BY <1>0, <2>0, <2>4 DEF ClaimEnqueue, Types, Queued, NoJob
    <2> QED
      BY <1>2, <2>1, <2>2, <2>3, <2>4
         DEF ClaimStep, ClaimNothing, ClaimRead, ClaimBound, ClaimAlive, ClaimCas
  <1>3. ASSUME NEW s \in Start, WindowStep(s)
        PROVE  /\ asked \subseteq asked'
               /\ \A r \in Start : \/ window'[r].pc # "none"
                                   \/ window[r].pc = "none"
                                   \/ Claimed(r) \subseteq asked'
    <2>1. CASE WindowAnswer(s) \/ WindowEmpty(s) \/ WindowSave(s)
      BY <1>0, <2>1 DEF WindowAnswer, WindowEmpty, WindowSave, Types, Job
    <2>2. CASE WindowCooldown(s)
      BY <1>0, <2>2 DEF WindowCooldown, Types, IInv, AnsweredAsked
    <2>3. CASE WindowNoKey(s) \/ WindowThrow(s)
      BY <1>0, <2>3 DEF WindowNoKey, WindowThrow, Types, Queued, NoJob
    <2> QED
      BY <1>3, <2>1, <2>2, <2>3 DEF WindowStep
  <1> QED
    BY <1>1, <1>2, <1>3 DEF Next, WindowStep

\* What is covered stays covered.
LEMMA CoveredGrows ==
    ASSUME IInv, Next
    PROVE  CoveredNums \subseteq CoveredNums'
  <1> SUFFICES ASSUME NEW n \in Num,
                      \/ n \in asked
                      \/ \E s \in Start : window[s].pc # "none" /\ n \in Claimed(s)
               PROVE  \/ n \in asked'
                      \/ \E s \in Start : window'[s].pc # "none" /\ n \in Claimed(s)
    BY DEF CoveredNums, Covered, Claimed
  <1> QED
    BY JobsRemembered

\* A claim took what a job now holds.
LEMMA ClaimedCovered ==
    ASSUME NEW s \in Start, window[s].pc # "none"
    PROVE  Claimed(s) \subseteq CoveredNums
  BY DEF CoveredNums, Covered, Claimed

LEMMA ClaimedCoveredNext ==
    ASSUME NEW s \in Start, window'[s].pc # "none"
    PROVE  Claimed(s) \subseteq CoveredNums'
  BY DEF CoveredNums, Covered, Claimed

\* A page is the beginning of what is published from its start on.
LEMMA PageIsPrefix ==
    ASSUME Num \subseteq Nat, head \in Nat, Batch \in Nat, NEW s \in Nat,
           NEW m \in Page(s), NEW n \in Num, s <= n, n <= m
    PROVE  n \in Page(s)
  <1> DEFINE Before(x) == {k \in Published : s <= k /\ k < x}
  <1>1. m \in Published /\ m \in Nat /\ Cardinality(Before(m)) < Batch
    BY DEF Page, Published
  <1>2. n \in Published
    BY <1>1 DEF Published
  <1>3. IsFiniteSet(Before(m))
    <2>1. ASSUME NEW k \in Before(m)
          PROVE  k \in s..m
      <3>1. k \in Nat /\ s <= k /\ k < m
        BY DEF Published
      <3> QED
        BY <1>1, <3>1
    <2>2. IsFiniteSet(s..m)
      BY <1>1, FS_Interval
    <2> HIDE DEF Before
    <2> QED
      BY <2>1, <2>2, FS_Subset
  <1>4. ASSUME NEW k \in Before(n)
        PROVE  k \in Before(m)
    <2>1. k \in Published /\ k \in Nat /\ s <= k /\ k < n /\ n \in Nat
      BY DEF Published
    <2>2. k < m
      BY <1>1, <2>1
    <2> QED
      BY <2>1, <2>2
  <1>5. /\ Cardinality(Before(n)) <= Cardinality(Before(m))
        /\ Cardinality(Before(n)) \in Nat /\ Cardinality(Before(m)) \in Nat
    <2> HIDE DEF Before
    <2> QED
      BY <1>3, <1>4, FS_Subset, FS_CardinalityType
  <1>6. Cardinality(Before(n)) < Batch
    <2> HIDE DEF Before
    <2> QED
      BY <1>1, <1>5
  <1> QED
    BY <1>2, <1>6 DEF Page

-----------------------------------------------------------------------------
(* The cursor *)

\* The cursor moves past a claim whose numbers are covered, back, or up to the
\* highest number of a page.
LEMMA CursorFollows ==
    ASSUME IInv, Next
    PROVE  CoveredBelow(cursor)'
  <1> USE SeqAssumption DEF SeqAssumption, CoveredBelow
  <1>0. Types /\ CoveredNums \subseteq CoveredNums'
    BY TypesHold, CoveredGrows DEF IInv
  <1>1. \A n \in Num : n < cursor => n \in CoveredNums
    BY DEF IInv
  <1>2. CASE UNCHANGED cursor
    BY <1>0, <1>1, <1>2
  <1>3. ASSUME NEW i \in {Walker} \cup Start, ClaimCas(i)
        PROVE  CoveredBelow(cursor)'
    <2>1. \A n \in Num : n < claim[i].at + Batch => n \in CoveredNums
      <3>1. /\ claim[i].at \in Start
            /\ \A n \in Num : n < claim[i].at => n \in CoveredNums
            /\ Claimed(claim[i].at) \subseteq CoveredNums
        BY <1>3 DEF IInv, TypeInv, Counters, ClaimsFollow, ClaimCas
      <3> QED
        BY <1>0, <3>1 DEF Claimed, Types, Start
    <2>2. cursor' = IF cursor = claim[i].at THEN cursor + Batch ELSE cursor
      BY <1>3 DEF ClaimCas, claimAdvance
    <2> QED
      BY <1>0, <1>1, <2>1, <2>2
  <1>4. ASSUME NEW s \in Start, WindowEmpty(s)
        PROVE  CoveredBelow(cursor)'
    <2>1. \A n \in Num : n < s => n \in CoveredNums
      BY <1>4 DEF WindowEmpty, IInv, WindowsFollow
    <2>2. s \in Nat /\ (cursor' <= s \/ cursor' = 1)
      BY <1>4 DEF WindowEmpty, rewindSeqWalkCursor, Start
    <2>3. cursor' \in Nat
      BY <1>4 DEF WindowEmpty, rewindSeqWalkCursor, Start
    <2>4. \A n \in Num : n < cursor' => n < s
      BY <1>0, <2>2, <2>3 DEF Types
    <2> QED
      BY <1>0, <2>1, <2>4
  <1>5. ASSUME NEW s \in Start, WindowSave(s)
        PROVE  CoveredBelow(cursor)'
    <2>1. /\ window[s].got \subseteq Num
          /\ \A n \in Num : n < s => n \in CoveredNums
      BY <1>0, <1>5 DEF WindowSave, Types, Job, IInv, WindowsFollow
    <2>2. cursor' = cursor \/ cursor' \in window[s].got
      BY <1>5 DEF WindowSave, bumpSeqWalkCursor
    <2>3. CASE cursor' \in window[s].got
      <3>1. \A n \in Num : s <= n /\ n <= cursor' => n \in CoveredNums
        BY <2>3 DEF IInv, PageAsked, CoveredNums, Covered
      <3>2. ASSUME NEW n \in Num, n < cursor'
            PROVE  n < s \/ (s <= n /\ n <= cursor')
        <4>1. cursor' \in Num
          BY <2>1, <2>3
        <4>2. n \in Nat /\ s \in Nat /\ cursor' \in Nat
          BY <4>1 DEF Start
        <4> QED
          BY <3>2, <4>2
      <3> QED
        BY <1>0, <2>1, <3>1, <3>2
    <2> QED
      BY <1>0, <1>1, <2>2, <2>3
  <1> QED
    BY <1>2, <1>3, <1>4, <1>5
       DEF Next, Publish, CooldownEnds, WalkerThrow, Claiming, ClaimStep,
           ClaimStart, ClaimNothing, ClaimRead, ClaimBound, ClaimAlive,
           ClaimEnqueue, WindowAnswer, WindowCooldown, WindowNoKey, WindowThrow

-----------------------------------------------------------------------------
(* Jobs *)

\* Only an enqueue makes a job, and it makes it at the start of a claim.
LEMMA JobsAreClaimed ==
    ASSUME IInv, Next, NEW s \in Start,
           window[s].pc = "none", window'[s].pc # "none"
    PROVE  CoveredBelow(s)
  <1>0. Types
    BY TypesHold DEF IInv
  <1>1. PICK i \in {Walker} \cup Start :
           \/ ClaimStart(i) \/ ClaimEnqueue(i) \/ ClaimEnds(i)
           \/ /\ i \in Start
              /\ \/ WindowAnswer(i) \/ WindowEmpty(i) \/ WindowCooldown(i)
                 \/ WindowSave(i) \/ WindowNoKey(i) \/ WindowThrow(i)
    BY DEF Next, Publish, CooldownEnds, WalkerThrow, Claiming, ClaimStep,
           ClaimNothing, ClaimRead, ClaimBound, ClaimAlive, ClaimCas
  <1>2. CASE ClaimEnqueue(i)
    <2>1. s = claim[i].at
      BY <1>0, <1>2 DEF ClaimEnqueue, Types
    <2> QED
      BY <1>2, <2>1 DEF ClaimEnqueue, IInv, ClaimsFollow
  <1>3. CASE ClaimEnds(i)
    BY <1>0, <1>3 DEF ClaimEnds, Types, NoJob
  <1>4. CASE ClaimStart(i)
    BY <1>0, <1>4 DEF ClaimStart, Types
  <1>5. CASE i \in Start /\ (WindowAnswer(i) \/ WindowEmpty(i) \/ WindowSave(i))
    BY <1>0, <1>5 DEF WindowAnswer, WindowEmpty, WindowSave, Types
  <1>6. CASE i \in Start /\ WindowCooldown(i)
    BY <1>0, <1>6 DEF WindowCooldown, Types, NoJob
  <1>7. CASE i \in Start /\ (WindowNoKey(i) \/ WindowThrow(i))
    BY <1>0, <1>7 DEF WindowNoKey, WindowThrow, Alive, Types
  <1> QED
    BY <1>1, <1>2, <1>3, <1>4, <1>5, <1>6, <1>7

LEMMA NextWindowsFollow ==
    ASSUME IInv, Next
    PROVE  WindowsFollow'
  <1> SUFFICES ASSUME NEW s \in Start, window'[s].pc # "none"
               PROVE  \A n \in Num : n < s => n \in CoveredNums'
    BY DEF WindowsFollow, CoveredBelow
  <1>1. CoveredBelow(s)
    BY JobsAreClaimed DEF IInv, WindowsFollow
  <1> QED
    BY <1>1, CoveredGrows DEF CoveredBelow

\* What a step changes of the job of s: it is new, it has not asked, it went on
\* after it had asked, or it was just answered.
LEMMA JobChanges ==
    ASSUME IInv, Next, NEW s \in Start
    PROVE  \/ window'[s] = window[s]
           \/ /\ window'[s].pc \in {"none", "queued", "dead"}
              /\ window'[s].got = {}
           \/ /\ window'[s].pc \in {"rewound", "saved", "refill"}
              /\ window'[s].got \subseteq window[s].got
              /\ window[s].pc \in {"answered", "rewound", "saved"}
           \/ WindowAnswer(s)
  <1>0. Types
    BY TypesHold DEF IInv
  <1>1. PICK i \in {Walker} \cup Start :
           \/ ClaimStart(i) \/ ClaimEnqueue(i) \/ ClaimEnds(i)
           \/ UNCHANGED window
           \/ /\ i \in Start
              /\ \/ WindowAnswer(i) \/ WindowEmpty(i) \/ WindowCooldown(i)
                 \/ WindowSave(i) \/ WindowNoKey(i) \/ WindowThrow(i)
    BY DEF Next, Publish, CooldownEnds, WalkerThrow, Claiming, ClaimStep,
           ClaimNothing, ClaimRead, ClaimBound, ClaimAlive, ClaimCas
  <1>2. CASE ClaimEnqueue(i)
    BY <1>0, <1>2 DEF ClaimEnqueue, Types, Queued, NoJob
  <1>3. CASE ClaimEnds(i)
    BY <1>0, <1>3 DEF ClaimEnds, Types, NoJob
  <1>4. CASE ClaimStart(i)
    <2>1. i # Walker => window' = [window EXCEPT ![i].pc = "refill"]
                        /\ window[i].pc = "saved"
      BY <1>4 DEF ClaimStart
    <2>2. i = Walker => window' = window
      BY <1>4 DEF ClaimStart
    <2> QED
      BY <1>0, <2>1, <2>2 DEF Types, Job
  <1>5. CASE i \in Start /\ WindowAnswer(i)
    BY <1>0, <1>5 DEF WindowAnswer, Types
  <1>6. CASE i \in Start /\ (WindowEmpty(i) \/ WindowSave(i))
    BY <1>0, <1>6 DEF WindowEmpty, WindowSave, Types, Job
  <1>7. CASE i \in Start /\ WindowCooldown(i)
    BY <1>0, <1>7 DEF WindowCooldown, Types, NoJob
  <1>8. CASE i \in Start /\ (WindowNoKey(i) \/ WindowThrow(i))
    <2>1. CASE WindowThrow(i)
      <3>1. /\ window'[i].pc \in {"queued", "dead"}
            /\ window'[i].got = {}
        BY <1>0, <1>8, <2>1 DEF WindowThrow, Types, NoJob
      <3> QED
        BY <1>0, <1>8, <2>1, <3>1 DEF WindowThrow, Types
    <2>2. CASE WindowNoKey(i)
      BY <1>0, <1>8, <2>2 DEF WindowNoKey, Types, Queued, NoJob
    <2> QED
      BY <1>8, <2>1, <2>2
  <1> QED
    BY <1>1, <1>2, <1>3, <1>4, <1>5, <1>6, <1>7, <1>8

LEMMA NextAnsweredAsked ==
    ASSUME IInv, Next
    PROVE  AnsweredAsked'
  <1> SUFFICES ASSUME NEW s \in Start,
                      window'[s].pc \in {"answered", "rewound", "saved", "refill"}
               PROVE  Claimed(s) \subseteq asked'
    BY DEF AnsweredAsked, Claimed
  <1>1. CASE WindowAnswer(s)
    BY <1>1 DEF WindowAnswer
  <1>2. CASE window[s].pc \in {"answered", "rewound", "saved", "refill"}
    BY <1>2, JobsRemembered DEF IInv, AnsweredAsked
  <1> QED
    BY <1>1, <1>2, JobChanges

LEMMA NextPageAsked ==
    ASSUME IInv, Next
    PROVE  PageAsked'
  <1> USE SeqAssumption DEF SeqAssumption
  <1> SUFFICES ASSUME NEW s \in Start, NEW m \in window'[s].got, NEW n \in Num,
                      s <= n, n <= m
               PROVE  n \in asked'
    BY DEF PageAsked
  <1>1. CASE WindowAnswer(s)
    <2>1. window'[s].got = Page(s) /\ Page(s) \subseteq asked'
      BY <1>1, TypesHold DEF IInv, WindowAnswer, Types, Job
    <2>2. head \in Nat /\ s \in Nat /\ Batch \in Nat /\ Num \subseteq Nat
      BY DEF IInv, TypeInv, TypeOK, Start
    <2>3. n \in Page(s)
      BY <2>1, <2>2, PageIsPrefix
    <2> QED
      BY <2>1, <2>3
  <1>2. CASE window'[s].got \subseteq window[s].got
    BY <1>2, JobsRemembered DEF IInv, PageAsked
  <1> QED
    BY <1>1, <1>2, JobChanges

-----------------------------------------------------------------------------
(* Claims *)

LEMMA NextClaimsFollow ==
    ASSUME IInv, Next
    PROVE  ClaimsFollow'
  <1>0. Types /\ CoveredNums \subseteq CoveredNums'
    BY TypesHold, CoveredGrows DEF IInv
  <1> SUFFICES ASSUME NEW i \in {Walker} \cup Start
               PROVE  /\ claim'[i].pc \in {"check", "skip", "cas"}
                            => \A n \in Num : n < claim'[i].at
                                                  => n \in CoveredNums'
                      /\ claim'[i].pc \in {"skip", "cas"}
                            => Claimed(claim'[i].at) \subseteq CoveredNums'
    BY DEF ClaimsFollow, CoveredBelow, Claimed
  <1>1. \/ claim'[i] = claim[i]
        \/ claim'[i].pc \in {"idle", "read"}
        \/ ClaimRead(i) \/ ClaimAlive(i) \/ ClaimEnqueue(i)
    <2>1. CASE Publish \/ CooldownEnds \/ WalkerThrow
      BY <1>0, <2>1 DEF Publish, CooldownEnds, WalkerThrow, Types, IdleClaim
    <2>2. ASSUME NEW j \in {Walker} \cup Start, ClaimStep(j)
          PROVE  \/ claim'[i] = claim[i]
                 \/ claim'[i].pc \in {"idle", "read"}
                 \/ ClaimRead(i) \/ ClaimAlive(i) \/ ClaimEnqueue(i)
      <3>1. CASE ClaimEnds(j)
        BY <1>0, <3>1 DEF ClaimEnds, Types, IdleClaim
      <3>2. CASE ClaimStart(j)
        BY <1>0, <3>2 DEF ClaimStart, Types
      <3>3. CASE ClaimRead(j) \/ ClaimAlive(j) \/ ClaimEnqueue(j)
        BY <1>0, <3>3 DEF ClaimRead, ClaimAlive, ClaimEnqueue, Types
      <3>4. CASE claim' = [claim EXCEPT ![j].pc = "read"]
        BY <1>0, <3>4 DEF Types, Claim
      <3> QED
        BY <2>2, <3>1, <3>2, <3>3, <3>4
           DEF ClaimStep, ClaimNothing, ClaimBound, ClaimCas
    <2>3. ASSUME NEW s \in Start, WindowStep(s)
          PROVE  claim'[i] = claim[i] \/ claim'[i].pc = "idle"
      BY <1>0, <2>3 DEF WindowStep, WindowAnswer, WindowEmpty, WindowCooldown,
                        WindowSave, WindowNoKey, WindowThrow, Others, Types,
                        IdleClaim
    <2> QED
      BY <2>1, <2>2, <2>3 DEF Next, WindowStep
  <1>2. CASE claim'[i] = claim[i]
    BY <1>0, <1>2 DEF IInv, ClaimsFollow, CoveredBelow
  <1>3. CASE claim'[i].pc \in {"idle", "read"}
    BY <1>3
  <1>4. CASE ClaimRead(i)
    <2>1. claim'[i].at = cursor /\ claim'[i].pc = "check"
      BY <1>0, <1>4 DEF ClaimRead, Types, Claim
    <2> QED
      BY <1>0, <2>1 DEF IInv, CoveredBelow
  <1>5. CASE ClaimAlive(i)
    <2>1. claim'[i].at = claim[i].at /\ claim[i].pc = "check"
      BY <1>0, <1>5 DEF ClaimAlive, Types, Claim
    <2>2. claim[i].at \in Start /\ window[claim[i].at].pc # "none"
      BY <1>5 DEF ClaimAlive, Alive
    <2> QED
      BY <1>0, <2>1, <2>2, ClaimedCovered DEF IInv, ClaimsFollow, CoveredBelow
  <1>6. CASE ClaimEnqueue(i)
    <2>1. claim'[i].at = claim[i].at /\ claim[i].pc = "check"
      BY <1>0, <1>6 DEF ClaimEnqueue, Types, Claim
    <2>2. claim[i].at \in Start
      BY <2>1 DEF IInv, TypeInv, Counters
    <2>3. window'[claim[i].at].pc # "none"
      BY <1>0, <1>6, <2>2 DEF ClaimEnqueue, Types, Queued, NoJob
    <2> QED
      BY <1>0, <2>1, <2>2, <2>3, ClaimedCoveredNext
         DEF IInv, ClaimsFollow, CoveredBelow
  <1> QED
    BY <1>1, <1>2, <1>3, <1>4, <1>5, <1>6

LEMMA NextClaimOwned ==
    ASSUME IInv, Next
    PROVE  ClaimOwned'
  <1>0. Types /\ Walker \notin Start
    BY TypesHold, SeqAssumption DEF IInv, Walker, Start, SeqAssumption
  <1> SUFFICES ASSUME NEW s \in Start, claim'[s].pc # "idle"
               PROVE  window'[s].pc = "refill"
    BY DEF ClaimOwned
  <1>1. CASE claim[s].pc # "idle" /\ window'[s] = window[s]
    BY <1>1 DEF IInv, ClaimOwned
  <1>2. CASE Publish \/ CooldownEnds \/ WalkerThrow
    BY <1>0, <1>1, <1>2 DEF Publish, CooldownEnds, WalkerThrow, Claiming, Types
  <1>3. ASSUME NEW i \in {Walker} \cup Start, ClaimStep(i)
        PROVE  window'[s].pc = "refill"
    <2>1. CASE ClaimStart(i)
      BY <1>0, <1>1, <2>1 DEF ClaimStart, Types, Job
    <2>2. CASE ClaimEnds(i)
      BY <1>0, <1>1, <2>2 DEF ClaimEnds, Types, IdleClaim
    <2>3. CASE ClaimEnqueue(i)
      <3>1. claim[s].pc # "idle"
        BY <1>0, <2>3 DEF ClaimEnqueue, Types
      <3>2. window[s].pc = "refill"
        BY <3>1 DEF IInv, ClaimOwned
      <3> QED
        BY <1>0, <2>3, <3>2 DEF ClaimEnqueue, Types
    <2>4. CASE UNCHANGED window /\ claim[i].pc # "idle"
               /\ \A j \in {Walker} \cup Start : j # i => claim'[j] = claim[j]
      BY <1>0, <1>1, <2>4
    <2>5. CASE ClaimRead(i) \/ ClaimAlive(i)
      BY <1>0, <2>4, <2>5 DEF ClaimRead, ClaimAlive, Types
    <2>6. CASE ClaimCas(i)
      BY <1>0, <2>2, <2>4, <2>6 DEF ClaimCas, Types
    <2> QED
      BY <1>3, <2>1, <2>2, <2>3, <2>5, <2>6
         DEF ClaimStep, ClaimNothing, ClaimBound
  <1>4. ASSUME NEW r \in Start, WindowStep(r)
        PROVE  window'[s].pc = "refill"
    <2>1. r # s
      <3>1. CASE WindowThrow(r)
        BY <1>0, <3>1 DEF WindowThrow, Types, IdleClaim
      <3>2. CASE ~WindowThrow(r)
        <4>1. window[r].pc \in {"queued", "answered", "rewound"}
              /\ claim' = claim
          BY <1>4, <3>2 DEF WindowStep, WindowAnswer, WindowEmpty,
                            WindowCooldown, WindowSave, WindowNoKey, Others
        <4> QED
          BY <4>1 DEF IInv, ClaimOwned
      <3> QED
        BY <3>1, <3>2
    <2>2. window'[s] = window[s] /\ claim'[s] = claim[s]
      BY <1>0, <1>4, <2>1 DEF WindowStep, WindowAnswer, WindowEmpty,
             WindowCooldown, WindowSave, WindowNoKey, WindowThrow, Others, Types
    <2> QED
      BY <1>1, <2>2
  <1> QED
    BY <1>2, <1>3, <1>4 DEF Next, WindowStep

-----------------------------------------------------------------------------

LEMMA InitIInv == Init => IInv
  <1> SUFFICES ASSUME Init PROVE IInv
    OBVIOUS
  <1> USE SeqAssumption DEF SeqAssumption
  <1>1. TypeInv
    BY InitTypeInv
  <1>2. \A s \in Start : window[s].pc = "none" /\ window[s].got = {}
    BY DEF Init, NoJob
  <1>3. \A i \in {Walker} \cup Start : claim[i].pc = "idle"
    BY DEF Init, IdleClaim
  <1>4. CoveredBelow(cursor)
    BY DEF Init, CoveredBelow
  <1> QED
    BY <1>1, <1>2, <1>3, <1>4 DEF IInv, WindowsFollow, AnsweredAsked,
                                  PageAsked, ClaimsFollow, ClaimOwned

LEMMA NextIInv == IInv /\ [Next]_vars => IInv'
  <1> SUFFICES ASSUME IInv, [Next]_vars PROVE IInv'
    OBVIOUS
  <1>1. CASE Next
    <2>1. TypeInv'
      BY <1>1, NextTypeInv DEF IInv
    <2> QED
      BY <1>1, <2>1, CursorFollows, NextWindowsFollow, NextAnsweredAsked,
         NextPageAsked, NextClaimsFollow, NextClaimOwned DEF IInv
  <1>2. CASE UNCHANGED vars
    BY <1>2 DEF vars, IInv, TypeInv, TypeOK, Counters, CoveredBelow,
                CoveredNums, Covered, Claimed, WindowsFollow, AnsweredAsked,
                PageAsked, ClaimsFollow, ClaimOwned
  <1> QED
    BY <1>1, <1>2

LEMMA IInvImplies == IInv => NothingPassedOver
  BY DEF IInv, CoveredBelow, CoveredNums, NothingPassedOver

\* No sequence number is passed over: whatever the cursor has gone past was asked
\* for or is held by a job, for any number of claims that race each other, with
\* the rewinds and with their own death (claimSeqWalkWindow enqueues, then
\* advances by compare-and-set).
THEOREM NumbersNeverPassedOver == Spec => []NothingPassedOver
  BY InitIInv, NextIInv, IInvImplies, PTL DEF Spec

-----------------------------------------------------------------------------
(***************************************************************************)
(* Safety of LeagueWalk, the walk over the leagues, for every set of       *)
(* leagues, number of matches, size of a page and number of walks.         *)
(*                                                                         *)
(* TailIsListed needs to know of each run what it is going to write: the   *)
(* cursor it read at its start and the page it has just saved are saved    *)
(* matches (RunHolds), and what is saved stays so, whatever the other      *)
(* walks make of the cursor.                                               *)
(***************************************************************************)
CONSTANTS Leagues, PlaysTop, PlaysOther, PageSize, Walkers, MaxExtras, MaxFaults

VARIABLES newest, upcoming, tail, exhausted, due, listed, row, parked, toReset,
          walk, extras, faults

League == INSTANCE LeagueWalk WITH asked <- toReset

Places == Leagues \cup {League!None}

Asking == [pc : {"asking"}, league : Leagues, pin : Places, queued : BOOLEAN,
           reset : BOOLEAN, tail : Nat, refresh : BOOLEAN, from : Nat]

AtCursor == [pc : {"cursor"}, league : Leagues, queued : BOOLEAN, tail : Nat,
             refresh : BOOLEAN, page : SUBSET (Nat \ {0}), more : BOOLEAN]

ToSchedule == [pc : {"next"}, pin : Places, queued : BOOLEAN]

Runs == {League!Idle} \cup Asking \cup AtCursor \cup ToSchedule

\* A cursor that points at no match, or at a saved one that Valve lists; known
\* is what is listed and top the newest match of each league.
Saved(l, n, known, top) == n # League!None => <<l, n>> \in known /\ n <= top[l]

RunHolds(r, known, top) ==
    /\ r.pc = "asking" => Saved(r.league, r.tail, known, top) /\ r.from <= top[r.league]
    /\ r.pc = "cursor" => /\ Saved(r.league, r.tail, known, top)
                          /\ \A m \in r.page : Saved(r.league, m, known, top)

Walks ==
    /\ walk \in [Walkers -> Runs]
    /\ \A w \in Walkers : RunHolds(walk[w], listed, newest)

LeagueInv == League!TypeOK /\ League!TailIsListed /\ Walks

-----------------------------------------------------------------------------
(* The greatest league, the oldest match of a page *)

LEMMA LeastOf ==
    ASSUME NEW S, S \subseteq Nat, S # {}
    PROVE  \E x \in S : \A y \in S : x <= y
  <1>1. PICK x \in S : \A y \in S : ~ (<<y, x>> \in OpToRel(<, Nat))
    BY NatLessThanWellFounded, WFMin
  <1>2. \A y \in S : ~ (y < x)
    BY <1>1 DEF OpToRel
  <1> QED
    BY <1>2

LEMMA MinOfPage ==
    ASSUME NEW S, S \subseteq Nat, S # {}
    PROVE  League!Min(S) \in S
  <1>1. \E x \in S : \A y \in S : x <= y
    BY LeastOf
  <1> QED
    BY <1>1, Zenon DEF League!Min

\* A finite set of numbers that is not empty has a greatest one: a least set
\* without one would not have it after one of its elements is taken away.
LEMMA GreatestOf ==
    ASSUME NEW S, IsFiniteSet(S), S \subseteq Nat, S # {}
    PROVE  \E x \in S : \A y \in S : x >= y
  <1> DEFINE Without(U) == U # {} /\ ~ \E x \in U : \A y \in U : x >= y
             Sizes == {k \in Nat : \E U \in SUBSET S : Without(U) /\ Cardinality(U) = k}
  <1> SUFFICES ASSUME Without(S) PROVE FALSE
    OBVIOUS
  <1>1. Cardinality(S) \in Sizes
    BY FS_CardinalityType
  <1>2. PICK k \in Sizes : \A j \in Sizes : k <= j
    BY <1>1, LeastOf
  <1>3. PICK U \in SUBSET S : Without(U) /\ Cardinality(U) = k
    BY <1>2
  <1>4. PICK x : x \in U
    BY <1>3
  <1> DEFINE V == U \ {x}
  <1>5. IsFiniteSet(U) /\ IsFiniteSet(V) /\ Cardinality(V) = k - 1 /\ k \in Nat
    BY <1>2, <1>3, <1>4, FS_Subset, FS_RemoveElement
  <1>6. Cardinality(V) \in Nat
    BY <1>5, FS_CardinalityType
  <1>7. ~ Without(V)
    <2> SUFFICES ASSUME Without(V) PROVE FALSE
      OBVIOUS
    <2>1. Cardinality(V) \in Sizes
      BY <1>3, <1>6
    <2>2. k <= Cardinality(V)
      BY <1>2, <2>1
    <2> HIDE DEF V
    <2> QED
      BY <1>5, <1>6, <2>2
  <1>8. CASE V = {}
    <2>1. \A y \in U : y = x
      BY <1>8
    <2>2. x \in Nat
      BY <1>4
    <2> QED
      BY <1>3, <1>4, <2>1, <2>2
  <1>9. CASE V # {}
    <2>1. PICK y \in V : \A z \in V : y >= z
      BY <1>7, <1>9
    <2>2. x \in Nat /\ y \in Nat /\ y \in U /\ \A z \in U : z \in Nat
      BY <1>3, <1>4
    <2>3. CASE x >= y
      <3>1. \A z \in U : x >= z
        BY <2>1, <2>2, <2>3
      <3> QED
        BY <1>3, <1>4, <3>1
    <2>4. CASE ~(x >= y)
      <3>1. \A z \in U : y >= z
        BY <2>1, <2>2, <2>4
      <3> QED
        BY <1>3, <2>2, <3>1
    <2> QED
      BY <2>3, <2>4
  <1> QED
    BY <1>8, <1>9

-----------------------------------------------------------------------------
(* The parts of the invariant *)

Games ==
    /\ newest \in [Leagues -> Nat]
    /\ \A l \in Leagues : newest[l] <= League!Plays[l]
    /\ upcoming \in [Leagues -> BOOLEAN]
    /\ listed \subseteq League!Match

Cursors ==
    /\ tail \in [Leagues -> Nat]
    /\ \A l \in Leagues : Saved(l, tail[l], listed, newest)

Flags == exhausted \in [Leagues -> BOOLEAN] /\ due \in [Leagues -> BOOLEAN]

Rows ==
    /\ row \in {League!Empty} \cup League!RowsOf(BOOLEAN)
    /\ parked \in {League!Empty} \cup League!RowsOf({TRUE})
    /\ toReset \subseteq Leagues

Counts == extras \in 0..MaxExtras /\ faults \in 0..MaxFaults

LEMMA PartsOf == LeagueInv => Games /\ Cursors /\ Flags /\ Rows /\ Counts /\ Walks
  <1> SUFFICES ASSUME LeagueInv PROVE Games /\ Cursors /\ Flags /\ Rows /\ Counts /\ Walks
    OBVIOUS
  <1>1. Games /\ Flags /\ Counts /\ Walks
    BY DEF LeagueInv, League!TypeOK, Games, Flags, Counts
  <1>3. Rows
    BY DEF LeagueInv, League!TypeOK, Rows
  <1>2. Cursors
    BY DEF LeagueInv, League!TypeOK, League!TailIsListed, Cursors, Saved
  <1> QED
    BY <1>1, <1>2, <1>3

LEMMA WalkPcs ==
    ASSUME NEW r \in Runs
    PROVE  r = League!Idle \/ r.pc \in {"asking", "cursor", "next"}
  BY DEF Runs, Asking, AtCursor, ToSchedule

\* What a run holds is told by where it is.
LEMMA AskingRun == \A r \in Runs : r.pc = "asking" => r \in Asking
  BY DEF Runs, League!Idle, Asking, AtCursor, ToSchedule

LEMMA CursorRun == \A r \in Runs : r.pc = "cursor" => r \in AtCursor
  BY DEF Runs, League!Idle, Asking, AtCursor, ToSchedule

LEMMA NextRuns == \A r \in Runs : r.pc = "next" => r \in ToSchedule
  BY DEF Runs, League!Idle, Asking, AtCursor, ToSchedule

LEMMA OfParts ==
    ASSUME Games', Cursors', Flags', Rows', Counts', Walks'
    PROVE  LeagueInv'
  <1>1. \A l \in Leagues : newest'[l] \in Nat /\ tail'[l] \in Nat
    BY DEF Games, Cursors
  <1>2. ASSUME NEW l \in Leagues PROVE tail'[l] <= newest'[l]
    <2>1. Saved(l, tail'[l], listed', newest')
      BY DEF Cursors
    <2> QED
      BY <1>1, <2>1 DEF Saved, League!None
  <1>3. \A w \in Walkers : walk'[w] = League!Idle \/ walk'[w].pc \in {"asking", "cursor", "next"}
    BY WalkPcs DEF Walks, League!Idle
  <1>4. League!TypeOK'
    BY <1>2, <1>3 DEF Games, Cursors, Flags, Rows, Counts, League!TypeOK, League!None,
       League!Plays, League!Match, League!Empty, League!RowsOf, League!Idle
  <1>5. League!TailIsListed'
    BY DEF Cursors, Saved, League!TailIsListed
  <1> QED
    BY <1>4, <1>5 DEF LeagueInv

\* Matches are only added, to Valve's list and to ours.
Grows ==
    /\ listed \subseteq listed'
    /\ \A l \in Leagues : newest[l] <= newest'[l]

LEMMA SavedStays ==
    ASSUME Games, Games', Grows, NEW l \in Leagues, NEW n \in Nat, Saved(l, n, listed, newest)
    PROVE  Saved(l, n, listed', newest')
  BY DEF Games, Grows, Saved

LEMMA HoldsStays ==
    ASSUME Games, Games', Grows, NEW r \in Runs, RunHolds(r, listed, newest)
    PROVE  RunHolds(r, listed', newest')
  <1>1. CASE r \in Asking
    <2>1. r.league \in Leagues /\ r.tail \in Nat /\ r.from \in Nat /\ r.pc = "asking"
      BY <1>1 DEF Asking
    <2>2. r.from <= newest'[r.league]
      BY <2>1 DEF Games, Grows, RunHolds
    <2> QED
      BY <2>1, <2>2, SavedStays DEF RunHolds
  <1>2. CASE r \in AtCursor
    <2>1. r.league \in Leagues /\ r.tail \in Nat /\ r.page \subseteq Nat /\ r.pc = "cursor"
      BY <1>2 DEF AtCursor
    <2> QED
      BY <2>1, SavedStays DEF RunHolds
  <1>3. CASE r = League!Idle \/ r \in ToSchedule
    BY <1>3 DEF League!Idle, ToSchedule, RunHolds
  <1> QED
    BY <1>1, <1>2, <1>3 DEF Runs

\* One run moves, or none.
LEMMA WalkMoves ==
    ASSUME Games, Games', Grows, Walks, NEW w \in Walkers, NEW r \in Runs,
           RunHolds(r, listed', newest'), walk' = [walk EXCEPT ![w] = r]
    PROVE  Walks'
  BY HoldsStays DEF Walks

LEMMA WalksStay ==
    ASSUME Games, Games', Grows, Walks, UNCHANGED walk
    PROVE  Walks'
  BY HoldsStays DEF Walks

LEMMA CursorsStay ==
    ASSUME Games, Games', Grows, Cursors, UNCHANGED tail
    PROVE  Cursors'
  BY SavedStays DEF Cursors

LEMMA SameGames ==
    ASSUME Games, UNCHANGED <<newest, upcoming, listed>>
    PROVE  Games' /\ Grows
  BY DEF Games, Grows, League!Plays, League!Match

LEMMA GoesIdle ==
    ASSUME Games, Games', Grows, Walks, NEW w \in Walkers,
           walk' = League!Set(walk, w, League!Idle)
    PROVE  Walks'
  <1>1. League!Idle \in Runs /\ RunHolds(League!Idle, listed', newest')
    BY DEF Runs, League!Idle, RunHolds
  <1> QED
    BY <1>1, WalkMoves DEF League!Set

LEMMA WaitingIsRow ==
    ASSUME NEW l \in Places, NEW q \in BOOLEAN
    PROVE  League!Waiting(l, q) \in League!RowsOf({q}) /\ League!Waiting(l, q) # League!Empty
  BY DEF League!Waiting, League!RowsOf, League!Empty, Places

LEMMA RowHas ==
    ASSUME NEW r, r # League!Empty, NEW Q, r \in {League!Empty} \cup League!RowsOf(Q)
    PROVE  r \in League!RowsOf(Q) /\ r.league \in Places /\ r.queued \in Q
  BY DEF League!RowsOf, Places

-----------------------------------------------------------------------------
(* A run begins *)

LEMMA NextLeagueIsPlace ==
    ASSUME League!LeagueWalkAssumption, NEW pinned \in Places
    PROVE  League!NextLeague(pinned) \in Places
  <1>1. CASE League!Pickable = {}
    BY <1>1 DEF League!NextLeague, Places
  <1>2. CASE League!Pickable # {}
    <2>1. League!Pickable \subseteq Leagues /\ Leagues \subseteq Nat
      BY DEF League!Pickable, League!LeagueWalkAssumption
    <2>2. IsFiniteSet(League!Pickable)
      <3>1. IsFiniteSet(Leagues)
        BY DEF League!LeagueWalkAssumption, League!IsFiniteSet, IsFiniteSet
      <3> QED
        BY <2>1, <3>1, FS_Subset
    <2>3. \E x \in League!Pickable : \A y \in League!Pickable : x >= y
      BY <1>2, <2>1, <2>2, GreatestOf
    <2>4. League!Max(League!Pickable) \in League!Pickable
      BY <2>3, Zenon DEF League!Max
    <2> QED
      BY <1>2, <2>1, <2>4 DEF League!NextLeague, Places
  <1> QED
    BY <1>1, <1>2

LEMMA Begins ==
    ASSUME League!LeagueWalkAssumption, Games, Cursors, Flags, Walks, Games', Grows,
           NEW w \in Walkers, NEW q \in BOOLEAN, NEW pin \in Places, NEW l \in Places,
           NEW reset \in BOOLEAN, l = League!None => ~reset,
           League!Begin(w, q, pin, l, reset)
    PROVE  Walks'
  <1>1. CASE l = League!None
    <2> DEFINE r == [pc |-> "next", pin |-> League!None, queued |-> q]
    <2>1. r \in Runs /\ r.pc = "next"
      BY DEF Runs, ToSchedule, Places
    <2>2. walk' = [walk EXCEPT ![w] = r]
      BY <1>1 DEF League!Begin, League!Set
    <2> HIDE DEF r
    <2>3. RunHolds(r, listed', newest')
      BY <2>1 DEF RunHolds
    <2> QED
      BY <2>1, <2>2, <2>3, WalkMoves
  <1>2. CASE l # League!None
    <2> DEFINE from == IF reset THEN League!None ELSE League!From(l)
               refresh == reset \/ due[l]
               r == [pc |-> "asking", league |-> l, pin |-> pin, queued |-> q,
                     reset |-> reset, tail |-> tail[l], refresh |-> refresh, from |-> from]
    <2>1. l \in Leagues /\ tail[l] \in Nat /\ newest[l] \in Nat
      BY <1>2 DEF Places, Cursors, Games
    <2>2. from \in {0, tail[l]}
      BY DEF League!From, League!None
    <2>3. refresh \in BOOLEAN
      BY <2>1 DEF Flags
    <2>4. Saved(l, tail[l], listed, newest)
      BY <2>1 DEF Cursors
    <2>5. from <= newest[l]
      BY <2>1, <2>2, <2>4 DEF Saved, League!None
    <2>6. walk' = [walk EXCEPT ![w] = r]
      BY <1>2 DEF League!Begin, League!Set
    <2> HIDE DEF from, refresh
    <2>7. r \in Runs /\ RunHolds(r, listed, newest)
      BY <2>1, <2>2, <2>3, <2>4, <2>5 DEF Runs, Asking, RunHolds
    <2> HIDE DEF r
    <2> QED
      BY <2>6, <2>7, HoldsStays, WalkMoves
  <1> QED
    BY <1>1, <1>2

-----------------------------------------------------------------------------
(* The steps of LeagueWalk *)

LEMMA LeagueInitially ==
    ASSUME League!LeagueWalkAssumption, League!Init PROVE LeagueInv
  <1>1. \A l \in Leagues : League!Plays[l] \in Nat
    BY DEF League!Plays, League!LeagueWalkAssumption
  <1>2. \A l \in Leagues : newest[l] = 0 /\ tail[l] = 0
    BY DEF League!Init, League!None
  <1>3. 0 \in 0..MaxExtras /\ 0 \in 0..MaxFaults
    BY DEF League!LeagueWalkAssumption
  <1>4. /\ newest \in [Leagues -> Nat] /\ \A l \in Leagues : newest[l] <= League!Plays[l]
        /\ tail \in [Leagues -> Nat] /\ \A l \in Leagues : tail[l] <= newest[l]
    BY <1>1, <1>2 DEF League!Init, League!None
  <1>5. /\ row \in {League!Empty} \cup League!RowsOf(BOOLEAN)
        /\ parked \in {League!Empty} \cup League!RowsOf({TRUE})
    BY DEF League!Init, League!Waiting, League!RowsOf
  <1>6. walk = [w \in Walkers |-> League!Idle] /\ League!Idle \in Runs /\ League!Idle.pc = "idle"
    BY DEF League!Init, Runs, League!Idle
  <1>7. League!TypeOK
    <2>1. /\ upcoming \in [Leagues -> BOOLEAN] /\ exhausted \in [Leagues -> BOOLEAN]
          /\ due \in [Leagues -> BOOLEAN] /\ listed \subseteq League!Match
          /\ toReset \subseteq Leagues
          /\ extras \in 0..MaxExtras /\ faults \in 0..MaxFaults
      BY <1>3 DEF League!Init
    <2>2. \A w \in Walkers : walk[w] = League!Idle
      BY <1>6
    <2> QED
      BY <1>4, <1>5, <2>1, <2>2, Zenon DEF League!TypeOK, Places
  <1>8. Walks
    BY <1>6 DEF Walks, RunHolds
  <1>9. League!TailIsListed
    BY <1>2 DEF League!TailIsListed, League!None
  <1> QED
    BY <1>7, <1>8, <1>9 DEF LeagueInv

LEMMA SameRows == ASSUME Rows, UNCHANGED <<row, parked, toReset>> PROVE Rows'
  BY DEF Rows, League!Empty, League!RowsOf, League!None

LEMMA SameCounts == ASSUME Counts, UNCHANGED <<extras, faults>> PROVE Counts'
  BY DEF Counts

LEMMA FaultCounts ==
    ASSUME League!LeagueWalkAssumption, Counts, League!Fault, UNCHANGED extras PROVE Counts'
  BY DEF Counts, League!Fault, League!LeagueWalkAssumption

LEMMA SameFlags == ASSUME Flags, UNCHANGED <<exhausted, due>> PROVE Flags'
  BY DEF Flags

LEMMA TakeRowKeeps ==
    ASSUME League!LeagueWalkAssumption, LeagueInv, NEW w \in Walkers, League!TakeRow(w)
    PROVE  LeagueInv'
  <1>1. Games /\ Cursors /\ Flags /\ Rows /\ Counts /\ Walks
    BY PartsOf
  <1>2. /\ row # League!Empty
        /\ League!Begin(w, row.queued, row.league, League!NextLeague(row.league), FALSE)
        /\ row' = League!Empty
        /\ UNCHANGED <<newest, upcoming, tail, exhausted, due, listed, parked, toReset,
                       extras, faults>>
    BY DEF League!TakeRow, League!league
  <1>3. Games' /\ Grows
    BY <1>1, <1>2, SameGames
  <1>4. row.league \in Places /\ row.queued \in BOOLEAN
    BY <1>1, <1>2, RowHas DEF Rows
  <1>6. Walks'
    BY <1>1, <1>2, <1>3, <1>4, NextLeagueIsPlace, Begins
  <1>5. Rows'
    BY <1>1, <1>2 DEF Rows, League!Empty, League!RowsOf, League!None
  <1> QED
    BY <1>1, <1>2, <1>3, <1>5, <1>6, CursorsStay, SameFlags, SameCounts, OfParts

LEMMA ResetFlags ==
    ASSUME Flags, NEW l \in Leagues, League!Reset(l) PROVE Flags'
  BY DEF Flags, League!Reset, League!Set

LEMMA TakeAskedKeeps ==
    ASSUME League!LeagueWalkAssumption, LeagueInv, NEW w \in Walkers, NEW l \in Leagues,
           League!TakeAsked(w, l)
    PROVE  LeagueInv'
  <1>1. Games /\ Cursors /\ Flags /\ Rows /\ Counts /\ Walks
    BY PartsOf
  <1>2. /\ League!Begin(w, TRUE, l, l, TRUE)
        /\ League!Reset(l)
        /\ toReset' = toReset \ {l}
        /\ UNCHANGED <<newest, upcoming, tail, listed, row, parked, extras, faults>>
    BY DEF League!TakeAsked
  <1>3. Games' /\ Grows
    BY <1>1, <1>2, SameGames
  <1>4. l \in Places /\ l # League!None
    BY DEF Places, League!None, League!LeagueWalkAssumption
  <1>5. Walks'
    BY <1>1, <1>2, <1>3, <1>4, Begins
  <1>6. Rows'
    BY <1>1, <1>2 DEF Rows, League!Empty, League!RowsOf, League!None
  <1> QED
    BY <1>1, <1>2, <1>3, <1>5, <1>6, CursorsStay, ResetFlags, SameCounts, OfParts

\* A page has matches that Valve lists, from the newest or from the cursor down.
LEMMA PageIsListed ==
    ASSUME League!LeagueWalkAssumption, Games, NEW l \in Leagues,
           NEW from \in Nat, from <= newest[l]
    PROVE  /\ League!Page(l, from) \subseteq Nat \ {0}
           /\ \A m \in League!Page(l, from) : m <= newest[l]
           /\ {l} \X League!Page(l, from) \subseteq League!Match
  <1>1. newest[l] \in Nat /\ newest[l] <= League!Plays[l]
    BY DEF Games
  <1>2. League!Plays[l] \in Nat
    BY DEF League!Plays, League!LeagueWalkAssumption
  <1>3. League!Top(l, from) \in Nat /\ League!Top(l, from) <= newest[l]
    BY <1>1 DEF League!Top
  <1>4. \A m \in League!Page(l, from) : m \in 1..League!Top(l, from)
    BY DEF League!Page
  <1> HIDE DEF League!Page
  <1>5. \A m \in League!Page(l, from) : m \in 1..League!Plays[l] /\ m <= newest[l] /\ m \in Nat \ {0}
    BY <1>1, <1>2, <1>3, <1>4
  <1>6. \A m \in League!Page(l, from) : <<l, m>> \in {l} \X (1..League!Plays[l])
    BY <1>5
  <1>7. {l} \X League!Page(l, from) \subseteq League!Match
    BY <1>6 DEF League!Match
  <1> QED
    BY <1>5, <1>7


LEMMA ListsKeeps ==
    ASSUME League!LeagueWalkAssumption, LeagueInv, NEW w \in Walkers, League!Lists(w)
    PROVE  LeagueInv'
  <1>1. Games /\ Cursors /\ Flags /\ Rows /\ Counts /\ Walks
    BY PartsOf
  <1> DEFINE r == walk[w]
             page == League!Page(r.league, r.from)
             more == League!ResultsRemaining(r.league, r.from)
             s == [pc |-> "cursor", league |-> r.league, queued |-> r.queued,
                   tail |-> r.tail, refresh |-> r.refresh, page |-> page, more |-> more]
  <1>2. /\ r.pc = "asking"
        /\ listed' = listed \cup ({r.league} \X page)
        /\ walk' = [walk EXCEPT ![w] = s]
        /\ UNCHANGED <<newest, upcoming, tail, exhausted, due, row, parked, toReset,
                       extras, faults>>
    BY DEF League!Lists, League!Step, League!Set, League!league, League!queue
  <1>3. r \in Asking /\ RunHolds(r, listed, newest)
    BY <1>1, <1>2, AskingRun DEF Walks
  <1>4. /\ r.league \in Leagues /\ r.from \in Nat /\ r.from <= newest[r.league]
        /\ r.tail \in Nat /\ r.queued \in BOOLEAN /\ r.refresh \in BOOLEAN
        /\ Saved(r.league, r.tail, listed, newest)
    BY <1>2, <1>3 DEF Asking, RunHolds
  <1>5. /\ page \subseteq Nat \ {0}
        /\ \A m \in page : m <= newest[r.league]
        /\ {r.league} \X page \subseteq League!Match
    BY <1>1, <1>4, PageIsListed
  <1>6. more \in BOOLEAN
    BY DEF League!ResultsRemaining
  <1> HIDE DEF r, page, more
  <1>7. Games' /\ Grows
    BY <1>1, <1>2, <1>5 DEF Games, Grows, League!Plays, League!Match
  <1>8. s \in Runs
    BY <1>4, <1>5, <1>6 DEF Runs, AtCursor
  <1>9. Saved(r.league, r.tail, listed', newest')
    BY <1>1, <1>4, <1>7, SavedStays
  <1>10. \A m \in page : Saved(r.league, m, listed', newest')
    BY <1>2, <1>5 DEF Saved
  <1>11. RunHolds(s, listed', newest')
    BY <1>9, <1>10 DEF RunHolds
  <1> HIDE DEF s
  <1>12. Walks'
    BY <1>1, <1>2, <1>7, <1>8, <1>11, WalkMoves
  <1> QED
    BY <1>1, <1>2, <1>7, <1>12, CursorsStay, SameFlags, SameRows, SameCounts, OfParts

LEMMA UpdatesCursorKeeps ==
    ASSUME League!LeagueWalkAssumption, LeagueInv, NEW w \in Walkers, League!UpdatesCursor(w)
    PROVE  LeagueInv'
  <1>1. Games /\ Cursors /\ Flags /\ Rows /\ Counts /\ Walks
    BY PartsOf
  <1> DEFINE r == walk[w]
             l == r.league
             pin == IF League!HasOlderPages(r) THEN l ELSE League!None
             s == [pc |-> "next", queued |-> r.queued, pin |-> pin]
             n == IF League!Oldest(r) = League!None THEN tail[l] ELSE League!Oldest(r)
             ended == League!ExhaustedNow(r)
  <1>2. /\ r.pc = "cursor"
        /\ tail' = [tail EXCEPT ![l] = n]
        /\ exhausted' = [exhausted EXCEPT ![l] = ended]
        /\ due' = [due EXCEPT ![l] = FALSE]
        /\ walk' = [walk EXCEPT ![w] = s]
        /\ UNCHANGED <<newest, upcoming, listed, row, parked, toReset, extras, faults>>
    BY DEF League!UpdatesCursor, League!Step, League!Set, League!queue
  <1>3. r \in AtCursor /\ RunHolds(r, listed, newest)
    BY <1>1, <1>2, CursorRun DEF Walks
  <1>4. /\ l \in Leagues /\ r.tail \in Nat /\ r.queued \in BOOLEAN
        /\ r.refresh \in BOOLEAN /\ r.more \in BOOLEAN /\ r.page \subseteq Nat \ {0}
        /\ Saved(l, r.tail, listed, newest)
        /\ \A m \in r.page : Saved(l, m, listed, newest)
    BY <1>2, <1>3 DEF AtCursor, RunHolds
  <1>5. League!Oldest(r) \in Nat /\ Saved(l, League!Oldest(r), listed, newest)
    <2>1. CASE r.page = {}
      BY <1>4, <2>1 DEF League!Oldest
    <2>2. CASE r.page # {}
      <3>1. League!Min(r.page) \in r.page
        BY <1>4, <2>2, MinOfPage
      <3> QED
        BY <1>4, <2>2, <3>1 DEF League!Oldest
    <2> QED
      BY <2>1, <2>2
  <1>6. n \in Nat /\ Saved(l, n, listed, newest)
    BY <1>1, <1>4, <1>5 DEF Cursors
  <1>7. ended \in BOOLEAN
    BY <1>4 DEF League!ExhaustedNow, League!NoMore
  <1>8. pin \in Places
    BY <1>4 DEF Places
  <1> HIDE DEF r, l, pin, n, ended
  <1>9. Games' /\ Grows
    BY <1>1, <1>2, SameGames
  <1>10. Cursors'
    <2>1. tail' \in [Leagues -> Nat]
      BY <1>1, <1>2, <1>6 DEF Cursors
    <2>2. ASSUME NEW k \in Leagues PROVE Saved(k, tail'[k], listed', newest')
      BY <1>1, <1>2, <1>6 DEF Cursors, Saved
    <2> QED
      BY <2>1, <2>2 DEF Cursors
  <1>11. Flags'
    BY <1>1, <1>2, <1>7 DEF Flags
  <1>12. s \in Runs /\ RunHolds(s, listed', newest')
    BY <1>4, <1>8 DEF Runs, ToSchedule, RunHolds, r
  <1> HIDE DEF s
  <1>13. Walks'
    BY <1>1, <1>2, <1>9, <1>12, WalkMoves
  <1> QED
    BY <1>1, <1>2, <1>9, <1>10, <1>11, <1>13, SameRows, SameCounts, OfParts

LEMMA SchedulesNextKeeps ==
    ASSUME League!LeagueWalkAssumption, LeagueInv, NEW w \in Walkers, League!SchedulesNext(w)
    PROVE  LeagueInv'
  <1>1. Games /\ Cursors /\ Flags /\ Rows /\ Counts /\ Walks
    BY PartsOf
  <1>2. /\ walk[w].pc = "next"
        /\ parked' = League!Waiting(walk[w].pin, TRUE)
        /\ walk' = League!Set(walk, w, League!Idle)
        /\ UNCHANGED <<newest, upcoming, tail, exhausted, due, listed, row, toReset,
                       extras, faults>>
    BY DEF League!SchedulesNext, League!Step, League!NextRun, League!league
  <1>3. walk[w].pin \in Places
    BY <1>1, <1>2, NextRuns DEF Walks, ToSchedule
  <1>4. Games' /\ Grows
    BY <1>1, <1>2, SameGames
  <1>5. Walks'
    BY <1>1, <1>2, <1>4, GoesIdle
  <1>6. parked' \in League!RowsOf({TRUE})
    BY <1>2, <1>3, WaitingIsRow
  <1>7. Rows'
    BY <1>1, <1>2, <1>6 DEF Rows, League!Empty, League!RowsOf, League!None
  <1> QED
    BY <1>1, <1>2, <1>4, <1>5, <1>7, CursorsStay, SameFlags, SameCounts, OfParts

LEMMA PageFailsKeeps ==
    ASSUME League!LeagueWalkAssumption, LeagueInv, NEW w \in Walkers, League!PageFails(w)
    PROVE  LeagueInv'
  <1>1. Games /\ Cursors /\ Flags /\ Rows /\ Counts /\ Walks
    BY PartsOf
  <1>2. /\ walk[w].pc = "asking" /\ League!Fault
        /\ walk' = League!Set(walk, w, League!Idle)
        /\ UNCHANGED <<newest, upcoming, tail, exhausted, due, listed, extras>>
    BY DEF League!PageFails, League!Step, League!league
  <1>3. walk[w].league \in Leagues /\ walk[w].pin \in Places
    BY <1>1, <1>2, AskingRun DEF Walks, Asking
  <1>4. Games' /\ Grows
    BY <1>1, <1>2, SameGames
  <1>5. Walks'
    BY <1>1, <1>2, <1>4, GoesIdle
  <1>6. /\ row' \in {row, League!Waiting(League!None, FALSE)}
        /\ parked' \in {parked, League!Waiting(walk[w].pin, TRUE)}
        /\ toReset' \in {toReset, toReset \cup {walk[w].league}}
    BY Zenon DEF League!PageFails
  <1>7. /\ League!Waiting(League!None, FALSE) \in League!RowsOf(BOOLEAN)
        /\ League!Waiting(walk[w].pin, TRUE) \in League!RowsOf({TRUE})
    BY <1>3 DEF League!Waiting, League!RowsOf, Places
  <1>8. Rows'
    BY <1>1, <1>3, <1>6, <1>7 DEF Rows, League!Empty, League!RowsOf, League!None
  <1> QED
    BY <1>1, <1>2, <1>4, <1>5, <1>8, CursorsStay, SameFlags, FaultCounts, OfParts

LEMMA RunLostKeeps ==
    ASSUME League!LeagueWalkAssumption, LeagueInv, NEW w \in Walkers, League!RunLost(w)
    PROVE  LeagueInv'
  <1>1. Games /\ Cursors /\ Flags /\ Rows /\ Counts /\ Walks
    BY PartsOf
  <1>2. /\ League!Fault
        /\ walk' = League!Set(walk, w, League!Idle)
        /\ UNCHANGED <<newest, upcoming, tail, exhausted, due, listed, row, parked,
                       toReset, extras>>
    BY DEF League!RunLost, League!league, League!queue
  <1>3. Games' /\ Grows
    BY <1>1, <1>2, SameGames
  <1>4. Walks'
    BY <1>1, <1>2, <1>3, GoesIdle
  <1> QED
    BY <1>1, <1>2, <1>3, <1>4, CursorsStay, SameFlags, SameRows, FaultCounts, OfParts

-----------------------------------------------------------------------------
(* Around the walk *)

LEMMA HopsKeeps ==
    ASSUME LeagueInv, League!Hops PROVE LeagueInv'
  <1>1. Games /\ Cursors /\ Flags /\ Rows /\ Counts /\ Walks
    BY PartsOf
  <1>2. /\ parked # League!Empty /\ row' = parked /\ parked' = League!Empty
        /\ UNCHANGED <<newest, upcoming, tail, exhausted, due, listed, toReset, walk,
                       extras, faults>>
    BY DEF League!Hops, League!league
  <1>3. Games' /\ Grows
    BY <1>1, <1>2, SameGames
  <1>4. Rows'
    BY <1>1, <1>2 DEF Rows, League!Empty, League!RowsOf, League!None
  <1> QED
    BY <1>1, <1>2, <1>3, <1>4, CursorsStay, WalksStay, SameFlags, SameCounts, OfParts

LEMMA RestartsKeeps ==
    ASSUME League!LeagueWalkAssumption, LeagueInv, League!Restarts PROVE LeagueInv'
  <1>1. Games /\ Cursors /\ Flags /\ Rows /\ Counts /\ Walks
    BY PartsOf
  <1>2. /\ extras' = extras \/ (extras < MaxExtras /\ extras' = extras + 1)
        /\ row' = League!Waiting(League!None, FALSE)
        /\ UNCHANGED <<newest, upcoming, tail, exhausted, due, listed, parked, toReset,
                       walk, faults>>
    BY DEF League!Restarts, League!league
  <1>3. Games' /\ Grows
    BY <1>1, <1>2, SameGames
  <1>4. Rows'
    BY <1>1, <1>2 DEF Rows, League!Empty, League!Waiting, League!RowsOf, League!None
  <1>5. Counts'
    BY <1>1, <1>2 DEF Counts, League!LeagueWalkAssumption
  <1> QED
    BY <1>1, <1>2, <1>3, <1>4, <1>5, CursorsStay, WalksStay, SameFlags, OfParts

LEMMA ProcessFinishedKeeps ==
    ASSUME League!LeagueWalkAssumption, LeagueInv, NEW l \in Leagues,
           League!ProcessFinished(l)
    PROVE  LeagueInv'
  <1>1. Games /\ Cursors /\ Flags /\ Rows /\ Counts /\ Walks
    BY PartsOf
  <1>2. /\ extras < MaxExtras /\ extras' = extras + 1
        /\ League!Reset(l)
        /\ toReset' = toReset \cup {l}
        /\ UNCHANGED <<newest, upcoming, tail, listed, row, parked, walk, faults>>
    BY DEF League!ProcessFinished
  <1>3. Games' /\ Grows
    BY <1>1, <1>2, SameGames
  <1>4. Rows'
    BY <1>1, <1>2 DEF Rows, League!Empty, League!RowsOf, League!None
  <1>5. Counts'
    BY <1>1, <1>2 DEF Counts, League!LeagueWalkAssumption
  <1> QED
    BY <1>1, <1>2, <1>3, <1>4, <1>5, CursorsStay, WalksStay, ResetFlags, OfParts

LEMMA Plays1Keeps ==
    ASSUME League!LeagueWalkAssumption, LeagueInv, NEW l \in Leagues, League!Plays1(l)
    PROVE  LeagueInv'
  <1>1. Games /\ Cursors /\ Flags /\ Rows /\ Counts /\ Walks
    BY PartsOf
  <1>2. /\ newest[l] < League!Plays[l]
        /\ newest' = [newest EXCEPT ![l] = newest[l] + 1]
        /\ UNCHANGED <<upcoming, tail, exhausted, due, listed, row, parked, toReset,
                       walk, extras, faults>>
    BY DEF League!Plays1, League!Set, League!queue
  <1>3. \A k \in Leagues : newest[k] \in Nat /\ League!Plays[k] \in Int /\ newest[k] <= League!Plays[k]
    BY <1>1 DEF Games, League!Plays, League!LeagueWalkAssumption
  <1>4. \A k \in Leagues : newest'[k] \in Nat /\ newest[k] <= newest'[k] /\ newest'[k] <= League!Plays[k]
    BY <1>1, <1>2, <1>3 DEF Games
  <1>5. Games' /\ Grows
    BY <1>1, <1>2, <1>4 DEF Games, Grows, League!Plays, League!Match
  <1> QED
    BY <1>1, <1>2, <1>5, CursorsStay, WalksStay, SameFlags, SameRows, SameCounts, OfParts

LEMMA LeagueStartsKeeps ==
    ASSUME LeagueInv, NEW l \in Leagues, League!LeagueStarts(l) PROVE LeagueInv'
  <1>1. Games /\ Cursors /\ Flags /\ Rows /\ Counts /\ Walks
    BY PartsOf
  <1>2. /\ upcoming' = [upcoming EXCEPT ![l] = FALSE]
        /\ UNCHANGED <<newest, tail, exhausted, due, listed, row, parked, toReset,
                       walk, extras, faults>>
    BY DEF League!LeagueStarts, League!Set, League!queue
  <1>3. Games' /\ Grows
    BY <1>1, <1>2 DEF Games, Grows, League!Plays, League!Match
  <1> QED
    BY <1>1, <1>2, <1>3, CursorsStay, WalksStay, SameFlags, SameRows, SameCounts, OfParts

LEMMA RefreshesKeep ==
    ASSUME League!LeagueWalkAssumption, LeagueInv,
           League!RefreshDue \/ \E l \in Leagues : League!RefreshDueEarly(l)
    PROVE  LeagueInv'
  <1>1. Games /\ Cursors /\ Flags /\ Rows /\ Counts /\ Walks
    BY PartsOf
  <1>2. /\ due' \in [Leagues -> BOOLEAN]
        /\ faults' = faults \/ League!Fault
        /\ UNCHANGED <<newest, upcoming, tail, exhausted, listed, row, parked, toReset,
                       walk, extras>>
    BY <1>1 DEF League!RefreshDue, League!RefreshDueEarly, League!Set, League!queue, Flags
  <1>3. Games' /\ Grows
    BY <1>1, <1>2, SameGames
  <1>4. Flags'
    BY <1>1, <1>2 DEF Flags
  <1>5. Counts'
    BY <1>1, <1>2, FaultCounts, SameCounts
  <1> QED
    BY <1>1, <1>2, <1>3, <1>4, <1>5, CursorsStay, WalksStay, SameRows, OfParts

LEMMA LeagueStep ==
    ASSUME League!LeagueWalkAssumption, LeagueInv, [League!Next]_(League!vars)
    PROVE  LeagueInv'
  <1>1. CASE UNCHANGED League!vars
    <2>1. Games /\ Cursors /\ Flags /\ Rows /\ Counts /\ Walks
      BY PartsOf
    <2>2. UNCHANGED <<newest, upcoming, tail, exhausted, due, listed, row, parked,
                      toReset, walk, extras, faults>>
      BY <1>1 DEF League!vars, League!league, League!queue
    <2>3. Games' /\ Grows
      BY <2>1, <2>2, SameGames
    <2> QED
      BY <2>1, <2>2, <2>3, CursorsStay, WalksStay, SameFlags, SameRows, SameCounts, OfParts
  <1>2. CASE League!Next
    BY <1>2, TakeRowKeeps, TakeAskedKeeps, ListsKeeps, UpdatesCursorKeeps,
       SchedulesNextKeeps, PageFailsKeeps, RunLostKeeps, HopsKeeps, RestartsKeeps,
       ProcessFinishedKeeps, Plays1Keeps, LeagueStartsKeeps, RefreshesKeep, Zenon
       DEF League!Next, League!Works
  <1> QED
    BY <1>1, <1>2

\* LeagueInv holds of runWalkLeagueHistory and what starts it, whichever walks
\* overlap and whichever runs and pages are lost.
THEOREM LeagueInvariance ==
    ASSUME League!LeagueWalkAssumption PROVE League!Spec => []LeagueInv
  <1>1. League!Init => LeagueInv
    BY LeagueInitially
  <1>2. LeagueInv /\ [League!Next]_(League!vars) => LeagueInv'
    BY LeagueStep
  <1> QED
    BY <1>1, <1>2, PTL DEF League!Spec

\* The rows of leagues, of the queue and the runs keep their types, and no cursor
\* passes the newest match that Valve lists.
THEOREM LeagueTypeCorrect ==
    ASSUME League!LeagueWalkAssumption PROVE League!Spec => []League!TypeOK
  <1>1. LeagueInv => League!TypeOK
    BY DEF LeagueInv
  <1> QED
    BY <1>1, LeagueInvariance, PTL

\* The cursor that updateLeagueHistoryCursor writes points at a saved match: a
\* walk that goes on after a crash, or beside another one, skips nothing that
\* the database does not have.
THEOREM CursorIsSaved ==
    ASSUME League!LeagueWalkAssumption PROVE League!Spec => []League!TailIsListed
  <1>1. LeagueInv => League!TailIsListed
    BY DEF LeagueInv
  <1> QED
    BY <1>1, LeagueInvariance, PTL
=============================================================================
