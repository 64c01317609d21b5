----------------------------- MODULE PrunerProofs -----------------------------
(***************************************************************************)
(* Theorems about Pruner, for every limit and every number of blocks,      *)
(* failures, crashes and restarts: what the queue knows of, and what a     *)
(* purge spares.                                                           *)
(***************************************************************************)
EXTENDS Pruner, FiniteSetTheorems, WellFoundedInduction, TLAPS

\* A set of naturals that is not empty has a least element.
LEMMA LeastNatural ==
  ASSUME NEW S \in SUBSET Nat, S # {}
  PROVE  \E x \in S : \A y \in S : x <= y
<1>1. PICK x \in S : \A y \in S : ~(<<y, x>> \in OpToRel(<, Nat))
  BY NatLessThanWellFounded, WFMin
<1>2. \A y \in S : ~(y < x)
  BY <1>1 DEF OpToRel
<1>3. QED
  BY <1>2

\* A nonempty set of naturals with an upper bound has a greatest element.
LEMMA MaxOfBounded ==
  ASSUME NEW n \in Nat, NEW S \in SUBSET (0 .. n), S # {}
  PROVE  Max(S) \in S /\ \A y \in S : y <= Max(S)
<1> DEFINE D == {d \in 0 .. n : n - d \in S}
<1>1. D \in SUBSET Nat
  OBVIOUS
<1>2. \A y \in S : n - y \in D
  <2> TAKE y \in S
  <2>1. y \in 0 .. n
    OBVIOUS
  <2>2. n - y \in 0 .. n /\ n - (n - y) = y
    BY <2>1
  <2>3. QED
    BY <2>2
<1>3. PICK d \in D : \A e \in D : d <= e
  BY <1>1, <1>2, LeastNatural
<1>4. n - d \in S /\ \A y \in S : n - d >= y
  BY <1>2, <1>3
<1>5. \E x \in S : \A y \in S : x >= y
  BY <1>4
<1>6. Max(S) \in S /\ \A y \in S : Max(S) >= y
  BY <1>5 DEF Max
<1>7. QED
  BY <1>6

\* getBlockRange: the least height of a nonempty set of heights exists.
LEMMA MinOfBounded ==
  ASSUME NEW S \in SUBSET Nat, S # {}
  PROVE  Min(S) \in S /\ \A y \in S : Min(S) <= y
<1>1. \E x \in S : \A y \in S : x =< y
  BY LeastNatural
<1>2. QED
  BY <1>1 DEF Min

-----------------------------------------------------------------------------
(* Documents and heights                                                     *)

Collections == {"block", "sig", "tx"}

\* The documents of the three collections ...
LEMMA DocIsDoc ==
  ASSUME NEW h \in Heights, NEW v \in 0 .. MaxRolls, NEW c \in Collections
  PROVE  Doc(h, v, c) \in Docs
<1>1. \E i \in 1 .. 3 : c = Cols[i]
  BY DEF Collections, Cols
<1>2. QED
  BY <1>1 DEF Docs

\* ... have a height and a collection.
LEMMA DocFields ==
  ASSUME NEW d \in Docs
  PROVE  d.h \in Heights /\ d.c \in Collections
<1>1. PICK h \in Heights, v \in 0 .. MaxRolls, i \in 1 .. 3 : d = Doc(h, v, Cols[i])
  BY DEF Docs
<1>2. Cols[i] \in Collections
  BY <1>1 DEF Cols, Collections
<1>3. QED
  BY <1>1, <1>2 DEF Doc

\* The heights of visible blocks, and the highest of them.
LEMMA Visible ==
  ASSUME TypeOK
  PROVE  /\ VisibleBlocks \subseteq Heights
         /\ Highest \in 0 .. MaxHeight
         /\ \A d \in db : d.c = "block" => d.h <= Highest
         /\ VisibleBlocks # {} => Highest \in Heights
                                  /\ \E d \in db : d.c = "block" /\ d.h = Highest
         /\ VisibleBlocks # {} => Min(VisibleBlocks) \in Heights
         /\ VisibleBlocks = {} => Highest = 0 /\ \A d \in db : d.c # "block"
<1>1. db \subseteq Docs
  BY Zenon DEF TypeOK
<1>2. VisibleBlocks \subseteq Heights
  BY <1>1, DocFields DEF VisibleBlocks
<1>3. \A d \in db : d.c = "block" => d.h \in VisibleBlocks
  BY Zenon DEF VisibleBlocks
<1>4. \A h \in VisibleBlocks : \E d \in db : d.c = "block" /\ d.h = h
  BY Zenon DEF VisibleBlocks
<1>5. MaxHeight \in Nat /\ VisibleBlocks \in SUBSET (0 .. MaxHeight)
      /\ VisibleBlocks \in SUBSET Nat
  BY <1>2, PrunerAssumption DEF Heights
<1>6. CASE VisibleBlocks = {}
  BY <1>2, <1>3, <1>5, <1>6 DEF Highest
<1>7. CASE VisibleBlocks # {}
  <2>1. /\ Max(VisibleBlocks) \in VisibleBlocks
        /\ \A y \in VisibleBlocks : y <= Max(VisibleBlocks)
    BY <1>5, <1>7, MaxOfBounded, Zenon
  <2>2. Min(VisibleBlocks) \in VisibleBlocks
    BY <1>5, <1>7, MinOfBounded, Zenon
  <2>3. Highest = Max(VisibleBlocks)
    BY <1>7, Zenon DEF Highest
  <2>4. Highest \in 0 .. MaxHeight
    BY <1>5, <2>1, <2>3, Zenon
  <2>5. QED
    BY <1>2, <1>3, <1>4, <1>7, <2>1, <2>2, <2>3, <2>4, Zenon
<1>8. QED
  BY <1>6, <1>7, Zenon

-----------------------------------------------------------------------------
(* Types                                                                     *)

\* A failure is counted, and may leave a document unrecorded.
LEMMA FailCounts ==
  ASSUME TypeOK, NEW kind, MayFail(kind) \/ UNCHANGED failVars
  PROVE  fails' \in 0 .. MaxFails /\ lapse' \in BOOLEAN
<1>1. fails \in 0 .. MaxFails /\ lapse \in BOOLEAN
  BY Zenon DEF TypeOK
<1>2. CASE UNCHANGED failVars
  BY <1>1, <1>2, Zenon DEF failVars
<1>3. CASE MayFail(kind)
  <2>1. fails < MaxFails /\ fails' = fails + 1
        /\ lapse' = (lapse \/ kind \notin {"query", "store"})
    BY <1>3, Zenon DEF MayFail
  <2>2. fails' \in 0 .. MaxFails
    BY <1>1, <2>1, PrunerAssumption
  <2>3. lapse' \in BOOLEAN
    BY <2>1, Zenon
  <2>4. QED
    BY <2>2, <2>3
<1>4. QED
  BY <1>2, <1>3

\* What the indexer changes.
LEMMA IndexerTypes ==
  ASSUME TypeOK, IndexerNext
  PROVE  TypeOK'
<1> USE DEF dbVars, qVars, ixVars, cycleVars
<1>1. CASE Store
  <2>1. /\ next \in Heights /\ rolls \in 0 .. MaxRolls /\ next + 1 \in 1 .. MaxHeight + 1
    BY <1>1, PrunerAssumption DEF Store, TypeOK, Heights
  <2>2. \A c \in Collections : Doc(next, rolls, c) \in Docs
    BY <2>1, DocIsDoc, Zenon
  <2>3. /\ Doc(next, rolls, "block") \in Docs /\ Doc(next, rolls, "tx") \in Docs
        /\ Doc(next, rolls, "sig") \in Docs
    BY <2>2, Zenon DEF Collections
  <2>4. storing' \in Entry /\ storing'.docs \subseteq Docs
    <3>1. \/ storing' = [h |-> next, docs |-> {Doc(next, rolls, "block"),
                            Doc(next, rolls, "tx"), Doc(next, rolls, "sig")}]
          \/ storing' = [h |-> next, docs |-> {Doc(next, rolls, "block")}]
      BY <1>1, Zenon DEF Store
    <3>2. QED
      BY <2>1, <2>3, <3>1 DEF Entry
  <2>5. fails' \in 0 .. MaxFails /\ lapse' \in BOOLEAN
    BY <1>1, FailCounts, Zenon DEF Store
  <2>6. next' \in 1 .. MaxHeight + 1 /\ db' \subseteq Docs
    BY <1>1, <2>1, <2>4, Zenon DEF Store, TypeOK
  <2>7. QED
    BY <1>1, <2>4, <2>5, <2>6, Zenon DEF Store, TypeOK
<1>2. CASE TrackBlockDocIDs
  <2>1. storing \in Entry
    BY <1>2, Zenon DEF TrackBlockDocIDs, TypeOK
  <2>2. fails' \in 0 .. MaxFails /\ lapse' \in BOOLEAN
    BY <1>2, FailCounts, Zenon DEF TrackBlockDocIDs
  <2>3. QED
    BY <1>2, <2>1, <2>2, Zenon DEF TrackBlockDocIDs, TypeOK
<1>3. CASE Hole
  <2>1. next + 1 \in 1 .. MaxHeight + 1
    BY <1>3, PrunerAssumption DEF Hole, TypeOK
  <2>2. fails' \in 0 .. MaxFails /\ lapse' \in BOOLEAN
    BY <1>3, FailCounts, Zenon DEF Hole
  <2>3. QED
    BY <1>3, <2>1, <2>2, Zenon DEF Hole, TypeOK
<1>4. CASE LateSign
  <2>1. fails' \in 0 .. MaxFails /\ lapse' \in BOOLEAN
    BY <1>4, FailCounts, Zenon DEF LateSign
  <2>2. PICK d \in db : db' = db \cup {Doc(d.h, d.v, "sig")}
    BY <1>4, Zenon DEF LateSign
  <2>3. d.h \in Heights /\ d.v \in 0 .. MaxRolls
    BY DEF TypeOK, Docs, Doc
  <2>4. Doc(d.h, d.v, "sig") \in Docs
    BY <2>3, DocIsDoc, Zenon DEF Collections
  <2>5. QED
    BY <1>4, <2>1, <2>2, <2>4, Zenon DEF LateSign, TypeOK
<1>5. CASE Rollback
  <2>1. fails' \in 0 .. MaxFails /\ lapse' \in BOOLEAN
    BY <1>5, FailCounts, Zenon DEF Rollback
  <2>2. Highest \in Heights
    BY <1>5, Visible, Zenon DEF Rollback
  <2>3. next' \in 1 .. MaxHeight + 1 /\ rolls' \in 0 .. MaxRolls
    BY <1>5, <2>2, PrunerAssumption DEF Rollback, TypeOK, Heights
  <2>4. db' \subseteq Docs /\ soft' \subseteq Docs
    BY <1>5, Zenon DEF Rollback, TypeOK
  <2>5. QED
    BY <1>5, <2>1, <2>3, <2>4, Zenon DEF Rollback, TypeOK
<1>6. QED
  BY <1>1, <1>2, <1>3, <1>4, <1>5, Zenon DEF IndexerNext

\* What the start and the end of a process change.
LEMMA ProcessTypes ==
  ASSUME TypeOK, Start \/ Stop \/ Crash
  PROVE  TypeOK'
<1> USE DEF dbVars, qVars, ixVars, cycleVars
<1>1. CASE Start
  <2>1. fails' \in 0 .. MaxFails /\ lapse' \in BOOLEAN
    BY <1>1, FailCounts, Zenon DEF Start
  <2>2. Highest \in 0 .. MaxHeight
    BY Visible, Zenon
  <2>3. /\ next' \in 1 .. MaxHeight + 1 /\ procs' \in 0 .. MaxProcs
        /\ 0 \in 0 .. MaxHeight
    BY <1>1, <2>2, PrunerAssumption DEF Start, TypeOK
  <2>4. queue' \subseteq Entry
    BY <1>1, Zenon DEF Start, TypeOK
  <2>5. QED
    BY <1>1, <2>1, <2>3, <2>4, Zenon DEF Start, TypeOK
<1>2. CASE Stop \/ Crash
  <2>1. fails' \in 0 .. MaxFails /\ lapse' \in BOOLEAN
    BY <1>2, FailCounts, Zenon DEF Stop, Crash
  <2>2. /\ file' \subseteq Entry /\ queue' = {} /\ storing' = NoEntry
        /\ todo' = {} /\ pc' = "down"
    BY <1>2, Zenon DEF Stop, Crash, Down, TypeOK
  <2>3. UNCHANGED <<dbVars, next, rolls, cycle, lo, hi, col, failed, procs>>
    BY <1>2, Zenon DEF Stop, Crash
  <2>4. QED
    BY <2>1, <2>2, <2>3, Zenon DEF TypeOK
<1>3. QED
  BY <1>1, <1>2, Zenon

\* What a cycle of the prune loop changes.
LEMMA CycleTypes ==
  ASSUME TypeOK, CycleNext
  PROVE  TypeOK'
<1> USE DEF dbVars, qVars, ixVars
<1>1. fails' \in 0 .. MaxFails /\ lapse' \in BOOLEAN
  BY FailCounts, Zenon DEF CycleNext, CycleFails, GetLowest, GetHighest, ListRange, Purge,
                           PurgeEnds, RunPrune, Save
<1>2. 1 \in 1 .. 4
  OBVIOUS
<1>3. CASE CycleFails \/ PurgeEnds
  BY <1>1, <1>3, Zenon DEF CycleFails, PurgeEnds, EndCycle, TypeOK
<1>4. CASE GetLowest
  <2>1. lo' \in 0 .. MaxHeight
    <3>1. Min(VisibleBlocks) \in Heights => Min(VisibleBlocks) \in 0 .. MaxHeight
      BY PrunerAssumption DEF Heights
    <3>2. QED
      BY <1>4, <3>1, Visible, Zenon DEF GetLowest, TypeOK
  <2>2. QED
    BY <1>1, <1>4, <2>1, Zenon DEF GetLowest, EndCycle, TypeOK
<1>5. CASE GetHighest
  <2>1. hi' \in 0 .. MaxHeight
    BY <1>5, Visible, Zenon DEF GetHighest
  <2>2. QED
    BY <1>1, <1>5, <2>1, Zenon DEF GetHighest, EndCycle, TypeOK
<1>6. CASE ListRange
  BY <1>1, <1>2, <1>6, Zenon DEF ListRange, TypeOK
<1>7. CASE Purge
  <2>1. col' \in 1 .. 4
    <3>1. Len(Cols) = 3
      BY DEF Cols
    <3>2. QED
      BY <1>7, <3>1 DEF Purge, TypeOK
  <2>2. db' \subseteq Docs /\ soft' \subseteq Docs /\ todo' \subseteq Docs
        /\ failed' \in BOOLEAN
    BY <1>7, Zenon DEF Purge, TypeOK
  <2>3. QED
    BY <1>1, <1>7, <2>1, <2>2, Zenon DEF Purge, TypeOK
<1>8. CASE RunPrune
  <2>1. queue' \subseteq Entry /\ todo' \subseteq Docs /\ pc' \in {"range", "purge"}
    <3>1. CASE UNCHANGED <<queue, todo>> /\ pc' = "range"
      BY <3>1, Zenon DEF TypeOK
    <3>2. ASSUME NEW d \in Drain(Keep), pc' = "purge",
                 queue' = queue \ d /\ todo' = UNION {e.docs : e \in d}
          PROVE  /\ queue' \subseteq Entry /\ todo' \subseteq Docs
                 /\ pc' \in {"range", "purge"}
      <4>1. d \subseteq queue /\ queue \subseteq Entry
        BY Zenon DEF Drain, kSubset, TypeOK
      <4>2. \A e \in d : e.docs \subseteq Docs
        BY <4>1 DEF Entry
      <4>3. QED
        BY <3>2, <4>1, <4>2, Zenon
    <3>3. QED
      BY <1>8, <3>1, <3>2, Zenon DEF RunPrune
  <2>2. QED
    BY <1>1, <1>2, <1>8, <2>1, Zenon DEF RunPrune, TypeOK
<1>9. CASE Save
  BY <1>1, <1>9, Zenon DEF Save, TypeOK
<1>10. QED
  BY <1>3, <1>4, <1>5, <1>6, <1>7, <1>8, <1>9, Zenon DEF CycleNext

\* Every step keeps the types.
LEMMA TypeStep ==
  ASSUME TypeOK, [Next]_vars
  PROVE  TypeOK'
<1>1. CASE UNCHANGED vars
  BY <1>1, Zenon DEF vars, dbVars, qVars, ixVars, cycleVars, failVars, TypeOK
<1>2. QED
  BY <1>1, IndexerTypes, ProcessTypes, CycleTypes, Zenon DEF Next

\* So does the start.
LEMMA TypeInit == Init => TypeOK
<1>1. /\ 1 \in 1 .. MaxHeight + 1 /\ 0 \in 0 .. MaxRolls /\ 0 \in 0 .. MaxHeight
      /\ 1 \in 1 .. 4 /\ 0 \in 0 .. MaxProcs /\ 0 \in 0 .. MaxFails
  BY PrunerAssumption
<1>2. QED
  BY <1>1, Zenon DEF Init, TypeOK

-----------------------------------------------------------------------------
(* What the queue knows of                                                   *)

\* Nothing is being stored while no process runs, and a purge has gone through
\* the collections before the current one.
CycleInv ==
  /\ storing # NoEntry => pc # "down"
  /\ pc # "purge" => todo = {}
  /\ pc = "purge" => \A d \in todo : \A i \in 1 .. 3 : d.c = Cols[i] => col <= i

\* A purge that has gone through every collection is done.
LEMMA PurgeDone ==
  ASSUME TypeOK, CycleInv, pc = "purge", col > Len(Cols)
  PROVE  todo = {}
<1>1. col \in 1 .. 4 /\ todo \subseteq Docs /\ Len(Cols) = 3
  BY DEF TypeOK, Cols
<1>2. ASSUME NEW d \in todo PROVE FALSE
  <2>1. d.c \in Collections
    BY <1>1, DocFields, Zenon
  <2>2. PICK i \in 1 .. 3 : d.c = Cols[i]
    BY <2>1 DEF Collections, Cols
  <2>3. col <= i
    BY <2>2, Zenon DEF CycleInv
  <2>4. QED
    BY <1>1, <2>3
<1>3. QED
  BY <1>2

\* Each action keeps it.
LEMMA CycleStep ==
  ASSUME TypeOK, CycleInv, [Next]_vars
  PROVE  CycleInv'
<1> USE DEF dbVars, qVars, ixVars, cycleVars
<1>1. CASE UNCHANGED vars
  BY <1>1, Zenon DEF vars, CycleInv
<1>2. CASE Store
  BY <1>2, Zenon DEF Store, CycleInv
<1>3. CASE TrackBlockDocIDs \/ Hole \/ LateSign \/ Rollback
  BY <1>3, Zenon DEF TrackBlockDocIDs, Hole, LateSign, Rollback, CycleInv
<1>4. CASE Start
  BY <1>4, Zenon DEF Start, CycleInv
<1>5. CASE Stop \/ Crash
  BY <1>5, Zenon DEF Stop, Crash, Down, CycleInv
<1>6. CASE CycleFails \/ GetLowest \/ GetHighest \/ Save
  BY <1>6, Zenon DEF CycleFails, GetLowest, GetHighest, Save, EndCycle, CycleInv
<1>7. CASE ListRange \/ RunPrune
  <2>1. /\ \A i \in 1 .. 3 : 1 <= i
    OBVIOUS
  <2>2. /\ pc' \in {"range", "purge"} /\ col' = 1 /\ storing' = storing
        /\ pc' # "purge" => todo' = todo /\ pc # "purge"
    BY <1>7, Zenon DEF ListRange, RunPrune
  <2>3. QED
    BY <2>1, <2>2, Zenon DEF CycleInv
<1>8. CASE Purge
  <2>1. /\ pc = "purge" /\ pc' = pc /\ storing' = storing /\ col' = col + 1
        /\ todo' = todo \ {d \in todo : d.c = Cols[col]} /\ col \in 1 .. 3
    <3>1. Len(Cols) = 3
      BY DEF Cols
    <3>2. pc = "purge" /\ pc' = pc /\ storing' = storing /\ col' = col + 1
          /\ todo' = todo \ {d \in todo : d.c = Cols[col]} /\ col <= Len(Cols)
      BY <1>8, Zenon DEF Purge
    <3>3. QED
      BY <3>1, <3>2 DEF TypeOK
  <2>2. ASSUME NEW d \in todo', NEW i \in 1 .. 3, d.c = Cols[i] PROVE col' <= i
    <3>1. d \in todo /\ i # col
      BY <2>1, <2>2, Zenon
    <3>2. col <= i
      BY <2>1, <2>2, <3>1, Zenon DEF CycleInv
    <3>3. QED
      BY ONLY <2>1, <3>1, <3>2, i \in 1 .. 3
  <2>3. QED
    BY <2>1, <2>2, Zenon DEF CycleInv
<1>9. CASE PurgeEnds
  BY <1>9, PurgeDone, Zenon DEF PurgeEnds, EndCycle, CycleInv
<1>10. QED
  BY <1>1, <1>2, <1>3, <1>4, <1>5, <1>6, <1>7, <1>8, <1>9, Zenon
     DEF Next, IndexerNext, CycleNext

\* A document is in the purge under way, in an entry of the queue, of the file
\* between two processes, or in the entry not tracked yet.
Recorded(d) == d \in todo \/ (\E e \in Entries : d \in e.docs) \/ d \in storing.docs

\* The entry of no block records nothing.
LEMMA NoEntryEmpty == NoEntry.docs = {} /\ NoEntry.h = 0
BY DEF NoEntry

\* The documents of some entries.
LEMMA UnionDocs ==
  ASSUME NEW S, NEW d
  PROVE  d \in UNION {e.docs : e \in S} <=> \E e \in S : d \in e.docs
OBVIOUS

\* Each action keeps what is on disk recorded, or is a lapse.
LEMMA PresentStep ==
  ASSUME TypeOK, CycleInv, PresentIsQueued, [Next]_vars
  PROVE  PresentIsQueued'
<1> USE DEF dbVars, qVars, ixVars, cycleVars
<1>1. ~lapse => \A d \in db \cup soft : Recorded(d)
  <2> SUFFICES ASSUME ~lapse, NEW d \in db \cup soft PROVE Recorded(d)
    OBVIOUS
  <2>1. d \in UNION {e.docs : e \in Entries \cup {storing}} \/ d \in todo
    BY Zenon DEF PresentIsQueued
  <2>2. (\E e \in Entries \cup {storing} : d \in e.docs) \/ d \in todo
    BY <2>1, UnionDocs, Zenon
  <2>3. QED
    BY <2>2, Zenon DEF Recorded
<1>2. SUFFICES ASSUME ~lapse', NEW d \in db' \cup soft' PROVE Recorded(d)'
  <2> SUFFICES ASSUME ~lapse', NEW d \in db' \cup soft'
               PROVE  d \in todo' \cup UNION {e.docs : e \in Entries' \cup {storing'}}
    BY Zenon DEF PresentIsQueued
  <2>1. Recorded(d)'
    OBVIOUS
  <2>2. (\E e \in Entries' \cup {storing'} : d \in e.docs) \/ d \in todo'
    BY <2>1, Zenon DEF Recorded
  <2>3. QED
    BY <2>2, UnionDocs, Zenon
<1>3. lapse \in BOOLEAN
  BY Zenon DEF TypeOK
<1>4. /\ \A kind : MayFail(kind) => ~lapse
      /\ ~MayFail("purge") /\ ~MayFail("save") /\ ~MayFail("load") /\ ~MayFail("late")
      /\ ~MayFail("crash")
      /\ UNCHANGED failVars => ~lapse
  BY <1>2, <1>3 DEF MayFail, failVars
<1>5. CASE UNCHANGED vars
  BY <1>1, <1>2, <1>5, Zenon DEF vars, failVars, Recorded, Entries
<1>6. CASE Store
  <2>1. /\ ~lapse /\ storing = NoEntry /\ db' = db \cup storing'.docs
        /\ UNCHANGED <<soft, queue, file, todo, pc>>
    BY <1>2, <1>4, <1>6, Zenon DEF Store
  <2>2. QED
    BY <1>1, <1>2, <2>1, NoEntryEmpty, Zenon DEF Recorded, Entries
<1>7. CASE TrackBlockDocIDs
  <2>1. /\ ~lapse /\ storing # NoEntry /\ queue' = queue \cup {storing}
        /\ UNCHANGED <<db, soft, todo, pc>>
    BY <1>4, <1>7, Zenon DEF TrackBlockDocIDs
  <2>2. pc # "down"
    BY <2>1, Zenon DEF CycleInv
  <2>3. QED
    BY <1>1, <1>2, <2>1, <2>2, Zenon DEF Recorded, Entries
<1>8. CASE Hole \/ Rollback
  <2>1. /\ ~lapse /\ db' \cup soft' \subseteq db \cup soft
        /\ UNCHANGED <<queue, file, todo, pc, storing>>
    BY <1>2, <1>4, <1>8, Zenon DEF Hole, Rollback
  <2>2. QED
    BY <1>1, <1>2, <2>1, Zenon DEF Recorded, Entries
<1>9. CASE LateSign \/ Crash
  BY <1>4, <1>9, Zenon DEF LateSign, Crash
<1>10. CASE Start
  <2>1. /\ ~lapse /\ pc = "down" /\ pc' = "range" /\ queue' = file
        /\ UNCHANGED <<db, soft, todo, storing>>
    BY <1>2, <1>4, <1>10, Zenon DEF Start
  <2>2. QED
    BY <1>1, <1>2, <2>1, Zenon DEF Recorded, Entries
<1>11. CASE Stop
  <2>1. /\ ~lapse /\ pc = "idle" /\ pc' = "down" /\ file' = queue /\ storing = NoEntry
        /\ storing' = NoEntry /\ UNCHANGED <<db, soft>>
    BY <1>2, <1>4, <1>11, Zenon DEF Stop, Down
  <2>2. todo = {}
    BY <2>1, Zenon DEF CycleInv
  <2>3. QED
    BY <1>1, <1>2, <2>1, <2>2, Zenon DEF Recorded, Entries
<1>12. CASE CycleFails \/ GetLowest \/ GetHighest \/ PurgeEnds \/ Save
  <2>1. /\ ~lapse /\ pc # "down" /\ pc' # "down"
        /\ UNCHANGED <<db, soft, queue, todo, storing>>
    BY <1>2, <1>4, <1>12, Zenon DEF CycleFails, GetLowest, GetHighest, PurgeEnds, Save,
                                    EndCycle
  <2>2. QED
    BY <1>1, <1>2, <2>1, Zenon DEF Recorded, Entries
<1>13. CASE ListRange
  <2>1. /\ ~lapse /\ pc = "list" /\ pc' = "purge"
        /\ UNCHANGED <<db, soft, queue, storing>>
    BY <1>4, <1>13, Zenon DEF ListRange
  <2>2. todo = {}
    BY <2>1, Zenon DEF CycleInv
  <2>3. QED
    BY <1>1, <1>2, <2>1, <2>2, Zenon DEF Recorded, Entries
<1>14. CASE Purge
  <2> DEFINE ids == {x \in todo : x.c = Cols[col]}
  <2>1. /\ ~lapse /\ db' = db \ ids /\ soft' = soft \ ids /\ todo' = todo \ ids
        /\ UNCHANGED <<queue, file, storing, pc>>
    BY <1>2, <1>4, <1>14, Zenon DEF Purge
  <2>2. QED
    BY <1>1, <1>2, <2>1, Zenon DEF Recorded, Entries
<1>15. CASE RunPrune
  <2>1. /\ ~lapse /\ pc = "idle" /\ pc' \in {"range", "purge"}
        /\ UNCHANGED <<db, soft, storing>>
        /\ \/ UNCHANGED <<queue, todo>>
           \/ \E x \in Drain(Keep) : queue' = queue \ x /\ todo' = UNION {e.docs : e \in x}
    BY <1>4, <1>15, Zenon DEF RunPrune
  <2>2. todo = {} /\ d \in db \cup soft
    BY <1>2, <2>1, Zenon DEF CycleInv
  <2>3. (\E e \in queue : d \in e.docs) \/ d \in storing.docs
    BY <1>1, <2>1, <2>2, Zenon DEF Recorded, Entries
  <2>4. CASE UNCHANGED <<queue, todo>>
    BY <2>1, <2>3, <2>4, Zenon DEF Recorded, Entries
  <2>5. ASSUME NEW x, queue' = queue \ x, todo' = UNION {e.docs : e \in x}
        PROVE  Recorded(d)'
    BY <2>1, <2>3, <2>5, Zenon DEF Recorded, Entries
  <2>6. QED
    BY <2>1, <2>4, <2>5, Zenon
<1>16. QED
  BY <1>5, <1>6, <1>7, <1>8, <1>9, <1>10, <1>11, <1>12, <1>13, <1>14, <1>15, Zenon
     DEF Next, IndexerNext, CycleNext

\* The queue is the only record that a document is prunable, and it is complete:
\* for any limits, blocks, rollbacks and restarts, as long as no process is
\* killed, no purge, save or load fails and no signature comes late, every
\* document on disk is in the queue, in its file or in the purge under way.
THEOREM PresentIsAlwaysQueued == Spec => []PresentIsQueued
<1>1. Init => TypeOK /\ CycleInv /\ PresentIsQueued
  <2>1. Init => CycleInv /\ PresentIsQueued
    BY Zenon DEF Init, CycleInv, PresentIsQueued
  <2>2. QED
    BY <2>1, TypeInit
<1>2. TypeOK /\ CycleInv /\ PresentIsQueued /\ [Next]_vars
        => (TypeOK /\ CycleInv /\ PresentIsQueued)'
  BY TypeStep, CycleStep, PresentStep
<1>3. QED
  BY <1>1, <1>2, PTL DEF Spec

-----------------------------------------------------------------------------
(* What a purge spares                                                       *)

\* A visible block is at h or above it.
Reached(h) == \E b \in db : b.c = "block" /\ h <= b.h

\* The entries of the running process.
Tracked == queue \cup ({storing} \ {NoEntry})

\* As long as nothing is rolled back, an entry holds the documents of its height,
\* which the highest block has reached and no other entry has ...
EntryInv ==
  /\ \A e \in Tracked \cup file : Reached(e.h) /\ e.h < next /\ \A d \in e.docs : d.h = e.h
  /\ \A e, f \in Tracked : e.h = f.h => e = f
  /\ \A e, f \in file : e.h = f.h => e = f

\* ... and what is to be purged lies MaxBlocks below a visible block.
PurgeInv ==
  /\ pc = "list" => Reached(hi)
  /\ todo # {} => \E b \in db : b.c = "block" /\ \A d \in todo : d.h + MaxBlocks <= b.h

RetainInv == rolls = 0 => EntryInv /\ PurgeInv

\* MaxBlocks or more entries of different heights above m reach MaxBlocks above m.
LEMMA Pigeonhole ==
  ASSUME NEW K, IsFiniteSet(K), \A e \in K : e.h \in Nat,
         \A e, f \in K : e.h = f.h => e = f,
         NEW m \in Nat, \A e \in K : m < e.h,
         MaxBlocks <= Cardinality(K)
  PROVE  \E e \in K : m + MaxBlocks <= e.h
<1>1. MaxBlocks \in Nat \ {0} /\ m + 1 \in Int /\ m + MaxBlocks - 1 \in Int
  BY PrunerAssumption
<1> DEFINE R == m + 1 .. m + MaxBlocks - 1
<1>2. IsFiniteSet(R) /\ Cardinality(R) = MaxBlocks - 1
  <2>1. IsFiniteSet(R) /\ Cardinality(R) = IF m + 1 > m + MaxBlocks - 1 THEN 0
                              ELSE (m + MaxBlocks - 1) - (m + 1) + 1
    BY <1>1, FS_Interval, Zenon
  <2>2. QED
    BY <1>1, <2>1
<1>3. SUFFICES ASSUME \A e \in K : ~(m + MaxBlocks <= e.h) PROVE FALSE
  OBVIOUS
<1>4. \A e \in K : e.h \in R
  BY <1>1, <1>3
<1> HIDE DEF R
<1> DEFINE f == [e \in K |-> e.h]
<1>5. f \in Injection(K, R)
  BY <1>4 DEF Injection, IsInjective
<1> HIDE DEF f
<1>6. Cardinality(K) <= Cardinality(R)
  BY <1>2, <1>5, FS_Injection, Zenon
<1>7. Cardinality(K) \in Nat
  BY FS_CardinalityType, Zenon
<1>8. QED
  BY <1>1, <1>2, <1>6, <1>7

\* The entries of the queue have heights, and are finitely many.
LEMMA QueueFinite ==
  ASSUME TypeOK, EntryInv
  PROVE  /\ \A e \in queue : e.h \in Heights
         /\ \A e, f \in queue : e.h = f.h => e = f
         /\ IsFiniteSet(queue) /\ Cardinality(queue) \in Nat
<1>1. \A e \in queue : e.h \in Heights
  BY DEF TypeOK, Entry
<1>2. \A e, f \in queue : e.h = f.h => e = f
  BY Zenon DEF EntryInv, Tracked
<1>3. IsFiniteSet(Heights)
  BY FS_Interval, PrunerAssumption DEF Heights
<1> DEFINE g == [e \in queue |-> e.h]
<1>4. g \in Injection(queue, Heights)
  BY <1>1, <1>2 DEF Injection, IsInjective
<1> HIDE DEF g
<1>5. IsFiniteSet(queue)
  BY <1>3, <1>4, FS_Injection, Zenon
<1>6. QED
  BY <1>1, <1>2, <1>5, FS_CardinalityType, Zenon

\* A cycle keeps MaxBlocks entries or more.
LEMMA KeepEnough ==
  ASSUME Cardinality(queue) \in Nat, Cardinality(queue) > MaxBlocks
  PROVE  Keep \in Nat /\ MaxBlocks <= Keep /\ Keep <= Cardinality(queue)
<1> DEFINE n == Cardinality(queue)
<1>1. n \in Nat /\ n > MaxBlocks /\ MaxBlocks \in Nat /\ MaxBlocksPerCycle \in Nat
  BY PrunerAssumption
<1>2. Keep = IF MaxBlocksPerCycle > 0 /\ n - MaxBlocks > MaxBlocksPerCycle
             THEN n - MaxBlocksPerCycle ELSE MaxBlocks
  BY DEF Keep
<1> HIDE DEF n
<1>3. Keep \in Nat /\ MaxBlocks <= Keep /\ Keep <= n
  BY <1>1, <1>2
<1>4. QED
  BY <1>3 DEF n

\* Drain takes entries that lie MaxBlocks below a visible block.
LEMMA DrainSpares ==
  ASSUME TypeOK, EntryInv, Cardinality(queue) > MaxBlocks, NEW D \in Drain(Keep)
  PROVE  \E b \in db : b.c = "block" /\ \A e \in D : e.h + MaxBlocks <= b.h
<1> DEFINE K == queue \ D
<1>1. /\ IsFiniteSet(queue) /\ Cardinality(queue) \in Nat
      /\ \A e \in queue : e.h \in Heights
      /\ \A e, f \in queue : e.h = f.h => e = f
  BY QueueFinite, Zenon
<1>2. Keep \in Nat /\ MaxBlocks <= Keep /\ MaxBlocks \in Nat \ {0} /\ MaxHeight \in Nat
  BY <1>1, KeepEnough, PrunerAssumption, Zenon
<1>3. /\ D \subseteq queue /\ Cardinality(D) = Cardinality(queue) - Keep
      /\ \A e \in D, k \in K : e.h <= k.h
  BY Zenon DEF Drain, kSubset
<1>4. Cardinality(K) = Keep /\ IsFiniteSet(K)
  <2>1. IsFiniteSet(D) /\ IsFiniteSet(K) /\ Cardinality(D) \in Nat /\ Cardinality(K) \in Nat
    BY <1>1, <1>3, FS_Subset, FS_CardinalityType, Zenon
  <2>2. D \cup K = queue /\ D \cap K = {}
    BY <1>3, Zenon
  <2>3. Cardinality(queue) = Cardinality(D) + Cardinality(K) - Cardinality({})
    BY <2>1, <2>2, FS_Union, Zenon
  <2>4. Cardinality({}) = 0
    BY FS_EmptySet, Zenon
  <2>5. QED
    BY ONLY <1>1, <1>2, <1>3, <2>1, <2>3, <2>4
<1>5. K \subseteq queue /\ K # {}
  <2>1. Cardinality({}) = 0
    BY FS_EmptySet, Zenon
  <2>2. Cardinality(K) # 0
    BY ONLY <1>2, <1>4
  <2>3. QED
    BY <2>1, <2>2, Zenon
<1> HIDE DEF K
<1>6. PICK k \in K : \A f \in K : f.h <= k.h
  <2> DEFINE H == {f.h : f \in K}
  <2>1. H \in SUBSET (0 .. MaxHeight) /\ H # {}
    BY <1>1, <1>2, <1>5 DEF Heights
  <2>2. Max(H) \in H /\ \A y \in H : y <= Max(H)
    BY <1>2, <2>1, MaxOfBounded, Zenon
  <2>3. QED
    BY <2>2, Zenon
<1>7. PICK b \in db : b.c = "block" /\ k.h <= b.h
  BY <1>5, Zenon DEF EntryInv, Tracked, Reached
<1>8. ASSUME NEW e \in D PROVE e.h + MaxBlocks <= b.h
  <2>1. e \in queue /\ e.h \in Nat /\ \A f \in K : f \in queue /\ f.h \in Nat
    BY <1>1, <1>3, <1>5 DEF Heights
  <2>2. \A f \in K : e.h <= f.h /\ e.h # f.h
    BY <1>1, <1>3, <2>1, Zenon DEF K
  <2>3. \A f \in K : e.h < f.h
    BY <2>1, <2>2
  <2>4. PICK f \in K : e.h + MaxBlocks <= f.h
    BY <1>1, <1>2, <1>4, <1>5, <2>1, <2>3, Pigeonhole, Zenon
  <2>5. b.h \in Nat
    BY DocFields DEF TypeOK, Heights
  <2>6. f.h <= k.h /\ f.h \in Nat /\ k.h \in Nat
    BY <1>6, <2>1, Zenon
  <2>7. QED
    BY <1>2, <1>7, <2>1, <2>4, <2>5, <2>6
<1>9. QED
  BY <1>7, <1>8, Zenon

\* A purge takes the blocks below the witness of PurgeInv, never the witness.
LEMMA PurgeSpares ==
  ASSUME TypeOK, PurgeInv, Purge
  PROVE  /\ todo' \subseteq todo /\ db' \subseteq db /\ db \ db' \subseteq todo
         /\ \A h \in Nat : Reached(h) => Reached(h)'
         /\ todo # {} =>
              \E b \in db' : b.c = "block" /\ \A d \in todo : d.h + MaxBlocks <= b.h
<1>1. todo' \subseteq todo /\ db' \subseteq db /\ db \ db' \subseteq todo
  BY Zenon DEF Purge, dbVars
<1>2. \A d \in db \cup todo : d.h \in Nat
  BY DocFields DEF TypeOK, Heights
<1>3. MaxBlocks \in Nat \ {0}
  BY PrunerAssumption
<1>4. CASE todo = {}
  BY <1>1, <1>4, Zenon DEF Reached
<1>5. CASE todo # {}
  <2>1. PICK b \in db : b.c = "block" /\ \A d \in todo : d.h + MaxBlocks <= b.h
    BY <1>5, Zenon DEF PurgeInv
  <2>2. b \notin todo
    BY <1>2, <1>3, <2>1
  <2>3. b \in db'
    BY <1>1, <2>2, Zenon
  <2>4. ASSUME NEW h \in Nat, Reached(h) PROVE Reached(h)'
    <3>1. PICK a \in db : a.c = "block" /\ h <= a.h
      BY <2>4, Zenon DEF Reached
    <3>2. CASE a \in db'
      BY <3>1, <3>2, Zenon DEF Reached
    <3>3. CASE a \notin db'
      <4>1. a.h + MaxBlocks <= b.h
        BY <1>1, <2>1, <3>3, Zenon
      <4>2. h <= b.h
        BY <1>2, <1>3, <3>1, <4>1
      <4>3. QED
        BY <2>1, <2>3, <4>2, Zenon DEF Reached
    <3>4. QED
      BY <3>2, <3>3, Zenon
  <2>5. QED
    BY <1>1, <2>1, <2>3, <2>4, Zenon
<1>6. QED
  BY <1>4, <1>5, Zenon

\* A block is stored: its entry has a height of its own.
LEMMA StoreEntries ==
  ASSUME TypeOK, CycleInv, EntryInv, PurgeInv, Store
  PROVE  EntryInv' /\ PurgeInv'
<1> USE DEF dbVars, qVars, ixVars, cycleVars
<1>1. /\ storing = NoEntry /\ db' = db \cup storing'.docs /\ next' = next + 1
      /\ UNCHANGED <<queue, file, pc, hi, todo>>
  BY Zenon DEF Store
<1>2. /\ storing'.h = next /\ Doc(next, rolls, "block") \in storing'.docs
      /\ \A d \in storing'.docs : d.h = next
  BY DEF Store, Doc
<1>3. Tracked' \subseteq queue \cup {storing'} /\ Tracked = queue
  BY <1>1, Zenon DEF Tracked
<1>4. next \in Nat /\ \A e \in queue \cup file : e.h \in Nat
  BY DEF TypeOK, Entry, Heights
<1>5. \A h : Reached(h) => Reached(h)'
  BY <1>1, Zenon DEF Reached
<1>6. /\ \A e \in queue \cup file :
           Reached(e.h) /\ e.h < next /\ \A d \in e.docs : d.h = e.h
      /\ \A e, f \in queue : e.h = f.h => e = f
      /\ \A e, f \in file : e.h = f.h => e = f
  BY <1>3, Zenon DEF EntryInv
<1>7. \A e \in queue \cup file : e.h < next + 1 /\ e.h # next
  BY <1>4, <1>6
<1>8. \E b \in db' : b.c = "block" /\ next <= b.h
  <2>1. Doc(next, rolls, "block").c = "block" /\ Doc(next, rolls, "block").h = next
    BY DEF Doc
  <2>2. next <= next /\ next < next + 1
    BY <1>4
  <2>3. QED
    BY <1>1, <1>2, <2>1, <2>2, Zenon
<1>9. next < next + 1
  BY <1>4
<1>10. \A e \in Tracked' \cup file' :
         Reached(e.h)' /\ e.h < next' /\ \A d \in e.docs : d.h = e.h
  <2> SUFFICES ASSUME NEW e \in Tracked' \cup file'
               PROVE  Reached(e.h)' /\ e.h < next' /\ \A d \in e.docs : d.h = e.h
    BY Zenon
  <2>1. CASE e \in queue \cup file
    BY <1>1, <1>5, <1>6, <1>7, <2>1, Zenon
  <2>2. CASE e = storing'
    BY <1>1, <1>2, <1>8, <1>9, <2>2, Zenon DEF Reached
  <2>3. QED
    BY <1>1, <1>3, <2>1, <2>2, Zenon
<1>11. \A e, f \in Tracked' : e.h = f.h => e = f
  BY <1>2, <1>3, <1>6, <1>7, Zenon
<1>12. EntryInv'
  BY <1>1, <1>6, <1>10, <1>11, Zenon DEF EntryInv
<1>13. PurgeInv'
  BY <1>1, <1>5, Zenon DEF PurgeInv
<1>14. QED
  BY <1>12, <1>13

\* Entries that move between the queue and the file, or go, keep their invariant.
LEMMA EntriesMoved ==
  ASSUME TypeOK, EntryInv,
         Tracked' \subseteq Tracked \/ Tracked' \subseteq file,
         file' \subseteq Tracked \/ file' \subseteq file,
         \A e \in Tracked \cup file : e.h < next => e.h < next',
         \A h \in Nat : Reached(h) => Reached(h)'
  PROVE  EntryInv'
<1>1. \A e \in Tracked \cup file : e.h \in Nat
  BY DEF TypeOK, Tracked, Entry, Heights
<1>2. QED
  BY <1>1, Zenon DEF EntryInv

\* The steps of the indexer that store nothing.
LEMMA IndexerEntries ==
  ASSUME TypeOK, CycleInv, EntryInv, PurgeInv, TrackBlockDocIDs \/ Hole \/ LateSign
  PROVE  EntryInv' /\ PurgeInv'
<1> USE DEF dbVars, qVars, ixVars, cycleVars
<1>1. /\ db \subseteq db' /\ file' = file /\ next' \in {next, next + 1}
      /\ UNCHANGED <<pc, hi, todo>>
  BY Zenon DEF TrackBlockDocIDs, Hole, LateSign
<1>2. Tracked' \subseteq Tracked
  BY Zenon DEF TrackBlockDocIDs, Hole, LateSign, Tracked
<1>3. \A h : Reached(h) => Reached(h)'
  BY <1>1, Zenon DEF Reached
<1>4. \A e \in Tracked \cup file : e.h < next => e.h < next'
  <2>1. next \in Nat /\ \A e \in Tracked \cup file : e.h \in Nat
    BY DEF TypeOK, Tracked, Entry, Heights
  <2>2. \A e \in Tracked \cup file : e.h < next => e.h < next + 1
    BY <2>1
  <2>3. QED
    BY <1>1, <2>2, Zenon
<1>5. EntryInv'
  BY <1>1, <1>2, <1>3, <1>4, EntriesMoved, Zenon
<1>6. PurgeInv'
  BY <1>1, <1>3, Zenon DEF PurgeInv
<1>7. QED
  BY <1>5, <1>6

\* A process starts, stops or dies.
LEMMA ProcessEntries ==
  ASSUME TypeOK, CycleInv, EntryInv, PurgeInv, Start \/ Stop \/ Crash
  PROVE  EntryInv' /\ PurgeInv'
<1> USE DEF dbVars, qVars, ixVars, cycleVars
<1>1. db' = db
  BY Zenon DEF Start, Stop, Crash
<1>2. \A h : Reached(h) => Reached(h)'
  BY <1>1, Zenon DEF Reached
<1>3. CASE Start
  <2>1. /\ pc = "down" /\ pc' = "range" /\ file' = file /\ queue' \subseteq file
        /\ storing' = storing /\ todo' = todo
        /\ next' = IF Highest = 0 THEN next ELSE Highest + 1
    BY <1>3, Zenon DEF Start
  <2>2. storing = NoEntry /\ todo = {}
    BY <2>1, Zenon DEF CycleInv
  <2>3. Tracked' \subseteq file
    BY <2>1, <2>2, Zenon DEF Tracked
  <2>4. ASSUME NEW e \in Tracked \cup file, e.h < next PROVE e.h < next'
    <3>1. e.h \in Nat /\ Highest \in Nat /\ \A d \in db : d.h \in Nat
      BY Visible, DocFields DEF TypeOK, Tracked, Entry, Heights
    <3>2. PICK b \in db : b.c = "block" /\ e.h <= b.h
      BY Zenon DEF EntryInv, Reached
    <3>3. b.h <= Highest
      BY <3>2, Visible, Zenon
    <3>4. e.h < Highest + 1
      BY <3>1, <3>2, <3>3
    <3>5. QED
      BY <2>1, <2>4, <3>4, Zenon
  <2>5. EntryInv'
    BY <1>2, <2>1, <2>3, <2>4, EntriesMoved, Zenon
  <2>6. PurgeInv'
    BY <2>1, <2>2, Zenon DEF PurgeInv
  <2>7. QED
    BY <2>5, <2>6
<1>4. CASE Stop \/ Crash
  <2>1. /\ pc' = "down" /\ queue' = {} /\ storing' = NoEntry /\ todo' = {} /\ next' = next
        /\ file' \in {file, queue}
    BY <1>4, Zenon DEF Stop, Crash, Down
  <2>2. Tracked' \subseteq Tracked /\ (file' \subseteq Tracked \/ file' \subseteq file)
    BY <2>1, Zenon DEF Tracked
  <2>3. EntryInv'
    BY <1>2, <2>1, <2>2, EntriesMoved, Zenon
  <2>4. PurgeInv'
    BY <2>1, Zenon DEF PurgeInv
  <2>5. QED
    BY <2>3, <2>4
<1>5. QED
  BY <1>3, <1>4, Zenon

\* The steps of a cycle that purge nothing and drain nothing.
LEMMA QuietEntries ==
  ASSUME TypeOK, CycleInv, EntryInv, PurgeInv,
         CycleFails \/ GetLowest \/ GetHighest \/ ListRange \/ PurgeEnds \/ Save
  PROVE  EntryInv' /\ PurgeInv'
<1> USE DEF dbVars, qVars, ixVars
<1>1. /\ db' = db /\ UNCHANGED <<queue, storing, next>> /\ file' \in {file, queue}
  BY Zenon DEF CycleFails, GetLowest, GetHighest, ListRange, PurgeEnds, Save
<1>2. \A h : Reached(h) => Reached(h)'
  BY <1>1, Zenon DEF Reached
<1>3. Tracked' = Tracked /\ (file' \subseteq Tracked \/ file' \subseteq file)
  BY <1>1, Zenon DEF Tracked
<1>4. EntryInv'
  BY <1>1, <1>2, <1>3, EntriesMoved, Zenon
<1>5. CASE CycleFails \/ GetLowest \/ PurgeEnds \/ Save
  <2>1. pc' # "list" /\ todo' = todo
    BY <1>5, Zenon DEF CycleFails, GetLowest, PurgeEnds, Save, EndCycle
  <2>2. PurgeInv'
    BY <1>1, <2>1, Zenon DEF PurgeInv
  <2>3. QED
    BY <1>4, <2>2
<1>6. CASE GetHighest
  <2>1. /\ todo' = todo /\ hi' = Highest /\ pc = "high"
        /\ pc' = "list" => ~(Highest - lo + 1 <= MaxBlocks)
    BY <1>6, Zenon DEF GetHighest, EndCycle
  <2>2. lo \in Nat /\ MaxBlocks \in Nat \ {0}
    BY PrunerAssumption DEF TypeOK
  <2>3. ASSUME pc' = "list" PROVE Reached(hi)'
    <3>1. Highest # 0
      BY <2>1, <2>2, <2>3
    <3>2. PICK b \in db : b.c = "block" /\ b.h = Highest
      BY <3>1, Visible, Zenon
    <3>3. Highest <= b.h
      BY <3>2, Visible
    <3>4. QED
      BY <1>1, <2>1, <3>2, <3>3, Zenon DEF Reached
  <2>4. PurgeInv'
    BY <1>1, <2>1, <2>3, Zenon DEF PurgeInv
  <2>5. QED
    BY <1>4, <2>4
<1>7. CASE ListRange
  <2>1. pc = "list" /\ pc' = "purge" /\ todo' = {d \in db : d.h \in lo .. Cutoff}
    BY <1>7, Zenon DEF ListRange
  <2>2. lo \in Nat /\ hi \in Nat /\ MaxBlocks \in Nat /\ Cutoff = hi - MaxBlocks
    BY PrunerAssumption DEF TypeOK, Cutoff
  <2>3. PICK b \in db : b.c = "block" /\ hi <= b.h
    BY <2>1, Zenon DEF PurgeInv, Reached
  <2>4. b.h \in Nat /\ \A d \in db : d.h \in Nat
    BY DocFields DEF TypeOK, Heights
  <2>5. \A d \in todo' : d.h + MaxBlocks <= b.h
    BY <2>1, <2>2, <2>3, <2>4
  <2>6. PurgeInv'
    BY <1>1, <2>1, <2>3, <2>5, Zenon DEF PurgeInv
  <2>7. QED
    BY <1>4, <2>6
<1>8. QED
  BY <1>5, <1>6, <1>7, Zenon

\* A cycle drains the queue, or turns to the block range.
LEMMA DrainEntries ==
  ASSUME TypeOK, CycleInv, EntryInv, PurgeInv, RunPrune
  PROVE  EntryInv' /\ PurgeInv'
<1> USE DEF dbVars, qVars, ixVars
<1>1. /\ db' = db /\ queue' \subseteq queue /\ UNCHANGED <<file, storing, next>>
      /\ pc = "idle" /\ pc' \in {"range", "purge"}
  BY Zenon DEF RunPrune
<1>2. \A h : Reached(h) => Reached(h)'
  BY <1>1, Zenon DEF Reached
<1>3. Tracked' \subseteq Tracked
  BY <1>1, Zenon DEF Tracked
<1>4. EntryInv'
  BY <1>1, <1>2, <1>3, EntriesMoved, Zenon
<1>5. CASE todo' = todo
  <2>1. todo = {}
    BY <1>1, Zenon DEF CycleInv
  <2>2. QED
    BY <1>1, <1>4, <1>5, <2>1, Zenon DEF PurgeInv
<1>6. ASSUME ~(Cardinality(queue) <= MaxBlocks), NEW D \in Drain(Keep),
             todo' = UNION {e.docs : e \in D}
      PROVE  PurgeInv'
  <2>1. Cardinality(queue) > MaxBlocks
    BY <1>6, QueueFinite, PrunerAssumption
  <2>2. PICK b \in db : b.c = "block" /\ \A e \in D : e.h + MaxBlocks <= b.h
    BY <2>1, DrainSpares, Zenon
  <2>3. \A e \in D : e \in queue
    BY Zenon DEF Drain, kSubset
  <2>4. \A d \in todo' : \E e \in D : d \in e.docs
    BY <1>6, UnionDocs, Zenon
  <2>5. \A e \in D : \A d \in e.docs : d.h = e.h
    BY <2>3, Zenon DEF EntryInv, Tracked
  <2>6. \A d \in todo' : d.h + MaxBlocks <= b.h
    BY <2>2, <2>4, <2>5, Zenon
  <2>7. QED
    BY <1>1, <2>2, <2>6, Zenon DEF PurgeInv
<1>7. QED
  BY <1>4, <1>5, <1>6, Zenon DEF RunPrune

\* A purge keeps the witness.
LEMMA PurgeEntries ==
  ASSUME TypeOK, CycleInv, EntryInv, PurgeInv, Purge
  PROVE  EntryInv' /\ PurgeInv'
<1>1. UNCHANGED <<queue, file, storing, next, pc>> /\ pc = "purge"
  BY Zenon DEF Purge, qVars, ixVars
<1>2. Tracked' = Tracked
  BY <1>1, Zenon DEF Tracked
<1>3. EntryInv'
  BY <1>1, <1>2, PurgeSpares, EntriesMoved, Zenon
<1>4. PurgeInv'
  BY <1>1, PurgeSpares, Zenon DEF PurgeInv
<1>5. QED
  BY <1>3, <1>4

\* Every step keeps the invariant, or rolls a block back.
LEMMA RetainStep ==
  ASSUME TypeOK, CycleInv, RetainInv, [Next]_vars
  PROVE  RetainInv'
<1> USE DEF dbVars, qVars, ixVars, cycleVars
<1>1. CASE UNCHANGED vars
  BY <1>1, Zenon DEF vars, RetainInv, EntryInv, PurgeInv, Tracked, Reached
<1>2. CASE Rollback
  <2>1. rolls' # 0
    BY <1>2 DEF Rollback, TypeOK
  <2>2. QED
    BY <2>1, Zenon DEF RetainInv
<1>3. CASE Next /\ ~Rollback
  <2>1. rolls' = rolls
    BY <1>3, Zenon DEF Next, IndexerNext, CycleNext, Store, TrackBlockDocIDs, Hole,
       LateSign, Start, Stop, Crash, CycleFails, GetLowest, GetHighest, ListRange, Purge,
       PurgeEnds, RunPrune, Save
  <2>2. QED
    BY <1>3, <2>1, StoreEntries, IndexerEntries, ProcessEntries, QuietEntries, DrainEntries,
       PurgeEntries, Zenon DEF Next, IndexerNext, CycleNext, RetainInv
<1>4. QED
  BY <1>1, <1>2, <1>3, Zenon

\* Number of blocks to retain: for any limits, blocks, failures, crashes and
\* restarts, a purge never removes a visible block that is among the MaxBlocks
\* highest heights, as long as nothing was rolled back.
THEOREM OnlyOldIsPurged == Spec => PurgesOnlyOld
<1>1. Init => TypeOK /\ CycleInv /\ RetainInv
  <2>1. Init => CycleInv /\ RetainInv
    BY Zenon DEF Init, CycleInv, RetainInv, EntryInv, PurgeInv, Tracked
  <2>2. QED
    BY <2>1, TypeInit
<1>2. TypeOK /\ CycleInv /\ RetainInv /\ [Next]_vars => (TypeOK /\ CycleInv /\ RetainInv)'
  BY TypeStep, CycleStep, RetainStep
<1>3. ASSUME TypeOK, RetainInv, [Next]_vars, rolls = 0 PROVE OnlyOldGo
  <2> SUFFICES ASSUME NEW d \in db \ db', d.c = "block", d \notin soft'
               PROVE  \E e \in db \cup soft : e.c = "block" /\ d.h <= e.h - MaxBlocks
    BY Zenon DEF OnlyOldGo
  <2>1. Purge
    <3>1. ~UNCHANGED vars /\ ~Rollback
      BY Zenon DEF vars, dbVars, Rollback
    <3>2. QED
      BY <1>3, <3>1, Zenon DEF Next, IndexerNext, CycleNext, Store, TrackBlockDocIDs, Hole,
         LateSign, Start, Stop, Crash, CycleFails, GetLowest, GetHighest, ListRange,
         PurgeEnds, RunPrune, Save, dbVars
  <2>2. d \in todo /\ PurgeInv
    BY <1>3, <2>1, PurgeSpares, Zenon DEF RetainInv
  <2>3. PICK b \in db : b.c = "block" /\ d.h + MaxBlocks <= b.h
    BY <2>2, Zenon DEF PurgeInv
  <2>4. d.h \in Nat /\ b.h \in Nat /\ MaxBlocks \in Nat
    BY <1>3, DocFields, PrunerAssumption DEF TypeOK, Heights
  <2>5. d.h <= b.h - MaxBlocks
    BY <2>3, <2>4
  <2>6. QED
    BY <2>3, <2>5, Zenon
<1>4. TypeOK /\ RetainInv /\ [Next]_vars => [rolls = 0 => OnlyOldGo]_vars
  BY <1>3, Zenon
<1>5. QED
  BY <1>1, <1>2, <1>4, PTL DEF Spec, PurgesOnlyOld
=============================================================================
