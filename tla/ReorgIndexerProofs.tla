------------------------- MODULE ReorgIndexerProofs -------------------------
(***************************************************************************)
(* Theorems about ReorgIndexer, for every block tree and every bound: the  *)
(* store's, as long as the query for the highest stored block is answered, *)
(* and the rollback's, whatever fails.                                     *)
(***************************************************************************)
EXTENDS ReorgIndexerInv, WellFoundedInduction

(* The walk-back and the rollback.                                         *)

\* A step that moves the walk-back, or ends it.
LEMMA WalkFrame ==
  ASSUME IndexerInv, mode \in {"run", "walk"}, mode' \in {"walk", "stopping", "rollback"},
         UNCHANGED <<head, docs, kids, from, next, last, got, st, committed>>,
         epKind' \in {"none", epKind}, epBlock' = epBlock, epSucc' = epSucc,
         RollInv'
  PROVE  IndexerInv'
<1>1. IndexerTypes /\ RunInv /\ StoreInv
  BY Zenon DEF IndexerInv
<1>2. IndexerTypes'
  BY <1>1, Zenon DEF IndexerTypes, Modes
<1>3. Dispatched' = Dispatched
  BY Zenon DEF Dispatched
<1>4. RunInv'
  BY <1>1, <1>3, Zenon DEF RunInv
<1>5. CheckInv'
  BY Zenon DEF CheckInv
<1>6. QED
  BY <1>1, <1>2, <1>4, <1>5, StoreKept, Zenon DEF IndexerInv

\* The walk-back starts with the two confirmed blocks and their parent.
LEMMA WalkBeginStep ==
  ASSUME IndexerInv, WalkBegin
  PROVE  IndexerInv'
<1> USE DEF envVars, dbVars, runVars, poolVars
<1>1. /\ mode = "run" /\ mode' = "walk" /\ epKind' = "none"
      /\ UNCHANGED <<head, docs, kids, from, next, last, got, st, committed, epBlock,
                     epSucc>>
  BY Zenon DEF WalkBegin
<1>2. epKind = "confirmed"
  BY Zenon DEF WalkBegin, IndexerInv, IndexerTypes
<1>3. /\ fork' = Ht[epBlock] - 1 /\ rollAt' = Ht[epSucc]
  BY <1>2, Zenon DEF WalkBegin
<1>4. verified' = [h \in Ht[epBlock] - 1 .. Ht[epSucc] |->
                     IF h = Ht[epSucc] THEN epSucc
                     ELSE IF h = Ht[epBlock] THEN epBlock ELSE Parent[epBlock]]
  BY <1>2, Zenon DEF WalkBegin
<1>5. /\ epBlock \in Blocks /\ epSucc \in Blocks /\ Parent[epSucc] = epBlock
      /\ from \in Nat /\ from <= Ht[epBlock] /\ 0 < Ht[epBlock]
      /\ \A b \in Dispatched : Ht[b] < Ht[epBlock]
      /\ docs \subseteq Blocks /\ committed \subseteq docs
      /\ \A b \in docs : Ht[b] >= from => b \in Dispatched \/ Ht[b] = 0
  BY <1>1, <1>2, Zenon DEF IndexerInv, IndexerTypes, CheckInv, RunInv
<1>6. Ht[epBlock] \in Nat /\ Ht[epSucc] = Ht[epBlock] + 1
  BY <1>5, ParentHeight
<1>7. Parent[epBlock] \in Blocks /\ Ht[Parent[epBlock]] = Ht[epBlock] - 1
  BY <1>5, ParentHeight, Zenon
<1>8. \A b \in docs : Ht[b] \in Nat /\ Ht[b] < Ht[epBlock]
  BY <1>5, <1>6, ParentHeight
<1>9. RollInv'
  <2>1. fork' \in Nat /\ rollAt' \in Nat /\ fork' <= rollAt'
    BY <1>3, <1>5, <1>6
  <2>2. \A b \in docs : Ht[b] <= rollAt'
    BY <1>3, <1>6, <1>8
  <2>3. \A h \in fork' .. rollAt' :
          /\ h \in {Ht[epBlock] - 1, Ht[epBlock], Ht[epSucc]}
          /\ verified'[h] = IF h = Ht[epSucc] THEN epSucc
                            ELSE IF h = Ht[epBlock] THEN epBlock ELSE Parent[epBlock]
    BY <1>3, <1>4, <1>6
  <2>4. \A h \in fork' .. rollAt' : verified'[h] \in Blocks /\ Ht[verified'[h]] = h
    BY <1>5, <1>6, <1>7, <2>3, Zenon
  <2>5. epBlock \notin docs /\ epSucc \notin docs
    BY <1>6, <1>8
  <2>6. \A h \in fork' .. rollAt' : h > fork' => verified'[h] \notin docs
    <3>1. \A h \in fork' .. rollAt' : h > fork' => verified'[h] \in {epBlock, epSucc}
      BY <1>3, <1>6, <2>3
    <3>2. QED
      BY <2>5, <3>1, Zenon
  <2>7. QED
    BY <1>1, <1>5, <2>1, <2>2, <2>4, <2>6, Zenon DEF RollInv
<1>10. QED
  BY <1>1, <1>9, WalkFrame, Zenon

\* One height down: the verified block there was not the stored one.
LEMMA WalkStepStep ==
  ASSUME IndexerInv, WalkStep
  PROVE  IndexerInv'
<1> USE DEF Walking, envVars, dbVars, runVars, poolVars, epVars
<1>1. /\ mode = "walk" /\ mode' = mode
      /\ UNCHANGED <<head, docs, kids, from, next, last, got, st, committed, epKind,
                     epBlock, epSucc, rollAt>>
  BY Zenon DEF WalkStep
<1>2. /\ fork \in Nat /\ rollAt \in Nat /\ fork <= rollAt /\ docs \subseteq Blocks
      /\ \A b \in docs : Ht[b] <= rollAt
      /\ \A h \in fork .. rollAt : verified[h] \in Blocks /\ Ht[verified[h]] = h
      /\ \A h \in fork .. rollAt : h > fork => verified[h] \notin docs
      /\ \A b \in committed : Ht[b] <= fork => b \in docs
      /\ committed \subseteq Blocks
  BY <1>1, Zenon DEF IndexerInv, IndexerTypes, RollInv
<1>3. verified[fork] \in Blocks /\ Ht[verified[fork]] = fork
  BY <1>2
<1>4. /\ Parent[verified[fork]] \in Blocks /\ Ht[Parent[verified[fork]]] = fork - 1
      /\ fork - 1 \in Nat
  BY <1>2, <1>3, ParentHeight DEF WalkStep
<1>5. verified[fork] \notin docs
  <2>1. Stored(fork) # {verified[fork]}
    BY Zenon DEF WalkStep, Stops
  <2>2. OneVisiblePerHeight
    BY Zenon DEF IndexerInv, StoreInv
  <2>3. QED
    BY <1>3, <2>1, <2>2, Zenon DEF Stored, OneVisiblePerHeight
<1>6. /\ fork' = fork - 1
      /\ verified' = [h \in fork - 1 .. rollAt |->
                        IF h = fork - 1 THEN Parent[verified[fork]] ELSE verified[h]]
  BY Zenon DEF WalkStep
<1>7. RollInv'
  <2>1. fork' \in Nat /\ fork' <= rollAt
    BY <1>2, <1>4, <1>6
  <2>2. \A h \in fork' .. rollAt : verified'[h] \in Blocks /\ Ht[verified'[h]] = h
    BY <1>2, <1>4, <1>6
  <2>3. \A h \in fork' .. rollAt : h > fork' =>
          verified'[h] = verified[h] /\ h \in fork .. rollAt
    BY <1>2, <1>6
  <2>4. \A h \in fork' .. rollAt : h > fork' => verified'[h] \notin docs
    <3>1. \A h \in fork .. rollAt : h = fork \/ h > fork
      BY <1>2
    <3>2. QED
      BY <1>2, <1>5, <2>3, <3>1, Zenon
  <2>5. \A b \in committed : Ht[b] <= fork' => b \in docs
    BY <1>2, <1>6, ParentHeight
  <2>6. QED
    BY <1>1, <1>2, <2>1, <2>2, <2>4, <2>5, Zenon DEF RollInv
<1>8. QED
  BY <1>1, <1>7, WalkFrame, Zenon

\* The walk-back finds the fork, or fails and ends the run.
LEMMA WalkEndStep ==
  ASSUME IndexerInv, WalkFound \/ WalkFailed
  PROVE  IndexerInv'
<1> USE DEF Walking, envVars, dbVars, runVars, poolVars, epVars
<1>1. /\ mode = "walk" /\ mode' \in {"stopping", "rollback"}
      /\ UNCHANGED <<head, docs, kids, from, next, last, got, st, committed, epKind,
                     epBlock, epSucc, fork, verified, rollAt>>
  BY Zenon DEF WalkFound, WalkFailed
<1>2. RollInv'
  BY <1>1, Zenon DEF IndexerInv, RollInv
<1>3. QED
  BY <1>1, <1>2, WalkFrame, Zenon

\* One height of the rollback is done, or the children of an orphan are gone.
LEMMA RollbackHeightStep ==
  ASSUME IndexerInv, RollbackKeep \/ RollbackKids \/ RollbackDoc
  PROVE  IndexerInv'
<1> USE DEF Rolling, envVars, dbVars, runVars, poolVars, epVars, rbVars
<1>1. /\ mode = "rollback" /\ mode' = mode
      /\ UNCHANGED <<head, from, next, last, got, st, committed, epKind, epBlock,
                     epSucc, fork, verified>>
      /\ docs' \subseteq docs
  BY Zenon DEF RollbackKeep, RollbackKids, RollbackDoc
<1>2. /\ fork \in Nat /\ rollAt \in Nat /\ fork <= rollAt
      /\ \A b \in docs : Ht[b] <= rollAt
      /\ \A h \in fork .. rollAt : verified[h] \in Blocks /\ Ht[verified[h]] = h
      /\ \A h \in fork .. rollAt : h > fork => verified[h] \notin docs
      /\ \A b \in committed : Ht[b] <= fork => b \in docs
      /\ docs \subseteq Blocks /\ kids \subseteq docs /\ committed \subseteq Blocks
  BY <1>1, Zenon DEF IndexerInv, IndexerTypes, RollInv
<1>3. kids' \subseteq docs'
  <2>1. CASE RollbackKeep \/ RollbackKids
    BY <1>2, <2>1, Zenon DEF RollbackKeep, RollbackKids
  <2>2. CASE RollbackDoc
    BY <1>2, <2>2, Zenon DEF RollbackDoc
  <2>3. QED
    BY <2>1, <2>2, Zenon
<1>4. IndexerTypes'
  BY <1>1, <1>3, Zenon DEF IndexerInv, IndexerTypes
<1>5. /\ rollAt > fork
      /\ \/ rollAt' = rollAt /\ docs' = docs
         \/ /\ rollAt' = rollAt - 1
            /\ \A b \in docs \ docs' : Ht[b] = rollAt
            /\ \A b \in docs' : Ht[b] # rollAt
  <2>1. CASE RollbackKeep
    <3>1. verified[rollAt] \notin docs /\ rollAt > fork
      <4>1. rollAt > fork
        BY <2>1, Zenon DEF RollbackKeep
      <4>2. rollAt \in fork .. rollAt
        BY <1>2
      <4>3. QED
        BY <1>2, <4>1, <4>2, Zenon
    <3>2. Stored(rollAt) = {}
      BY <2>1, <3>1, Zenon DEF RollbackKeep, Stored
    <3>3. QED
      BY <2>1, <3>1, <3>2, Zenon DEF RollbackKeep, Stored
  <2>2. CASE RollbackKids
    BY <2>2, Zenon DEF RollbackKids, Orphan
  <2>3. CASE RollbackDoc
    <3>1. PICK o \in docs : Orphan(o) /\ docs' = docs \ {o}
      BY <2>3, Zenon DEF RollbackDoc
    <3>2. rollAt > fork /\ Stored(rollAt) = {o} /\ rollAt' = rollAt - 1
      BY <2>3, <3>1, Zenon DEF RollbackDoc, Orphan
    <3>3. Ht[o] = rollAt /\ \A b \in docs : Ht[b] = rollAt => b = o
      BY <3>2, Zenon DEF Stored
    <3>4. QED
      BY <3>1, <3>2, <3>3, Zenon
  <2>4. QED
    BY <2>1, <2>2, <2>3, Zenon
<1>6. RollInv'
  <2>1. rollAt' \in Nat /\ fork <= rollAt' /\ rollAt' <= rollAt
    BY <1>2, <1>5
  <2>2. ASSUME NEW b \in docs' PROVE Ht[b] <= rollAt'
    <3>1. Ht[b] \in Nat /\ Ht[b] <= rollAt
      BY <1>1, <1>2, ParentHeight, Zenon
    <3>2. rollAt' = rollAt \/ (rollAt' = rollAt - 1 /\ Ht[b] # rollAt)
      BY <1>5, Zenon
    <3>3. rollAt \in Nat
      BY <1>2, Zenon
    <3>4. QED
      BY ONLY <3>1, <3>2, <3>3
  <2>3. \A h \in fork .. rollAt' : h \in fork .. rollAt
    BY <1>2, <2>1
  <2>4. ASSUME NEW b \in committed, Ht[b] <= fork PROVE b \in docs'
    <3>1. b \in docs
      BY <1>2, <2>4, Zenon
    <3>2. Ht[b] # rollAt
      <4>1. rollAt \in Nat /\ fork \in Nat /\ Ht[b] \in Nat
        BY <1>2, ParentHeight, Zenon
      <4>2. QED
        BY ONLY <1>5, <2>4, <4>1
    <3>3. QED
      BY <1>5, <3>1, <3>2, Zenon
  <2>5. QED
    BY <1>1, <1>2, <2>1, <2>2, <2>3, <2>4, Zenon DEF RollInv
<1>7. StoreInv'
  BY <1>1, Zenon DEF IndexerInv, StoreInv, OneVisiblePerHeight, LinkedStore
<1>8. RunInv' /\ CheckInv'
  BY <1>1, Zenon DEF RunInv, CheckInv
<1>9. QED
  BY <1>4, <1>6, <1>7, <1>8, Zenon DEF IndexerInv

-----------------------------------------------------------------------------

\* The chain moves, or the run is asked to stop.
LEMMA OutsideStep ==
  ASSUME IndexerInv, Extend \/ Flip \/ Stop \/ UNCHANGED vars
  PROVE  IndexerInv'
<1> USE DEF envVars, dbVars, runVars, poolVars, epVars, rbVars
<1>1. /\ UNCHANGED <<docs, kids, from, next, last, got, st, committed, epKind, epBlock,
                     epSucc, fork, verified, rollAt>>
      /\ mode' = mode \/ (mode \in {"run", "walk"} /\ mode' = "stopping")
  BY Zenon DEF Extend, Flip, Stop, vars
<1>2. head' \in Blocks
  BY Zenon DEF Extend, Flip, Stop, vars, IndexerInv, IndexerTypes
<1>3. IndexerTypes'
  BY <1>1, <1>2, Zenon DEF IndexerInv, IndexerTypes, Modes
<1>4. Dispatched' = Dispatched
  BY <1>1, Zenon DEF Dispatched
<1>5. RunInv'
  BY <1>1, <1>4, Zenon DEF IndexerInv, RunInv
<1>6. CheckInv'
  BY <1>1, <1>4, Zenon DEF IndexerInv, CheckInv
<1>7. RollInv'
  BY <1>1, Zenon DEF IndexerInv, RollInv
<1>8. QED
  BY <1>1, <1>3, <1>5, <1>6, <1>7, StoreKept, Zenon DEF IndexerInv

\* Every step keeps the invariant.
LEMMA IndexerStep ==
  ASSUME "start" \notin Faults, IndexerInv, [Next]_vars
  PROVE  IndexerInv'
<1>1. CASE Extend \/ Flip \/ Stop \/ UNCHANGED vars
  BY <1>1, OutsideStep, Zenon
<1>2. CASE StartIndexing
  BY <1>2, StartStep, Zenon
<1>3. CASE Exit \/ Crash \/ RollbackFail
  BY <1>3, DownStep, Zenon DEF Exit, Crash, RollbackFail, Rolling, envVars, dbVars
<1>4. CASE \E h \in Heights : Fetch(h)
  BY <1>4, FetchStep, Zenon
<1>5. CASE Pop
  BY <1>5, PopHoleStep, PopCheckedStep, PopMismatchStep, PopConfirmStep,
     PopReanchorStep, Zenon DEF Pop
<1>6. CASE Refill
  BY <1>6, RefillStep, Zenon
<1>7. CASE Store
  BY <1>7, StoreStepInv, Zenon DEF Store
<1>8. CASE Apply
  BY <1>8, ApplyStep, Zenon DEF Apply
<1>9. CASE Walk
  BY <1>9, WalkBeginStep, WalkStepStep, WalkEndStep, Zenon DEF Walk
<1>10. CASE Rollback
  BY <1>3, <1>10, RollbackHeightStep, RestartStep, Zenon DEF Rollback
<1>11. QED
  BY <1>1, <1>2, <1>3, <1>4, <1>5, <1>6, <1>7, <1>8, <1>9, <1>10, Zenon DEF Next

\* The inductive invariant over runs and processes.
LEMMA IndexerInvariance ==
  ASSUME "start" \notin Faults
  PROVE  Spec => []IndexerInv
<1>1. IndexerInv /\ [Next]_vars => IndexerInv'
  BY IndexerStep, Zenon
<1>2. QED
  BY <1>1, IndexerInit, PTL DEF Spec

\* As long as the query for the highest stored block is answered, at most one
\* block is visible at each height, through restarts, crashes, rollbacks that
\* end half way and reorganisations of any depth, on every block tree.
THEOREM VisibleBlocksAreUnique ==
  ASSUME "start" \notin Faults
  PROVE  Spec => []OneVisiblePerHeight
<1>1. IndexerInv => OneVisiblePerHeight
  BY Zenon DEF IndexerInv, StoreInv
<1>2. QED
  BY <1>1, IndexerInvariance, PTL

\* Under the same condition visible blocks at adjacent heights are parent and
\* child, whichever run or process stored them.
THEOREM VisibleBlocksAreLinked ==
  ASSUME "start" \notin Faults
  PROVE  Spec => []LinkedStore
<1>1. IndexerInv => LinkedStore
  BY Zenon DEF IndexerInv, StoreInv
<1>2. QED
  BY <1>1, IndexerInvariance, PTL

\* Under the same condition a run meets no visible block, above its start, that
\* it did not dispatch itself: RollbackBlocks left no orphan behind.
THEOREM RunsStartAboveTheStore ==
  ASSUME "start" \notin Faults
  PROVE  Spec => []CleanFront
<1>1. IndexerInv => CleanFront
  BY Zenon DEF IndexerInv, RunInv, CleanFront, Dispatched
<1>2. QED
  BY <1>1, IndexerInvariance, PTL

(* What the rollback spares.                                               *)

\* Every nonempty set of naturals has a least element.
LEMMA LeastNatural ==
  ASSUME NEW T \in SUBSET Nat, T # {}
  PROVE  \E x \in T : \A y \in T : x <= y
<1>1. PICK x \in T : \A y \in T : ~(<<y, x>> \in OpToRel(<, Nat))
  BY NatLessThanWellFounded, WFMin, Zenon
<1>2. \A y \in T : ~(y < x)
  BY <1>1, Zenon DEF OpToRel
<1>3. QED
  BY <1>2

\* The least set that holds b and the parents of its members.
Rooted(b) ==
  {c \in Blocks : \A S \in SUBSET Blocks :
     b \in S /\ (\A d \in S : Parent[d] # NoBlock => Parent[d] \in S) => c \in S}

\* It satisfies the equation that defines Branch ...
LEMMA RootedBranch ==
  ASSUME NEW b \in Blocks
  PROVE  Rooted(b) = {b} \cup (IF Parent[b] = NoBlock THEN {} ELSE Rooted(Parent[b]))
<1>1. b \in Rooted(b)
  BY Zenon DEF Rooted
<1>2. CASE Parent[b] = NoBlock
  <2>1. \A c \in Rooted(b) : c \in {b}
    BY <1>2, Zenon DEF Rooted
  <2>2. QED
    BY <1>1, <1>2, <2>1, Zenon
<1>3. CASE Parent[b] # NoBlock
  <2>1. Parent[b] \in Blocks
    BY <1>3, ParentHeight, Zenon
  <2>2. Rooted(Parent[b]) \subseteq Rooted(b)
    BY <1>3, <2>1, Zenon DEF Rooted
  <2>3. ASSUME NEW c \in Rooted(b), c # b
        PROVE  c \in Rooted(Parent[b])
    <3>1. SUFFICES ASSUME NEW S \in SUBSET Blocks, Parent[b] \in S,
                          \A d \in S : Parent[d] # NoBlock => Parent[d] \in S
                   PROVE  c \in S
      BY <2>3, Zenon DEF Rooted
    <3>2. S \cup {b} \in SUBSET Blocks
      OBVIOUS
    <3>3. c \in S \cup {b}
      BY <2>3, <3>1, <3>2, Zenon DEF Rooted
    <3>4. QED
      BY <2>3, <3>3, Zenon
  <2>4. QED
    BY <1>1, <1>3, <2>2, <2>3, Zenon
<1>4. QED
  BY <1>2, <1>3, Zenon

\* ... and so Branch satisfies it too.
LEMMA BranchStep ==
  ASSUME NEW b \in Blocks
  PROVE  Branch[b] = {b} \cup (IF Parent[b] = NoBlock THEN {} ELSE Branch[Parent[b]])
<1> DEFINE F == [c \in Blocks |-> Rooted(c)]
<1>1. F = [c \in Blocks |-> {c} \cup (IF Parent[c] = NoBlock THEN {} ELSE F[Parent[c]])]
  <2>1. \A c \in Blocks : Parent[c] # NoBlock => Parent[c] \in Blocks
    BY ParentHeight, Zenon
  <2>2. \A c \in Blocks :
          F[c] = {c} \cup (IF Parent[c] = NoBlock THEN {} ELSE F[Parent[c]])
    BY <2>1, RootedBranch, Zenon
  <2> HIDE DEF F
  <2>3. F = [c \in Blocks |-> F[c]]
    BY Zenon DEF F
  <2>4. QED
    BY <2>2, <2>3, Zenon
<1> HIDE DEF F
<1>2. Branch = [c \in Blocks |->
                  {c} \cup (IF Parent[c] = NoBlock THEN {} ELSE Branch[Parent[c]])]
  BY <1>1, Zenon DEF Branch
<1>3. QED
  BY <1>2, Zenon

\* The branch of a block lies below it.
LEMMA BranchHeights ==
  ASSUME NEW b \in Blocks, NEW c \in Branch[b]
  PROVE  c \in Blocks /\ Ht[c] <= Ht[b] /\ (Ht[c] = Ht[b] => c = b)
<1> DEFINE Good(a, d) == d \in Blocks /\ Ht[d] <= Ht[a] /\ (Ht[d] = Ht[a] => d = a)
           T == {n \in Nat :
                   \E a \in Blocks : Ht[a] = n /\ \E d \in Branch[a] : ~Good(a, d)}
<1>1. SUFFICES T = {}
  BY ParentHeight, Zenon
<1>2. SUFFICES ASSUME T # {} PROVE FALSE
  OBVIOUS
<1>3. PICK n \in T : \A m \in T : n <= m
  BY <1>2, LeastNatural, Zenon
<1>a. PICK a \in Blocks : Ht[a] = n /\ \E d \in Branch[a] : ~Good(a, d)
  BY <1>3, Zenon
<1>4. PICK d \in Branch[a] : Ht[a] = n /\ ~Good(a, d)
  BY <1>a, Zenon
<1>5. Branch[a] = {a} \cup (IF Parent[a] = NoBlock THEN {} ELSE Branch[Parent[a]])
  BY BranchStep, Zenon
<1>6. Good(a, a)
  BY ParentHeight
<1>7. Parent[a] # NoBlock /\ d \in Branch[Parent[a]]
  BY <1>4, <1>5, <1>6, Zenon
<1>8. /\ Parent[a] \in Blocks /\ Ht[Parent[a]] = Ht[a] - 1
      /\ Ht[Parent[a]] \in Nat /\ Ht[a] \in Nat
  BY <1>7, ParentHeight, Zenon
<1>9. ~(Ht[Parent[a]] \in T)
  BY <1>3, <1>4, <1>8
<1>10. Good(Parent[a], d)
  BY <1>7, <1>8, <1>9, Zenon
<1>11. d \in Blocks /\ Ht[d] \in Nat /\ Ht[d] <= Ht[a] - 1
  BY <1>8, <1>10, ParentHeight, Zenon
<1>12. QED
  BY <1>4, <1>8, <1>11

\* What the walk-back verified: one chain, from the fork upwards.
VerifiedInv ==
  mode \in {"walk", "rollback"} =>
    /\ fork \in Nat /\ rollAt \in Nat /\ fork <= rollAt
    /\ \A h \in Nat : fork <= h /\ h <= rollAt => h \in DOMAIN verified
    /\ \A h \in DOMAIN verified :
         h \in Nat /\ fork <= h /\ verified[h] \in Blocks /\ Ht[verified[h]] = h
    /\ \A h \in DOMAIN verified : h > fork =>
         h - 1 \in DOMAIN verified /\ Parent[verified[h]] = verified[h - 1]

\* At a height of the verified chain its branches hold the verified block only.
LEMMA VerifiedBranch ==
  ASSUME VerifiedInv, mode \in {"walk", "rollback"},
         NEW h \in DOMAIN verified, NEW k \in DOMAIN verified,
         NEW c \in Branch[verified[h]], Ht[c] = k
  PROVE  c = verified[k]
<1> DEFINE T == {n \in DOMAIN verified :
                   \E d \in Branch[verified[n]] : Ht[d] = k /\ d # verified[k]}
<1>a. /\ fork \in Nat
      /\ \A n \in DOMAIN verified :
           /\ n \in Nat /\ fork <= n /\ verified[n] \in Blocks /\ Ht[verified[n]] = n
           /\ n > fork => n - 1 \in DOMAIN verified /\ Parent[verified[n]] = verified[n - 1]
  BY Zenon DEF VerifiedInv
<1>1. SUFFICES ASSUME T # {} PROVE FALSE
  OBVIOUS
<1>2. T \in SUBSET Nat
  BY <1>a, Zenon
<1>3. PICK n \in T : \A m \in T : n <= m
  BY <1>1, <1>2, LeastNatural, Zenon
<1>4. PICK d \in Branch[verified[n]] : Ht[d] = k /\ d # verified[k]
  BY <1>3, Zenon
<1>5. verified[n] \in Blocks /\ Ht[verified[n]] = n /\ n \in Nat /\ n \in DOMAIN verified
  BY <1>3, <1>a, Zenon
<1>6. d \in Blocks /\ k <= n /\ (k = n => d = verified[n])
  BY <1>4, <1>5, BranchHeights, Zenon
<1>7. k \in Nat /\ fork <= k /\ k < n
  BY <1>4, <1>5, <1>6, <1>a
<1>8. n - 1 \in DOMAIN verified /\ Parent[verified[n]] = verified[n - 1]
      /\ verified[n - 1] \in Blocks
  BY <1>5, <1>7, <1>a
<1>9. d \in Branch[verified[n - 1]]
  <2>1. Branch[verified[n]] = {verified[n]} \cup Branch[verified[n - 1]]
    BY <1>5, <1>8, BranchStep, ParentHeight, Zenon
  <2>2. d # verified[n]
    BY <1>4, <1>5, <1>7, Zenon
  <2>3. QED
    BY <1>4, <2>1, <2>2, Zenon
<1>10. n - 1 \in T
  BY <1>4, <1>8, <1>9, Zenon
<1>11. QED
  BY <1>3, <1>5, <1>10

\* What an episode and the ordered check hold, whatever fails.
EpisodeInv ==
  /\ head \in Blocks /\ docs \subseteq Blocks /\ committed \subseteq Blocks
  /\ from \in Nat /\ next \in Nat /\ from <= next
  /\ last \in Blocks \cup {NoBlock} /\ (next = 0 => last = NoBlock)
  /\ got \in [Heights -> Blocks \cup {NoBlock, Failed}]
  /\ \A h \in Heights : got[h] \in Blocks => Ht[got[h]] = h
  /\ epKind \in {"none", "wait", "confirmed", "stale"}
  /\ epKind # "none" => epBlock \in Blocks
  /\ epKind \in {"wait", "confirmed"} => 0 < next /\ 0 < Ht[epBlock]
  /\ epKind = "confirmed" => epSucc \in Blocks /\ Parent[epSucc] = epBlock

\* A run may begin at any height, seeded with a block below it.
LEMMA BeginEpisode ==
  ASSUME EpisodeInv, NEW f \in Nat, NEW s \in Seeds(f), BeginRun(f, s),
         head' = head, docs' = docs
  PROVE  EpisodeInv' /\ VerifiedInv'
<1>1. /\ from' = f /\ next' = f /\ last' = s /\ got' = NoResults /\ mode' = "run"
      /\ committed' = {} /\ epKind' = "none"
  BY Zenon DEF BeginRun
<1>2. docs \subseteq Blocks /\ committed \subseteq Blocks /\ head \in Blocks
  BY Zenon DEF EpisodeInv
<1>3. s \in Blocks \cup {NoBlock} /\ (s # NoBlock => s \in Blocks /\ Ht[s] = f - 1)
  BY <1>2, Zenon DEF Seeds, Stored
<1>4. f = 0 => s = NoBlock
  BY <1>3, ParentHeight
<1>5. /\ got' \in [Heights -> Blocks \cup {NoBlock, Failed}]
      /\ \A h \in Heights : got'[h] \in Blocks => Ht[got'[h]] = h
  BY <1>1, ParentHeight, Zenon DEF NoResults
<1>6. QED
  BY <1>1, <1>2, <1>3, <1>4, <1>5 DEF EpisodeInv, VerifiedInv

\* A process that ends forgets its run.
LEMMA DownEpisode ==
  ASSUME EpisodeInv, Down, head' = head, docs' = docs
  PROVE  EpisodeInv' /\ VerifiedInv'
<1>1. /\ from' = 0 /\ next' = 0 /\ last' = NoBlock /\ got' = NoResults
      /\ mode' = "down" /\ committed' = {} /\ epKind' = "none"
  BY Zenon DEF Down
<1>2. /\ got' \in [Heights -> Blocks \cup {NoBlock, Failed}]
      /\ \A h \in Heights : got'[h] \in Blocks => Ht[got'[h]] = h
  BY <1>1, ParentHeight, Zenon DEF NoResults
<1>3. QED
  BY <1>1, <1>2 DEF EpisodeInv, VerifiedInv

\* resolveStartHeight returns a height, also when its query fails.
LEMMA ResumeHeightType ==
  ASSUME head \in Blocks, NEW f \in ResumeHeights
  PROVE  f \in Nat
<1>1. Ht[head] \in Nat /\ StartBuffer \in Nat /\ StartHeight \in Nat
  BY ParentHeight, IndexerAssumption, Zenon
<1>2. HighestStored \subseteq Nat
  BY ParentHeight DEF HighestStored, Heights
<1>3. QED
  BY <1>1, <1>2 DEF ResumeHeights

\* A popped block has the height it was popped at.
LEMMA PoppedHeight ==
  ASSUME EpisodeInv, NEW x, Popped(x)
  PROVE  /\ x \in Blocks => Ht[x] = next
         /\ next' \in Nat /\ 0 < next' /\ from' = from /\ from <= next'
         /\ UNCHANGED <<head, docs, committed, fork, verified, rollAt>> /\ mode = "run"
         /\ got' \in [Heights -> Blocks \cup {NoBlock, Failed}]
         /\ \A h \in Heights : got'[h] \in Blocks => Ht[got'[h]] = h
<1>1. /\ next \in Heights /\ got[next] = x /\ next' = next + 1 /\ mode = "run"
      /\ got' = [got EXCEPT ![next] = NoBlock]
      /\ UNCHANGED <<from, head, docs, committed, fork, verified, rollAt>>
  BY Zenon DEF Popped, envVars, dbVars, rbVars
<1>2. got \in [Heights -> Blocks \cup {NoBlock, Failed}] /\ next \in Nat /\ from \in Nat
      /\ from <= next /\ \A h \in Heights : got[h] \in Blocks => Ht[got[h]] = h
  BY Zenon DEF EpisodeInv
<1>3. /\ got' \in [Heights -> Blocks \cup {NoBlock, Failed}]
      /\ \A h \in Heights : got'[h] = IF h = next THEN NoBlock ELSE got[h]
  BY <1>1, <1>2, Zenon
<1>4. QED
  BY <1>1, <1>2, <1>3, ParentHeight

\* The ordered check and the confirmation wait.
LEMMA PopEpisode ==
  ASSUME EpisodeInv, Pop
  PROVE  EpisodeInv' /\ VerifiedInv'
<1>a. mode' \in {"run", "stopping"}
  <2>1. mode = "run"
    BY Zenon DEF Pop, PopHole, PopChecked, PopMismatch, PopConfirm, PopReanchor, Popped
  <2>2. QED
    BY <2>1, Zenon DEF Pop, PopHole, PopChecked, PopMismatch, PopConfirm, PopReanchor
<1>b. VerifiedInv'
  BY <1>a, Zenon DEF VerifiedInv
<1>1. CASE PopHole
  <2>1. last' = NoBlock /\ UNCHANGED <<epKind, epBlock, epSucc>> /\ Popped(Failed)
    BY <1>1, Zenon DEF PopHole, epVars
  <2>2. QED
    BY <1>b, <2>1, PoppedHeight, Zenon DEF EpisodeInv
<1>2. ASSUME NEW b \in Blocks, PopChecked(b) PROVE EpisodeInv'
  <2>1. last' = b /\ UNCHANGED <<epKind, epBlock, epSucc>> /\ Popped(b)
    BY <1>2, Zenon DEF PopChecked, epVars
  <2>2. QED
    BY <2>1, PoppedHeight DEF EpisodeInv
<1>3. ASSUME NEW b \in Blocks, PopMismatch(b) PROVE EpisodeInv'
  <2>1. /\ last' = last /\ epKind' = "wait" /\ epBlock' = b /\ Popped(b) /\ Mismatch(b)
    BY <1>3, Zenon DEF PopMismatch
  <2>2. 0 < next /\ Ht[b] = next
    BY <2>1, PoppedHeight DEF EpisodeInv, Mismatch
  <2>3. QED
    BY <2>1, <2>2, PoppedHeight DEF EpisodeInv
<1>4. ASSUME NEW b \in Blocks, PopConfirm(b) PROVE EpisodeInv'
  <2>1. /\ last' = last /\ epKind = "wait" /\ epKind' = "confirmed" /\ epBlock' = epBlock
        /\ epSucc' = b /\ Popped(b) /\ Parent[b] = epBlock
    BY <1>4, Zenon DEF PopConfirm
  <2>2. QED
    BY <2>1, PoppedHeight DEF EpisodeInv
<1>5. ASSUME NEW b \in Blocks, PopReanchor(b) PROVE EpisodeInv'
  <2>1. /\ last' = last /\ epKind = "wait" /\ Popped(b) /\ epSucc' = epSucc
        /\ \/ epKind' = "none"
           \/ epKind' = "wait" /\ epBlock' = b
    BY <1>5, Zenon DEF PopReanchor
  <2>2. 0 < next /\ Ht[b] = next
    BY <2>1, PoppedHeight, Zenon DEF EpisodeInv
  <2>3. QED
    BY <2>1, <2>2, PoppedHeight DEF EpisodeInv
<1>6. QED
  BY <1>b, <1>1, <1>2, <1>3, <1>4, <1>5, Zenon DEF Pop

\* Fetches and refills put blocks at their heights.
LEMMA FetchEpisode ==
  ASSUME EpisodeInv, (\E h \in Heights : Fetch(h)) \/ Refill
  PROVE  EpisodeInv' /\ VerifiedInv'
<1> USE DEF envVars, dbVars, runVars, poolVars, epVars, rbVars
<1>1. /\ UNCHANGED <<head, docs, committed, from, next, last, epBlock, epSucc>>
      /\ epKind' \in {epKind, "none"} /\ mode' \in {"run", "stopping"}
  BY Zenon DEF Fetch, Refill
<1>2. \/ got' = got
      \/ \E h \in Heights : got' = [got EXCEPT ![h] = Failed]
      \/ \E h \in Heights : \E b \in Blocks : Ht[b] = h /\ got' = [got EXCEPT ![h] = b]
  <2>1. CASE \E h \in Heights : Fetch(h)
    BY <2>1, Zenon DEF Fetch, Served
  <2>2. CASE Refill
    BY <2>2, Zenon DEF Refill, Served
  <2>3. QED
    BY <2>1, <2>2, Zenon
<1>3. /\ got \in [Heights -> Blocks \cup {NoBlock, Failed}]
      /\ \A h \in Heights : got[h] \in Blocks => Ht[got[h]] = h
  BY Zenon DEF EpisodeInv
<1>4. /\ got' \in [Heights -> Blocks \cup {NoBlock, Failed}]
      /\ \A h \in Heights : got'[h] \in Blocks => Ht[got'[h]] = h
  BY <1>2, <1>3, ParentHeight
<1>5. QED
  BY <1>1, <1>4, Zenon DEF EpisodeInv, VerifiedInv

\* The pool and the ordered apply; a stale completion opens an episode.
LEMMA ApplyEpisode ==
  ASSUME EpisodeInv, VerifiedInv, Store \/ Apply
  PROVE  EpisodeInv' /\ VerifiedInv' /\ docs \subseteq docs'
<1> USE DEF envVars, dbVars, runVars, epVars, rbVars, StoreStep, Applied
<1>1. /\ UNCHANGED <<head, from, next, last, got, epSucc>>
      /\ mode \in {"run", "stopping"} /\ mode' \in {"run", "stopping"}
  <2>1. CASE Store
    BY <2>1, Zenon DEF Store, StoreDoc, StoreKids, StoreFail
  <2>2. CASE Apply
    BY <2>2, Zenon DEF Apply, ApplyCommit, ApplySkip, ApplyStale, ApplyDeleted
  <2>3. QED
    BY <2>1, <2>2, Zenon
<1>2. docs \subseteq docs' /\ docs' \subseteq docs \cup Blocks
  <2>1. CASE Store
    BY <2>1, Zenon DEF Store, StoreDoc, StoreKids, StoreFail
  <2>2. CASE Apply
    BY <2>2, Zenon DEF Apply, ApplyCommit, ApplySkip, ApplyStale, ApplyDeleted
  <2>3. QED
    BY <2>1, <2>2, Zenon
<1>3. committed' \subseteq committed \cup Blocks
  <2>1. CASE Store
    BY <2>1, Zenon DEF Store, StoreDoc, StoreKids, StoreFail
  <2>2. CASE Apply
    BY <2>2, Zenon DEF Apply, ApplyCommit, ApplySkip, ApplyStale, ApplyDeleted
  <2>3. QED
    BY <2>1, <2>2, Zenon
<1>4. \/ UNCHANGED <<epKind, epBlock>>
      \/ epKind' = "stale" /\ epBlock' \in Blocks
  <2>1. CASE Store
    BY <2>1, Zenon DEF Store, StoreDoc, StoreKids, StoreFail
  <2>2. CASE Apply
    BY <2>2, Zenon DEF Apply, ApplyCommit, ApplySkip, ApplyStale, ApplyDeleted
  <2>3. QED
    BY <2>1, <2>2, Zenon
<1>5. QED
  BY <1>1, <1>2, <1>3, <1>4, Zenon DEF EpisodeInv, VerifiedInv

\* The walk-back starts with the parked blocks, or with the stale one.
LEMMA WalkBeginVerified ==
  ASSUME EpisodeInv, WalkBegin
  PROVE  EpisodeInv' /\ VerifiedInv'
<1> USE DEF envVars, dbVars, runVars, poolVars
<1>1. EpisodeInv'
  BY Zenon DEF WalkBegin, EpisodeInv
<1>2. CASE epKind = "stale"
  <2>1. /\ epBlock \in Blocks /\ Ht[epBlock] \in Nat
        /\ fork' = Ht[epBlock] /\ rollAt' = Ht[epBlock]
        /\ verified' = [h \in {Ht[epBlock]} |-> epBlock]
    BY <1>2, ParentHeight, Zenon DEF WalkBegin, EpisodeInv
  <2>2. DOMAIN verified' = {Ht[epBlock]} /\ verified'[Ht[epBlock]] = epBlock
    BY <2>1, Zenon
  <2>3. QED
    BY <1>1, <2>1, <2>2 DEF VerifiedInv
<1>3. CASE epKind = "confirmed"
  <2> DEFINE e == Ht[epBlock]
  <2>1. /\ epBlock \in Blocks /\ epSucc \in Blocks /\ Parent[epSucc] = epBlock
        /\ e \in Nat /\ 0 < e
    BY <1>3, ParentHeight, Zenon DEF EpisodeInv
  <2>2. Ht[epSucc] = e + 1 /\ Parent[epBlock] \in Blocks /\ Ht[Parent[epBlock]] = e - 1
    BY <2>1, ParentHeight
  <2>3. /\ fork' = e - 1 /\ rollAt' = Ht[epSucc]
        /\ verified' = [h \in e - 1 .. Ht[epSucc] |->
                          IF h = Ht[epSucc] THEN epSucc
                          ELSE IF h = e THEN epBlock ELSE Parent[epBlock]]
    BY <1>3, Zenon DEF WalkBegin
  <2> HIDE DEF e
  <2>4. /\ DOMAIN verified' = {e - 1, e, e + 1}
        /\ verified'[e - 1] = Parent[epBlock] /\ verified'[e] = epBlock
        /\ verified'[e + 1] = epSucc
    BY <2>1, <2>2, <2>3
  <2>5. Ht[epBlock] = e
    BY Zenon DEF e
  <2>6. QED
    BY <1>1, <2>1, <2>2, <2>3, <2>4, <2>5 DEF VerifiedInv
<1>4. QED
  BY <1>2, <1>3, Zenon DEF WalkBegin

\* It descends by parent hashes.
LEMMA WalkVerified ==
  ASSUME EpisodeInv, VerifiedInv, WalkStep \/ WalkFound \/ WalkFailed
  PROVE  EpisodeInv' /\ VerifiedInv'
<1> USE DEF envVars, dbVars, runVars, poolVars, epVars
<1>1. UNCHANGED <<head, docs, committed, from, next, last, got, epKind, epBlock, epSucc>>
      /\ mode = "walk" /\ rollAt' = rollAt
  BY Zenon DEF WalkStep, WalkFound, WalkFailed, Walking
<1>2. EpisodeInv'
  BY <1>1, Zenon DEF EpisodeInv
<1>3. CASE WalkFound \/ WalkFailed
  <2>1. UNCHANGED <<fork, verified>> /\ mode' \in {"stopping", "rollback"}
    BY <1>3, Zenon DEF WalkFound, WalkFailed
  <2>2. QED
    BY <1>1, <1>2, <2>1, Zenon DEF VerifiedInv
<1>4. CASE WalkStep
  <2>1. /\ Parent[verified[fork]] # NoBlock /\ fork' = fork - 1 /\ mode' = mode
        /\ verified' = [h \in fork - 1 .. rollAt |->
                          IF h = fork - 1 THEN Parent[verified[fork]] ELSE verified[h]]
    BY <1>4, Zenon DEF WalkStep
  <2>2. /\ fork \in Nat /\ rollAt \in Nat /\ fork <= rollAt
        /\ \A h \in Nat : fork <= h /\ h <= rollAt => h \in DOMAIN verified
        /\ \A h \in DOMAIN verified :
             h \in Nat /\ fork <= h /\ verified[h] \in Blocks /\ Ht[verified[h]] = h
        /\ \A h \in DOMAIN verified : h > fork =>
             h - 1 \in DOMAIN verified /\ Parent[verified[h]] = verified[h - 1]
    BY <1>1, Zenon DEF VerifiedInv
  <2>3. fork \in DOMAIN verified /\ verified[fork] \in Blocks /\ Ht[verified[fork]] = fork
    BY <2>2
  <2>4. /\ Parent[verified[fork]] \in Blocks /\ Ht[Parent[verified[fork]]] = fork - 1
        /\ fork - 1 \in Nat
    BY <2>1, <2>2, <2>3, ParentHeight
  <2>5. /\ DOMAIN verified' = fork - 1 .. rollAt
        /\ verified'[fork - 1] = Parent[verified[fork]]
        /\ \A h \in fork .. rollAt : verified'[h] = verified[h]
    BY <2>1, <2>2
  <2>6. \A h \in DOMAIN verified' : h = fork - 1 \/ h \in fork .. rollAt
    BY <2>2, <2>5
  <2>7. \A h \in DOMAIN verified' :
          h \in Nat /\ fork' <= h /\ verified'[h] \in Blocks /\ Ht[verified'[h]] = h
    BY <2>1, <2>2, <2>4, <2>5, <2>6
  <2>8. ASSUME NEW h \in DOMAIN verified', h > fork'
        PROVE  h - 1 \in DOMAIN verified' /\ Parent[verified'[h]] = verified'[h - 1]
    <3>1. h \in fork .. rollAt /\ h - 1 \in DOMAIN verified' /\ verified'[h] = verified[h]
          /\ h \in DOMAIN verified
      BY <2>1, <2>2, <2>5, <2>6, <2>8
    <3>2. CASE h = fork
      BY <2>5, <3>1, <3>2, Zenon
    <3>3. CASE h # fork
      <4>1. h > fork /\ h - 1 \in fork .. rollAt
        BY <2>2, <3>1, <3>3
      <4>2. QED
        BY <2>2, <2>5, <3>1, <4>1, Zenon
    <3>4. QED
      BY <3>2, <3>3, Zenon
  <2>9. QED
    BY <1>1, <1>2, <2>1, <2>2, <2>4, <2>5, <2>7, <2>8 DEF VerifiedInv
<1>5. QED
  BY <1>3, <1>4, Zenon

\* The rollback descends to the fork and changes nothing of what was verified.
LEMMA RollbackVerified ==
  ASSUME EpisodeInv, VerifiedInv, Rollback
  PROVE  EpisodeInv' /\ VerifiedInv'
<1> USE DEF envVars, dbVars, runVars, poolVars, epVars, rbVars
<1>1. mode = "rollback" /\ head' = head
  BY Zenon DEF Rollback, RollbackKeep, RollbackKids, RollbackDoc, RollbackFail, Restart,
               Rolling
<1>2. CASE RollbackKeep \/ RollbackKids \/ RollbackDoc
  <2>1. /\ UNCHANGED <<head, committed, from, next, last, got, epKind, epBlock, epSucc,
                       fork, verified, mode>>
        /\ docs' \subseteq docs
        /\ rollAt' = rollAt \/ (rollAt > fork /\ rollAt' = rollAt - 1)
    <3>1. CASE RollbackKeep
      BY <1>1, <3>1, Zenon DEF RollbackKeep
    <3>2. CASE RollbackKids
      <4>1. UNCHANGED <<docs, mode, runVars, poolVars, epVars, rbVars>>
        BY <3>2, Zenon DEF RollbackKids
      <4>2. QED
        BY <1>1, <4>1, Zenon
    <3>3. CASE RollbackDoc
      BY <1>1, <3>3, Zenon DEF RollbackDoc, Orphan
    <3>4. QED
      BY <1>2, <3>1, <3>2, <3>3, Zenon
  <2>2. EpisodeInv'
    BY <2>1, Zenon DEF EpisodeInv
  <2>3. QED
    BY <1>1, <2>1, <2>2 DEF VerifiedInv
<1>3. CASE RollbackFail
  <2>1. Down /\ docs' = docs
    BY <1>3, Zenon DEF RollbackFail
  <2>2. QED
    BY <1>1, <2>1, DownEpisode, Zenon
<1>4. CASE Restart
  <2>1. PICK s \in Seeds(fork + 1) : BeginRun(fork + 1, s)
    BY <1>4, Zenon DEF Restart
  <2>2. docs' = docs /\ fork + 1 \in Nat
    BY <1>1, <1>4 DEF Restart, VerifiedInv
  <2>3. QED
    BY <1>1, <2>1, <2>2, BeginEpisode, Zenon
<1>5. QED
  BY <1>2, <1>3, <1>4, Zenon DEF Rollback

\* The chain, and the start and the end of processes.
LEMMA ProcessEpisode ==
  ASSUME EpisodeInv, VerifiedInv,
         Extend \/ Flip \/ StartIndexing \/ Stop \/ Exit \/ Crash \/ UNCHANGED vars
  PROVE  EpisodeInv' /\ VerifiedInv' /\ docs' = docs
<1> USE DEF envVars, dbVars, runVars, poolVars, epVars, rbVars
<1>1. CASE Extend \/ Flip \/ Stop \/ UNCHANGED vars
  <2>1. /\ UNCHANGED <<docs, committed, from, next, last, got, epKind, epBlock, epSucc,
                       fork, verified, rollAt>>
        /\ head' \in Blocks \cup {head} /\ mode' \in {mode, "stopping"}
    BY <1>1, Zenon DEF Extend, Flip, Stop, vars
  <2>2. EpisodeInv'
    BY <2>1, Zenon DEF EpisodeInv
  <2>3. QED
    BY <2>1, <2>2, Zenon DEF VerifiedInv
<1>2. CASE Exit \/ Crash
  <2>1. Down /\ head' = head /\ docs' = docs
    BY <1>2, Zenon DEF Exit, Crash
  <2>2. QED
    BY <2>1, DownEpisode, Zenon
<1>3. CASE StartIndexing
  <2>1. PICK f \in ResumeHeights :
          \/ \E s \in Seeds(f) : BeginRun(f, s)
          \/ UNCHANGED <<mode, runVars, poolVars, epVars, rbVars>>
    BY <1>3, Zenon DEF StartIndexing
  <2>2. head' = head /\ docs' = docs
    BY <1>3, Zenon DEF StartIndexing
  <2>3. CASE \E s \in Seeds(f) : BeginRun(f, s)
    <3>1. f \in Nat
      BY ResumeHeightType, Zenon DEF EpisodeInv
    <3>2. QED
      BY <2>2, <2>3, <3>1, BeginEpisode, Zenon
  <2>4. CASE UNCHANGED <<mode, runVars, poolVars, epVars, rbVars>>
    <3>1. UNCHANGED <<head, docs, committed, from, next, last, got, epKind, epBlock,
                      epSucc, fork, verified, rollAt, mode>>
      BY <2>2, <2>4, Zenon
    <3>2. EpisodeInv'
      BY <3>1, Zenon DEF EpisodeInv
    <3>3. QED
      BY <3>1, <3>2, Zenon DEF VerifiedInv
  <2>5. QED
    BY <2>1, <2>3, <2>4, Zenon
<1>4. QED
  BY <1>1, <1>2, <1>3, Zenon

\* Every step keeps what the walk-back verified one chain.
LEMMA VerifiedStep ==
  ASSUME EpisodeInv, VerifiedInv, [Next]_vars
  PROVE  EpisodeInv' /\ VerifiedInv'
BY ProcessEpisode, FetchEpisode, PopEpisode, ApplyEpisode, WalkBeginVerified,
   WalkVerified, RollbackVerified, Zenon DEF Next, Walk

\* Documents disappear in RollbackDoc only.
LEMMA OnlyRollbackDeletes ==
  ASSUME EpisodeInv, VerifiedInv, [Next]_vars, ~RollbackDoc
  PROVE  docs \subseteq docs'
<1> USE DEF dbVars
<1>1. CASE Extend \/ Flip \/ StartIndexing \/ Stop \/ Exit \/ Crash \/ UNCHANGED vars
  BY <1>1, ProcessEpisode, Zenon
<1>2. CASE Store \/ Apply
  BY <1>2, ApplyEpisode, Zenon
<1>3. CASE (\E h \in Heights : Fetch(h)) \/ Refill
  BY <1>3, Zenon DEF Fetch, Refill
<1>4. CASE Pop
  BY <1>4, Zenon DEF Pop, PopHole, PopChecked, PopMismatch, PopConfirm, PopReanchor, Popped
<1>5. CASE Walk
  BY <1>5, Zenon DEF Walk, WalkBegin, WalkStep, WalkFound, WalkFailed, Walking
<1>6. CASE Rollback
  BY <1>6, Zenon DEF Rollback, RollbackKeep, RollbackKids, RollbackFail, Restart
<1>7. QED
  BY <1>1, <1>2, <1>3, <1>4, <1>5, <1>6, Zenon DEF Next

\* RollbackBlocks deletes proven orphans only: never a block of the chain that
\* the walk-back and the confirmation wait verified.
THEOREM RollbacksSpareTheChain == Spec => RollbackSparesTheChain
<1>1. Init => EpisodeInv /\ VerifiedInv
  <2> SUFFICES ASSUME Init PROVE EpisodeInv /\ VerifiedInv
    OBVIOUS
  <2>1. /\ got \in [Heights -> Blocks \cup {NoBlock, Failed}]
        /\ \A h \in Heights : got[h] \in Blocks => Ht[got[h]] = h
    BY ParentHeight, Zenon DEF Init, NoResults
  <2>2. QED
    BY <2>1 DEF Init, EpisodeInv, VerifiedInv
<1>2. EpisodeInv /\ VerifiedInv /\ [Next]_vars => EpisodeInv' /\ VerifiedInv'
  BY VerifiedStep, Zenon
<1>3. ASSUME EpisodeInv, VerifiedInv, [Next]_vars PROVE SparesTheChain
  <2>1. CASE RollbackDoc
    <3>1. PICK o \in docs : Orphan(o) /\ docs' = docs \ {o}
      BY <2>1, Zenon DEF RollbackDoc
    <3>2. mode = "rollback"
      BY <2>1, Zenon DEF RollbackDoc, Rolling
    <3>3. Ht[o] = rollAt /\ o # verified[rollAt] /\ rollAt > fork
      BY <3>1, Zenon DEF Orphan, Stored
    <3>4. rollAt \in DOMAIN verified
      BY <1>3, <3>2, <3>3 DEF VerifiedInv
    <3>5. \A h \in DOMAIN verified : o \notin Branch[verified[h]]
      BY <1>3, <3>2, <3>3, <3>4, VerifiedBranch, Zenon
    <3>6. QED
      BY <3>1, <3>5, Zenon DEF SparesTheChain
  <2>2. CASE ~RollbackDoc
    BY <1>3, <2>2, OnlyRollbackDeletes, Zenon DEF SparesTheChain
  <2>3. QED
    BY <2>1, <2>2, Zenon
<1>4. EpisodeInv /\ VerifiedInv /\ [Next]_vars => [SparesTheChain]_vars
  BY <1>3, Zenon
<1>5. QED
  BY <1>1, <1>2, <1>4, PTL DEF Spec, RollbackSparesTheChain

===============================================================================
