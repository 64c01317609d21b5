-------------------------- MODULE ReorgIndexerInv ---------------------------
(***************************************************************************)
(* The inductive invariant of ReorgIndexer, and the proofs that it holds   *)
(* at the start of the program and is kept by the steps that start,        *)
(* restart or end a run, by the store pool, by the ordered apply, by the   *)
(* ordered check and by the reorg episode.                                 *)
(***************************************************************************)
EXTENDS ReorgIndexer, FiniteSetTheorems, TLAPS

\* The blocks the run handed to the store pool.
Dispatched == {b \in Blocks : st[b] # "idle"}

Modes == {"down", "run", "stopping", "walk", "rollback"}

\* The part of the type invariant that the argument needs.
IndexerTypes ==
  /\ head \in Blocks
  /\ docs \subseteq Blocks /\ kids \subseteq docs
  /\ mode \in Modes
  /\ from \in Nat /\ next \in Nat
  /\ last \in Blocks \cup {NoBlock}
  /\ got \in [Heights -> Blocks \cup {NoBlock, Failed}]
  /\ \A h \in Heights : got[h] \in Blocks => Ht[got[h]] = h
  /\ st \in [Blocks -> Statuses \ {"stale"}]
  /\ committed \subseteq Blocks
  /\ epKind \in {"none", "wait", "confirmed"}
  /\ epKind # "none" => epBlock \in Blocks
  /\ epKind = "confirmed" => epSucc \in Blocks
  /\ mode = "down" => committed = {}

\* What the run stored, and what it may still store, extends what was visible
\* at its start to one branch.
RunInv ==
  mode \in {"run", "stopping", "walk"} =>
    /\ \A b \in docs : Ht[b] >= from => b \in Dispatched \/ Ht[b] = 0
    /\ \A b \in Dispatched : from <= Ht[b] /\ Ht[b] < next
    /\ \A b, c \in Dispatched : Ht[b] = Ht[c] => b = c
    /\ \A b, c \in Dispatched : Ht[c] = Ht[b] + 1 => Parent[c] = b
    /\ \A c \in Dispatched, s \in docs :
         Ht[c] = from /\ Ht[s] = from - 1 => Parent[c] = s
    /\ \A b \in Dispatched : st[b] \in {"writing", "ok"} => b \in docs
    /\ committed \subseteq docs

\* The ordered check chain.
CheckInv ==
  mode = "run" =>
    /\ from <= next
    /\ epKind = "none" =>
         /\ last # NoBlock /\ next > from => last \in Dispatched /\ Ht[last] = next - 1
         /\ last = NoBlock => \A b \in Dispatched : Ht[b] # next - 1
         /\ next = from => \A s \in docs : Ht[s] = from - 1 => last = s
         /\ next = from /\ last # NoBlock => Ht[last] = from - 1
    /\ epKind # "none" =>
         /\ from <= Ht[epBlock] /\ 0 < Ht[epBlock] /\ Ht[epBlock] < next
         /\ \A b \in Dispatched : Ht[b] < Ht[epBlock]
    /\ epKind = "confirmed" => Parent[epSucc] = epBlock

\* Nothing visible lies above the verified chain, and above the fork nothing of
\* the verified chain is visible: a rollback down to the fork leaves nothing
\* above it.
RollInv ==
  mode \in {"walk", "rollback"} =>
    /\ fork \in Nat /\ rollAt \in Nat /\ fork <= rollAt
    /\ \A b \in docs : Ht[b] <= rollAt
    /\ \A h \in fork .. rollAt : verified[h] \in Blocks /\ Ht[verified[h]] = h
    /\ \A h \in fork .. rollAt : h > fork => verified[h] \notin docs
    /\ \A b \in committed : Ht[b] <= fork => b \in docs

StoreInv == OneVisiblePerHeight /\ LinkedStore

IndexerInv == IndexerTypes /\ RunInv /\ CheckInv /\ RollInv /\ StoreInv

-----------------------------------------------------------------------------
(* The tree.                                                               *)

\* Heights and parents in the tree, from the assumption on the constants.
LEMMA ParentHeight ==
  /\ \A b \in Blocks : Ht[b] \in Nat
  /\ \A b \in Blocks : Ht[b] > 0 => Parent[b] \in Blocks
  /\ \A b \in Blocks : Parent[b] # NoBlock =>
       Parent[b] \in Blocks /\ Ht[Parent[b]] = Ht[b] - 1
  /\ \A b, c \in Blocks : Ht[b] = 0 /\ Ht[c] = 0 => b = c
  /\ NoBlock \notin Blocks /\ Failed \notin Blocks
BY IndexerAssumption

\* A child of the genesis is linked to it.
LEMMA ChildOfGenesis ==
  ASSUME NEW b \in Blocks, NEW c \in Blocks, Ht[b] = 0, Ht[c] = 1
  PROVE  Parent[c] = b
BY ParentHeight

\* The program starts on an empty store.
LEMMA IndexerInit == Init => IndexerInv
<1> SUFFICES ASSUME Init PROVE IndexerInv
  OBVIOUS
<1>1. IndexerTypes
  <2>1. head \in Blocks /\ docs = {} /\ kids = {} /\ mode = "down" /\ from = 0
        /\ next = 0 /\ last = NoBlock /\ committed = {} /\ epKind = "none"
    BY Zenon DEF Init
  <2>2. /\ got \in [Heights -> Blocks \cup {NoBlock, Failed}]
        /\ \A h \in Heights : got[h] \in Blocks => Ht[got[h]] = h
    BY ParentHeight, Zenon DEF Init, NoResults
  <2>3. st \in [Blocks -> Statuses \ {"stale"}]
    BY Zenon DEF Init, Statuses
  <2>4. QED
    BY <2>1, <2>2, <2>3, Zenon DEF IndexerTypes, Modes
<1>2. RunInv /\ CheckInv /\ RollInv
  BY Zenon DEF Init, RunInv, CheckInv, RollInv
<1>3. StoreInv
  BY Zenon DEF Init, StoreInv, OneVisiblePerHeight, LinkedStore
<1>4. QED
  BY <1>1, <1>2, <1>3, Zenon DEF IndexerInv

-----------------------------------------------------------------------------
(* A run starts above what is visible, or a process ends.                  *)

\* A run may begin at a height above everything visible, seeded with the
\* visible block below it.
LEMMA BeginRunStep ==
  ASSUME head' \in Blocks, docs \subseteq Blocks, docs' = docs, kids' = kids,
         kids \subseteq docs, StoreInv,
         NEW f \in Nat, NEW s \in Blocks \cup {NoBlock}, BeginRun(f, s),
         \A b \in docs : Ht[b] < f \/ Ht[b] = 0,
         \A b \in docs : Ht[b] = f - 1 => s = b,
         s # NoBlock => Ht[s] = f - 1
  PROVE  IndexerInv'
<1>1. /\ mode' = "run" /\ from' = f /\ next' = f /\ last' = s
      /\ committed' = {} /\ epKind' = "none"
  BY Zenon DEF BeginRun
<1>2. Dispatched' = {}
  BY Zenon DEF BeginRun, Dispatched
<1>3. IndexerTypes'
  <2>1. /\ got' \in [Heights -> Blocks \cup {NoBlock, Failed}]
        /\ \A h \in Heights : got'[h] \in Blocks => Ht[got'[h]] = h
    BY ParentHeight, Zenon DEF BeginRun, NoResults
  <2>2. st' \in [Blocks -> Statuses \ {"stale"}]
    BY Zenon DEF BeginRun, Statuses
  <2>3. QED
    BY <1>1, <2>1, <2>2, Zenon DEF IndexerTypes, Modes
<1>4. RunInv'
  <2>1. \A b \in docs : Ht[b] >= f => Ht[b] = 0
    BY ParentHeight
  <2>2. QED
    BY <1>1, <1>2, <2>1, Zenon DEF RunInv
<1>5. CheckInv'
  BY <1>1, <1>2 DEF CheckInv
<1>6. RollInv'
  BY <1>1, Zenon DEF RollInv
<1>7. StoreInv'
  BY Zenon DEF StoreInv, OneVisiblePerHeight, LinkedStore
<1>8. QED
  BY <1>3, <1>4, <1>5, <1>6, <1>7, Zenon DEF IndexerInv

\* A process that ends forgets its run and leaves the store as it is.
LEMMA DownStep ==
  ASSUME IndexerInv, Down, UNCHANGED <<envVars, dbVars>>
  PROVE  IndexerInv'
<1>1. /\ mode' = "down" /\ from' = 0 /\ next' = 0 /\ last' = NoBlock
      /\ committed' = {} /\ epKind' = "none"
  BY Zenon DEF Down
<1>2. /\ head' = head /\ docs' = docs /\ kids' = kids
      /\ head \in Blocks /\ docs \subseteq Blocks /\ kids \subseteq docs
  BY Zenon DEF envVars, dbVars, IndexerInv, IndexerTypes
<1>3. IndexerTypes'
  <2>1. /\ got' \in [Heights -> Blocks \cup {NoBlock, Failed}]
        /\ \A h \in Heights : got'[h] \in Blocks => Ht[got'[h]] = h
    BY ParentHeight, Zenon DEF Down, NoResults
  <2>2. st' \in [Blocks -> Statuses \ {"stale"}]
    BY Zenon DEF Down, Statuses
  <2>3. QED
    BY <1>1, <1>2, <2>1, <2>2, Zenon DEF IndexerTypes, Modes
<1>4. RunInv' /\ CheckInv' /\ RollInv'
  BY <1>1, Zenon DEF RunInv, CheckInv, RollInv
<1>5. StoreInv'
  BY <1>2, Zenon DEF IndexerInv, StoreInv, OneVisiblePerHeight, LinkedStore
<1>6. QED
  BY <1>3, <1>4, <1>5, Zenon DEF IndexerInv

\* resolveStartHeight resumes above everything visible.
LEMMA ResumesAbove ==
  ASSUME "start" \notin Faults, IndexerTypes, NEW f \in ResumeHeights
  PROVE  f \in Nat /\ \A b \in docs : Ht[b] < f \/ Ht[b] = 0
<1> USE IndexerAssumption, ParentHeight
<1>1. head \in Blocks /\ docs \subseteq Blocks /\ Ht[head] \in Nat
  BY Zenon DEF IndexerTypes
<1>2. \A h \in HighestStored : h \in Nat /\ \A b \in docs : Ht[b] <= h
  BY DEF HighestStored, Heights
<1>3. CASE f \in {IF Ht[head] - h > StartBuffer THEN Ht[head] - StartBuffer ELSE h + 1 :
                    h \in HighestStored \ {0}}
  <2>1. PICK h \in HighestStored \ {0} :
          f = IF Ht[head] - h > StartBuffer THEN Ht[head] - StartBuffer ELSE h + 1
    BY <1>3, Zenon
  <2>2. h \in Nat /\ f \in Nat /\ h < f
    BY <1>1, <1>2, <2>1
  <2>3. \A b \in docs : Ht[b] <= h /\ Ht[b] \in Nat
    BY <1>1, <1>2, Zenon
  <2>4. QED
    BY <2>2, <2>3
<1>4. CASE /\ 0 \in HighestStored
           /\ f = IF StartHeight > 0 THEN StartHeight
                  ELSE IF Ht[head] - StartBuffer > 0 THEN Ht[head] - StartBuffer ELSE 0
  <2>1. \A b \in docs : Ht[b] = 0
    BY <1>1, <1>2, <1>4
  <2>2. QED
    BY <1>1, <1>4, <2>1
<1>5. QED
  BY <1>3, <1>4, Zenon DEF ResumeHeights

\* resolveSeed returns the visible block below the start, if there is one.
LEMMA SeedIsVisible ==
  ASSUME docs \subseteq Blocks, OneVisiblePerHeight, NEW f \in Nat,
         \A b \in committed : Ht[b] = f - 1 => b \in docs,
         NEW s \in Seeds(f)
  PROVE  /\ s \in Blocks \cup {NoBlock}
         /\ \A b \in docs : Ht[b] = f - 1 => s = b
         /\ s # NoBlock => Ht[s] = f - 1
BY Zenon DEF Seeds, Stored, OneVisiblePerHeight

\* A new process resumes above the highest visible block.
LEMMA StartStep ==
  ASSUME "start" \notin Faults, IndexerInv, StartIndexing
  PROVE  IndexerInv'
<1> USE DEF envVars, dbVars, runVars, poolVars, epVars, rollVars, rbVars
<1>1. PICK f \in ResumeHeights :
        IF Cardinality(Seeds(f)) = 1
          THEN \E s \in Seeds(f) : BeginRun(f, s) /\ cfgStart' = f /\ UNCHANGED rollVars
          ELSE UNCHANGED <<mode, runVars, poolVars, epVars, rollVars, rbVars>>
  BY Zenon DEF StartIndexing
<1>2. /\ IndexerTypes /\ StoreInv /\ head \in Blocks /\ docs \subseteq Blocks
      /\ kids \subseteq docs /\ committed = {}
      /\ head' = head /\ docs' = docs /\ kids' = kids
  BY Zenon DEF IndexerInv, IndexerTypes, StartIndexing
<1>3. f \in Nat /\ \A b \in docs : Ht[b] < f \/ Ht[b] = 0
  BY <1>2, ResumesAbove, Zenon
<1>4. CASE Cardinality(Seeds(f)) = 1
  <2>1. PICK s \in Seeds(f) : BeginRun(f, s)
    BY <1>1, <1>4, Zenon
  <2>2. /\ s \in Blocks \cup {NoBlock}
        /\ \A b \in docs : Ht[b] = f - 1 => s = b
        /\ s # NoBlock => Ht[s] = f - 1
    BY <1>2, <1>3, SeedIsVisible, Zenon DEF StoreInv
  <2>3. QED
    BY <1>2, <1>3, <2>1, <2>2, BeginRunStep, Zenon
<1>5. CASE Cardinality(Seeds(f)) # 1
  <2>1. UNCHANGED <<head, docs, kids, mode, from, next, last, got, st, committed,
                    epKind, epBlock, epSucc, fork, verified, rollAt>>
    BY <1>1, <1>2, <1>5, Zenon
  <2>2. QED
    BY <2>1 DEF IndexerInv, IndexerTypes, RunInv, CheckInv, RollInv, StoreInv,
         OneVisiblePerHeight, LinkedStore, Dispatched
<1>6. QED
  BY <1>4, <1>5, Zenon

\* After a rollback the next run starts above the fork.
LEMMA RestartStep ==
  ASSUME IndexerInv, Restart
  PROVE  IndexerInv'
<1> USE DEF envVars, dbVars
<1>1. PICK s \in Seeds(fork + 1) : BeginRun(fork + 1, s)
  BY Zenon DEF Restart
<1>2. /\ StoreInv /\ head \in Blocks /\ docs \subseteq Blocks /\ kids \subseteq docs
      /\ head' = head /\ docs' = docs /\ kids' = kids
  BY Zenon DEF IndexerInv, IndexerTypes, Restart, Rolling
<1>3. /\ fork \in Nat /\ rollAt = fork
      /\ \A b \in docs : Ht[b] <= fork
      /\ \A b \in committed : Ht[b] <= fork => b \in docs
  BY Zenon DEF IndexerInv, RollInv, Restart, Rolling
<1>4. fork + 1 \in Nat /\ \A b \in docs : Ht[b] < fork + 1
  BY <1>2, <1>3, ParentHeight
<1>5. \A b \in committed : Ht[b] = (fork + 1) - 1 => b \in docs
  BY <1>3
<1>6. /\ s \in Blocks \cup {NoBlock}
      /\ \A b \in docs : Ht[b] = (fork + 1) - 1 => s = b
      /\ s # NoBlock => Ht[s] = (fork + 1) - 1
  BY <1>2, <1>4, <1>5, SeedIsVisible, Zenon DEF StoreInv
<1>7. QED
  BY <1>1, <1>2, <1>4, <1>6, BeginRunStep, Zenon

\* A step of the check leaves the store alone.
LEMMA StoreKept ==
  ASSUME StoreInv, docs' = docs
  PROVE  StoreInv'
BY Zenon DEF StoreInv, OneVisiblePerHeight, LinkedStore

-----------------------------------------------------------------------------
(* The store pool and the ordered apply.                                   *)

\* At the height of a dispatched block nothing else is visible, and what is
\* visible next to it is its parent or its child.
LEMMA DispatchedFits ==
  ASSUME IndexerTypes, RunInv, mode \in {"run", "stopping", "walk"},
         NEW b \in Dispatched, NEW c \in docs
  PROVE  /\ Ht[c] = Ht[b] => c = b
         /\ Ht[c] = Ht[b] + 1 => Parent[c] = b
         /\ Ht[b] = Ht[c] + 1 => Parent[b] = c
<1>1. b \in Blocks /\ c \in Blocks /\ Ht[b] \in Nat /\ Ht[c] \in Nat /\ from \in Nat
  BY ParentHeight, Zenon DEF IndexerTypes, Dispatched
<1>2. from <= Ht[b]
  BY Zenon DEF RunInv
<1>3. CASE c \in Dispatched
  BY <1>3, Zenon DEF RunInv
<1>4. CASE Ht[c] >= from /\ c \notin Dispatched
  <2>1. Ht[c] = 0
    BY <1>4, Zenon DEF RunInv
  <2>2. QED
    BY <1>1, <2>1, ParentHeight, ChildOfGenesis
<1>5. CASE ~(Ht[c] >= from)
  <2>1. Ht[b] = Ht[c] + 1 => Ht[b] = from /\ Ht[c] = from - 1
    BY <1>1, <1>2, <1>5
  <2>2. Ht[b] = Ht[c] + 1 => Parent[b] = c
    BY <2>1, Zenon DEF RunInv
  <2>3. QED
    BY <1>1, <1>2, <1>5, <2>2
<1>6. QED
  BY <1>3, <1>4, <1>5, Zenon

\* A step of the pool or of the apply on a dispatched block.
LEMMA StatusStep ==
  ASSUME IndexerInv, mode \in {"run", "stopping"}, mode' \in {mode, "stopping"},
         NEW b \in Dispatched, NEW x \in Statuses \ {"idle", "stale"},
         st' = [st EXCEPT ![b] = x],
         docs' \in {docs, docs \cup {b}}, kids' \subseteq docs',
         x \in {"writing", "ok"} => b \in docs', committed' \subseteq docs',
         UNCHANGED <<head, from, next, last, got, epKind, epBlock, epSucc>>
  PROVE  IndexerInv'
<1>1. IndexerTypes /\ RunInv /\ CheckInv /\ StoreInv
  BY Zenon DEF IndexerInv
<1>2. b \in Blocks /\ docs \subseteq docs' /\ docs' \subseteq docs \cup {b}
  BY Zenon DEF Dispatched
<1>3. st \in [Blocks -> Statuses \ {"stale"}]
  BY <1>1, Zenon DEF IndexerTypes
<1>4. IndexerTypes'
  <2>1. st' \in [Blocks -> Statuses \ {"stale"}]
    BY <1>2, <1>3, Zenon
  <2>2. docs' \subseteq Blocks
    BY <1>1, <1>2, Zenon DEF IndexerTypes
  <2>3. QED
    BY <1>1, <2>1, <2>2, Zenon DEF IndexerTypes, Modes
<1>5. Dispatched' = Dispatched /\ \A c \in Dispatched : st'[c] = IF c = b THEN x ELSE st[c]
  BY <1>2, <1>3, Zenon DEF Dispatched
<1>6. from <= Ht[b] /\ Ht[b] \in Nat /\ from \in Nat
  BY <1>1, <1>2, ParentHeight, Zenon DEF RunInv, IndexerTypes
<1>7. RunInv'
  <2>1. \A c \in docs' : Ht[c] >= from => c \in Dispatched \/ Ht[c] = 0
    BY <1>1, <1>2, Zenon DEF RunInv
  <2>2. \A c \in Dispatched, s \in docs' :
          Ht[c] = from /\ Ht[s] = from - 1 => Parent[c] = s
    BY <1>1, <1>2, <1>6 DEF RunInv
  <2>3. \A c \in Dispatched : st'[c] \in {"writing", "ok"} => c \in docs'
    BY <1>1, <1>2, <1>5, Zenon DEF RunInv
  <2>4. QED
    BY <1>1, <1>5, <2>1, <2>2, <2>3, Zenon DEF RunInv
<1>8. CheckInv'
  <2>1. mode' = "run" => mode = "run"
    OBVIOUS
  <2>2. \A s \in docs' : Ht[s] = from - 1 => s \in docs
    BY <1>2, <1>6
  <2>3. QED
    BY <1>1, <1>5, <2>1, <2>2, Zenon DEF CheckInv
<1>9. RollInv'
  BY Zenon DEF RollInv
<1>10. StoreInv'
  <2>1. \A c \in docs : /\ Ht[c] = Ht[b] => c = b
                        /\ Ht[c] = Ht[b] + 1 => Parent[c] = b
                        /\ Ht[b] = Ht[c] + 1 => Parent[b] = c
    BY <1>1, DispatchedFits, Zenon
  <2>2. Ht[b] # Ht[b] + 1
    BY <1>6
  <2>3. OneVisiblePerHeight'
    BY <1>1, <1>2, <2>1 DEF StoreInv, OneVisiblePerHeight
  <2>4. LinkedStore'
    BY <1>1, <1>2, <2>1, <2>2, Zenon DEF StoreInv, LinkedStore
  <2>5. QED
    BY <2>3, <2>4, Zenon DEF StoreInv
<1>11. QED
  BY <1>4, <1>7, <1>8, <1>9, <1>10, Zenon DEF IndexerInv

\* A store writes the document of a dispatched block, then its children.
LEMMA StoreStepInv ==
  ASSUME IndexerInv, NEW b \in Blocks, StoreDoc(b) \/ StoreKids(b) \/ StoreFail(b)
  PROVE  IndexerInv'
<1> USE DEF StoreStep, envVars, runVars, epVars
<1>1. /\ mode \in {"run", "stopping"} /\ mode' = mode
      /\ UNCHANGED <<head, from, next, last, got, epKind, epBlock, epSucc, committed>>
  BY Zenon DEF StoreDoc, StoreKids, StoreFail
<1>2. b \in Dispatched
  BY Zenon DEF StoreDoc, StoreKids, StoreFail, Dispatched
<1>3. IndexerTypes /\ RunInv /\ docs \subseteq Blocks /\ kids \subseteq docs
      /\ committed \subseteq docs
  BY <1>1, Zenon DEF IndexerInv, IndexerTypes, RunInv
<1>4. CASE StoreDoc(b)
  <2>1. PICK x \in {"deleted", "ok", "writing"} :
          /\ st' = [st EXCEPT ![b] = x]
          /\ docs' \in {docs, docs \cup {b}}
          /\ x \in {"writing", "ok"} => b \in docs'
    BY <1>4, Zenon DEF StoreDoc
  <2>2. kids' = kids
    BY <1>4, Zenon DEF StoreDoc
  <2>3. QED
    BY <1>1, <1>2, <1>3, <2>1, <2>2, StatusStep, Zenon DEF Statuses
<1>5. CASE StoreKids(b)
  <2>1. st' = [st EXCEPT ![b] = "ok"] /\ docs' = docs /\ kids' = kids \cup {b}
    BY <1>5, Zenon DEF StoreKids
  <2>2. b \in docs
    BY <1>1, <1>2, <1>3, <1>5, Zenon DEF StoreKids, RunInv
  <2>3. QED
    BY <1>1, <1>2, <1>3, <2>1, <2>2, StatusStep, Zenon DEF Statuses
<1>6. CASE StoreFail(b)
  <2>1. docs' = docs /\ kids' = kids
    BY <1>6, Zenon DEF StoreFail
  <2>2. ~\E s \in docs \ {b} : Stored(Ht[b]) = {s}
    BY <1>1, <1>2, <1>3, DispatchedFits, Zenon DEF Stored
  <2>3. \/ st' = [st EXCEPT ![b] = "fail"]
        \/ st' = [st EXCEPT ![b] = "ok"] /\ st[b] = "writing"
    BY <1>6, <2>2, Zenon DEF StoreFail
  <2>4. st[b] = "writing" => b \in docs
    BY <1>1, <1>2, <1>3, Zenon DEF RunInv
  <2>5. QED
    BY <1>1, <1>2, <1>3, <2>1, <2>3, <2>4, StatusStep, Zenon DEF Statuses
<1>7. QED
  BY <1>4, <1>5, <1>6, Zenon

\* A completion applied in order commits its block, skips it or ends the run.
LEMMA ApplyStep ==
  ASSUME IndexerInv, NEW b \in Blocks,
         ApplyCommit(b) \/ ApplySkip(b) \/ ApplyStale(b) \/ ApplyDeleted(b)
  PROVE  IndexerInv'
<1> USE DEF Applied, envVars, dbVars, runVars
<1>1. IndexerTypes /\ RunInv /\ st[b] # "stale"
  BY Zenon DEF IndexerInv, IndexerTypes
<1>2. ~ApplyStale(b)
  BY <1>1, Zenon DEF ApplyStale
<1>3. /\ mode = "run" /\ mode' \in {mode, "stopping"}
      /\ st' = [st EXCEPT ![b] = "applied"]
      /\ UNCHANGED <<head, docs, kids, from, next, last, got, epSucc>>
  BY <1>2, Zenon DEF ApplyCommit, ApplySkip, ApplyDeleted
<1>4. epKind' = epKind /\ epBlock' = epBlock
  BY <1>2, Zenon DEF ApplyCommit, ApplySkip, ApplyDeleted
<1>5. b \in Dispatched
  BY Zenon DEF ApplyCommit, ApplySkip, ApplyStale, ApplyDeleted, Dispatched
<1>6. committed \subseteq docs /\ kids \subseteq docs
  BY <1>1, <1>3, Zenon DEF RunInv, IndexerTypes
<1>7. committed' \subseteq docs
  <2>1. CASE ApplyCommit(b)
    <3>1. b \in docs
      BY <1>1, <1>3, <1>5, <2>1, Zenon DEF ApplyCommit, RunInv
    <3>2. committed' \subseteq committed \cup {b}
      BY <2>1, Zenon DEF ApplyCommit
    <3>3. QED
      BY <1>6, <3>1, <3>2, Zenon
  <2>2. CASE ~ApplyCommit(b)
    BY <1>2, <1>6, <2>2, Zenon DEF ApplySkip, ApplyDeleted
  <2>3. QED
    BY <2>1, <2>2, Zenon
<1>8. QED
  BY <1>3, <1>4, <1>5, <1>6, <1>7, StatusStep, Zenon DEF Statuses

(* The ordered check and the reorg episode.                                *)

\* fetchAndConvertBlock stores a result at its own height only.
LEMMA FetchStep ==
  ASSUME IndexerInv, NEW h \in Heights, Fetch(h)
  PROVE  IndexerInv'
<1> USE DEF envVars, dbVars, poolVars, epVars, rollVars, rbVars
<1>1. UNCHANGED <<head, docs, kids, mode, from, next, last, st, committed,
                  epKind, epBlock, epSucc, fork, verified, rollAt>>
  BY Zenon DEF Fetch
<1>2. PICK x \in Blocks \cup {Failed} :
        got' = [got EXCEPT ![h] = x] /\ (x \in Blocks => Ht[x] = h)
  BY ParentHeight, Zenon DEF Fetch, Served
<1>3. IndexerTypes'
  <2>1. /\ got' \in [Heights -> Blocks \cup {NoBlock, Failed}]
        /\ \A k \in Heights : got'[k] \in Blocks => Ht[got'[k]] = k
    BY <1>2, Zenon DEF IndexerInv, IndexerTypes
  <2>2. QED
    BY <1>1, <2>1, Zenon DEF IndexerInv, IndexerTypes
<1>4. RunInv' /\ CheckInv' /\ RollInv'
  BY <1>1, Zenon DEF IndexerInv, RunInv, CheckInv, RollInv, Dispatched
<1>5. QED
  BY <1>1, <1>3, <1>4, StoreKept, Zenon DEF IndexerInv

\* What popPending does to every popped item.
LEMMA PoppedTypes ==
  ASSUME IndexerTypes, NEW x \in Blocks \cup {Failed}, Popped(x)
  PROVE  /\ mode = "run" /\ next \in Nat /\ next' = next + 1 /\ next' \in Nat
         /\ UNCHANGED <<head, docs, kids, from, committed, fork, verified, rollAt>>
         /\ got' \in [Heights -> Blocks \cup {NoBlock, Failed}]
         /\ \A h \in Heights : got'[h] \in Blocks => Ht[got'[h]] = h
         /\ x \in Blocks => Ht[x] = next
<1> USE DEF Popped, envVars, dbVars, rbVars
<1>1. /\ mode = "run" /\ next \in Nat /\ next' = next + 1 /\ next' \in Nat
      /\ UNCHANGED <<head, docs, kids, from, committed, fork, verified, rollAt>>
  BY DEF IndexerTypes
<1>2. /\ got' \in [Heights -> Blocks \cup {NoBlock, Failed}]
      /\ \A h \in Heights : got'[h] \in Blocks => Ht[got'[h]] = h
  BY ParentHeight, Zenon DEF IndexerTypes
<1>3. x \in Blocks => Ht[x] = next
  BY Zenon DEF IndexerTypes
<1>4. QED
  BY <1>1, <1>2, <1>3, Zenon

\* A failed result ends the check chain: the next block has no predecessor.
LEMMA PopHoleStep ==
  ASSUME IndexerInv, PopHole
  PROVE  IndexerInv'
<1> USE DEF epVars
<1>1. IndexerTypes /\ RunInv /\ CheckInv /\ StoreInv
  BY Zenon DEF IndexerInv
<1>2. /\ mode = "run" /\ next \in Nat /\ next' = next + 1 /\ next' \in Nat
      /\ UNCHANGED <<head, docs, kids, from, committed, fork, verified, rollAt>>
      /\ got' \in [Heights -> Blocks \cup {NoBlock, Failed}]
      /\ \A h \in Heights : got'[h] \in Blocks => Ht[got'[h]] = h
  BY <1>1, PoppedTypes, Zenon DEF PopHole
<1>3. /\ epKind = "none" /\ last' = NoBlock
      /\ UNCHANGED <<mode, st, epKind, epBlock, epSucc>>
  BY Zenon DEF PopHole
<1>4. IndexerTypes'
  BY <1>1, <1>2, <1>3, Zenon DEF IndexerTypes
<1>5. Dispatched' = Dispatched /\ Dispatched \subseteq Blocks
  BY <1>3, Zenon DEF Dispatched
<1>6. \A b \in Dispatched : Ht[b] \in Nat /\ from <= Ht[b] /\ Ht[b] < next
  BY <1>1, <1>2, <1>5, ParentHeight, Zenon DEF RunInv
<1>7. RunInv'
  <2>1. \A b \in Dispatched : from <= Ht[b] /\ Ht[b] < next'
    BY <1>2, <1>6
  <2>2. QED
    BY <1>1, <1>2, <1>3, <1>5, <2>1, Zenon DEF RunInv
<1>8. CheckInv'
  <2>1. from \in Nat /\ from <= next /\ from < next'
    BY <1>1, <1>2 DEF IndexerTypes, CheckInv
  <2>2. \A b \in Dispatched : Ht[b] # next' - 1
    BY <1>2, <1>6
  <2>3. QED
    BY <1>2, <1>3, <1>5, <2>1, <2>2 DEF CheckInv
<1>9. RollInv'
  BY <1>2, <1>3, Zenon DEF RollInv
<1>10. QED
  BY <1>1, <1>2, <1>4, <1>7, <1>8, <1>9, StoreKept, Zenon DEF IndexerInv

\* A block that passed the check extends the dispatched branch.
LEMMA PopCheckedStep ==
  ASSUME IndexerInv, NEW b \in Blocks, PopChecked(b)
  PROVE  IndexerInv'
<1> USE DEF epVars
<1>1. IndexerTypes /\ RunInv /\ CheckInv /\ StoreInv
  BY Zenon DEF IndexerInv
<1>2. /\ mode = "run" /\ next \in Nat /\ next' = next + 1 /\ next' \in Nat
      /\ UNCHANGED <<head, docs, kids, from, committed, fork, verified, rollAt>>
      /\ got' \in [Heights -> Blocks \cup {NoBlock, Failed}]
      /\ \A h \in Heights : got'[h] \in Blocks => Ht[got'[h]] = h
      /\ Ht[b] = next
  BY <1>1, PoppedTypes, Zenon DEF PopChecked
<1>3. /\ epKind = "none" /\ last' = b /\ st' = [st EXCEPT ![b] = "queued"]
      /\ UNCHANGED <<mode, epKind, epBlock, epSucc>>
  BY Zenon DEF PopChecked
<1>4. st \in [Blocks -> Statuses \ {"stale"}]
  BY <1>1, Zenon DEF IndexerTypes
<1>5. IndexerTypes'
  <2>1. st' \in [Blocks -> Statuses \ {"stale"}]
    BY <1>3, <1>4, Zenon DEF Statuses
  <2>2. QED
    BY <1>1, <1>2, <1>3, <2>1, Zenon DEF IndexerTypes
<1>6. /\ Dispatched' = Dispatched \cup {b} /\ Dispatched \subseteq Blocks
      /\ \A c \in Dispatched : c # b => st'[c] = st[c]
      /\ st'[b] = "queued"
  BY <1>3, <1>4, Zenon DEF Dispatched
<1>7. \A c \in Dispatched : Ht[c] \in Nat /\ from <= Ht[c] /\ Ht[c] < next
  BY <1>1, <1>2, <1>6, ParentHeight, Zenon DEF RunInv
<1>8. from \in Nat /\ from <= next
  BY <1>1, <1>2, Zenon DEF IndexerTypes, CheckInv
<1>9. last # NoBlock => Parent[b] = last
  BY Zenon DEF PopChecked, Mismatch
<1>10. RunInv'
  <2>1. \A c \in docs : Ht[c] >= from => c \in Dispatched' \/ Ht[c] = 0
    BY <1>1, <1>2, <1>6, Zenon DEF RunInv
  <2>2. \A c \in Dispatched' : from <= Ht[c] /\ Ht[c] < next'
    BY <1>2, <1>6, <1>7, <1>8
  <2>3. \A c, d \in Dispatched' : Ht[c] = Ht[d] => c = d
    <3>1. \A c, d \in Dispatched : Ht[c] = Ht[d] => c = d
      BY <1>1, <1>2, Zenon DEF RunInv
    <3>2. \A c \in Dispatched : Ht[c] # Ht[b]
      BY <1>2, <1>7
    <3>3. QED
      BY <1>6, <3>1, <3>2, Zenon
  <2>4. \A c, d \in Dispatched' : Ht[d] = Ht[c] + 1 => Parent[d] = c
    <3>1. \A c, d \in Dispatched : Ht[d] = Ht[c] + 1 => Parent[d] = c
      BY <1>1, <1>2, Zenon DEF RunInv
    <3>2. ASSUME NEW c \in Dispatched, Ht[b] = Ht[c] + 1 PROVE Parent[b] = c
      <4>1. Ht[c] = next - 1 /\ next > from
        BY <1>2, <1>7, <1>8, <3>2
      <4>2. last # NoBlock
        BY <1>1, <1>2, <1>3, <4>1, Zenon DEF CheckInv
      <4>3. last \in Dispatched /\ Ht[last] = next - 1
        BY <1>1, <1>2, <1>3, <4>1, <4>2, Zenon DEF CheckInv
      <4>4. last = c
        BY <1>1, <1>2, <4>1, <4>3, Zenon DEF RunInv
      <4>5. QED
        BY <1>9, <4>2, <4>4, Zenon
    <3>3. \A d \in Dispatched : Ht[d] # Ht[b] + 1
      BY <1>2, <1>7
    <3>4. Ht[b] # Ht[b] + 1
      BY <1>2
    <3>5. QED
      BY <1>6, <3>1, <3>2, <3>3, <3>4, Zenon
  <2>5. \A c \in Dispatched', s \in docs :
          Ht[c] = from /\ Ht[s] = from - 1 => Parent[c] = s
    <3>1. \A c \in Dispatched, s \in docs :
            Ht[c] = from /\ Ht[s] = from - 1 => Parent[c] = s
      BY <1>1, <1>2, Zenon DEF RunInv
    <3>2. ASSUME NEW s \in docs, Ht[b] = from, Ht[s] = from - 1 PROVE Parent[b] = s
      <4>1. last = s
        BY <1>1, <1>2, <1>3, <3>2, Zenon DEF CheckInv
      <4>2. s # NoBlock
        BY <1>1, ParentHeight, Zenon DEF IndexerTypes
      <4>3. QED
        BY <1>9, <4>1, <4>2, Zenon
    <3>3. QED
      BY <1>6, <3>1, <3>2, Zenon
  <2>6. \A c \in Dispatched' : st'[c] \in {"writing", "ok"} => c \in docs
    BY <1>1, <1>2, <1>6, Zenon DEF RunInv
  <2>7. committed \subseteq docs
    BY <1>1, <1>2, Zenon DEF RunInv
  <2>8. QED
    BY <1>2, <2>1, <2>2, <2>3, <2>4, <2>5, <2>6, <2>7, Zenon DEF RunInv
<1>11. CheckInv'
  <2>1. /\ from <= next' /\ next' # from
        /\ last' # NoBlock /\ last' \in Dispatched' /\ Ht[last'] = next' - 1
    BY <1>2, <1>3, <1>6, <1>8, ParentHeight
  <2>2. QED
    BY <1>2, <1>3, <2>1, Zenon DEF CheckInv
<1>12. RollInv'
  BY <1>2, <1>3, Zenon DEF RollInv
<1>13. QED
  BY <1>1, <1>2, <1>5, <1>10, <1>11, <1>12, StoreKept, Zenon DEF IndexerInv

\* A popped block that is not dispatched: the run's blocks stay, the next height
\* moves up.
LEMMA UndispatchedStep ==
  ASSUME IndexerInv, NEW b \in Blocks, Popped(b), st' = st, last' = last,
         epKind' \in {"none", "wait", "confirmed"},
         mode' \in {"run", "stopping"},
         epKind' # "none" => epBlock' \in Blocks,
         epKind' = "confirmed" => epSucc' \in Blocks,
         mode' = "run" =>
           /\ epKind' # "none"
           /\ from <= Ht[epBlock'] /\ 0 < Ht[epBlock'] /\ Ht[epBlock'] <= next
           /\ \A c \in Dispatched : Ht[c] < Ht[epBlock']
           /\ epKind' = "confirmed" => Parent[epSucc'] = epBlock'
  PROVE  IndexerInv'
<1>1. IndexerTypes /\ RunInv /\ CheckInv /\ StoreInv
  BY Zenon DEF IndexerInv
<1>2. /\ mode = "run" /\ next \in Nat /\ next' = next + 1 /\ next' \in Nat
      /\ UNCHANGED <<head, docs, kids, from, committed, fork, verified, rollAt>>
      /\ got' \in [Heights -> Blocks \cup {NoBlock, Failed}]
      /\ \A h \in Heights : got'[h] \in Blocks => Ht[got'[h]] = h
  BY <1>1, PoppedTypes, Zenon
<1>3. IndexerTypes'
  BY <1>1, <1>2, Zenon DEF IndexerTypes, Modes
<1>4. Dispatched' = Dispatched /\ Dispatched \subseteq Blocks
  BY Zenon DEF Dispatched
<1>5. RunInv'
  <2>1. \A c \in Dispatched : from <= Ht[c] /\ Ht[c] < next'
    BY <1>1, <1>2, <1>4, ParentHeight DEF RunInv
  <2>2. QED
    BY <1>1, <1>2, <1>4, <2>1, Zenon DEF RunInv
<1>6. CheckInv'
  <2>1. from \in Nat /\ from <= next'
    BY <1>1, <1>2 DEF IndexerTypes, CheckInv
  <2>2. mode' = "run" => Ht[epBlock'] < next'
    BY <1>2, ParentHeight
  <2>3. QED
    BY <1>2, <1>4, <2>1, <2>2, Zenon DEF CheckInv
<1>7. RollInv'
  BY Zenon DEF RollInv
<1>8. QED
  BY <1>1, <1>2, <1>3, <1>5, <1>6, <1>7, StoreKept, Zenon DEF IndexerInv

\* startReorgEpisode holds back the mismatching block.
LEMMA PopMismatchStep ==
  ASSUME IndexerInv, NEW b \in Blocks, PopMismatch(b)
  PROVE  IndexerInv'
<1>1. /\ Popped(b) /\ Mismatch(b) /\ epKind = "none" /\ epKind' = "wait" /\ epBlock' = b
      /\ mode' = mode /\ last' = last /\ st' = st /\ epSucc' = epSucc
  BY Zenon DEF PopMismatch
<1>2. IndexerTypes /\ RunInv /\ CheckInv
  BY Zenon DEF IndexerInv
<1>3. mode = "run" /\ Ht[b] = next
  BY <1>1, <1>2, PoppedTypes, Zenon
<1>4. /\ from \in Nat /\ next \in Nat /\ from <= next
      /\ last \in Blocks \cup {NoBlock}
      /\ next = from /\ last # NoBlock => Ht[last] = from - 1
  BY <1>1, <1>2, <1>3, Zenon DEF IndexerTypes, CheckInv
<1>5. 0 < next
  BY <1>1, <1>4, ParentHeight DEF Mismatch
<1>6. \A c \in Dispatched : Ht[c] < next
  BY <1>2, <1>3, Zenon DEF RunInv
<1>7. QED
  BY <1>1, <1>3, <1>4, <1>5, <1>6, UndispatchedStep

\* A chained successor confirms the episode and is itself held back.
LEMMA PopConfirmStep ==
  ASSUME IndexerInv, NEW b \in Blocks, PopConfirm(b)
  PROVE  IndexerInv'
<1>1. /\ Popped(b) /\ epKind = "wait" /\ Parent[b] = epBlock
      /\ epKind' = "confirmed" /\ epSucc' = b
      /\ mode' = mode /\ last' = last /\ st' = st /\ epBlock' = epBlock
  BY Zenon DEF PopConfirm
<1>2. IndexerTypes /\ CheckInv
  BY Zenon DEF IndexerInv
<1>3. mode = "run"
  BY <1>1, <1>2, PoppedTypes, Zenon
<1>4. /\ epBlock \in Blocks /\ next \in Nat
      /\ from <= Ht[epBlock] /\ 0 < Ht[epBlock] /\ Ht[epBlock] < next
      /\ \A c \in Dispatched : Ht[c] < Ht[epBlock]
  BY <1>1, <1>2, <1>3, Zenon DEF IndexerTypes, CheckInv
<1>5. Ht[epBlock] <= next
  BY <1>4, ParentHeight
<1>6. QED
  BY <1>1, <1>3, <1>4, <1>5, UndispatchedStep, Zenon

\* reanchorEpisodeLocked moves the episode to a later block.
LEMMA PopReanchorStep ==
  ASSUME IndexerInv, NEW b \in Blocks, PopReanchor(b)
  PROVE  IndexerInv'
<1>1. /\ Popped(b) /\ epKind = "wait" /\ last' = last /\ st' = st /\ epSucc' = epSucc
      /\ \/ mode' = "stopping" /\ epKind' = "none"
         \/ mode' = mode /\ epKind' = epKind /\ epBlock' = b
  BY Zenon DEF PopReanchor
<1>2. IndexerTypes /\ RunInv /\ CheckInv
  BY Zenon DEF IndexerInv
<1>3. mode = "run" /\ Ht[b] = next
  BY <1>1, <1>2, PoppedTypes, Zenon
<1>4. /\ epBlock \in Blocks /\ next \in Nat /\ from \in Nat
      /\ from <= next /\ 0 < Ht[epBlock] /\ Ht[epBlock] < next
  BY <1>1, <1>2, <1>3, Zenon DEF IndexerTypes, CheckInv
<1>5. 0 < next
  BY <1>4, ParentHeight
<1>6. \A c \in Dispatched : Ht[c] < next
  BY <1>2, <1>3, Zenon DEF RunInv
<1>7. CASE mode' = "stopping" /\ epKind' = "none"
  BY <1>1, <1>7, UndispatchedStep, Zenon
<1>8. CASE mode' = mode /\ epKind' = epKind /\ epBlock' = b
  BY <1>1, <1>3, <1>4, <1>5, <1>6, <1>8, UndispatchedStep
<1>9. QED
  BY <1>1, <1>7, <1>8, Zenon

\* refillEpisodeGap replaces a failed result, without dispatching it.
LEMMA RefillStep ==
  ASSUME IndexerInv, Refill
  PROVE  IndexerInv'
<1> USE DEF envVars, dbVars, poolVars, rollVars, rbVars
<1>1. UNCHANGED <<head, docs, kids, from, next, last, st, committed,
                  epBlock, epSucc, fork, verified, rollAt>>
  BY Zenon DEF Refill
<1>2. \/ mode' = mode /\ epKind' = epKind
      \/ mode' = "stopping" /\ epKind' = "none"
  BY Zenon DEF Refill
<1>3. /\ got' \in [Heights -> Blocks \cup {NoBlock, Failed}]
      /\ \A h \in Heights : got'[h] \in Blocks => Ht[got'[h]] = h
  <2>1. next \in Heights
    BY Zenon DEF Refill
  <2>2. got' = got \/ \E b \in Served(next) : got' = [got EXCEPT ![next] = b]
    BY Zenon DEF Refill
  <2>3. QED
    BY <2>1, <2>2 DEF IndexerInv, IndexerTypes, Served
<1>4. IndexerTypes'
  BY <1>1, <1>2, <1>3, Zenon DEF IndexerInv, IndexerTypes, Modes
<1>5. Dispatched' = Dispatched
  BY <1>1, Zenon DEF Dispatched
<1>6. mode = "run"
  BY Zenon DEF Refill
<1>7. RunInv'
  BY <1>1, <1>5, <1>6, Zenon DEF IndexerInv, RunInv
<1>8. CheckInv'
  BY <1>1, <1>2, <1>5, <1>6, Zenon DEF IndexerInv, CheckInv
<1>9. RollInv'
  BY <1>2, <1>6, Zenon DEF RollInv
<1>10. QED
  BY <1>1, <1>4, <1>7, <1>8, <1>9, StoreKept, Zenon DEF IndexerInv

===============================================================================
