----------------------------- MODULE ReorgIndexer -----------------------------
(***************************************************************************)
(* Indexing a chain that reorganises, over the life of several processes:  *)
(* resolveStartHeight (indexer.go), the run loop ProcessBlocks with its    *)
(* ordered parent-hash check, reorg episode, walk-back, rollback and       *)
(* restart (concurrent_processor.go), the rollback of stored blocks        *)
(* (reorg_roller.go), and crashes between any two of their steps.          *)
(*                                                                         *)
(* A block is its hash.  The chain is a tree of blocks and the node serves *)
(* the branch that ends in head.  What the goroutines and channels of one  *)
(* run do is the subject of BlockPipeline; here fetches finish in any      *)
(* order, stores finish in any order, and completions apply in height      *)
(* order.                                                                  *)
(***************************************************************************)
EXTENDS Integers, FiniteSets

CONSTANTS
  Blocks,       \* the block tree, ...
  Parent,       \* ... the parent of each block, NoBlock for the genesis, ...
  Ht,           \* ... and its height
  NoBlock,      \* no hash: the empty string of the code
  Failed,       \* the result of a fetch that failed
  StartHeight,  \* cfg.Indexer.StartHeight
  StartBuffer,  \* cfg.Indexer.StartBuffer
  Window,       \* p.workers * DefaultWorkersAhead
  Pool,         \* the items the store pool accepts
  MaxRollbacks, MaxHeightRollbacks, MaxRewalks, MaxGapRefills,
  Faults,       \* what may happen to the program: "stop", and failures of a
                \* "fetch", a "store", a "query" or header fetch of a rollback,
                \* and the "start" query for the highest stored block
  CrashModes,   \* the modes in which the process may crash
  MaxFlips,     \* bound: reorganisations of the chain
  MaxStarts,    \* bound: process starts
  MaxFails      \* bound: failures, other than of the start query

Heights   == {Ht[b] : b \in Blocks}
MaxHeight == CHOOSE h \in Heights : \A k \in Heights : k <= h

ASSUME IndexerAssumption ==
  /\ Parent \in [Blocks -> Blocks \cup {NoBlock}]
  /\ Ht \in [Blocks -> Nat]
  /\ \A b \in Blocks : IF Parent[b] = NoBlock THEN Ht[b] = 0
                                             ELSE Ht[Parent[b]] = Ht[b] - 1
  /\ \A b, c \in Blocks : Ht[b] = 0 /\ Ht[c] = 0 => b = c
  /\ NoBlock \notin Blocks /\ Failed \notin Blocks /\ Failed # NoBlock
  /\ StartHeight \in Nat /\ StartBuffer \in Nat
  /\ Window \in Nat /\ Pool \in Nat
  /\ MaxRollbacks \in Nat /\ MaxHeightRollbacks \in Nat
  /\ MaxRewalks \in Nat /\ MaxGapRefills \in Nat
  /\ Faults \subseteq {"stop", "fetch", "store", "query", "start"}
  /\ CrashModes \subseteq {"run", "walk", "rollback"}
  /\ MaxFlips \in Nat /\ MaxStarts \in Nat /\ MaxFails \in Nat

VARIABLES
  head,         \* the tip of the branch the node serves
  flips, starts, fails,
  docs,         \* blocks whose block document is visible in DefraDB
  kids,         \* blocks whose child documents are all visible
  gone,         \* blocks whose block document was soft-deleted
  mode,         \* "down", "run", "stopping" (context cancelled), "walk", "rollback"
  cfgStart,     \* configuredStart
  from,         \* runStartBlock
  next,         \* nextToCommit, lastCheckedNum + 1
  last,         \* lastCheckedHash; the seed at the first block of the run
  got,          \* the fetched results waiting in pending, by height
  st,           \* what the store pool did with each block of the run
  committed,    \* committedHashes
  epKind,       \* episode: "none", "wait", "confirmed" or "stale"
  epBlock,      \* the newest parked block, or the top of the stale heights
  epSucc,       \* the confirming successor
  rewalks, gapRefills,
  rolls,        \* episodeRollbacks
  heightRolls,  \* heightRollbacks
  fork,         \* the height the walk-back is at; rollbackPoint.forkPoint
  verified,     \* rollbackPoint.chainHashes
  rollAt        \* the highest verified height; then where RollbackBlocks is

envVars  == <<head, flips>>
dbVars   == <<docs, kids, gone>>
runVars  == <<cfgStart, from, next, last, got>>
poolVars == <<st, committed>>
epVars   == <<epKind, epBlock, epSucc, rewalks, gapRefills>>
rollVars == <<rolls, heightRolls>>
rbVars   == <<fork, verified, rollAt>>
vars == <<envVars, starts, fails, dbVars, mode, runVars, poolVars, epVars,
          rollVars, rbVars>>

Statuses == {"idle", "queued", "writing", "ok", "fail", "stale", "deleted",
             "applied"}

\* The branch that ends in b.
Branch[b \in Blocks] ==
  {b} \cup (IF Parent[b] = NoBlock THEN {} ELSE Branch[Parent[b]])

\* The block the node serves at a height.
Served(h) == {b \in Blocks : b \in Branch[head] /\ Ht[b] = h}

\* The visible block documents at a height.  GetStoredBlockHash returns the one
\* block, "" for none, and an error for several.
Stored(h) == {b \in docs : Ht[b] = h}

\* A failure, where the environment may cause one.
Fail(kind) ==
  /\ kind \in Faults
  /\ fails < MaxFails
  /\ fails' = fails + 1

NoResults == [h \in Heights |-> NoBlock]
NoRolls   == [h \in 0..MaxHeight + 1 |-> 0]

Init ==
  /\ head \in {b \in Blocks : Parent[b] = NoBlock}
  /\ flips = 0 /\ starts = 0 /\ fails = 0
  /\ docs = {} /\ kids = {} /\ gone = {}
  /\ mode = "down"
  /\ cfgStart = 0 /\ from = 0 /\ next = 0 /\ last = NoBlock /\ got = NoResults
  /\ st = [b \in Blocks |-> "idle"] /\ committed = {}
  /\ epKind = "none" /\ epBlock = NoBlock /\ epSucc = NoBlock
  /\ rewalks = 0 /\ gapRefills = 0
  /\ rolls = 0 /\ heightRolls = NoRolls
  /\ fork = 0 /\ verified = <<>> /\ rollAt = 0

-----------------------------------------------------------------------------
(* The chain.                                                              *)

Extend ==
  /\ \E b \in Blocks : Parent[b] = head /\ head' = b
  /\ UNCHANGED <<flips, starts, fails, dbVars, mode, runVars, poolVars, epVars,
                 rollVars, rbVars>>

\* The node switches to another branch.
Flip ==
  /\ flips < MaxFlips
  /\ flips' = flips + 1
  /\ \E b \in Blocks : head \notin Branch[b] /\ head' = b
  /\ UNCHANGED <<starts, fails, dbVars, mode, runVars, poolVars, epVars,
                 rollVars, rbVars>>

-----------------------------------------------------------------------------
(* Process start, restart of a run, and the ways a process ends.           *)

\* processBlocksOnce resets the state of a run; s is its seed hash.
BeginRun(f, s) ==
  /\ mode' = "run"
  /\ from' = f /\ next' = f /\ last' = s /\ got' = NoResults
  /\ st' = [b \in Blocks |-> "idle"] /\ committed' = {}
  /\ epKind' = "none" /\ epBlock' = NoBlock /\ epSucc' = NoBlock
  /\ rewalks' = 0 /\ gapRefills' = 0
  /\ fork' = 0 /\ verified' = <<>> /\ rollAt' = 0

\* What a process holds in memory is lost.
Down ==
  /\ mode' = "down"
  /\ cfgStart' = 0 /\ from' = 0 /\ next' = 0 /\ last' = NoBlock
  /\ got' = NoResults
  /\ st' = [b \in Blocks |-> "idle"] /\ committed' = {}
  /\ epKind' = "none" /\ epBlock' = NoBlock /\ epSucc' = NoBlock
  /\ rewalks' = 0 /\ gapRefills' = 0
  /\ rolls' = 0 /\ heightRolls' = NoRolls
  /\ fork' = 0 /\ verified' = <<>> /\ rollAt' = 0

\* GetHighestStoredBlockNumber; 0 stands for an empty store.
HighestStored ==
  {h \in Heights \cup {0} : (h = 0 \/ Stored(h) # {}) /\ \A b \in docs : Ht[b] <= h}

\* Mutant: resume at the highest stored block.
ResumeHeightsMutant ==
  {IF h > 0 THEN h ELSE StartHeight : h \in HighestStored}

\* resolveStartHeight: above the highest stored block, unless that is too far
\* behind the tip.  When nothing is stored, or the query fails, the configured
\* height or a height near the tip.
ResumeHeights ==
  LET nearTip == Ht[head] - StartBuffer
      resume(highest) ==
        IF Ht[head] - highest > StartBuffer THEN nearTip ELSE highest + 1
      fresh == IF StartHeight > 0 THEN StartHeight
               ELSE IF nearTip > 0 THEN nearTip ELSE 0
  IN  {resume(h) : h \in HighestStored \ {0}}
        \cup (IF 0 \in HighestStored \/ "start" \in Faults THEN {fresh} ELSE {})

\* resolveSeed: the committed history, else the stored block below f.
Seeds(f) ==
  LET history == {b \in committed : Ht[b] = f - 1}
  IN  IF history # {} THEN history
      ELSE IF Stored(f - 1) = {} THEN {NoBlock} ELSE Stored(f - 1)

\* StartIndexing up to the first run of ProcessBlocks.  Several visible blocks
\* at the seed height are an error, and the process ends again.
StartIndexing ==
  /\ mode = "down"
  /\ starts < MaxStarts
  /\ starts' = starts + 1
  /\ \E f \in ResumeHeights :
       IF Cardinality(Seeds(f)) = 1
         THEN \E s \in Seeds(f) : BeginRun(f, s) /\ cfgStart' = f /\ UNCHANGED rollVars
         ELSE UNCHANGED <<mode, runVars, poolVars, epVars, rollVars, rbVars>>
  /\ UNCHANGED <<envVars, fails, dbVars>>

\* StopIndexing cancels the run context.
Stop ==
  /\ "stop" \in Faults
  /\ mode \in {"run", "walk"}
  /\ mode' = "stopping"
  /\ UNCHANGED <<envVars, starts, fails, dbVars, runVars, poolVars, epVars,
                 rollVars, rbVars>>

\* The pool settled and ProcessBlocks returned.  A store that the cancellation
\* cut short leaves what it wrote.
Exit ==
  /\ mode = "stopping"
  /\ Down
  /\ UNCHANGED <<envVars, starts, fails, dbVars>>

Crash ==
  /\ mode \in CrashModes
  /\ Down
  /\ UNCHANGED <<envVars, starts, fails, dbVars>>

-----------------------------------------------------------------------------
(* Fetching, the ordered check and the episode.                            *)

Fetch(h) ==
  /\ mode = "run"
  /\ h >= next /\ h < next + Window
  /\ got[h] = NoBlock
  /\ \/ /\ \E b \in Served(h) : got' = [got EXCEPT ![h] = b]
        /\ UNCHANGED fails
     \/ /\ Fail("fetch")
        /\ got' = [got EXCEPT ![h] = Failed]
  /\ UNCHANGED <<envVars, starts, dbVars, mode, cfgStart, from, next, last,
                 poolVars, epVars, rollVars, rbVars>>

\* popPending, when nothing waits for the pool.
Popped(x) ==
  /\ mode = "run"
  /\ next \in Heights
  /\ got[next] = x
  /\ Cardinality({b \in Blocks : st[b] \in {"queued", "writing"}}) < Pool
  /\ next' = next + 1
  /\ got' = [got EXCEPT ![next] = NoBlock]
  /\ UNCHANGED <<envVars, starts, dbVars, cfgStart, from, committed, rollVars,
                 rbVars>>

\* A failed fetch is never stored: the check chain has no hash there.
PopHole ==
  /\ Popped(Failed)
  /\ epKind = "none"
  /\ last' = NoBlock
  /\ UNCHANGED <<fails, mode, st, epVars>>

\* Mutant: no seed check.
MismatchSeedMutant(b) ==
  next # from /\ last # NoBlock /\ Parent[b] # last

\* Mutant: the seed check only.
MismatchMutant(b) ==
  next = from /\ last # NoBlock /\ Parent[b] # last

\* pendingContinuitySignal and, after a hole, poppedGapSignal.
Mismatch(b) ==
  \/ last # NoBlock /\ Parent[b] # last
  \/ /\ last = NoBlock /\ next # from
     /\ \E s \in Blocks : Stored(next - 1) = {s} /\ Parent[b] # s

\* The checks passed, or the query of the gap check failed.
PopChecked(b) ==
  /\ Popped(b)
  /\ epKind = "none"
  /\ \/ ~Mismatch(b) /\ UNCHANGED fails
     \/ last = NoBlock /\ next # from /\ Fail("query")
  /\ last' = b
  /\ st' = [st EXCEPT ![b] = "queued"]
  /\ UNCHANGED <<mode, epVars>>

\* startReorgEpisode.
PopMismatch(b) ==
  /\ Popped(b)
  /\ epKind = "none"
  /\ Mismatch(b)
  /\ epKind' = "wait" /\ epBlock' = b
  /\ UNCHANGED <<fails, mode, last, st, epSucc, rewalks, gapRefills>>

\* resolveEpisodeItem: the chained successor confirms the new chain, ...
PopConfirm(b) ==
  /\ Popped(b)
  /\ epKind = "wait"
  /\ Parent[b] = epBlock
  /\ epKind' = "confirmed" /\ epSucc' = b
  /\ UNCHANGED <<fails, mode, last, st, epBlock, rewalks, gapRefills>>

\* ... another block re-anchors the wait, up to a limit that is fatal, ...
PopReanchor(b) ==
  /\ Popped(b)
  /\ epKind = "wait"
  /\ Parent[b] # epBlock
  /\ IF rewalks >= MaxRewalks
       THEN mode' = "stopping" /\ epKind' = "none" /\ UNCHANGED <<epBlock, rewalks>>
       ELSE /\ rewalks' = rewalks + 1 /\ epBlock' = b
            /\ UNCHANGED <<mode, epKind>>
  /\ UNCHANGED <<fails, last, st, epSucc, gapRefills>>

\* ... and a failed result is fetched again by refillEpisodeGap.
Refill ==
  /\ mode = "run"
  /\ epKind = "wait"
  /\ next \in Heights /\ got[next] = Failed
  /\ \/ /\ gapRefills < MaxGapRefills
        /\ gapRefills' = gapRefills + 1
        /\ \E b \in Served(next) : got' = [got EXCEPT ![next] = b]
        /\ UNCHANGED <<fails, mode, epKind>>
     \/ /\ IF gapRefills >= MaxGapRefills THEN UNCHANGED fails ELSE Fail("fetch")
        /\ mode' = "stopping" /\ epKind' = "none"
        /\ UNCHANGED <<got, gapRefills>>
  /\ UNCHANGED <<envVars, starts, dbVars, cfgStart, from, next, last, poolVars,
                 epBlock, epSucc, rewalks, rollVars, rbVars>>

Pop == \/ PopHole
       \/ \E b \in Blocks : \/ PopChecked(b) \/ PopMismatch(b)
                            \/ PopConfirm(b) \/ PopReanchor(b)

-----------------------------------------------------------------------------
(* The store pool.                                                         *)

StoreStep(b, status) ==
  /\ mode \in {"run", "stopping"}
  /\ st' = [st EXCEPT ![b] = status]
  /\ UNCHANGED <<envVars, starts, mode, runVars, committed, epVars, rollVars,
                 rbVars>>

\* Store writes the block document in a transaction of its own.  A document
\* that was soft-deleted is refused; one that is visible is already stored.
StoreDoc(b) ==
  /\ st[b] = "queued"
  /\ \/ b \in gone /\ StoreStep(b, "deleted") /\ UNCHANGED docs
     \/ b \in docs /\ StoreStep(b, "ok") /\ UNCHANGED docs
     \/ b \notin gone \cup docs /\ StoreStep(b, "writing") /\ docs' = docs \cup {b}
  /\ UNCHANGED <<fails, kids, gone>>

\* Then the child documents.
StoreKids(b) ==
  /\ st[b] = "writing"
  /\ StoreStep(b, "ok")
  /\ kids' = kids \cup {b}
  /\ UNCHANGED <<fails, docs, gone>>

\* A store fails before or after the block document is written, and
\* detectStaleOrphan may find another block at its height.  A child batch that
\* keeps conflicting is retried as a whole, finds the block document and reports
\* success.
StoreFail(b) ==
  /\ st[b] \in {"queued", "writing"}
  /\ Fail("store")
  /\ \/ StoreStep(b, "fail")
     \/ (\E s \in docs \ {b} : Stored(Ht[b]) = {s}) /\ StoreStep(b, "stale")
     \/ st[b] = "writing" /\ StoreStep(b, "ok")
  /\ UNCHANGED <<docs, kids, gone>>

Store == \E b \in Blocks : StoreDoc(b) \/ StoreKids(b) \/ StoreFail(b)

-----------------------------------------------------------------------------
(* The ordered apply.                                                      *)

Unapplied == {b \in Blocks : st[b] \notin {"idle", "applied"}}

\* applyOneCompletion, in height order.
Applied(b) ==
  /\ mode = "run"
  /\ st[b] \in {"ok", "fail", "stale", "deleted"}
  /\ \A c \in Unapplied : Ht[b] <= Ht[c]
  /\ st' = [st EXCEPT ![b] = "applied"]
  /\ UNCHANGED <<envVars, starts, fails, dbVars, runVars, epSucc, rewalks,
                 gapRefills, rbVars>>

\* applyCommit: record the hash, trim the history, reset the guards.
ApplyCommit(b) ==
  /\ Applied(b)
  /\ st[b] = "ok" /\ epKind # "stale"
  /\ committed' = {c \in committed \cup {b} : Ht[c] >= next - 2}
  /\ rolls' = 0 /\ heightRolls' = NoRolls
  /\ UNCHANGED <<mode, epKind, epBlock>>

ApplySkip(b) ==
  /\ Applied(b)
  /\ \/ st[b] = "ok" /\ epKind = "stale"
     \/ st[b] = "fail"
     \/ st[b] = "stale" /\ epKind # "none"
  /\ UNCHANGED <<mode, committed, epKind, epBlock, rollVars>>

\* openStaleEpisode, or a higher stale height joins the open one.  (One in the
\* batch that opened the episode is skipped above.)
ApplyStale(b) ==
  /\ Applied(b)
  /\ st[b] = "stale"
  /\ epKind = "none" \/ (epKind = "stale" /\ Ht[b] > Ht[epBlock])
  /\ epKind' = "stale" /\ epBlock' = b
  /\ UNCHANGED <<mode, committed, rollVars>>

\* failRun.
ApplyDeleted(b) ==
  /\ Applied(b)
  /\ st[b] = "deleted"
  /\ mode' = "stopping"
  /\ UNCHANGED <<committed, epKind, epBlock, rollVars>>

Apply == \E b \in Blocks : \/ ApplyCommit(b) \/ ApplySkip(b)
                          \/ ApplyStale(b) \/ ApplyDeleted(b)

-----------------------------------------------------------------------------
(* finalizeEpisode: once the stores drained, the walk-back.                *)

\* resolveForkPoint starts at the top stale block, or below the parked block.
\* The parked block and its successor are verified too.  The upper bound of the
\* rollback, dispatchedUpTo, is at or above every verified height.
WalkBegin ==
  /\ mode = "run"
  /\ epKind \in {"confirmed", "stale"}
  /\ Unapplied = {}
  /\ mode' = "walk"
  /\ IF epKind = "stale"
       THEN /\ fork' = Ht[epBlock] /\ rollAt' = Ht[epBlock]
            /\ verified' = [h \in {Ht[epBlock]} |-> epBlock]
       ELSE /\ fork' = Ht[epBlock] - 1 /\ rollAt' = Ht[epSucc]
            /\ verified' = [h \in Ht[epBlock] - 1 .. Ht[epSucc] |->
                              IF h = Ht[epSucc] THEN epSucc
                              ELSE IF h = Ht[epBlock] THEN epBlock ELSE Parent[epBlock]]
  /\ epKind' = "none"
  /\ UNCHANGED <<envVars, starts, fails, dbVars, runVars, poolVars, epBlock,
                 epSucc, rewalks, gapRefills, rollVars>>

Walking ==
  /\ mode = "walk"
  /\ UNCHANGED <<envVars, starts, dbVars, runVars, poolVars, epVars, rollAt>>

\* The descent stops at the common ancestor, or where nothing is stored below
\* the start of indexing.
Stops == \/ Stored(fork) = {verified[fork]}
         \/ Stored(fork) = {} /\ fork < cfgStart

\* Mutant: the height descends and the hash stays.
WalkStepMutant ==
  /\ Walking
  /\ Cardinality(Stored(fork)) <= 1 /\ ~Stops
  /\ Parent[verified[fork]] # NoBlock
  /\ fork' = fork - 1
  /\ verified' = [h \in fork - 1 .. rollAt |->
                    IF h = fork - 1 THEN verified[fork] ELSE verified[h]]
  /\ UNCHANGED <<fails, mode, rollVars>>

\* Otherwise it follows the parent hash of the header.
WalkStep ==
  /\ Walking
  /\ Cardinality(Stored(fork)) <= 1 /\ ~Stops
  /\ Parent[verified[fork]] # NoBlock
  /\ fork' = fork - 1
  /\ verified' = [h \in fork - 1 .. rollAt |->
                    IF h = fork - 1 THEN Parent[verified[fork]] ELSE verified[h]]
  /\ UNCHANGED <<fails, mode, rollVars>>

\* The rollback point, and the guards of ProcessBlocks.
WalkFound ==
  /\ Walking
  /\ Stops
  /\ rolls' = rolls + 1
  /\ heightRolls' = [heightRolls EXCEPT ![fork + 1] = heightRolls[fork + 1] + 1]
  /\ mode' = IF rolls' > MaxRollbacks \/ heightRolls'[fork + 1] > MaxHeightRollbacks
               THEN "stopping" ELSE "rollback"
  /\ UNCHANGED <<fails, fork, verified>>

\* Several visible blocks at the height, no common ancestor above genesis, or a
\* query or a header fetch that fails: fatal.
WalkFailed ==
  /\ Walking
  /\ \/ Cardinality(Stored(fork)) > 1 /\ UNCHANGED fails
     \/ ~Stops /\ Parent[verified[fork]] = NoBlock /\ UNCHANGED fails
     \/ Fail("query")
  /\ mode' = "stopping"
  /\ UNCHANGED <<rollVars, fork, verified>>

Walk == WalkBegin \/ WalkStep \/ WalkFound \/ WalkFailed

-----------------------------------------------------------------------------
(* RollbackBlocks, in descending height order, and the restart above the   *)
(* fork.                                                                   *)

Rolling ==
  /\ mode = "rollback"
  /\ UNCHANGED <<envVars, starts>>

\* Nothing is stored at the height, or what is stored is the verified block.
RollbackKeep ==
  /\ Rolling
  /\ rollAt > fork
  /\ Stored(rollAt) \in {{}, {verified[rollAt]}}
  /\ rollAt' = rollAt - 1
  /\ UNCHANGED <<fails, dbVars, mode, runVars, poolVars, epVars, rollVars, fork,
                 verified>>

\* Mutant: the heights in any order, as if iterating over the map of hashes.
OrphanMutant(o) ==
  \E h \in fork + 1 .. rollAt : Stored(h) = {o} /\ o # verified[h]

\* Mutant: whatever is stored at a verified height.
OrphanUnverifiedMutant(o) ==
  rollAt > fork /\ Stored(rollAt) = {o}

\* o is the orphan at the height: stored, and not the verified block.
Orphan(o) ==
  rollAt > fork /\ Stored(rollAt) = {o} /\ o # verified[rollAt]

\* Its children are deleted first, ...
RollbackKids ==
  /\ Rolling
  /\ \E o \in kids : Orphan(o) /\ kids' = kids \ {o}
  /\ UNCHANGED <<fails, docs, gone, mode, runVars, poolVars, epVars, rollVars,
                 rbVars>>

\* ... and the block document last.
RollbackDoc ==
  /\ Rolling
  /\ \E o \in docs \ kids : Orphan(o) /\ docs' = docs \ {o} /\ gone' = gone \cup {o}
  /\ rollAt' = rollAt - 1
  /\ UNCHANGED <<fails, kids, mode, runVars, poolVars, epVars, rollVars, fork,
                 verified>>

\* A query or a delete fails, or several blocks share the height.
RollbackFail ==
  /\ Rolling
  /\ \/ Cardinality(Stored(rollAt)) > 1 /\ UNCHANGED fails
     \/ Fail("query")
  /\ Down
  /\ UNCHANGED dbVars

\* Mutant: restart at the fork point.
RestartMutant ==
  /\ Rolling
  /\ rollAt = fork
  /\ Cardinality(Seeds(fork)) = 1
  /\ \E s \in Seeds(fork) : BeginRun(fork, s)
  /\ UNCHANGED <<fails, dbVars, cfgStart, rollVars>>

\* Restart above the fork point.
Restart ==
  /\ Rolling
  /\ rollAt = fork
  /\ Cardinality(Seeds(fork + 1)) = 1
  /\ \E s \in Seeds(fork + 1) : BeginRun(fork + 1, s)
  /\ UNCHANGED <<fails, dbVars, cfgStart, rollVars>>

Rollback == RollbackKeep \/ RollbackKids \/ RollbackDoc \/ RollbackFail \/ Restart

-----------------------------------------------------------------------------

Next ==
  \/ Extend \/ Flip \/ StartIndexing \/ Stop \/ Exit \/ Crash
  \/ \E h \in Heights : Fetch(h)
  \/ Pop \/ Refill \/ Store \/ Apply \/ Walk \/ Rollback

Spec == Init /\ [][Next]_vars

\* The goroutines of a run make progress, RPC calls and queries return, and the
\* supervisor starts the process again.
Fairness ==
  /\ WF_vars(StartIndexing) /\ WF_vars(Exit)
  /\ \A h \in Heights : WF_vars(Fetch(h))
  /\ WF_vars(Pop \/ Refill) /\ WF_vars(Store) /\ WF_vars(Apply)
  /\ WF_vars(Walk) /\ WF_vars(Rollback)

FairSpec == Spec /\ Fairness

-----------------------------------------------------------------------------
(* Properties.                                                             *)

TypeOK ==
  /\ head \in Blocks
  /\ flips \in 0 .. MaxFlips /\ starts \in 0 .. MaxStarts /\ fails \in 0 .. MaxFails
  /\ docs \subseteq Blocks /\ kids \subseteq docs /\ gone \subseteq Blocks \ docs
  /\ mode \in {"down", "run", "stopping", "walk", "rollback"}
  /\ cfgStart \in Nat /\ from \in Nat /\ next \in Nat
  /\ last \in Blocks \cup {NoBlock}
  /\ got \in [Heights -> Blocks \cup {NoBlock, Failed}]
  /\ st \in [Blocks -> Statuses]
  /\ committed \subseteq Blocks
  /\ epKind \in {"none", "wait", "confirmed", "stale"}
  /\ epBlock \in Blocks \cup {NoBlock} /\ epSucc \in Blocks \cup {NoBlock}
  /\ rewalks \in 0 .. MaxRewalks /\ gapRefills \in 0 .. MaxGapRefills
  /\ rolls \in 0 .. MaxRollbacks + 1
  /\ heightRolls \in [0 .. MaxHeight + 1 -> 0 .. MaxHeightRollbacks + 1]
  /\ fork \in Nat /\ rollAt \in Nat
  /\ \A h \in DOMAIN verified : verified[h] \in Blocks

\* GetStoredBlockHash calls several visible blocks at a height an inconsistent
\* store.  Restarts, crashes, rollbacks that end half way and reorganisations
\* never lead to one, as long as the query for the highest block is answered.
OneVisiblePerHeight ==
  \A b, c \in docs : Ht[b] = Ht[c] => b = c

\* Visible blocks at adjacent heights are parent and child, whatever run stored
\* them: the seed check, the ordered check and the gap check leave no seam.
LinkedStore ==
  \A b, c \in docs : Ht[c] = Ht[b] + 1 => Parent[c] = b

\* A run starts above everything visible: after a rollback by RollbackBlocks,
\* complete or resumed after a crash, no orphan is left for the run to meet.
\* (To resolveStartHeight a store with nothing but the genesis block is empty.)
CleanFront ==
  mode = "run" => \A b \in docs : Ht[b] >= from => st[b] # "idle" \/ Ht[b] = 0

\* RollbackBlocks deletes proven orphans only: never a block of the chain that
\* the walk-back and the confirmation wait verified.
SparesTheChain ==
  \A b \in docs \ docs', h \in DOMAIN verified : b \notin Branch[verified[h]]
RollbackSparesTheChain == [][SparesTheChain]_vars

\* Orphans are deleted from the top down, so a rollback that is interrupted and
\* resumed leaves no hole at the fork: what is stored begins at the configured
\* height and has no gap up to the start of a run.
NoHoleBelowFront ==
  mode = "run" => \A h \in StartHeight .. from - 1 : Stored(h) # {}

\* detectStaleOrphan says of the height of a failed store that the restart will
\* re-fill it: no run starts above an empty height.
HolesAreRefilled == NoHoleBelowFront

\* applyOneCompletion stops the run when a soft-deleted block is refused, so that
\* its height is not skipped silently: no run starts above it.
RefusedHeightIsNotSkipped ==
  mode = "run" => \A b \in gone \cap Branch[head] : Ht[b] >= from \/ Stored(Ht[b]) # {}

\* RollbackBlocks calls a rollback that fails midway safe: every block of the
\* served chain below the start of a run has its child documents.
BlocksAreComplete ==
  mode = "run" => \A b \in docs \cap Branch[head] : Ht[b] < from => b \in kids

\* Every orphan is rolled back once the chain outgrows it: by the results that
\* were fetched ahead on the old branch, and the two blocks that detect and
\* confirm the reorganisation.  A process that gave up is excepted.
Orphans == docs \ Branch[head]
Reconciled ==
  \/ mode = "down"
  \/ Orphans = {}
  \/ \E o \in Orphans : Ht[head] < Ht[o] + Window + 2
OrphansAreRolledBack == <>[]Reconciled

=============================================================================
