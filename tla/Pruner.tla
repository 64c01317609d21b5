------------------------------- MODULE Pruner -------------------------------
(***************************************************************************)
(* The pruner and its queue, src/pkg/pruner, beside the indexer that       *)
(* stores, tracks and rolls back blocks, over several processes.           *)
(*                                                                         *)
(* A document is its height, its version (a height is stored again after a *)
(* rollback) and its collection.  Queries see visible documents only; a    *)
(* rolled back document is soft-deleted, and only a purge by docID removes *)
(* it from the disk.                                                       *)
(***************************************************************************)
EXTENDS Integers, FiniteSets, Sequences, FiniteSetsExt

CONSTANTS
  MaxBlocks,         \* cfg.MaxBlocks
  MaxBlocksPerCycle, \* cfg.MaxBlocksPerCycle, 0 for no limit
  MaxHeight,         \* bound: the highest block indexed
  MaxRolls,          \* bound: how many blocks are rolled back
  MaxProcs,          \* bound: processes
  MaxFails,          \* bound: failures
  Faults             \* of which kinds: "query", "purge", "save", "load", "store", "late", "crash"

ASSUME PrunerAssumption ==
  /\ MaxBlocks \in Nat \ {0} /\ MaxBlocksPerCycle \in Nat
  /\ MaxHeight \in Nat /\ MaxRolls \in Nat /\ MaxProcs \in Nat /\ MaxFails \in Nat

VARIABLES
  db,      \* visible documents
  soft,    \* soft-deleted documents
  queue,   \* the entries of the IndexerQueue
  file,    \* the entries of prune_queue.gob; {} when there is none
  next,    \* the next height the indexer stores
  storing, \* the entry of a block that is stored and not tracked yet
  rolls,   \* blocks rolled back so far
  pc,      \* where the pruner's goroutine is
  cycle,   \* the cycle it runs: "startup" or "tick"
  lo, hi,  \* the block range it has read
  todo,    \* the documents it is about to purge
  col,     \* the collection it purges next
  failed,  \* the current cycle has met an error
  procs, fails,
  lapse    \* history: a document may have lost its record

dbVars    == <<db, soft>>
qVars     == <<queue, file>>
ixVars    == <<next, storing, rolls>>
cycleVars == <<pc, cycle, lo, hi, todo, col, failed>>
failVars  == <<fails, lapse>>
vars == <<dbVars, qVars, ixVars, cycleVars, procs, failVars>>

Heights == 1 .. MaxHeight

\* purgeByDocIDsByCollection takes the collections in sorted order: Block,
\* BlockSignature, and Transaction for the other ones.
Cols == <<"block", "sig", "tx">>

Doc(h, v, c) == [h |-> h, v |-> v, c |-> c]
Docs         == {Doc(h, v, Cols[c]) : h \in Heights, v \in 0 .. MaxRolls, c \in 1 .. 3}
Entry        == [h : Heights, docs : SUBSET Docs]
NoEntry      == [h |-> 0, docs |-> {}]

VisibleBlocks == {d.h : d \in {e \in db : e.c = "block"}}
Highest       == IF VisibleBlocks = {} THEN 0 ELSE Max(VisibleBlocks)

Init ==
  /\ db = {} /\ soft = {} /\ queue = {} /\ file = {}
  /\ next = 1 /\ storing = NoEntry /\ rolls = 0
  /\ pc = "down" /\ cycle = "startup" /\ lo = 0 /\ hi = 0 /\ todo = {} /\ col = 1
  /\ failed = FALSE /\ procs = 0 /\ fails = 0 /\ lapse = FALSE

\* A step fails.  Any failure but that of a query or of a store may leave a
\* document on disk that nothing records.
MayFail(kind) ==
  /\ kind \in Faults /\ fails < MaxFails
  /\ fails' = fails + 1
  /\ lapse' = (lapse \/ kind \notin {"query", "store"})

-----------------------------------------------------------------------------
(* The indexer                                                             *)

\* Store writes a block, its children unless they fail, and its signature.
Store ==
  /\ pc # "down" /\ storing = NoEntry /\ next <= MaxHeight
  /\ LET doc(c) == Doc(next, rolls, c)
     IN  \/ storing' = [h |-> next, docs |-> {doc("block"), doc("tx"), doc("sig")}]
            /\ UNCHANGED failVars
         \/ storing' = [h |-> next, docs |-> {doc("block")}] /\ MayFail("store")
  /\ db' = db \cup storing'.docs /\ next' = next + 1
  /\ UNCHANGED <<soft, qVars, rolls, cycleVars, procs>>

\* TrackBlock at the end of Store: an entry with every docID of the block.
TrackBlockDocIDs ==
  /\ storing # NoEntry
  /\ queue' = queue \cup {storing} /\ storing' = NoEntry
  /\ UNCHANGED <<dbVars, file, next, rolls, cycleVars, procs, failVars>>

\* A store that fails before its first commit leaves a hole.
Hole ==
  /\ pc # "down" /\ storing = NoEntry /\ next <= MaxHeight
  /\ MayFail("store") /\ next' = next + 1
  /\ UNCHANGED <<dbVars, qVars, storing, rolls, cycleVars, procs>>

\* SignExisting adds a signature whose docID nobody tracks.
LateSign ==
  /\ pc # "down" /\ MayFail("late")
  /\ \E d \in db : /\ d.c = "block"
                   /\ Doc(d.h, d.v, "sig") \notin db
                   /\ db' = db \cup {Doc(d.h, d.v, "sig")}
  /\ UNCHANGED <<soft, qVars, ixVars, cycleVars, procs>>

\* RollbackBlocks soft-deletes the highest block.  Its entry stays in the queue.
Rollback ==
  /\ pc # "down" /\ storing = NoEntry /\ rolls < MaxRolls /\ VisibleBlocks # {}
  /\ db' = {d \in db : d.h # Highest} /\ soft' = soft \cup (db \ db')
  /\ next' = Highest /\ rolls' = rolls + 1
  /\ UNCHANGED <<qVars, storing, cycleVars, procs, failVars>>

-----------------------------------------------------------------------------
(* Process start and stop                                                  *)

\* initServices loads the queue (LoadFromFile; a file that cannot be read counts
\* as empty) and starts the loop, which begins with startupCleanup; the indexer
\* resumes above the highest block.
Start ==
  /\ pc = "down" /\ procs < MaxProcs
  /\ procs' = procs + 1
  /\ \/ queue' = file /\ UNCHANGED failVars
     \/ queue' = {} /\ MayFail("load")
  /\ next' = IF Highest = 0 THEN next ELSE Highest + 1
  /\ pc' = "range" /\ cycle' = "startup" /\ failed' = FALSE /\ lo' = 0 /\ hi' = 0
  /\ UNCHANGED <<dbVars, file, storing, rolls, todo, col>>

Down == pc' = "down" /\ queue' = {} /\ storing' = NoEntry /\ todo' = {}

\* Mutant: Stop does not save the queue.
StopMutant ==
  /\ pc = "idle" /\ storing = NoEntry /\ procs < MaxProcs /\ Down
  /\ UNCHANGED <<dbVars, file, next, rolls, cycle, lo, hi, col, failed, procs, failVars>>

\* Stop waits for the cycle to end and saves; stores have ended before.
Stop ==
  /\ pc = "idle" /\ storing = NoEntry /\ procs < MaxProcs /\ Down
  /\ \/ file' = queue /\ UNCHANGED failVars
     \/ file' = file /\ MayFail("save")
  /\ UNCHANGED <<dbVars, next, rolls, cycle, lo, hi, col, failed, procs>>

Crash ==
  /\ pc # "down" /\ procs < MaxProcs /\ MayFail("crash") /\ Down
  /\ UNCHANGED <<dbVars, file, next, rolls, cycle, lo, hi, col, failed, procs>>

-----------------------------------------------------------------------------
(* The prune loop                                                          *)

\* timedCycle returns: a tick checkpoints the queue, startup does not.
EndCycle == pc' = IF cycle = "tick" THEN "save" ELSE "idle"

\* An error ends the cycle.
CycleFails ==
  /\ pc \in {"range", "high", "list"}
  /\ MayFail("query") /\ failed' = TRUE /\ EndCycle
  /\ UNCHANGED <<dbVars, qVars, ixVars, cycle, lo, hi, todo, col, procs>>

\* getBlockRange: the lowest block, or none.
GetLowest ==
  /\ pc = "range"
  /\ IF VisibleBlocks = {}
     THEN EndCycle /\ UNCHANGED lo
     ELSE pc' = "high" /\ lo' = Min(VisibleBlocks)
  /\ UNCHANGED <<dbVars, qVars, ixVars, cycle, hi, todo, col, failed, procs, failVars>>

\* getBlockRange: the highest block.  Within the limit nothing is pruned.
GetHighest ==
  /\ pc = "high"
  /\ hi' = Highest
  /\ IF Highest - lo + 1 <= MaxBlocks THEN EndCycle ELSE pc' = "list"
  /\ UNCHANGED <<dbVars, qVars, ixVars, cycle, lo, todo, col, failed, procs, failVars>>

\* Mutant: the cutoff is one block too high.
CutoffMutant == hi - MaxBlocks + 1

\* lowest + (count - MaxBlocks) - 1, in startupCleanup and filterBasedPrune.
Cutoff == lo + (hi - lo + 1 - MaxBlocks) - 1

\* pruneBlockRange: GetDocIDsByBlockRange returns the visible documents.
ListRange ==
  /\ pc = "list"
  /\ todo' = {d \in db : d.h \in lo .. Cutoff}
  /\ pc' = "purge" /\ col' = 1
  /\ UNCHANGED <<dbVars, qVars, ixVars, cycle, lo, hi, failed, procs, failVars>>

\* purgeByDocIDs removes the documents of one collection, visible or not.  A
\* failure is remembered and the other collections go on.
Purge ==
  /\ pc = "purge" /\ col <= Len(Cols)
  /\ LET ids == {d \in todo : d.c = Cols[col]}
     IN  \/ /\ db' = db \ ids /\ soft' = soft \ ids
            /\ todo' = todo \ ids /\ UNCHANGED <<failed, failVars>>
         \/ /\ ids # {} /\ MayFail("purge") /\ failed' = TRUE
            /\ todo' = todo \ ids /\ UNCHANGED dbVars
  /\ col' = col + 1
  /\ UNCHANGED <<qVars, ixVars, pc, cycle, lo, hi, procs>>

PurgeEnds ==
  /\ pc = "purge" /\ col > Len(Cols)
  /\ EndCycle
  /\ UNCHANGED <<dbVars, qVars, ixVars, cycle, lo, hi, todo, col, failed, procs, failVars>>

\* How many entries a cycle keeps.
Keep ==
  LET len == Cardinality(queue)
  IN  IF MaxBlocksPerCycle > 0 /\ len - MaxBlocks > MaxBlocksPerCycle
      THEN len - MaxBlocksPerCycle ELSE MaxBlocks

\* Drain sorts by block number, not stably: of two entries of a height either
\* may come first.
Drain(keep) ==
  {d \in kSubset(Cardinality(queue) - keep, queue) :
     \A e \in d, k \in queue \ d : e.h <= k.h}

\* Mutant: an underfilled queue is not backed by a filter-based prune.
RunPruneMutant ==
  /\ pc = "idle" /\ cycle' = "tick" /\ failed' = FALSE /\ col' = 1
  /\ IF Cardinality(queue) <= MaxBlocks
     THEN pc' = "save" /\ UNCHANGED <<queue, todo>>
     ELSE /\ pc' = "purge"
          /\ \E d \in Drain(Keep) : queue' = queue \ d /\ todo' = UNION {e.docs : e \in d}
  /\ UNCHANGED <<dbVars, file, ixVars, lo, hi, procs, failVars>>

\* The ticker fires: runIndexerQueuePrune drains a queue that is too long, and
\* prunes by block range otherwise.
RunPrune ==
  /\ pc = "idle" /\ cycle' = "tick" /\ failed' = FALSE /\ col' = 1
  /\ IF Cardinality(queue) <= MaxBlocks
     THEN pc' = "range" /\ UNCHANGED <<queue, todo>>
     ELSE /\ pc' = "purge"
          /\ \E d \in Drain(Keep) : queue' = queue \ d /\ todo' = UNION {e.docs : e \in d}
  /\ UNCHANGED <<dbVars, file, ixVars, lo, hi, procs, failVars>>

\* The deferred Save of the cycle: a temporary file is renamed, an empty queue
\* removes the file.
Save ==
  /\ pc = "save" /\ pc' = "idle"
  /\ \/ file' = queue /\ UNCHANGED failVars
     \/ file' = file /\ MayFail("save")
  /\ UNCHANGED <<dbVars, queue, ixVars, cycle, lo, hi, todo, col, failed, procs>>

IndexerNext == Store \/ TrackBlockDocIDs \/ Hole \/ LateSign \/ Rollback
CycleNext   == \/ CycleFails \/ GetLowest \/ GetHighest \/ ListRange \/ Purge
               \/ PurgeEnds \/ RunPrune \/ Save

Next == IndexerNext \/ Start \/ Stop \/ Crash \/ CycleNext

Spec == Init /\ [][Next]_vars

\* Goroutines run and DefraDB calls return; a stopped process is started again.
FairSpec == Spec /\ WF_vars(CycleNext) /\ WF_vars(Start) /\ WF_vars(TrackBlockDocIDs)

-----------------------------------------------------------------------------
(* Properties                                                              *)

\* The variables have their types.
TypeOK ==
  /\ db \subseteq Docs /\ soft \subseteq Docs
  /\ queue \subseteq Entry /\ file \subseteq Entry
  /\ next \in 1 .. MaxHeight + 1 /\ storing \in Entry \cup {NoEntry}
  /\ rolls \in 0 .. MaxRolls
  /\ pc \in {"down", "idle", "range", "high", "list", "purge", "save"}
  /\ cycle \in {"startup", "tick"} /\ lo \in 0 .. MaxHeight /\ hi \in 0 .. MaxHeight
  /\ todo \subseteq Docs /\ col \in 1 .. 4 /\ failed \in BOOLEAN
  /\ procs \in 0 .. MaxProcs /\ fails \in 0 .. MaxFails /\ lapse \in BOOLEAN

\* "Number of blocks to retain" (config.go:134): until a block is rolled back,
\* whose entry then counts among the ones the queue keeps, a purge never removes
\* a visible block that is among the MaxBlocks highest heights on disk, whether
\* its docID came from the queue, from the file of an earlier process or from a
\* query.
OnlyOldGo ==
  \A d \in db \ db' :
    d.c = "block" /\ d \notin soft' =>
      \E e \in db \cup soft : e.c = "block" /\ d.h <= e.h - MaxBlocks
PurgesOnlyOld == [][rolls = 0 => OnlyOldGo]_vars

\* "The queue is the only record that a document is prunable": as long as no
\* process is killed, no purge, save or load fails and no signature comes late,
\* every document on disk, soft-deleted or visible, is in the queue, the file it
\* is saved to, or the purge under way.
Entries == IF pc = "down" THEN file ELSE queue
PresentIsQueued ==
  ~lapse => db \cup soft \subseteq todo \cup UNION {e.docs : e \in Entries \cup {storing}}

\* Whatever fails, once the indexer rests the blocks on disk span at most
\* MaxBlocks heights for good (the queue and the filter-based fallback together).
Retained == VisibleBlocks # {} => Highest - Min(VisibleBlocks) + 1 <= MaxBlocks
RetentionConverges == <>[]Retained

\* "any orphan documents are cleaned by the next prune run's startupCleanup": a
\* startup cleanup without errors leaves no visible document below the
\* MaxBlocks heights up to the highest block it read.
OrphansCleaned ==
  pc = "idle" /\ cycle = "startup" /\ ~failed => \A d \in db : d.h > hi - MaxBlocks
=============================================================================
