---------------------------- MODULE BlockPipeline ----------------------------
(***************************************************************************)
(* One run of the concurrent block processor, processBlocksOnce in         *)
(* src/pkg/indexer/concurrent_processor.go: the dispatch loop, the fetch   *)
(* workers, the single collector goroutine, the bounded store pool, the    *)
(* channels between them, the in-flight WaitGroup and the shutdown         *)
(* sequence.                                                               *)
(*                                                                         *)
(* The module keeps the control and drops the chain data: whether a popped *)
(* block passes the parent-hash check, whether a store fails and whether   *)
(* its height is found stale are nondeterministic here (ReorgIndexer       *)
(* decides them from hashes).  A block is its height.                      *)
(***************************************************************************)
EXTENDS Integers, Sequences, FiniteSets

CONSTANTS
  Fetchers,     \* the fetch workers
  Storers,      \* the workers of the store pool, as many: p.workers of each
  Ahead,        \* DefaultWorkersAhead
  Start,        \* startBlock of the run
  MaxHeight,    \* bound: the highest block the chain produces
  MaxRewalks,   \* maxRewalksPerEpisode
  MaxGapRefills \* maxGapRefillsPerWait

ASSUME PipelineAssumption ==
  /\ IsFiniteSet(Fetchers) /\ Fetchers # {}
  /\ IsFiniteSet(Storers) /\ Cardinality(Storers) = Cardinality(Fetchers)
  /\ Ahead \in Nat \ {0}
  /\ Start \in Nat \ {0}
  /\ MaxHeight \in Nat
  /\ MaxRewalks \in Nat
  /\ MaxGapRefills \in Nat

VARIABLES
  disp,         \* where processBlocksOnce is: the loop, or a step of shutdown
  nextBlock,    \* the next height to dispatch (dispatchedUpTo + 1)
  taken,        \* workChan holds the heights taken..nextBlock-1
  fw,           \* the fetch workers
  results,      \* resultChan
  pending,      \* pending, the fetched results by height
  nextToCommit,
  hold,         \* holdingDispatch, or NoItem
  storeChan,
  storeClosed,  \* close(storeChan) happened (equivalently, done = nil)
  sw,           \* the store pool
  completionChan,
  inFlight,     \* the counter of inFlightWg
  signing,      \* the counter of signWg
  coll,         \* where the collector is
  seen,         \* which of its two sources the collector has seen closed
  item,         \* the result resolveEpisodeItem is looking at: usable or not
  ret,          \* where applyCompletion returns to: the loop or a drain phase
  batch,        \* the ready batch being gathered and applied
  outer,        \* the rest of the batch suspended by openStaleEpisode
  reorder,      \* reorderCompletions
  holes,        \* applyHoles
  cursor,       \* applyCursor
  ep,           \* episode: "none", "wait" (pop-time) or "stale" (stalePinned)
  rewalks,
  gapRefills,
  rb,           \* rollbackPoint # nil
  fatal,        \* fatalErr # nil
  cancelled,    \* the run context is cancelled
  cb            \* history: the heights onBlockProcessed was called with

dispVars  == <<disp, nextBlock, taken>>
fetchVars == <<fw, results>>
poolVars  == <<storeChan, storeClosed, sw, completionChan, signing>>
applyVars == <<ret, batch, outer, reorder, cursor, cb>>
popVars   == <<pending, nextToCommit, holes>>
epVars    == <<ep, rewalks, gapRefills, item>>
endVars   == <<rb, fatal, cancelled>>
vars == <<dispVars, fetchVars, popVars, hold, inFlight, poolVars, coll, seen,
          applyVars, epVars, endVars>>

W          == Cardinality(Fetchers)
NoItem     == 0
Outcomes   == {"ok", "fail", "stale", "deleted"}
Completion == [h : Nat, res : Outcomes]
Result     == [h : Nat, ok : BOOLEAN]
Sources    == {"results", "completions"}

ChanCap       == W * Ahead         \* workChan, resultChan and storeChan
CompletionCap == W * (Ahead + 1)

\* A worker: where it is, the block it holds, and its result.
Fetching(pc, h, ok) == [pc |-> pc, h |-> h, ok |-> ok]
Storing(pc, h, res) == [pc |-> pc, h |-> h, res |-> res]

IdleFetch == Fetching("idle", NoItem, FALSE)
IdleStore == Storing("idle", NoItem, "ok")

workClosed       == disp # "loop"
resultsClosed    == disp \notin {"loop", "fetchers"}
completionClosed == disp \in {"collector", "signers", "returned"}

\* Store workers that hold a registration of inFlightWg.
Busy == {w \in Storers : sw[w].pc \in {"store", "report", "drop"}}

Init ==
  /\ disp = "loop" /\ nextBlock = Start /\ taken = Start
  /\ fw = [w \in Fetchers |-> IdleFetch] /\ results = {}
  /\ pending = {} /\ nextToCommit = Start /\ holes = {}
  /\ hold = NoItem /\ inFlight = 0
  /\ storeChan = <<>> /\ storeClosed = FALSE /\ completionChan = <<>>
  /\ sw = [w \in Storers |-> IdleStore] /\ signing = 0
  /\ coll = "pop" /\ seen = {}
  /\ ret = "loop" /\ batch = <<>> /\ outer = <<>> /\ reorder = {}
  /\ cursor = Start /\ cb = <<>>
  /\ ep = "none" /\ rewalks = 0 /\ gapRefills = 0 /\ item = FALSE
  /\ rb = FALSE /\ fatal = FALSE /\ cancelled = FALSE

-----------------------------------------------------------------------------
(* The caller: cancellation from outside, the dispatch loop, shutdown.     *)

\* StopIndexing or the parent context cancels the run.
Cancel ==
  /\ ~cancelled
  /\ cancelled' = TRUE
  /\ UNCHANGED <<dispVars, fetchVars, popVars, hold, inFlight, poolVars, coll,
                 seen, applyVars, epVars, rb, fatal>>

\* Mutant: the throttle lets one height too many through.
ThrottledMutant == nextBlock - nextToCommit > W * Ahead

Throttled == nextBlock - nextToCommit >= W * Ahead

\* dispatchLoop hands one height to workChan.
Dispatch ==
  /\ disp = "loop"
  /\ ~Throttled
  /\ nextBlock - taken < ChanCap
  /\ nextBlock <= MaxHeight
  /\ nextBlock' = nextBlock + 1
  /\ UNCHANGED <<disp, taken, fetchVars, popVars, hold, inFlight, poolVars,
                 coll, seen, applyVars, epVars, endVars>>

\* The steps of shutdown: each closes a channel after its senders settled.
ShutdownStep(from, to, settled) ==
  /\ disp = from
  /\ settled
  /\ disp' = to
  /\ UNCHANGED <<nextBlock, taken, fetchVars, popVars, hold, inFlight,
                 poolVars, coll, seen, applyVars, epVars, endVars>>

AllFetchersExited == \A w \in Fetchers : fw[w].pc = "exited"
AllStorersExited  == \A w \in Storers : sw[w].pc = "exited"

\* Mutant: the completion channel is closed without waiting for the pool.
CloseCompletionsMutant == ShutdownStep("storers", "collector", TRUE)

CloseWork        == ShutdownStep("loop", "fetchers", cancelled)
CloseResults     == ShutdownStep("fetchers", "storers", AllFetchersExited)
CloseCompletions == ShutdownStep("storers", "collector", AllStorersExited)
AwaitCollector   == ShutdownStep("collector", "signers", coll = "returned")
AwaitSigners     == ShutdownStep("signers", "returned", signing = 0)

Shutdown == \/ CloseWork \/ CloseResults \/ CloseCompletions
            \/ AwaitCollector \/ AwaitSigners

-----------------------------------------------------------------------------
(* Fetch workers.                                                          *)

FetchTake(w) ==
  /\ fw[w].pc = "idle"
  /\ taken < nextBlock
  /\ taken' = taken + 1
  /\ fw' = [fw EXCEPT ![w] = Fetching("fetch", taken, FALSE)]
  /\ UNCHANGED <<disp, nextBlock, results, popVars, hold, inFlight, poolVars,
                 coll, seen, applyVars, epVars, endVars>>

\* fetchAndConvertBlock returns a block or an error.
FetchDone(w) ==
  /\ fw[w].pc = "fetch"
  /\ \E ok \in BOOLEAN : fw' = [fw EXCEPT ![w] = Fetching("send", fw[w].h, ok)]
  /\ UNCHANGED <<dispVars, results, popVars, hold, inFlight, poolVars, coll,
                 seen, applyVars, epVars, endVars>>

FetchSend(w) ==
  /\ fw[w].pc = "send"
  /\ Cardinality(results) < ChanCap
  /\ results' = results \cup {[h |-> fw[w].h, ok |-> fw[w].ok]}
  /\ fw' = [fw EXCEPT ![w] = IdleFetch]
  /\ UNCHANGED <<dispVars, popVars, hold, inFlight, poolVars, coll, seen,
                 applyVars, epVars, endVars>>

\* The worker leaves: workChan is closed and empty, or the send lost to
\* ctx.Done.
FetchExit(w) ==
  /\ \/ fw[w].pc = "idle" /\ workClosed /\ taken = nextBlock
     \/ fw[w].pc = "send" /\ cancelled
  /\ fw' = [fw EXCEPT ![w] = Fetching("exited", NoItem, FALSE)]
  /\ UNCHANGED <<dispVars, results, popVars, hold, inFlight, poolVars, coll,
                 seen, applyVars, epVars, endVars>>

Fetcher(w) == FetchTake(w) \/ FetchDone(w) \/ FetchSend(w) \/ FetchExit(w)

-----------------------------------------------------------------------------
(* The store pool: runStoreTask, and the SignExisting goroutines.          *)

StoreTake(w) ==
  /\ sw[w].pc = "idle"
  /\ storeChan # <<>>
  /\ storeChan' = Tail(storeChan)
  /\ sw' = [sw EXCEPT ![w] = Storing("store", Head(storeChan), "ok")]
  /\ UNCHANGED <<dispVars, fetchVars, popVars, hold, inFlight, storeClosed,
                 completionChan, signing, coll, seen, applyVars, epVars, endVars>>

\* storeWithRetry, then detectStaleOrphan on a failure.  A store of content
\* that already exists succeeds and leaves a SignExisting goroutine behind.
StoreDone(w) ==
  /\ sw[w].pc = "store"
  /\ \E res \in Outcomes, exists \in BOOLEAN :
       /\ exists => res = "ok"
       /\ sw' = [sw EXCEPT ![w] = Storing("report", sw[w].h, res)]
       /\ signing' = IF exists THEN signing + 1 ELSE signing
  /\ UNCHANGED <<dispVars, fetchVars, popVars, hold, inFlight, storeChan,
                 storeClosed, completionChan, coll, seen, applyVars, epVars,
                 endVars>>

\* The completion send precedes the in-flight drop.
StoreReport(w) ==
  /\ sw[w].pc = "report"
  /\ Len(completionChan) < CompletionCap
  /\ completionChan' = Append(completionChan, [h |-> sw[w].h, res |-> sw[w].res])
  /\ sw' = [sw EXCEPT ![w] = Storing("drop", sw[w].h, sw[w].res)]
  /\ UNCHANGED <<dispVars, fetchVars, popVars, hold, inFlight, storeChan,
                 storeClosed, signing, coll, seen, applyVars, epVars, endVars>>

StoreDrop(w) ==
  /\ sw[w].pc = "drop"
  /\ inFlight' = inFlight - 1
  /\ sw' = [sw EXCEPT ![w] = IdleStore]
  /\ UNCHANGED <<dispVars, fetchVars, popVars, hold, storeChan, storeClosed,
                 completionChan, signing, coll, seen, applyVars, epVars, endVars>>

StoreExit(w) ==
  /\ sw[w].pc = "idle"
  /\ storeClosed /\ storeChan = <<>>
  /\ sw' = [sw EXCEPT ![w] = Storing("exited", NoItem, "ok")]
  /\ UNCHANGED <<dispVars, fetchVars, popVars, hold, inFlight, storeChan,
                 storeClosed, completionChan, signing, coll, seen, applyVars,
                 epVars, endVars>>

Storer(w) == \/ StoreTake(w) \/ StoreDone(w) \/ StoreReport(w)
             \/ StoreDrop(w) \/ StoreExit(w)

SignDone ==
  /\ signing > 0
  /\ signing' = signing - 1
  /\ UNCHANGED <<dispVars, fetchVars, popVars, hold, inFlight, storeChan,
                 storeClosed, sw, completionChan, coll, seen, applyVars, epVars,
                 endVars>>

-----------------------------------------------------------------------------
(* The collector, between two selects: pop, check, abandon.                *)

\* An episode, a rollback point or a fatal error ends the episode record.
EndEpisode(newRb, newFatal) ==
  /\ ep' = "none"
  /\ rb' = IF newRb THEN TRUE ELSE rb
  /\ fatal' = IF newFatal THEN TRUE ELSE fatal
  /\ cancelled' = IF newRb \/ newFatal THEN TRUE ELSE cancelled

\* popPending: nothing is waiting at nextToCommit, or an item is already held.
PopNothing ==
  /\ coll = "pop"
  /\ hold # NoItem \/ \A r \in pending : r.h # nextToCommit
  /\ coll' = "abandon"
  /\ UNCHANGED <<dispVars, fetchVars, popVars, hold, inFlight, poolVars, seen,
                 applyVars, epVars, endVars>>

Popped(r) ==
  /\ coll = "pop"
  /\ hold = NoItem
  /\ r.h = nextToCommit
  /\ pending' = pending \ {r}
  /\ nextToCommit' = nextToCommit + 1
  /\ UNCHANGED <<dispVars, fetchVars, poolVars, seen, applyVars, rewalks,
                 gapRefills, endVars>>

\* popPending drains the item: the run is ending.
PopDropped(r) ==
  /\ Popped(r)
  /\ rb \/ cancelled
  /\ coll' = "abandon"
  /\ UNCHANGED <<hold, inFlight, holes, ep, item>>

\* Mutant: the failed height is not recorded as a hole.
PopHoleMutant(r) ==
  /\ Popped(r)
  /\ ~rb /\ ~cancelled /\ ep = "none"
  /\ ~r.ok
  /\ coll' = "abandon"
  /\ UNCHANGED <<hold, inFlight, holes, ep, item>>

\* checkedForDispatch on a failed fetch: the height becomes a hole.
PopHole(r) ==
  /\ Popped(r)
  /\ ~rb /\ ~cancelled /\ ep = "none"
  /\ ~r.ok
  /\ holes' = holes \cup {r.h}
  /\ coll' = "abandon"
  /\ UNCHANGED <<hold, inFlight, ep, item>>

\* Mutant: the popped item is dispatched whether or not an episode is open.
PopCheckedMutant(r) ==
  /\ Popped(r)
  /\ ~rb /\ ~cancelled /\ r.ok
  /\ inFlight' = inFlight + 1
  /\ hold' = r.h
  /\ coll' = "abandon"
  /\ UNCHANGED <<holes, ep, item>>

\* checkedForDispatch passes: register in flight, then wait for the pool.
PopChecked(r) ==
  /\ Popped(r)
  /\ ~rb /\ ~cancelled /\ ep = "none"
  /\ r.ok
  /\ inFlight' = inFlight + 1
  /\ hold' = r.h
  /\ coll' = "abandon"
  /\ UNCHANGED <<holes, ep, item>>

\* checkedForDispatch finds a mismatch: startReorgEpisode parks the block.
PopMismatch(r) ==
  /\ Popped(r)
  /\ ~rb /\ ~cancelled /\ ep = "none"
  /\ r.ok
  /\ ep' = "wait"
  /\ coll' = "abandon"
  /\ UNCHANGED <<hold, inFlight, holes, item>>

\* An episode is open: the popped item goes to resolveEpisodeItem.
PopParked(r) ==
  /\ Popped(r)
  /\ ~rb /\ ~cancelled /\ ep # "none"
  /\ item' = r.ok
  /\ coll' = "resolve"
  /\ UNCHANGED <<hold, inFlight, holes, ep>>

Pop == \E r \in pending : \/ PopDropped(r) \/ PopHole(r) \/ PopChecked(r)
                          \/ PopMismatch(r) \/ PopParked(r)

\* The resolveEpisodeItem loop is left: nothing is stored, nothing to wait for.
ResolveStop ==
  /\ coll = "resolve"
  /\ ep = "none" \/ rb \/ cancelled
  /\ coll' = "abandon"
  /\ UNCHANGED <<dispVars, fetchVars, popVars, hold, inFlight, poolVars, seen,
                 applyVars, epVars, endVars>>

Resolving ==
  /\ coll = "resolve"
  /\ ep # "none" /\ ~rb /\ ~cancelled
  /\ UNCHANGED <<dispVars, fetchVars, popVars, poolVars, seen, applyVars>>

\* Mutant: the held dispatch is forgotten without dropping its registration.
DropHeldMutant == hold' = NoItem /\ UNCHANGED inFlight

\* drainInFlightStores is entered: a still-held dispatch is dropped first.
DropHeld ==
  /\ hold' = NoItem
  /\ inFlight' = IF hold = NoItem THEN inFlight ELSE inFlight - 1

\* The chained successor confirms the new chain: finalizeEpisode.
ResolveConfirm ==
  /\ Resolving
  /\ item
  /\ DropHeld
  /\ coll' = "drain"
  /\ UNCHANGED <<epVars, endVars>>

\* reanchorEpisodeLocked.
ResolveReanchor ==
  /\ Resolving
  /\ item
  /\ IF rewalks >= MaxRewalks
       THEN EndEpisode(FALSE, TRUE) /\ UNCHANGED rewalks
       ELSE rewalks' = rewalks + 1 /\ UNCHANGED <<ep, endVars>>
  /\ coll' = "abandon"
  /\ UNCHANGED <<hold, inFlight, gapRefills, item>>

\* refillEpisodeGap: a failed result, or one without usable hashes, is fetched
\* again by the collector itself.
ResolveRefill ==
  /\ Resolving
  /\ IF gapRefills >= MaxGapRefills
       THEN EndEpisode(FALSE, TRUE) /\ UNCHANGED gapRefills /\ coll' = "abandon"
       ELSE /\ gapRefills' = gapRefills + 1
            /\ coll' = "refill"
            /\ UNCHANGED <<ep, endVars>>
  /\ UNCHANGED <<hold, inFlight, rewalks, item>>

RefillFetched ==
  /\ coll = "refill"
  /\ item' = TRUE
  /\ coll' = "resolve"
  /\ UNCHANGED <<dispVars, fetchVars, popVars, hold, inFlight, poolVars, seen,
                 applyVars, ep, rewalks, gapRefills, endVars>>

\* A shutdown mid-wait leaves the episode; any other failure is fatal.
RefillFailed ==
  /\ coll = "refill"
  /\ IF cancelled THEN UNCHANGED <<ep, endVars>> ELSE EndEpisode(FALSE, TRUE)
  /\ coll' = "abandon"
  /\ UNCHANGED <<dispVars, fetchVars, popVars, hold, inFlight, poolVars, seen,
                 applyVars, rewalks, gapRefills, item>>

Resolve == \/ ResolveStop \/ ResolveConfirm \/ ResolveReanchor \/ ResolveRefill
           \/ RefillFetched \/ RefillFailed

\* Once the run is leaving this shape a waiting dispatch is abandoned.
Abandon ==
  /\ coll = "abandon"
  /\ IF ep # "none" \/ rb \/ cancelled
       THEN DropHeld
       ELSE UNCHANGED <<hold, inFlight>>
  /\ coll' = "select"
  /\ UNCHANGED <<dispVars, fetchVars, popVars, poolVars, seen, applyVars,
                 epVars, endVars>>

-----------------------------------------------------------------------------
(* The collector's select.                                                 *)

SelectResult ==
  /\ coll = "select"
  /\ \E r \in results : results' = results \ {r} /\ pending' = pending \cup {r}
  /\ coll' = "pop"
  /\ UNCHANGED <<dispVars, fw, nextToCommit, holes, hold, inFlight, poolVars,
                 seen, applyVars, epVars, endVars>>

\* applyCompletion is entered: park the completion, gather what is ready, and
\* come back to r.
ReceiveCompletion(r) ==
  /\ completionChan # <<>>
  /\ completionChan' = Tail(completionChan)
  /\ reorder' = reorder \cup {Head(completionChan)}
  /\ ret' = r
  /\ coll' = "collect"
  /\ UNCHANGED <<dispVars, fetchVars, popVars, hold, inFlight, storeChan,
                 storeClosed, sw, signing, seen, batch, outer, cursor, cb, epVars,
                 endVars>>

SelectCompletion == coll = "select" /\ ReceiveCompletion("loop")

SelectSend ==
  /\ coll = "select"
  /\ hold # NoItem
  /\ Len(storeChan) < ChanCap
  /\ storeChan' = Append(storeChan, hold)
  /\ hold' = NoItem
  /\ coll' = "pop"
  /\ UNCHANGED <<dispVars, fetchVars, popVars, inFlight, storeClosed, sw,
                 completionChan, signing, seen, applyVars, epVars, endVars>>

\* Mutant: the cancellation case never closes storeChan.
SelectDoneMutant ==
  /\ coll = "select"
  /\ cancelled
  /\ DropHeld
  /\ coll' = "pop"
  /\ UNCHANGED <<dispVars, fetchVars, popVars, storeChan, storeClosed, sw,
                 completionChan, signing, seen, applyVars, epVars, endVars>>

\* ctx.Done fires once: the collector, storeChan's only sender, closes it.
SelectDone ==
  /\ coll = "select"
  /\ cancelled /\ ~storeClosed
  /\ DropHeld
  /\ storeClosed' = TRUE
  /\ coll' = "pop"
  /\ UNCHANGED <<dispVars, fetchVars, popVars, storeChan, sw, completionChan,
                 signing, seen, applyVars, epVars, endVars>>

\* A receive from a closed, empty channel; after both the collector returns.
SelectClosed(src) ==
  /\ coll = "select"
  /\ src = "results" => resultsClosed /\ results = {}
  /\ src = "completions" => completionClosed /\ completionChan = <<>>
  /\ seen' = seen \cup {src}
  /\ coll' = IF seen' = Sources THEN "returned" ELSE "pop"
  /\ UNCHANGED <<dispVars, fetchVars, popVars, hold, inFlight, poolVars,
                 applyVars, epVars, endVars>>

Select == \/ SelectResult \/ SelectCompletion \/ SelectSend \/ SelectDone
          \/ \E src \in Sources : SelectClosed(src)

-----------------------------------------------------------------------------
(* The ordered apply.                                                      *)

\* collectReadyCompletionsLocked, one iteration: skip a hole at the cursor, ...
CollectHole ==
  /\ coll = "collect"
  /\ cursor \in holes
  /\ holes' = holes \ {cursor}
  /\ cursor' = cursor + 1
  /\ UNCHANGED <<dispVars, fetchVars, pending, nextToCommit, hold, inFlight,
                 poolVars, coll, seen, ret, batch, outer, reorder, cb, epVars,
                 endVars>>

\* Mutant: completions are applied in arrival order.
CollectReadyMutant ==
  /\ coll = "collect"
  /\ cursor \notin holes
  /\ \E c \in reorder : reorder' = reorder \ {c} /\ batch' = Append(batch, c)
  /\ cursor' = cursor + 1
  /\ UNCHANGED <<dispVars, fetchVars, popVars, hold, inFlight, poolVars, coll,
                 seen, ret, outer, cb, epVars, endVars>>

\* Mutant: the cursor stays at the completion that was taken.
CollectReadyStuck ==
  /\ coll = "collect"
  /\ cursor \notin holes
  /\ \E c \in reorder :
       /\ c.h = cursor
       /\ reorder' = reorder \ {c}
       /\ batch' = Append(batch, c)
  /\ UNCHANGED <<dispVars, fetchVars, popVars, hold, inFlight, poolVars, coll,
                 seen, ret, outer, cursor, cb, epVars, endVars>>

\* ... take the completion parked at the cursor, ...
CollectReady ==
  /\ coll = "collect"
  /\ cursor \notin holes
  /\ \E c \in reorder :
       /\ c.h = cursor
       /\ reorder' = reorder \ {c}
       /\ batch' = Append(batch, c)
  /\ cursor' = cursor + 1
  /\ UNCHANGED <<dispVars, fetchVars, popVars, hold, inFlight, poolVars, coll,
                 seen, ret, outer, cb, epVars, endVars>>

\* ... or hand the batch to applyBatch.
CollectEnd ==
  /\ coll = "collect"
  /\ cursor \notin holes
  /\ \A c \in reorder : c.h # cursor
  /\ coll' = "apply"
  /\ UNCHANGED <<dispVars, fetchVars, popVars, hold, inFlight, poolVars, seen,
                 applyVars, epVars, endVars>>

ended    == rb \/ fatal
suppress == ret # "loop" /\ ep = "stale"

\* applyBatch takes the next completion of the batch.
ApplyNext ==
  /\ coll = "apply"
  /\ batch # <<>>
  /\ UNCHANGED <<dispVars, fetchVars, popVars, poolVars, seen, reorder, cursor,
                 rewalks, gapRefills, item, rb>>

\* applyCommit: commit bookkeeping and the onBlockProcessed callback.
ApplyCommit ==
  /\ ApplyNext
  /\ Head(batch).res = "ok" /\ ~ended /\ ~suppress
  /\ cb' = Append(cb, Head(batch).h)
  /\ batch' = Tail(batch)
  /\ UNCHANGED <<hold, inFlight, coll, ret, outer, ep, fatal, cancelled>>

\* A suppressed success, a plain failure, or a stale height that an ended run
\* or an open episode already covers.
ApplySkip ==
  /\ ApplyNext
  /\ \/ Head(batch).res = "ok" /\ (ended \/ suppress)
     \/ Head(batch).res = "fail"
     \/ Head(batch).res = "stale" /\ (ended \/ ep # "none")
  /\ batch' = Tail(batch)
  /\ UNCHANGED <<hold, inFlight, coll, ret, outer, cb, ep, fatal, cancelled>>

\* failRun: a refused re-store stops the run.
ApplyDeleted ==
  /\ ApplyNext
  /\ Head(batch).res = "deleted"
  /\ fatal' = TRUE /\ cancelled' = TRUE
  /\ batch' = Tail(batch)
  /\ UNCHANGED <<hold, inFlight, coll, ret, outer, cb, ep>>

\* openStaleEpisode suspends the batch and finalizes at once.
ApplyStale ==
  /\ ApplyNext
  /\ Head(batch).res = "stale" /\ ~ended /\ ep = "none"
  /\ ep' = "stale"
  /\ outer' = Tail(batch)
  /\ batch' = <<>>
  /\ DropHeld
  /\ coll' = "drain"
  /\ UNCHANGED <<ret, cb, fatal, cancelled>>

\* Mutant: a completion applied inside a drain resumes the ordinary loop.
ApplyEndMutant ==
  /\ coll = "apply"
  /\ batch = <<>>
  /\ coll' = "pop"
  /\ UNCHANGED <<dispVars, fetchVars, popVars, hold, inFlight, poolVars, seen,
                 applyVars, epVars, endVars>>

ApplyEnd ==
  /\ coll = "apply"
  /\ batch = <<>>
  /\ coll' = IF ret = "loop" THEN "pop" ELSE ret
  /\ UNCHANGED <<dispVars, fetchVars, popVars, hold, inFlight, poolVars, seen,
                 applyVars, epVars, endVars>>

Apply == \/ CollectHole \/ CollectReady \/ CollectEnd \/ ApplyCommit
         \/ ApplySkip \/ ApplyDeleted \/ ApplyStale \/ ApplyEnd

-----------------------------------------------------------------------------
(* finalizeEpisode: drainInFlightStores, then the walk-back.               *)

\* Consume while waiting, until the group settles.
DrainReceive == coll = "drain" /\ ReceiveCompletion("drain")

DrainSettled ==
  /\ coll = "drain"
  /\ inFlight = 0
  /\ coll' = "tail"
  /\ UNCHANGED <<dispVars, fetchVars, popVars, hold, inFlight, poolVars, seen,
                 applyVars, epVars, endVars>>

\* Then consume what landed, until the channel is empty.
TailReceive == coll = "tail" /\ ReceiveCompletion("tail")

\* Back to the caller of finalizeEpisode: the suspended batch, or the loop.
Resume ==
  /\ IF ep = "stale"
       THEN /\ coll' = "apply" /\ ret' = "loop"
            /\ batch' = outer /\ outer' = <<>>
       ELSE coll' = "abandon" /\ UNCHANGED <<ret, batch, outer>>
  /\ UNCHANGED <<dispVars, fetchVars, popVars, hold, inFlight, poolVars, seen,
                 reorder, cursor, cb, rewalks, gapRefills, item>>

\* Mutant: the walk-back starts as soon as the group settled, without
\* consuming the completions that landed.
TailEmptyMutant ==
  /\ coll = "tail"
  /\ IF cancelled
       THEN EndEpisode(FALSE, FALSE) /\ Resume
       ELSE /\ coll' = "walk"
            /\ UNCHANGED <<dispVars, fetchVars, popVars, hold, inFlight,
                           poolVars, seen, applyVars, epVars, endVars>>

\* A cancelled run abandons the episode; otherwise the walk-back starts.
TailEmpty ==
  /\ coll = "tail"
  /\ completionChan = <<>>
  /\ IF cancelled
       THEN EndEpisode(FALSE, FALSE) /\ Resume
       ELSE /\ coll' = "walk"
            /\ UNCHANGED <<dispVars, fetchVars, popVars, hold, inFlight,
                           poolVars, seen, applyVars, epVars, endVars>>

\* resolveForkPoint returns a fork point, or an error that is fatal unless the
\* run was cancelled meanwhile.
WalkFound  == coll = "walk" /\ EndEpisode(TRUE, FALSE) /\ Resume
WalkFailed == coll = "walk" /\ EndEpisode(FALSE, ~cancelled) /\ Resume

Finalize == \/ DrainReceive \/ DrainSettled \/ TailReceive \/ TailEmpty
            \/ WalkFound \/ WalkFailed

-----------------------------------------------------------------------------

Collector == \/ PopNothing \/ Pop \/ Resolve \/ Abandon \/ Select \/ Apply
             \/ Finalize

\* The run is over: processBlocksOnce has returned.
Returned ==
  /\ disp = "returned"
  /\ UNCHANGED vars

Next ==
  \/ Cancel \/ Dispatch \/ Shutdown \/ SignDone \/ Collector \/ Returned
  \/ \E w \in Fetchers : Fetcher(w)
  \/ \E w \in Storers : Storer(w)

Spec == Init /\ [][Next]_vars

\* Goroutines run; a DefraDB call returns; an RPC call returns once the run is
\* cancelled (before that a block the node does not know is retried forever);
\* select chooses among its ready cases at random, so a case that stays ready
\* again and again is taken.
Fairness ==
  /\ WF_vars(Shutdown)
  /\ WF_vars(SignDone)
  /\ \A w \in Fetchers : /\ WF_vars(FetchTake(w) \/ FetchSend(w) \/ FetchExit(w))
                        /\ WF_vars(cancelled /\ FetchDone(w))
  /\ \A w \in Storers : WF_vars(Storer(w))
  /\ WF_vars(PopNothing \/ Pop \/ Abandon \/ Select \/ Apply)
  /\ WF_vars(ResolveStop \/ ResolveConfirm \/ ResolveReanchor \/ ResolveRefill)
  /\ WF_vars(DrainReceive \/ DrainSettled \/ TailReceive \/ TailEmpty)
  /\ WF_vars(cancelled /\ (RefillFetched \/ RefillFailed))
  /\ WF_vars(cancelled /\ (WalkFound \/ WalkFailed))
  /\ SF_vars(SelectDone)
  /\ SF_vars(SelectResult)
  /\ SF_vars(SelectCompletion)
  /\ SF_vars(DrainSettled)
  /\ \A src \in Sources : SF_vars(SelectClosed(src))

FairSpec == Spec /\ Fairness

-----------------------------------------------------------------------------
(* Properties.                                                             *)

\* Every variable keeps its type.
TypeOK ==
  /\ disp \in {"loop", "fetchers", "storers", "collector", "signers", "returned"}
  /\ nextBlock \in Nat /\ taken \in Nat
  /\ fw \in [Fetchers -> [pc : {"idle", "fetch", "send", "exited"},
                           h : Nat, ok : BOOLEAN]]
  /\ results \in SUBSET Result /\ pending \in SUBSET Result
  /\ nextToCommit \in Nat /\ hold \in Nat /\ holes \in SUBSET Nat
  /\ storeChan \in Seq(Nat) /\ storeClosed \in BOOLEAN
  /\ sw \in [Storers -> [pc : {"idle", "store", "report", "drop", "exited"},
                           h : Nat, res : Outcomes]]
  /\ completionChan \in Seq(Completion)
  /\ inFlight \in Int /\ signing \in Nat
  /\ coll \in {"pop", "resolve", "refill", "abandon", "select", "collect",
               "apply", "drain", "tail", "walk", "returned"}
  /\ seen \in SUBSET Sources /\ item \in BOOLEAN
  /\ ret \in {"loop", "drain", "tail"}
  /\ batch \in Seq(Completion) /\ outer \in Seq(Completion)
  /\ reorder \in SUBSET Completion /\ cursor \in Nat
  /\ ep \in {"none", "wait", "stale"} /\ rewalks \in Nat /\ gapRefills \in Nat
  /\ rb \in BOOLEAN /\ fatal \in BOOLEAN /\ cancelled \in BOOLEAN
  /\ cb \in Seq(Nat)

HeldCount == IF hold = NoItem THEN 0 ELSE 1

\* inFlightWg counts exactly the item waiting for the pool, the items in
\* storeChan and the items a pool worker has not dropped: it never goes
\* negative (a panic in Go) and never keeps a registration nobody will drop.
InFlightExact == inFlight = HeldCount + Len(storeChan) + Cardinality(Busy)

\* A channel is closed only when nobody can send on it any more (a send on a
\* closed channel panics): storeChan, resultChan and completionChan.
NoSendAfterClose ==
  /\ storeClosed => hold = NoItem
  /\ resultsClosed => \A w \in Fetchers : fw[w].pc # "send"
  /\ completionClosed => \A w \in Storers : sw[w].pc # "report"

\* The walk-back reads a quiescent database: no store is queued, waiting for
\* the pool or running, and every completion has been received.
QuiescentWalkBack ==
  coll = "walk" =>
    storeChan = <<>> /\ Busy = {} /\ hold = NoItem /\ completionChan = <<>>

\* The drain resolved the whole reorder buffer before the walk-back starts.
DrainResolvesAll == coll = "walk" => reorder = {} /\ batch = <<>>

\* Heights that are on their way to a callback.
Outstanding ==
  {r.h : r \in results \cup pending} \cup ({hold} \ {NoItem})
  \cup {fw[w].h : w \in {v \in Fetchers : fw[v].pc \in {"fetch", "send"}}}
  \cup {sw[w].h : w \in {v \in Storers : sw[v].pc \in {"store", "report"}}}
  \cup {storeChan[i] : i \in DOMAIN storeChan}
  \cup {c.h : c \in reorder}
  \cup UNION {{s[i].h : i \in DOMAIN s} : s \in {completionChan, batch, outer}}

\* onBlockProcessed fires in strict height order, at most once per height, and
\* only when no lower height is still on its way.
OrderedCallbacks ==
  /\ \A i, j \in DOMAIN cb : i < j => cb[i] < cb[j]
  /\ \A i \in DOMAIN cb : \A h \in Outstanding : cb[i] < h

\* At most W * Ahead fetched blocks wait in memory for the ordered check, so a
\* fetch worker's send never blocks on a full resultChan.
BoundedLookahead ==
  Cardinality(results) + Cardinality(pending)
    + Cardinality({w \in Fetchers : fw[w].pc \in {"fetch", "send"}}) <= ChanCap

\* While an episode is open, and once a rollback point is recorded, no further
\* block is registered for the store pool and none is handed to it.
HoldBack ==
  [][ep # "none" \/ rb => /\ hold' \in {hold, NoItem}
                          /\ Len(storeChan') <= Len(storeChan)]_vars

\* Once a rollback point or a fatal error is recorded no callback fires.
EndedRunIsSilent == [][(rb \/ fatal) => cb' = cb]_vars

\* A run whose context is cancelled returns, whatever its goroutines were doing.
ShutdownCompletes == cancelled ~> disp = "returned"

\* A drain settles under any buffer state.
DrainCompletes == (coll = "drain") ~> (coll = "walk" \/ ep = "none")

=============================================================================
