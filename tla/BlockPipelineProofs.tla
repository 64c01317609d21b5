------------------------- MODULE BlockPipelineProofs -------------------------
(* Theorems about BlockPipeline, for every number of workers and every bound. *)
EXTENDS BlockPipeline, FiniteSetTheorems, TLAPS

EndTypes ==
  /\ ep \in {"none", "wait", "stale"}
  /\ rb \in BOOLEAN /\ fatal \in BOOLEAN /\ cancelled \in BOOLEAN

\* endEpisode leaves the check chain and the episode well typed.
LEMMA EndEpisodeTypes ==
  ASSUME EndTypes, NEW newRb \in BOOLEAN, NEW newFatal \in BOOLEAN,
         EndEpisode(newRb, newFatal)
  PROVE  EndTypes'
BY DEF EndTypes, EndEpisode

\* processBlocksOnce starts well typed.
LEMMA TypeInit == Init => TypeOK
<1> SUFFICES ASSUME Init PROVE TypeOK
  OBVIOUS
<1>1. fw \in [Fetchers -> [pc : {"idle", "fetch", "send", "exited"},
                            h : Nat, ok : BOOLEAN]]
  BY DEF Init, IdleFetch, Fetching, NoItem
<1>2. sw \in [Storers -> [pc : {"idle", "store", "report", "drop", "exited"},
                           h : Nat, res : Outcomes]]
  BY DEF Init, IdleStore, Storing, NoItem, Outcomes
<1>3. QED
  <2>1. results \in SUBSET Result /\ pending \in SUBSET Result
    BY DEF Init
  <2>2. reorder \in SUBSET Completion /\ seen \in SUBSET Sources
    BY DEF Init
  <2>3. storeChan \in Seq(Nat) /\ cb \in Seq(Nat)
    BY DEF Init
  <2>4. /\ completionChan \in Seq(Completion) /\ batch \in Seq(Completion)
        /\ outer \in Seq(Completion)
    BY DEF Init
  <2>5. /\ nextBlock \in Nat /\ taken \in Nat /\ nextToCommit \in Nat
        /\ cursor \in Nat /\ hold \in Nat /\ holes \in SUBSET Nat
        /\ signing \in Nat /\ rewalks \in Nat /\ gapRefills \in Nat
        /\ inFlight \in Int
    BY PipelineAssumption DEF Init, NoItem
  <2>6. /\ disp \in {"loop", "fetchers", "storers", "collector", "signers", "returned"}
        /\ coll \in {"pop", "resolve", "refill", "abandon", "select", "collect",
                     "apply", "drain", "tail", "walk", "returned"}
        /\ ret \in {"loop", "drain", "tail"} /\ ep \in {"none", "wait", "stale"}
    BY DEF Init
  <2>7. /\ rb \in BOOLEAN /\ fatal \in BOOLEAN /\ cancelled \in BOOLEAN
        /\ item \in BOOLEAN /\ storeClosed \in BOOLEAN
    BY DEF Init
  <2>8. QED
    BY <1>1, <1>2, <2>1, <2>2, <2>3, <2>4, <2>5, <2>6, <2>7 DEF TypeOK

\* Every step of every goroutine keeps the types.
LEMMA TypeStep == TypeOK /\ [Next]_vars => TypeOK'
<1> USE DEF dispVars, fetchVars, poolVars, applyVars, popVars, epVars, endVars
<1> SUFFICES ASSUME TypeOK, [Next]_vars PROVE TypeOK'
  OBVIOUS
<1> USE DEF TypeOK
<1>1. CASE Cancel
  BY <1>1 DEF Cancel
<1>2. CASE Dispatch
  BY <1>2 DEF Dispatch
<1>3. CASE Shutdown
  <2>1. disp' \in {"fetchers", "storers", "collector", "signers", "returned"}
    BY <1>3 DEF Shutdown, ShutdownStep, CloseWork, CloseResults,
                CloseCompletions, AwaitCollector, AwaitSigners
  <2>2. UNCHANGED <<nextBlock, taken, fetchVars, popVars, hold, inFlight,
                    poolVars, coll, seen, applyVars, epVars, endVars>>
    BY <1>3 DEF Shutdown, ShutdownStep, CloseWork, CloseResults,
                CloseCompletions, AwaitCollector, AwaitSigners
  <2>3. QED
    BY <2>1, <2>2
<1>4. CASE SignDone
  BY <1>4 DEF SignDone
<1>5. ASSUME NEW w \in Fetchers, Fetcher(w) PROVE TypeOK'
  <2>1. CASE FetchTake(w)
    BY <2>1 DEF FetchTake, Fetching
  <2>2. CASE FetchDone(w)
    BY <2>2 DEF FetchDone, Fetching
  <2>3. CASE FetchSend(w)
    BY <2>3 DEF FetchSend, IdleFetch, Fetching, NoItem, Result
  <2>4. CASE FetchExit(w)
    BY <2>4 DEF FetchExit, Fetching, NoItem
  <2>5. QED
    BY <1>5, <2>1, <2>2, <2>3, <2>4 DEF Fetcher
<1>6. ASSUME NEW w \in Storers, Storer(w) PROVE TypeOK'
  <2>1. CASE StoreTake(w)
    <3>1. Head(storeChan) \in Nat /\ storeChan' \in Seq(Nat)
      BY <2>1 DEF StoreTake
    <3>2. sw' \in [Storers -> [pc : {"idle", "store", "report", "drop", "exited"},
                               h : Nat, res : Outcomes]]
      BY <2>1, <3>1 DEF StoreTake, Storing, Outcomes
    <3>3. UNCHANGED <<dispVars, fetchVars, popVars, hold, inFlight, storeClosed,
                      completionChan, signing, coll, seen, applyVars, epVars, endVars>>
      BY <2>1 DEF StoreTake
    <3>4. QED
      BY <3>1, <3>2, <3>3, SMTT(30)
  <2>2. CASE StoreDone(w)
    BY <2>2 DEF StoreDone, Storing
  <2>3. CASE StoreReport(w)
    BY <2>3 DEF StoreReport, Storing, Completion
  <2>4. CASE StoreDrop(w)
    BY <2>4 DEF StoreDrop, IdleStore, Storing, NoItem, Outcomes
  <2>5. CASE StoreExit(w)
    BY <2>5 DEF StoreExit, Storing, NoItem, Outcomes
  <2>6. QED
    BY <1>6, <2>1, <2>2, <2>3, <2>4, <2>5 DEF Storer
<1>7. CASE PopNothing
  BY <1>7 DEF PopNothing
<1>8. CASE Pop
  <2>1. PICK r \in pending : \/ PopDropped(r) \/ PopHole(r) \/ PopChecked(r)
                              \/ PopMismatch(r) \/ PopParked(r)
    BY <1>8 DEF Pop
  <2>2. r \in Result
    OBVIOUS
  <2>3. CASE PopDropped(r)
    BY <2>3 DEF PopDropped, Popped
  <2>4. CASE PopHole(r)
    BY <2>2, <2>4 DEF PopHole, Popped, Result
  <2>5. CASE PopChecked(r)
    BY <2>2, <2>5 DEF PopChecked, Popped, Result
  <2>6. CASE PopMismatch(r)
    BY <2>6 DEF PopMismatch, Popped
  <2>7. CASE PopParked(r)
    BY <2>2, <2>7 DEF PopParked, Popped, Result
  <2>8. QED
    BY <2>1, <2>3, <2>4, <2>5, <2>6, <2>7
<1>9. CASE Resolve
  <2>1. CASE ResolveStop
    BY <2>1 DEF ResolveStop
  <2>2. CASE ResolveConfirm
    BY <2>2 DEF ResolveConfirm, Resolving, DropHeld, NoItem
  <2>3. CASE ResolveReanchor
    <3>1. EndTypes'
      BY <2>3, EndEpisodeTypes DEF EndTypes, endVars, ResolveReanchor, Resolving
    <3>2. QED
      <4>1. CASE rewalks >= MaxRewalks
        BY <2>3, <3>1, <4>1 DEF EndTypes, ResolveReanchor, Resolving
      <4>2. CASE ~(rewalks >= MaxRewalks)
        BY <2>3, <3>1, <4>2 DEF EndTypes, ResolveReanchor, Resolving
      <4>3. QED
        BY <4>1, <4>2
  <2>4. CASE ResolveRefill
    <3>1. EndTypes'
      BY <2>4, EndEpisodeTypes DEF EndTypes, endVars, ResolveRefill, Resolving
    <3>2. QED
      <4>1. CASE gapRefills >= MaxGapRefills
        BY <2>4, <3>1, <4>1 DEF EndTypes, ResolveRefill, Resolving
      <4>2. CASE ~(gapRefills >= MaxGapRefills)
        BY <2>4, <3>1, <4>2 DEF EndTypes, ResolveRefill, Resolving
      <4>3. QED
        BY <4>1, <4>2
  <2>5. CASE RefillFetched
    BY <2>5 DEF RefillFetched
  <2>6. CASE RefillFailed
    <3>1. EndTypes'
      BY <2>6, EndEpisodeTypes DEF EndTypes, endVars, RefillFailed
    <3>2. QED
      BY <2>6, <3>1 DEF EndTypes, RefillFailed
  <2>7. QED
    BY <1>9, <2>1, <2>2, <2>3, <2>4, <2>5, <2>6 DEF Resolve
<1>10. CASE Abandon
  BY <1>10 DEF Abandon, DropHeld, NoItem
<1>11. CASE Select
  <2>1. CASE SelectResult
    BY <2>1 DEF SelectResult
  <2>2. CASE SelectCompletion
    BY <2>2 DEF SelectCompletion, ReceiveCompletion
  <2>3. CASE SelectSend
    BY <2>3 DEF SelectSend, NoItem
  <2>4. CASE SelectDone
    BY <2>4 DEF SelectDone, DropHeld, NoItem
  <2>5. CASE \E src \in Sources : SelectClosed(src)
    BY <2>5 DEF SelectClosed
  <2>6. QED
    BY <1>11, <2>1, <2>2, <2>3, <2>4, <2>5 DEF Select
<1>12. CASE Apply
  <2>1. CASE CollectHole
    BY <2>1 DEF CollectHole
  <2>2. CASE CollectReady
    BY <2>2 DEF CollectReady
  <2>3. CASE CollectEnd
    BY <2>3 DEF CollectEnd
  <2>4. CASE ApplyCommit
    <3>1. Head(batch) \in Completion
      BY <2>4 DEF ApplyCommit, ApplyNext
    <3>2. QED
      BY <2>4, <3>1 DEF ApplyCommit, ApplyNext, Completion
  <2>5. CASE ApplySkip
    BY <2>5 DEF ApplySkip, ApplyNext
  <2>6. CASE ApplyDeleted
    BY <2>6 DEF ApplyDeleted, ApplyNext
  <2>7. CASE ApplyStale
    BY <2>7 DEF ApplyStale, ApplyNext, DropHeld, NoItem
  <2>8. CASE ApplyEnd
    BY <2>8 DEF ApplyEnd
  <2>9. QED
    BY <1>12, <2>1, <2>2, <2>3, <2>4, <2>5, <2>6, <2>7, <2>8 DEF Apply
<1>13. CASE Finalize
  <2>1. CASE DrainReceive
    BY <2>1 DEF DrainReceive, ReceiveCompletion
  <2>2. CASE DrainSettled
    BY <2>2 DEF DrainSettled
  <2>3. CASE TailReceive
    BY <2>3 DEF TailReceive, ReceiveCompletion
  <2>4. CASE TailEmpty
    <3>1. CASE ~cancelled
      <4>1. /\ coll' = "walk"
            /\ UNCHANGED <<dispVars, fetchVars, popVars, hold, inFlight, poolVars,
                           seen, applyVars, epVars, endVars>>
        BY <2>4, <3>1, Zenon DEF TailEmpty
      <4>2. QED
        BY <4>1
    <3>2. CASE cancelled
      <4>1. EndTypes'
        BY <2>4, <3>2, EndEpisodeTypes DEF EndTypes, endVars, TailEmpty
      <4>2. CASE ep = "stale"
        BY <2>4, <3>2, <4>1, <4>2 DEF EndTypes, TailEmpty, Resume
      <4>3. CASE ep # "stale"
        BY <2>4, <3>2, <4>1, <4>3 DEF EndTypes, TailEmpty, Resume
      <4>4. QED
        BY <4>2, <4>3
    <3>3. QED
      BY <3>1, <3>2
  <2>5. CASE WalkFound
    <3>1. EndTypes'
      BY <2>5, EndEpisodeTypes DEF EndTypes, endVars, WalkFound, Resume
    <3>2. QED
      <4>1. CASE ep = "stale"
        BY <2>5, <3>1, <4>1 DEF EndTypes, WalkFound, Resume
      <4>2. CASE ep # "stale"
        BY <2>5, <3>1, <4>2 DEF EndTypes, WalkFound, Resume
      <4>3. QED
        BY <4>1, <4>2
  <2>6. CASE WalkFailed
    <3>1. EndTypes'
      BY <2>6, EndEpisodeTypes DEF EndTypes, endVars, WalkFailed, Resume
    <3>2. QED
      <4>1. CASE ep = "stale"
        BY <2>6, <3>1, <4>1 DEF EndTypes, WalkFailed, Resume
      <4>2. CASE ep # "stale"
        BY <2>6, <3>1, <4>2 DEF EndTypes, WalkFailed, Resume
      <4>3. QED
        BY <4>1, <4>2
  <2>7. QED
    BY <1>13, <2>1, <2>2, <2>3, <2>4, <2>5, <2>6 DEF Finalize
<1>14. CASE UNCHANGED vars
  BY <1>14 DEF vars
<1>15. QED
  BY <1>1, <1>2, <1>3, <1>4, <1>5, <1>6, <1>7, <1>8, <1>9, <1>10, <1>11,
     <1>12, <1>13, <1>14 DEF Next, Collector, Returned

\* Every variable of a run keeps its type, whatever the number of workers, the
\* look-ahead and the bounds.
THEOREM TypeCorrect == Spec => []TypeOK
  BY TypeInit, TypeStep, PTL DEF Spec

(***************************************************************************)
(* The pool invariant: the registrations of the in-flight group are exact, *)
(* a channel closes after its senders are gone, and a drain phase keeps    *)
(* its episode, its settled group and its empty hands.                     *)
(***************************************************************************)

\* The collector is inside drainInFlightStores or the walk-back after it ...
InDrain == \/ coll \in {"drain", "tail", "walk"}
           \/ coll \in {"collect", "apply"} /\ ret # "loop"

\* ... and past the wait on the in-flight group.
Settled == \/ coll \in {"tail", "walk"}
           \/ coll \in {"collect", "apply"} /\ ret = "tail"

\* The in-flight group is exact, and a pool or a fetch worker is gone only
\* after its work is.
PoolInv ==
  /\ InFlightExact
  /\ \A w \in Storers : sw[w].pc = "exited" => storeClosed /\ storeChan = <<>>
  /\ resultsClosed => AllFetchersExited
  /\ completionClosed => AllStorersExited

\* What the collector knows at each of its steps.
CollectorInv ==
  /\ nextToCommit # NoItem
  /\ storeClosed => cancelled /\ hold = NoItem
  /\ ep # "none" \/ rb => hold = NoItem
  /\ InDrain => ep # "none"
  /\ Settled => inFlight = 0
  /\ coll = "walk" => completionChan = <<>>

PipelineInv == PoolInv /\ CollectorInv

\* A step that leaves the pool alone registers an item, drops the item it
\* holds, or does neither.
Registration ==
  /\ disp' = disp /\ fw' = fw /\ sw' = sw /\ storeChan' = storeChan
  /\ storeClosed => storeClosed'
  /\ \/ hold' = hold /\ inFlight' = inFlight
     \/ DropHeld
     \/ hold = NoItem /\ hold' # NoItem /\ inFlight' = inFlight + 1

\* The pool is finite, so the busy store workers can be counted.
LEMMA BusyFinite == IsFiniteSet(Busy) /\ Cardinality(Busy) \in Nat
  BY FS_Subset, FS_CardinalityType, PipelineAssumption DEF Busy

\* A store worker that stays busy, or stays idle, keeps the count, ...
LEMMA BusyKept ==
  ASSUME TypeOK, NEW w \in Storers, NEW new, sw' = [sw EXCEPT ![w] = new],
         sw[w].pc \in {"store", "report", "drop"}
           <=> new.pc \in {"store", "report", "drop"}
  PROVE  Busy' = Busy
<1>1. sw \in [Storers -> [pc : {"idle", "store", "report", "drop", "exited"},
                           h : Nat, res : Outcomes]]
  BY DEF TypeOK
<1>2. QED
  BY <1>1 DEF Busy

\* ... a worker that takes a task raises it by one, ...
LEMMA BusyGrows ==
  ASSUME TypeOK, NEW w \in Storers, NEW new, sw' = [sw EXCEPT ![w] = new],
         sw[w].pc = "idle", new.pc \in {"store", "report", "drop"}
  PROVE  Cardinality(Busy') = Cardinality(Busy) + 1
<1>1. sw \in [Storers -> [pc : {"idle", "store", "report", "drop", "exited"},
                           h : Nat, res : Outcomes]]
  BY DEF TypeOK
<1>2. Busy' = Busy \cup {w} /\ w \notin Busy
  BY <1>1 DEF Busy
<1>3. QED
  BY <1>2, BusyFinite, FS_AddElement

\* ... and a worker that sends its completion lowers it by one.
LEMMA BusyShrinks ==
  ASSUME TypeOK, NEW w \in Storers, NEW new, sw' = [sw EXCEPT ![w] = new],
         sw[w].pc \in {"store", "report", "drop"}, new.pc = "idle"
  PROVE  Cardinality(Busy') = Cardinality(Busy) - 1
<1>1. sw \in [Storers -> [pc : {"idle", "store", "report", "drop", "exited"},
                           h : Nat, res : Outcomes]]
  BY DEF TypeOK
<1>2. Busy' = Busy \ {w} /\ w \in Busy
  BY <1>1 DEF Busy
<1>3. QED
  BY <1>2, BusyFinite, FS_RemoveElement

\* A registration that is not dropped yet shows in the counter.
LEMMA BusyCounts ==
  ASSUME TypeOK, PoolInv, NEW w \in Busy
  PROVE  inFlight # 0
<1>1. Len(storeChan) \in Nat /\ HeldCount \in {0, 1}
  BY DEF TypeOK, HeldCount
<1>2. Cardinality(Busy) \in Nat /\ Cardinality(Busy) # 0
  BY BusyFinite, FS_EmptySet
<1>3. InFlightExact
  BY DEF PoolInv
<1>4. QED
  BY ONLY <1>1, <1>2, <1>3 DEF InFlightExact

\* A run starts with an empty pool and open channels.
LEMMA PipelineInit == Init => PipelineInv
<1> SUFFICES ASSUME Init PROVE PipelineInv
  OBVIOUS
<1>1. Busy = {}
  BY DEF Init, Busy, IdleStore, Storing
<1>2. InFlightExact
  BY <1>1, FS_EmptySet DEF Init, InFlightExact, HeldCount
<1>3. PoolInv
  BY <1>2 DEF Init, PoolInv, resultsClosed, completionClosed, IdleStore, Storing
<1>4. CollectorInv
  BY PipelineAssumption DEF Init, CollectorInv, InDrain, Settled, NoItem
<1>5. QED
  BY <1>3, <1>4 DEF PipelineInv

\* A step that moves no worker and no channel of the pool keeps its invariant.
LEMMA PoolFrame ==
  ASSUME TypeOK, PoolInv, Registration
  PROVE  PoolInv'
<1>1. sw' = sw /\ storeChan' = storeChan /\ fw' = fw /\ disp' = disp
  BY DEF Registration
<1>2. Busy' = Busy
  BY <1>1 DEF Busy
<1>3. InFlightExact'
  <2>1. /\ Len(storeChan) \in Nat /\ inFlight \in Int /\ Cardinality(Busy) \in Nat
    BY BusyFinite DEF TypeOK
  <2>2. Cardinality(Busy') = Cardinality(Busy) /\ Len(storeChan') = Len(storeChan)
    BY <1>1, <1>2
  <2>3. InFlightExact
    BY DEF PoolInv
  <2>4. \/ hold' = hold /\ inFlight' = inFlight
        \/ DropHeld
        \/ hold = NoItem /\ hold' # NoItem /\ inFlight' = inFlight + 1
    BY DEF Registration
  <2>5. QED
    BY ONLY <2>1, <2>2, <2>3, <2>4 DEF InFlightExact, HeldCount, DropHeld
<1>4. \A w \in Storers : sw'[w].pc = "exited" => storeClosed' /\ storeChan' = <<>>
  BY <1>1 DEF PoolInv, Registration
<1>5. resultsClosed' = resultsClosed /\ completionClosed' = completionClosed
  BY <1>1 DEF resultsClosed, completionClosed
<1>6. AllFetchersExited' = AllFetchersExited /\ AllStorersExited' = AllStorersExited
  BY <1>1 DEF AllFetchersExited, AllStorersExited
<1>7. QED
  BY <1>3, <1>4, <1>5, <1>6 DEF PoolInv

\* A store worker moves; only the exit of one needs the channel closed.
LEMMA StorerFrame ==
  ASSUME TypeOK, PoolInv, InFlightExact', NEW w \in Storers, NEW new,
         sw[w].pc # "exited", sw' = [sw EXCEPT ![w] = new],
         UNCHANGED <<disp, fw, storeClosed>>,
         storeChan' = storeChan \/ storeChan # <<>>,
         new.pc = "exited" => storeClosed /\ storeChan = <<>>
  PROVE  PoolInv'
<1>1. sw \in [Storers -> [pc : {"idle", "store", "report", "drop", "exited"},
                           h : Nat, res : Outcomes]]
  BY DEF TypeOK
<1>2. \A v \in Storers : sw'[v] = IF v = w THEN new ELSE sw[v]
  BY <1>1
<1>3. \A v \in Storers : sw'[v].pc = "exited" => storeClosed' /\ storeChan' = <<>>
  BY <1>2 DEF PoolInv
<1>4. ~completionClosed
  BY DEF PoolInv, AllStorersExited
<1>5. ~completionClosed' /\ (resultsClosed' => AllFetchersExited')
  BY <1>4 DEF PoolInv, completionClosed, resultsClosed, AllFetchersExited
<1>6. QED
  BY <1>3, <1>5 DEF PoolInv

\* Every step keeps the in-flight count and the closing order of the pool.
LEMMA PoolStep == TypeOK /\ PipelineInv /\ [Next]_vars => PoolInv'
<1> SUFFICES ASSUME TypeOK, PipelineInv, [Next]_vars PROVE PoolInv'
  OBVIOUS
<1> USE DEF dispVars, fetchVars, poolVars, applyVars, popVars, epVars, endVars
<1>a. PoolInv /\ CollectorInv
  BY DEF PipelineInv
<1>1. CASE Cancel \/ Dispatch \/ SignDone \/ UNCHANGED vars
  <2> SUFFICES Registration
    BY <1>a, PoolFrame
  <2>1. CASE Cancel
    BY <2>1 DEF Cancel, Registration
  <2>2. CASE Dispatch
    BY <2>2 DEF Dispatch, Registration
  <2>3. CASE SignDone
    BY <2>3 DEF SignDone, Registration
  <2>4. CASE UNCHANGED vars
    BY <2>4 DEF vars, Registration
  <2>5. QED
    BY <1>1, <2>1, <2>2, <2>3, <2>4
<1>2. CASE Shutdown
  <2>1. UNCHANGED <<fw, sw, storeChan, storeClosed, hold, inFlight>>
    BY <1>2, Zenon DEF Shutdown, ShutdownStep, CloseWork, CloseResults,
         CloseCompletions, AwaitCollector, AwaitSigners
  <2>2. Busy' = Busy
    BY <2>1 DEF Busy
  <2>3. InFlightExact'
    BY <1>a, <2>1, <2>2 DEF PoolInv, InFlightExact, HeldCount
  <2>4. AllFetchersExited' = AllFetchersExited /\ AllStorersExited' = AllStorersExited
    BY <2>1 DEF AllFetchersExited, AllStorersExited
  <2>5. /\ resultsClosed' => resultsClosed \/ AllFetchersExited
        /\ completionClosed' => completionClosed \/ AllStorersExited
    BY <1>2 DEF Shutdown, ShutdownStep, CloseWork, CloseResults, CloseCompletions,
         AwaitCollector, AwaitSigners, resultsClosed, completionClosed
  <2>6. \A w \in Storers : sw'[w].pc = "exited" => storeClosed' /\ storeChan' = <<>>
    BY <1>a, <2>1 DEF PoolInv
  <2>7. QED
    BY <1>a, <2>3, <2>4, <2>5, <2>6 DEF PoolInv
<1>3. ASSUME NEW w \in Fetchers, Fetcher(w) PROVE PoolInv'
  <2>1. UNCHANGED <<disp, sw, storeChan, storeClosed, hold, inFlight>>
    BY <1>3, Zenon DEF Fetcher, FetchTake, FetchDone, FetchSend, FetchExit
  <2>2. ~resultsClosed
    BY <1>3, <1>a DEF Fetcher, FetchTake, FetchDone, FetchSend, FetchExit, PoolInv,
         AllFetchersExited
  <2>3. Busy' = Busy
    BY <2>1 DEF Busy
  <2>4. InFlightExact'
    BY <1>a, <2>1, <2>3 DEF PoolInv, InFlightExact, HeldCount
  <2>5. ~resultsClosed' /\ (completionClosed' => AllStorersExited')
    BY <1>a, <2>1, <2>2 DEF PoolInv, resultsClosed, completionClosed, AllStorersExited
  <2>6. \A v \in Storers : sw'[v].pc = "exited" => storeClosed' /\ storeChan' = <<>>
    BY <1>a, <2>1 DEF PoolInv
  <2>7. QED
    BY <2>4, <2>5, <2>6 DEF PoolInv
<1>4. ASSUME NEW w \in Storers, Storer(w) PROVE PoolInv'
  <2>a. /\ InFlightExact /\ Len(storeChan) \in Nat /\ inFlight \in Int
        /\ Cardinality(Busy) \in Nat
    BY <1>a, BusyFinite DEF PoolInv, TypeOK
  <2>1. CASE StoreTake(w)
    <3>1. UNCHANGED <<disp, fw, storeClosed, hold, inFlight>> /\ storeChan # <<>>
      BY <2>1, Zenon DEF StoreTake
    <3>2. Cardinality(Busy') = Cardinality(Busy) + 1
      BY <2>1, BusyGrows DEF StoreTake, Storing
    <3>3. Len(storeChan') = Len(storeChan) - 1
      <4>1. storeChan \in Seq(Nat)
        BY DEF TypeOK
      <4>2. QED
        BY <2>1, <4>1 DEF StoreTake
    <3>4. InFlightExact'
      <4>1. hold' = hold /\ inFlight' = inFlight
        BY <3>1
      <4>2. QED
        BY ONLY <2>a, <3>2, <3>3, <4>1 DEF InFlightExact, HeldCount
    <3>5. QED
      BY <1>a, <2>1, <3>1, <3>4, StorerFrame DEF StoreTake, Storing
  <2>2. CASE StoreDone(w)
    <3>1. UNCHANGED <<disp, fw, storeClosed, storeChan, hold, inFlight>>
      BY <2>2, Zenon DEF StoreDone
    <3>2. PICK res \in Outcomes :
            sw' = [sw EXCEPT ![w] = Storing("report", sw[w].h, res)]
      BY <2>2, Zenon DEF StoreDone
    <3>3. Busy' = Busy
      BY <2>2, <3>2, BusyKept DEF StoreDone, Storing
    <3>4. InFlightExact'
      BY <2>a, <3>1, <3>3 DEF InFlightExact, HeldCount
    <3>5. QED
      BY <1>a, <2>2, <3>1, <3>2, <3>4, StorerFrame DEF StoreDone, Storing
  <2>3. CASE StoreReport(w)
    <3>1. UNCHANGED <<disp, fw, storeClosed, storeChan, hold, inFlight>>
      BY <2>3, Zenon DEF StoreReport
    <3>2. Busy' = Busy
      BY <2>3, BusyKept DEF StoreReport, Storing
    <3>3. InFlightExact'
      BY <2>a, <3>1, <3>2 DEF InFlightExact, HeldCount
    <3>4. QED
      BY <1>a, <2>3, <3>1, <3>3, StorerFrame DEF StoreReport, Storing
  <2>4. CASE StoreDrop(w)
    <3>1. UNCHANGED <<disp, fw, storeClosed, storeChan, hold>>
      BY <2>4, Zenon DEF StoreDrop
    <3>2. Cardinality(Busy') = Cardinality(Busy) - 1 /\ inFlight' = inFlight - 1
      BY <2>4, BusyShrinks DEF StoreDrop, IdleStore, Storing
    <3>3. InFlightExact'
      <4>1. hold' = hold /\ Len(storeChan') = Len(storeChan)
        BY <3>1
      <4>2. QED
        BY ONLY <2>a, <3>2, <4>1 DEF InFlightExact, HeldCount
    <3>4. QED
      BY <1>a, <2>4, <3>1, <3>3, StorerFrame DEF StoreDrop, IdleStore, Storing
  <2>5. CASE StoreExit(w)
    <3>1. UNCHANGED <<disp, fw, storeClosed, storeChan, hold, inFlight>>
      BY <2>5, Zenon DEF StoreExit
    <3>2. Busy' = Busy
      BY <2>5, BusyKept DEF StoreExit, Storing
    <3>3. InFlightExact'
      BY <2>a, <3>1, <3>2 DEF InFlightExact, HeldCount
    <3>4. QED
      BY <1>a, <2>5, <3>1, <3>3, StorerFrame DEF StoreExit, Storing
  <2>6. QED
    BY <1>4, <2>1, <2>2, <2>3, <2>4, <2>5, Zenon DEF Storer
<1>5. CASE Collector
  <2>1. CASE SelectSend
    <3>1. /\ UNCHANGED <<disp, fw, storeClosed, sw, inFlight>>
          /\ hold # NoItem /\ hold' = NoItem /\ storeChan' = Append(storeChan, hold)
      BY <2>1, Zenon DEF SelectSend
    <3>2. Busy' = Busy
      BY <3>1 DEF Busy
    <3>3. Len(storeChan') = Len(storeChan) + 1 /\ Len(storeChan) \in Nat
      BY <3>1 DEF TypeOK
    <3>4. InFlightExact'
      <4>1. InFlightExact /\ Cardinality(Busy) \in Nat
        BY <1>a, BusyFinite DEF PoolInv
      <4>2. Cardinality(Busy') = Cardinality(Busy)
        BY <3>2
      <4>3. QED
        BY ONLY <3>1, <3>3, <4>1, <4>2 DEF InFlightExact, HeldCount
    <3>5. ~storeClosed
      BY <1>a, <3>1 DEF CollectorInv
    <3>6. \A w \in Storers : sw'[w].pc # "exited"
      BY <1>a, <3>1, <3>5 DEF PoolInv
    <3>7. /\ resultsClosed' => AllFetchersExited'
          /\ completionClosed' => AllStorersExited'
      BY <1>a, <3>1 DEF PoolInv, resultsClosed, completionClosed, AllFetchersExited,
           AllStorersExited
    <3>8. QED
      BY <3>4, <3>6, <3>7 DEF PoolInv
  <2>2. CASE ~SelectSend
    <3> SUFFICES Registration
      BY <1>a, PoolFrame
    <3> USE DEF Registration
    <3>1. CASE PopNothing
      BY <3>1 DEF PopNothing
    <3>2. CASE Pop
      <4>1. PICK r \in pending : \/ PopDropped(r) \/ PopHole(r) \/ PopChecked(r)
                                  \/ PopMismatch(r) \/ PopParked(r)
        BY <3>2 DEF Pop
      <4>2. /\ disp' = disp /\ fw' = fw /\ sw' = sw /\ storeChan' = storeChan
            /\ storeClosed' = storeClosed /\ hold = NoItem /\ r.h # NoItem
        BY <1>a, <4>1, Zenon DEF Popped, PopDropped, PopHole, PopChecked, PopMismatch,
             PopParked, CollectorInv
      <4>3. \/ hold' = hold /\ inFlight' = inFlight
            \/ hold' = r.h /\ inFlight' = inFlight + 1
        BY <4>1, Zenon DEF PopDropped, PopHole, PopChecked, PopMismatch, PopParked
      <4>4. QED
        BY <4>2, <4>3
    <3>3. CASE Resolve
      <4>1. CASE ResolveStop
        BY <4>1 DEF ResolveStop
      <4>2. CASE ResolveConfirm
        BY <4>2 DEF ResolveConfirm, Resolving
      <4>3. CASE ResolveReanchor
        BY <4>3 DEF ResolveReanchor, Resolving
      <4>4. CASE ResolveRefill
        BY <4>4 DEF ResolveRefill, Resolving
      <4>5. CASE RefillFetched
        BY <4>5 DEF RefillFetched
      <4>6. CASE RefillFailed
        BY <4>6 DEF RefillFailed
      <4>7. QED
        BY <2>2, <3>3, <4>1, <4>2, <4>3, <4>4, <4>5, <4>6, Zenon DEF Resolve
    <3>4. CASE Select
      <4>1. CASE SelectResult
        BY <4>1 DEF SelectResult
      <4>2. CASE SelectCompletion
        BY <4>2 DEF SelectCompletion, ReceiveCompletion
      <4>3. CASE SelectDone
        BY <4>3 DEF SelectDone
      <4>4. CASE \E src \in Sources : SelectClosed(src)
        BY <4>4 DEF SelectClosed
      <4>5. QED
        BY <2>2, <3>4, <4>1, <4>2, <4>3, <4>4, Zenon DEF Select
    <3>5. CASE Apply
      <4>1. CASE CollectHole
        BY <4>1 DEF CollectHole
      <4>2. CASE CollectReady
        BY <4>2 DEF CollectReady
      <4>3. CASE CollectEnd
        BY <4>3 DEF CollectEnd
      <4>4. CASE ApplyCommit
        BY <4>4 DEF ApplyCommit, ApplyNext
      <4>5. CASE ApplySkip
        BY <4>5 DEF ApplySkip, ApplyNext
      <4>6. CASE ApplyDeleted
        BY <4>6 DEF ApplyDeleted, ApplyNext
      <4>7. CASE ApplyStale
        BY <4>7 DEF ApplyStale, ApplyNext
      <4>8. CASE ApplyEnd
        BY <4>8 DEF ApplyEnd
      <4>9. QED
        BY <2>2, <3>5, <4>1, <4>2, <4>3, <4>4, <4>5, <4>6, <4>7, <4>8, Zenon DEF Apply
    <3>6. CASE Finalize
      <4>1. CASE DrainReceive
        BY <4>1 DEF DrainReceive, ReceiveCompletion
      <4>2. CASE DrainSettled
        BY <4>2 DEF DrainSettled
      <4>3. CASE TailReceive
        BY <4>3 DEF TailReceive, ReceiveCompletion
      <4>4. CASE TailEmpty
        BY <4>4 DEF TailEmpty, Resume
      <4>5. CASE WalkFound
        BY <4>5 DEF WalkFound, Resume
      <4>6. CASE WalkFailed
        BY <4>6 DEF WalkFailed, Resume
      <4>7. QED
        BY <2>2, <3>6, <4>1, <4>2, <4>3, <4>4, <4>5, <4>6, Zenon DEF Finalize
    <3>7. CASE Abandon
      BY <3>7 DEF Abandon
    <3>8. QED
      BY <1>5, <3>1, <3>2, <3>3, <3>4, <3>5, <3>6, <3>7, Zenon DEF Collector
  <2>3. QED
    BY <2>1, <2>2
<1>6. QED
  BY <1>1, <1>2, <1>3, <1>4, <1>5, Zenon DEF Next, Returned

\* Every step keeps the discipline of the drain and of the walk-back.
LEMMA CollectorStep == TypeOK /\ PipelineInv /\ [Next]_vars => CollectorInv'
<1> SUFFICES ASSUME TypeOK, PipelineInv, [Next]_vars PROVE CollectorInv'
  OBVIOUS
<1> USE DEF dispVars, fetchVars, poolVars, applyVars, popVars, epVars, endVars
<1>a. PoolInv /\ CollectorInv
  BY DEF PipelineInv
<1>b. nextToCommit \in Nat /\ ret \in {"loop", "drain", "tail"}
  BY DEF TypeOK
<1> USE DEF CollectorInv, InDrain, Settled
<1>1. CASE Cancel \/ Dispatch \/ Shutdown \/ SignDone \/ UNCHANGED vars
  <2>1. CASE Cancel
    BY <1>a, <2>1 DEF Cancel
  <2>2. CASE Dispatch
    BY <1>a, <2>2 DEF Dispatch
  <2>3. CASE Shutdown
    <3>1. UNCHANGED <<nextToCommit, hold, storeClosed, ep, rb, coll, ret, inFlight,
                      completionChan, cancelled>>
      BY <2>3, Zenon DEF Shutdown, ShutdownStep, CloseWork, CloseResults,
           CloseCompletions, AwaitCollector, AwaitSigners
    <3>2. QED
      BY <1>a, <3>1
  <2>4. CASE SignDone
    BY <1>a, <2>4 DEF SignDone
  <2>5. CASE UNCHANGED vars
    BY <1>a, <2>5 DEF vars
  <2>6. QED
    BY <1>1, <2>1, <2>2, <2>3, <2>4, <2>5
<1>2. ASSUME NEW w \in Fetchers, Fetcher(w) PROVE CollectorInv'
  <2>1. UNCHANGED <<nextToCommit, hold, storeClosed, ep, rb, coll, ret, inFlight,
                    completionChan, cancelled>>
    BY <1>2, Zenon DEF Fetcher, FetchTake, FetchDone, FetchSend, FetchExit
  <2>2. QED
    BY <1>a, <2>1
<1>3. ASSUME NEW w \in Storers, Storer(w) PROVE CollectorInv'
  <2>1. UNCHANGED <<nextToCommit, hold, storeClosed, ep, rb, coll, ret, cancelled>>
    BY <1>3, Zenon DEF Storer, StoreTake, StoreDone, StoreReport, StoreDrop, StoreExit
  <2>2. \/ UNCHANGED <<inFlight, completionChan>>
        \/ sw[w].pc \in {"report", "drop"}
    BY <1>3, Zenon DEF Storer, StoreTake, StoreDone, StoreReport, StoreDrop, StoreExit
  <2>3. CASE UNCHANGED <<inFlight, completionChan>>
    BY <1>a, <2>1, <2>3
  <2>4. CASE sw[w].pc \in {"report", "drop"}
    <3>1. inFlight # 0
      <4>1. w \in Busy
        BY <2>4 DEF Busy
      <4>2. QED
        BY <1>a, <4>1, BusyCounts
    <3>2. QED
      BY <1>a, <2>1, <3>1
  <2>5. QED
    BY <2>2, <2>3, <2>4
<1>4. CASE PopNothing
  BY <1>a, <1>4 DEF PopNothing
<1>5. CASE Pop
  <2>1. PICK r \in pending : \/ PopDropped(r) \/ PopHole(r) \/ PopChecked(r)
                              \/ PopMismatch(r) \/ PopParked(r)
    BY <1>5 DEF Pop
  <2>2. /\ nextToCommit' = nextToCommit + 1 /\ coll' \in {"abandon", "resolve"}
        /\ hold = NoItem
        /\ UNCHANGED <<storeClosed, completionChan, ret, rb, cancelled>>
    BY <2>1, Zenon DEF Popped, PopDropped, PopHole, PopChecked, PopMismatch, PopParked
  <2>3. hold' = NoItem \/ (~cancelled /\ ep' = "none" /\ ~rb)
    BY <2>1, Zenon DEF Popped, PopDropped, PopHole, PopChecked, PopMismatch, PopParked
  <2>4. nextToCommit' # NoItem
    BY ONLY <1>b, <2>2 DEF NoItem
  <2>5. QED
    BY <1>a, <2>2, <2>3, <2>4
<1>6. CASE Resolve
  <2>1. CASE ResolveStop
    BY <1>a, <2>1 DEF ResolveStop
  <2>2. CASE ResolveConfirm
    BY <1>a, <2>2 DEF ResolveConfirm, Resolving, DropHeld
  <2>3. CASE ResolveReanchor
    BY <1>a, <2>3 DEF ResolveReanchor, Resolving, EndEpisode
  <2>4. CASE ResolveRefill
    BY <1>a, <2>4 DEF ResolveRefill, Resolving, EndEpisode
  <2>5. CASE RefillFetched
    BY <1>a, <2>5 DEF RefillFetched
  <2>6. CASE RefillFailed
    BY <1>a, <2>6 DEF RefillFailed, EndEpisode
  <2>7. QED
    BY <1>6, <2>1, <2>2, <2>3, <2>4, <2>5, <2>6, Zenon DEF Resolve
<1>7. CASE Abandon
  BY <1>a, <1>7 DEF Abandon, DropHeld
<1>8. CASE Select
  <2>1. CASE SelectResult
    BY <1>a, <2>1 DEF SelectResult
  <2>2. CASE SelectCompletion
    BY <1>a, <2>2 DEF SelectCompletion, ReceiveCompletion
  <2>3. CASE SelectSend
    BY <1>a, <2>3 DEF SelectSend
  <2>4. CASE SelectDone
    BY <1>a, <2>4 DEF SelectDone, DropHeld
  <2>5. CASE \E src \in Sources : SelectClosed(src)
    <3>1. PICK src \in Sources : SelectClosed(src)
      BY <2>5
    <3>2. coll' \in {"pop", "returned"}
      BY <3>1 DEF SelectClosed
    <3>3. UNCHANGED <<nextToCommit, hold, storeClosed, ep, rb, cancelled>>
      BY <3>1 DEF SelectClosed
    <3>4. QED
      BY <1>a, <3>2, <3>3
  <2>6. QED
    BY <1>8, <2>1, <2>2, <2>3, <2>4, <2>5, Zenon DEF Select
<1>9. CASE Apply
  <2>1. CASE CollectHole
    BY <1>a, <2>1 DEF CollectHole
  <2>2. CASE CollectReady
    BY <1>a, <2>2 DEF CollectReady
  <2>3. CASE CollectEnd
    BY <1>a, <2>3 DEF CollectEnd
  <2>4. CASE ApplyCommit
    BY <1>a, <2>4 DEF ApplyCommit, ApplyNext
  <2>5. CASE ApplySkip
    BY <1>a, <2>5 DEF ApplySkip, ApplyNext
  <2>6. CASE ApplyDeleted
    BY <1>a, <2>6 DEF ApplyDeleted, ApplyNext
  <2>7. CASE ApplyStale
    BY <1>a, <2>7 DEF ApplyStale, ApplyNext, DropHeld
  <2>8. CASE ApplyEnd
    BY <1>a, <1>b, <2>8 DEF ApplyEnd
  <2>9. QED
    BY <1>9, <2>1, <2>2, <2>3, <2>4, <2>5, <2>6, <2>7, <2>8, Zenon DEF Apply
<1>10. CASE Finalize
  <2>1. CASE DrainReceive
    BY <1>a, <2>1 DEF DrainReceive, ReceiveCompletion
  <2>2. CASE DrainSettled
    BY <1>a, <2>2 DEF DrainSettled
  <2>3. CASE TailReceive
    BY <1>a, <2>3 DEF TailReceive, ReceiveCompletion
  <2>4. CASE TailEmpty
    BY <1>a, <2>4 DEF TailEmpty, EndEpisode, Resume
  <2>5. CASE WalkFound
    BY <1>a, <2>5 DEF WalkFound, EndEpisode, Resume
  <2>6. CASE WalkFailed
    BY <1>a, <2>6 DEF WalkFailed, EndEpisode, Resume
  <2>7. QED
    BY <1>10, <2>1, <2>2, <2>3, <2>4, <2>5, <2>6, Zenon DEF Finalize
<1>11. QED
  BY <1>1, <1>2, <1>3, <1>4, <1>5, <1>6, <1>7, <1>8, <1>9, <1>10, Zenon
  DEF Next, Collector, Returned

\* The inductive invariant of a run.
LEMMA Invariance == Spec => [](TypeOK /\ PipelineInv)
<1>1. TypeOK /\ PipelineInv /\ [Next]_vars => PipelineInv'
  BY PoolStep, CollectorStep DEF PipelineInv
<1>2. QED
  BY <1>1, TypeInit, TypeStep, PipelineInit, PTL DEF Spec

\* The in-flight WaitGroup is exact in every reachable state: it never goes
\* negative, and no registration is left that nobody will drop.
THEOREM InFlightIsExact == Spec => []InFlightExact
<1>1. TypeOK /\ PipelineInv => InFlightExact
  BY DEF PipelineInv, PoolInv
<1>2. QED
  BY <1>1, Invariance, PTL

\* No goroutine of a run can send on a channel that is already closed, so
\* shutdown never panics.
THEOREM SendsPrecedeCloses == Spec => []NoSendAfterClose
<1>1. TypeOK /\ PipelineInv => NoSendAfterClose
  BY DEF PipelineInv, PoolInv, CollectorInv, NoSendAfterClose, AllFetchersExited, AllStorersExited
<1>2. QED
  BY <1>1, Invariance, PTL

\* The walk-back of finalizeEpisode reads a database no store is writing to.
THEOREM WalkBackIsQuiescent == Spec => []QuiescentWalkBack
<1>1. TypeOK /\ PipelineInv => QuiescentWalkBack
  <2> SUFFICES ASSUME TypeOK, PipelineInv, coll = "walk"
               PROVE  /\ storeChan = <<>> /\ Busy = {}
                      /\ hold = NoItem /\ completionChan = <<>>
    BY DEF QuiescentWalkBack
  <2>1. HeldCount + Len(storeChan) + Cardinality(Busy) = 0
    BY DEF PipelineInv, PoolInv, CollectorInv, InFlightExact, Settled
  <2>2. /\ HeldCount \in {0, 1} /\ Len(storeChan) \in Nat
        /\ Cardinality(Busy) \in Nat
    BY BusyFinite DEF HeldCount, TypeOK
  <2>3. HeldCount = 0 /\ Len(storeChan) = 0 /\ Cardinality(Busy) = 0
    BY ONLY <2>1, <2>2
  <2>4. Busy = {}
    BY <2>3, BusyFinite, FS_EmptySet
  <2>5. QED
    <3>1. storeChan \in Seq(Nat)
      BY DEF TypeOK
    <3>2. storeChan = <<>> /\ hold = NoItem
      BY <2>3, <3>1 DEF HeldCount
    <3>3. completionChan = <<>>
      BY DEF PipelineInv, CollectorInv
    <3>4. QED
      BY <2>4, <3>2, <3>3
<1>2. QED
  BY <1>1, Invariance, PTL

\* From the moment an episode opens until the run has ended, the collector
\* neither registers nor hands a block to the store pool.
THEOREM HoldBackHolds == Spec => HoldBack
<1>1. ASSUME TypeOK, PipelineInv, [Next]_vars, ep # "none" \/ rb, vars' # vars
      PROVE  hold' \in {hold, NoItem} /\ Len(storeChan') <= Len(storeChan)
  <2> USE <1>1 DEF dispVars, fetchVars, poolVars, applyVars, popVars, epVars, endVars
  <2>1. storeChan \in Seq(Nat) /\ hold = NoItem
    BY DEF TypeOK, PipelineInv, CollectorInv
  <2>2. CASE Cancel \/ Dispatch \/ Shutdown \/ SignDone
    <3>1. hold' = hold /\ storeChan' = storeChan
      BY <2>2, Zenon DEF Cancel, Dispatch, Shutdown, ShutdownStep, CloseWork,
           CloseResults, CloseCompletions, AwaitCollector, AwaitSigners, SignDone
    <3>2. QED
      BY <2>1, <3>1
  <2>3. CASE \E w \in Fetchers : Fetcher(w)
    <3>1. hold' = hold /\ storeChan' = storeChan
      BY <2>3, Zenon DEF Fetcher, FetchTake, FetchDone, FetchSend, FetchExit
    <3>2. QED
      BY <2>1, <3>1
  <2>4. CASE \E w \in Storers : Storer(w)
    <3>1. /\ hold' = hold
          /\ \/ storeChan' = storeChan
             \/ storeChan # <<>> /\ storeChan' = Tail(storeChan)
      BY <2>4, Zenon DEF Storer, StoreTake, StoreDone, StoreReport, StoreDrop,
           StoreExit
    <3>2. QED
      BY <2>1, <3>1
  <2>5. CASE PopNothing \/ Pop
    <3>1. hold' = hold /\ storeChan' = storeChan
      BY <2>5, Zenon DEF PopNothing, Pop, Popped, PopDropped, PopHole, PopChecked,
           PopMismatch, PopParked
    <3>2. QED
      BY <2>1, <3>1
  <2>6. CASE Resolve \/ Abandon
    <3>1. hold' \in {hold, NoItem} /\ storeChan' = storeChan
      BY <2>6, Zenon DEF Resolve, Resolving, ResolveStop, ResolveConfirm,
           ResolveReanchor, ResolveRefill, RefillFetched, RefillFailed, DropHeld,
           Abandon
    <3>2. QED
      BY <2>1, <3>1
  <2>7. CASE Select
    <3>1. hold' \in {hold, NoItem} /\ storeChan' = storeChan
      BY <2>1, <2>7, Zenon DEF Select, SelectResult, SelectCompletion,
           ReceiveCompletion, SelectSend, SelectDone, SelectClosed, DropHeld
    <3>2. QED
      BY <2>1, <3>1
  <2>8. CASE Apply
    <3>1. hold' \in {hold, NoItem} /\ storeChan' = storeChan
      BY <2>8, Zenon DEF Apply, CollectHole, CollectReady, CollectEnd, ApplyNext,
           ApplyCommit, ApplySkip, ApplyDeleted, ApplyStale, ApplyEnd, DropHeld
    <3>2. QED
      BY <2>1, <3>1
  <2>9. CASE Finalize
    <3>1. hold' = hold /\ storeChan' = storeChan
      BY <2>9, Zenon DEF Finalize, DrainReceive, DrainSettled, TailReceive,
           TailEmpty, WalkFound, WalkFailed, ReceiveCompletion, Resume
    <3>2. QED
      BY <2>1, <3>1
  <2>10. QED
    BY <2>2, <2>3, <2>4, <2>5, <2>6, <2>7, <2>8, <2>9
    DEF Next, Collector, Returned
<1>2. TypeOK /\ PipelineInv /\ [Next]_vars =>
        [ep # "none" \/ rb => /\ hold' \in {hold, NoItem}
                              /\ Len(storeChan') <= Len(storeChan)]_vars
  BY <1>1
<1>3. QED
  BY <1>2, Invariance, PTL DEF Spec, HoldBack

=============================================================================
