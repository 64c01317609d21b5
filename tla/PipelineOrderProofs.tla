------------------------- MODULE PipelineOrderProofs -------------------------
(* The order of a run's callbacks and what a drain leaves behind, for every   *)
(* number of workers and every bound.                                         *)
EXTENDS PipelineRefinementProofs

-----------------------------------------------------------------------------
(* The steps of the store workers and the collector                          *)

\* A store worker's record changes, and nothing else.
LEMMA StorersMove ==
  ASSUME TypeOK, NEW w \in Storers, NEW new, sw' = [sw EXCEPT ![w] = new]
  PROVE  \A v \in Storers : sw'[v] = IF v = w THEN new ELSE sw[v]
<1>1. sw \in [Storers -> [pc : {"idle", "store", "report", "drop", "exited"},
                           h : Nat, res : Outcomes]]
  BY Zenon DEF TypeOK
<1>2. QED
  BY <1>1, Zenon

\* What a store worker does to the stages and to the rest of the state.
LEMMA PoolStages ==
  ASSUME TypeOK, StageInv, NEW w \in Storers, Storer(w)
  PROVE  StageInv'
<1> USE DEF dispVars, fetchVars, popVars, applyVars, epVars, endVars
<1>a. /\ UNCHANGED <<hold, reorder, holes, cursor, nextToCommit, ep, cancelled, rb, coll>>
      /\ At'["held"] = At["held"] /\ At'["parked"] = At["parked"]
      /\ At'["hole"] = At["hole"]
  <2>1. UNCHANGED <<hold, reorder, holes, cursor, nextToCommit, ep, cancelled, rb, coll>>
    BY Zenon DEF Storer, StoreTake, StoreDone, StoreReport, StoreDrop, StoreExit
  <2>2. QED
    BY <2>1, AtStages, AtStagesNext, Zenon
<1>b. FlagsKept /\ Once /\ Apart(At)
  BY <1>a, Zenon DEF FlagsKept, StageInv
<1>c. storeChan \in Seq(Nat) /\ completionChan \in Seq(Completion)
  BY Zenon DEF TypeOK
<1>1. CASE StoreTake(w)
  <2>1. /\ storeChan # <<>> /\ storeChan' = Tail(storeChan)
        /\ completionChan' = completionChan /\ sw[w].pc = "idle"
        /\ sw' = [sw EXCEPT ![w] = Storing("store", Head(storeChan), "ok")]
    BY <1>1, Zenon DEF StoreTake
  <2>2. \A v \in Storers :
          sw'[v] = IF v = w THEN Storing("store", Head(storeChan), "ok") ELSE sw[v]
    BY <2>1, StorersMove
  <2>3. Storings' = Storings \cup {w} /\ w \notin Storings
    BY <2>1, <2>2 DEF Storings, Storing
  <2>4. sw'[w].h = Head(storeChan) /\ \A v \in Storings : sw'[v].h = sw[v].h
    BY <2>2, <2>3 DEF Storings, Storing
  <2>5. /\ Head(storeChan) \in At["queued"]
        /\ At'["queued"] = At["queued"] \ {Head(storeChan)}
        /\ \A i, j \in 1 .. Len(storeChan') : storeChan'[i] = storeChan'[j] => i = j
    <3>1. \A i, j \in 1 .. Len(storeChan) : storeChan[i] = storeChan[j] => i = j
      BY <1>b, Zenon DEF Once
    <3>2. /\ Head(storeChan) \in {storeChan[i] : i \in 1 .. Len(storeChan)}
          /\ {Tail(storeChan)[i] : i \in 1 .. Len(Tail(storeChan))}
               = {storeChan[i] : i \in 1 .. Len(storeChan)} \ {Head(storeChan)}
          /\ \A i, j \in 1 .. Len(Tail(storeChan)) :
               Tail(storeChan)[i] = Tail(storeChan)[j] => i = j
      BY ONLY <1>c, <2>1, <3>1, QueueTail, Zenon
    <3>3. storeChan' = Tail(storeChan)
      BY <2>1, Zenon
    <3>4. At'["queued"] = {Tail(storeChan)[i] : i \in 1 .. Len(Tail(storeChan))}
      BY <3>3, AtStagesNext, Zenon
    <3>5. \A i, j \in 1 .. Len(storeChan') : storeChan'[i] = storeChan'[j] => i = j
      BY ONLY <3>2, <3>3, Zenon
    <3>6. QED
      BY ONLY <3>2, <3>4, <3>5, AtStages, Zenon
  <2>6. At'["working"] = At["working"] \cup {Head(storeChan)}
    BY <2>3, <2>4, AtStages, AtStagesNext
  <2>7. \A u, v \in Storings' : sw'[u].h = sw'[v].h => u = v
    <3>1. Head(storeChan) \notin At["working"]
      BY <1>b, <2>5, Zenon DEF Apart, Stages
    <3>2. \A v \in Storings : sw[v].h # Head(storeChan)
      BY <3>1, AtStages, Zenon
    <3>3. QED
      BY <1>b, <2>3, <2>4, <3>2 DEF Once
  <2>8. Once'
    BY <1>a, <1>b, <2>1, <2>5, <2>7, Zenon DEF Once
  <2>9. At'["done"] = At["done"]
    BY <2>1, AtStages, AtStagesNext
  <2>10. \A s \in Stages :
           At'[s] = IF s = "queued" THEN At["queued"] \ {Head(storeChan)}
                    ELSE IF s = "working" THEN At["working"] \cup {Head(storeChan)}
                    ELSE At[s]
    BY <1>a, <2>5, <2>6, <2>9, Zenon DEF Stages
  <2>11. "queued" \in Stages /\ "working" \in Stages
    BY Zenon DEF Stages
  <2> DEFINE x == Head(storeChan)
  <2>12. x \in At["queued"] /\
         \A s \in Stages : At'[s] = IF s = "queued" THEN At["queued"] \ {x}
                                    ELSE IF s = "working" THEN At["working"] \cup {x}
                                    ELSE At[s]
    BY <2>5, <2>10, Zenon
  <2> HIDE DEF x
  <2>13. QED
    BY <1>a, <1>b, <2>8, <2>11, <2>12, StageMoved
<1>2. CASE StoreReport(w)
  <2> DEFINE x == [h |-> sw[w].h, res |-> sw[w].res]
  <2>1. /\ storeChan' = storeChan /\ sw[w].pc = "report"
        /\ completionChan' = Append(completionChan, x)
        /\ sw' = [sw EXCEPT ![w] = Storing("drop", sw[w].h, sw[w].res)]
    BY <1>2, Zenon DEF StoreReport
  <2>2. \A v \in Storers :
          sw'[v] = IF v = w THEN Storing("drop", sw[w].h, sw[w].res) ELSE sw[v]
    BY <2>1, StorersMove, Zenon
  <2>3. Storings' = Storings \ {w} /\ w \in Storings
    BY <2>1, <2>2 DEF Storings, Storing
  <2>4. \A v \in Storings' : sw'[v].h = sw[v].h
    BY <2>2, <2>3, Zenon DEF Storings, Storing
  <2>5. x \in Completion /\ x.h = sw[w].h
    BY Zenon DEF TypeOK, Completion
  <2>6. x.h \in At["working"] /\ x.h \notin At["done"]
    <3>1. x.h \in At["working"]
      BY <2>3, <2>5, AtStages, Zenon
    <3>2. QED
      BY <1>b, <3>1, Zenon DEF Apart, Stages
  <2> HIDE DEF x
  <2>7. /\ At'["done"] = At["done"] \cup {x.h}
        /\ \A i, j \in 1 .. Len(completionChan') :
             completionChan'[i].h = completionChan'[j].h => i = j
    BY <1>b, <1>c, <2>1, <2>5, <2>6, ChanAppend, AtStages, AtStagesNext DEF Once
  <2>8. At'["working"] = At["working"] \ {x.h}
    <3>1. \A v \in Storings : sw[v].h = sw[w].h => v = w
      BY <1>b, <2>3, Zenon DEF Once
    <3>2. QED
      BY <2>3, <2>4, <2>5, <3>1, AtStages, AtStagesNext
  <2>9. At'["queued"] = At["queued"]
    BY <2>1, AtStages, AtStagesNext
  <2>10. Once'
    BY <1>a, <1>b, <2>1, <2>3, <2>4, <2>7 DEF Once
  <2>11. \A s \in Stages :
           At'[s] = IF s = "working" THEN At["working"] \ {x.h}
                    ELSE IF s = "done" THEN At["done"] \cup {x.h} ELSE At[s]
    BY <1>a, <2>7, <2>8, <2>9, Zenon DEF Stages
  <2>12. "working" \in Stages /\ "done" \in Stages
    BY Zenon DEF Stages
  <2>13. QED
    BY <1>a, <1>b, <2>6, <2>10, <2>11, <2>12, StageMoved
<1>3. CASE StoreDone(w) \/ StoreDrop(w) \/ StoreExit(w)
  <2>1. storeChan' = storeChan /\ completionChan' = completionChan
    BY <1>3, Zenon DEF StoreDone, StoreDrop, StoreExit
  <2>2. /\ Storings' = Storings
        /\ \A v \in Storings : sw'[v].h = sw[v].h
    <3>1. CASE StoreDone(w)
      <4>1. PICK res \in Outcomes :
              sw' = [sw EXCEPT ![w] = Storing("report", sw[w].h, res)]
        BY <3>1, Zenon DEF StoreDone
      <4>2. \A v \in Storers :
              sw'[v] = IF v = w THEN Storing("report", sw[w].h, res) ELSE sw[v]
        BY <4>1, StorersMove, Zenon
      <4>3. sw[w].pc = "store"
        BY <3>1, Zenon DEF StoreDone
      <4>4. QED
        BY <4>2, <4>3 DEF Storings, Storing
    <3>2. CASE StoreDrop(w) \/ StoreExit(w)
      <4>1. PICK new : sw' = [sw EXCEPT ![w] = new] /\ new.pc \notin {"store", "report"}
        BY <3>2, Zenon DEF StoreDrop, StoreExit, IdleStore, Storing
      <4>2. \A v \in Storers : sw'[v] = IF v = w THEN new ELSE sw[v]
        BY <4>1, StorersMove, Zenon
      <4>3. sw[w].pc \notin {"store", "report"}
        BY <3>2, Zenon DEF StoreDrop, StoreExit
      <4>4. QED
        BY <4>1, <4>2, <4>3, Zenon DEF Storings
    <3>3. QED
      BY <1>3, <3>1, <3>2, Zenon
  <2>3. At'["working"] = At["working"]
    <3>1. {sw'[v].h : v \in Storings'} = {sw[v].h : v \in Storings}
      BY ONLY <2>2, Zenon
    <3>2. QED
      BY ONLY <3>1, AtStages, AtStagesNext, Zenon
  <2>4. At'["queued"] = At["queued"] /\ At'["done"] = At["done"]
    BY <2>1, AtStages, AtStagesNext
  <2>5. At' = At
    BY <1>a, <2>3, <2>4, Zenon DEF At, Stages
  <2>6. Once'
    BY <1>a, <1>b, <2>1, <2>2 DEF Once
  <2>7. QED
    BY <1>a, <1>b, <2>5, <2>6, StagesKept, Zenon
<1>4. QED
  BY <1>1, <1>2, <1>3, Zenon DEF Storer

\* The variables the stages are made of.
stageVars == <<hold, storeChan, sw, completionChan, reorder, holes>>

\* A step that leaves them alone.
LEMMA StagesSame ==
  ASSUME UNCHANGED stageVars
  PROVE  At' = At /\ Once' = Once
<1>1. Storings' = Storings
  BY Zenon DEF Storings, stageVars
<1>2. QED
  BY <1>1 DEF At, Once, stageVars

\* Caller, dispatch loop, fetch workers and shutdown touch no popped height.
LEMMA OutsideStages ==
  ASSUME TypeOK, StageInv,
         \/ Cancel \/ Dispatch \/ Shutdown \/ SignDone \/ Returned \/ UNCHANGED vars
         \/ \E w \in Fetchers : Fetcher(w)
  PROVE  StageInv'
<1> USE DEF dispVars, fetchVars, poolVars, applyVars, popVars, epVars, endVars
<1>1. /\ UNCHANGED <<hold, storeChan, sw, completionChan, reorder, holes, cursor,
                     nextToCommit, coll, ep, rb>>
      /\ cancelled' \in {cancelled, TRUE}
  <2>1. CASE Cancel \/ Dispatch \/ SignDone \/ Returned \/ UNCHANGED vars
    BY <2>1, Zenon DEF Cancel, Dispatch, SignDone, Returned, vars
  <2>2. CASE Shutdown
    BY <2>2, Zenon DEF Shutdown, ShutdownStep, CloseWork, CloseResults, CloseCompletions,
         AwaitCollector, AwaitSigners
  <2>3. CASE \E w \in Fetchers : Fetcher(w)
    BY <2>3, Zenon DEF Fetcher, FetchTake, FetchDone, FetchSend, FetchExit
  <2>4. QED
    BY <2>1, <2>2, <2>3, Zenon
<1>2. At' = At /\ Once'
  BY <1>1, StagesSame, Zenon DEF StageInv, stageVars
<1>3. FlagsKept
  BY <1>1, Zenon DEF FlagsKept, StageInv
<1>4. QED
  BY <1>1, <1>2, <1>3, StagesKept, Zenon

\* popPending registers the block, records a hole, or leaves the height alone.
LEMMA PopStages ==
  ASSUME TypeOK, CollectorInv, StageInv, Pop
  PROVE  StageInv'
<1> USE DEF dispVars, fetchVars, poolVars, applyVars, popVars, epVars, endVars
<1>1. PICK r \in pending : \/ PopDropped(r) \/ PopHole(r) \/ PopChecked(r)
                            \/ PopMismatch(r) \/ PopParked(r)
  BY Zenon DEF Pop
<1>2. /\ coll = "pop" /\ hold = NoItem /\ r.h = nextToCommit
      /\ nextToCommit' = nextToCommit + 1
      /\ UNCHANGED <<storeChan, sw, completionChan, reorder, cursor, cancelled, rb>>
  BY <1>1, Zenon DEF PopDropped, PopHole, PopChecked, PopMismatch, PopParked, Popped
<1>3. nextToCommit \in Nat /\ nextToCommit # NoItem
  BY Zenon DEF TypeOK, CollectorInv
<1>4. Storings' = Storings
  BY <1>2, Zenon DEF Storings
<1>5. Once'
  BY <1>2, <1>4 DEF Once, StageInv
<1>6. /\ At'["queued"] = At["queued"] /\ At'["working"] = At["working"]
      /\ At'["done"] = At["done"] /\ At'["parked"] = At["parked"]
  BY <1>2, <1>4, AtStages, AtStagesNext
<1>7. CASE PopHole(r) \/ PopChecked(r)
  <2>1. ep = "none" /\ ~cancelled /\ ep' = ep
    BY <1>7, Zenon DEF PopHole, PopChecked
  <2>2. FlagsKept
    BY <1>2, <2>1, Zenon DEF FlagsKept, StageInv
  <2>3. CASE PopHole(r)
    <3>1. holes' = holes \cup {nextToCommit} /\ hold' = hold
      BY <1>2, <2>3, Zenon DEF PopHole
    <3>2. \A s \in Stages :
            At'[s] = IF s = "hole" THEN At["hole"] \cup {nextToCommit} ELSE At[s]
      BY <1>6, <3>1, AtStages, AtStagesNext, Zenon DEF Stages
    <3>3. "hole" \in Stages
      BY Zenon DEF Stages
    <3>4. QED
      BY <1>2, <1>5, <2>1, <2>2, <3>1, <3>2, <3>3, StageEntered, Zenon
  <2>4. CASE PopChecked(r)
    <3>1. holes' = holes /\ hold' = nextToCommit
      BY <1>2, <2>4, Zenon DEF PopChecked
    <3>2. At["held"] = {} /\ At'["held"] = {nextToCommit} /\ At'["hole"] = At["hole"]
      BY <1>2, <1>3, <3>1, AtStages, AtStagesNext, Zenon
    <3>3. \A s \in Stages :
            At'[s] = IF s = "held" THEN At["held"] \cup {nextToCommit} ELSE At[s]
      BY <1>6, <3>2, Zenon DEF Stages
    <3>4. "held" \in Stages
      BY Zenon DEF Stages
    <3>5. QED
      BY <1>2, <1>5, <2>1, <2>2, <3>1, <3>3, <3>4, StageEntered, Zenon
  <2>5. QED
    BY <1>7, <2>3, <2>4, Zenon
<1>8. CASE PopDropped(r) \/ PopMismatch(r) \/ PopParked(r)
  <2>1. UNCHANGED <<hold, holes>>
    BY <1>8, Zenon DEF PopDropped, PopMismatch, PopParked
  <2>2. FlagsKept /\ (ep' # "none" \/ cancelled')
    <3>1. CASE PopDropped(r)
      BY <1>2, <3>1, Zenon DEF PopDropped, FlagsKept, StageInv
    <3>2. CASE PopMismatch(r) \/ PopParked(r)
      BY <1>2, <3>2, Zenon DEF PopMismatch, PopParked, FlagsKept, StageInv
    <3>3. QED
      BY <1>8, <3>1, <3>2, Zenon
  <2>3. At' = At
    BY <1>2, <2>1, StagesSame, Zenon DEF stageVars
  <2>4. QED
    BY <1>2, <1>5, <2>1, <2>2, <2>3, StagePassed, Zenon
<1>9. QED
  BY <1>1, <1>7, <1>8, Zenon

\* A completion is received into the reorder buffer.
LEMMA ReceiveStages ==
  ASSUME TypeOK, StageInv, NEW r, ReceiveCompletion(r)
  PROVE  StageInv'
<1> USE DEF dispVars, fetchVars, popVars, epVars, endVars
<1> DEFINE x == Head(completionChan)
<1>1. /\ completionChan # <<>> /\ completionChan' = Tail(completionChan)
      /\ reorder' = reorder \cup {x} /\ coll' = "collect"
      /\ UNCHANGED <<hold, storeChan, sw, holes, cursor, nextToCommit, ep, cancelled, rb>>
  BY Zenon DEF ReceiveCompletion
<1>2. /\ completionChan \in Seq(Completion) /\ Once /\ Apart(At)
      /\ \A i, j \in 1 .. Len(completionChan) :
           completionChan[i].h = completionChan[j].h => i = j
  BY Zenon DEF TypeOK, StageInv, Once
<1>3. /\ x.h \in {completionChan[i].h : i \in 1 .. Len(completionChan)}
      /\ {Tail(completionChan)[i].h : i \in 1 .. Len(Tail(completionChan))}
           = {completionChan[i].h : i \in 1 .. Len(completionChan)} \ {x.h}
      /\ \A i, j \in 1 .. Len(Tail(completionChan)) :
           Tail(completionChan)[i].h = Tail(completionChan)[j].h => i = j
  BY ONLY <1>1, <1>2, ChanTail, Zenon
<1>4. Storings' = Storings
  BY <1>1, Zenon DEF Storings
<1> HIDE DEF x
<1>5. At'["done"] = {Tail(completionChan)[i].h : i \in 1 .. Len(Tail(completionChan))}
  BY <1>1, AtStagesNext, Zenon
<1>6. x.h \in At["done"] /\ At'["done"] = At["done"] \ {x.h}
  BY ONLY <1>3, <1>5, AtStages, Zenon
<1>7. At'["parked"] = At["parked"] \cup {x.h}
  BY <1>1, AtStages, AtStagesNext
<1>8. /\ At'["held"] = At["held"] /\ At'["queued"] = At["queued"]
      /\ At'["working"] = At["working"] /\ At'["hole"] = At["hole"]
  BY <1>1, <1>4, AtStages, AtStagesNext
<1>9. \A s \in Stages : At'[s] = IF s = "done" THEN At["done"] \ {x.h}
                                 ELSE IF s = "parked" THEN At["parked"] \cup {x.h}
                                 ELSE At[s]
  BY <1>6, <1>7, <1>8, Zenon DEF Stages
<1>10. Once'
  <2>1. \A c \in reorder : c.h # x.h
    <3>1. x.h \notin At["parked"]
      BY <1>2, <1>6, Zenon DEF Apart, Stages
    <3>2. QED
      BY <3>1, AtStages, Zenon
  <2>2. \A c, d \in reorder' : c.h = d.h => c = d
    BY <1>1, <1>2, <2>1, Zenon DEF Once
  <2>3. \A i, j \in 1 .. Len(completionChan') :
          completionChan'[i].h = completionChan'[j].h => i = j
    BY ONLY <1>1, <1>3, Zenon
  <2>4. QED
    BY <1>1, <1>2, <1>4, <2>2, <2>3 DEF Once
<1>11. FlagsKept
  BY <1>1, Zenon DEF FlagsKept, StageInv
<1>12. "done" \in Stages /\ "parked" \in Stages /\ "done" # "parked"
  BY DEF Stages
<1>13. coll' = "collect" /\ hold' \in {hold, NoItem} /\ UNCHANGED <<cursor, nextToCommit>>
  BY <1>1, Zenon
<1> DEFINE y == x.h
<1>14. /\ y \in At["done"]
       /\ \A s \in Stages : At'[s] = IF s = "done" THEN At["done"] \ {y}
                                     ELSE IF s = "parked" THEN At["parked"] \cup {y}
                                     ELSE At[s]
  BY <1>6, <1>9, Zenon
<1> HIDE DEF y
<1>15. QED
  BY ONLY StageInv, <1>10, <1>11, <1>12, <1>13, <1>14, StageMoved

\* The collector's steps that move no height.
Quiet == \/ PopNothing \/ ResolveStop \/ ResolveReanchor \/ ResolveRefill
         \/ RefillFetched \/ RefillFailed \/ SelectResult
         \/ \E src \in Sources : SelectClosed(src)
         \/ CollectEnd \/ ApplyCommit \/ ApplySkip \/ ApplyDeleted \/ ApplyEnd
         \/ DrainSettled \/ TailEmpty \/ WalkFound \/ WalkFailed
         \/ Abandon /\ hold' = hold

\* They leave the stages alone, and end an episode only by cancelling the run.
LEMMA QuietStages ==
  ASSUME TypeOK, StageInv, Quiet
  PROVE  StageInv'
<1> USE DEF dispVars, fetchVars, poolVars, applyVars, popVars, epVars, endVars
<1>a. rb => cancelled
  BY Zenon DEF StageInv
<1>1. /\ UNCHANGED <<hold, storeChan, sw, completionChan, reorder, holes, cursor,
                     nextToCommit>>
      /\ FlagsKept
      /\ coll' # "collect" => coll # "collect" \/ Collected
  <2>1. CASE \/ PopNothing \/ ResolveStop \/ RefillFetched \/ SelectResult
             \/ DrainSettled \/ ApplyEnd \/ ApplyCommit \/ ApplySkip
             \/ Abandon /\ hold' = hold
    <3>1. /\ UNCHANGED <<hold, storeChan, sw, completionChan, reorder, holes, cursor,
                         nextToCommit, ep, rb, cancelled>>
          /\ coll # "collect"
      <4>1. CASE PopNothing \/ ResolveStop \/ RefillFetched
        BY <4>1, Zenon DEF PopNothing, ResolveStop, RefillFetched
      <4>2. CASE SelectResult \/ (Abandon /\ hold' = hold) \/ DrainSettled
        BY <4>2, Zenon DEF SelectResult, Abandon, DrainSettled
      <4>3. CASE ApplyEnd \/ ApplyCommit \/ ApplySkip
        BY <4>3, Zenon DEF ApplyEnd, ApplyCommit, ApplySkip, ApplyNext
      <4>4. QED
        BY <2>1, <4>1, <4>2, <4>3, Zenon
    <3>2. QED
      BY <1>a, <3>1, Zenon DEF FlagsKept
  <2>2. CASE \E src \in Sources : SelectClosed(src)
    <3>1. /\ UNCHANGED <<hold, storeChan, sw, completionChan, reorder, holes, cursor,
                         nextToCommit, ep, rb, cancelled>>
          /\ coll # "collect"
      BY <2>2, Zenon DEF SelectClosed
    <3>2. QED
      BY <1>a, <3>1, Zenon DEF FlagsKept
  <2>3. CASE CollectEnd
    <3>1. /\ UNCHANGED <<hold, storeChan, sw, completionChan, reorder, holes, cursor,
                         nextToCommit, ep, rb, cancelled>>
          /\ Collected
      BY <2>3, Zenon DEF CollectEnd, Collected
    <3>2. QED
      BY <1>a, <3>1, Zenon DEF FlagsKept
  <2>4. CASE ApplyDeleted
    <3>1. /\ UNCHANGED <<hold, storeChan, sw, completionChan, reorder, holes, cursor,
                         nextToCommit, ep, rb>>
          /\ coll # "collect" /\ cancelled' = TRUE
      BY <2>4, Zenon DEF ApplyDeleted, ApplyNext
    <3>2. QED
      BY <1>a, <3>1, Zenon DEF FlagsKept
  <2>5. CASE ResolveReanchor \/ ResolveRefill \/ RefillFailed
    <3>1. /\ UNCHANGED <<hold, storeChan, sw, completionChan, reorder, holes, cursor,
                         nextToCommit>>
          /\ coll # "collect"
      BY <2>5, Zenon DEF ResolveReanchor, ResolveRefill, Resolving, RefillFailed
    <3>2. EndEpisode(FALSE, TRUE) \/ UNCHANGED <<ep, rb, cancelled>>
      BY <2>5, Zenon DEF ResolveReanchor, ResolveRefill, RefillFailed
    <3>3. cancelled' = TRUE \/ UNCHANGED <<ep, rb, cancelled>>
      BY <3>2, Zenon DEF EndEpisode
    <3>4. FlagsKept
      BY ONLY <1>a, <3>3 DEF FlagsKept
    <3>5. QED
      BY <3>1, <3>4, Zenon
  <2>6. CASE TailEmpty \/ WalkFound \/ WalkFailed
    <3>1. /\ UNCHANGED <<hold, storeChan, sw, completionChan, reorder, holes, cursor,
                         nextToCommit>>
          /\ coll # "collect"
      BY <2>6, Zenon DEF TailEmpty, WalkFound, WalkFailed, Resume
    <3>2. \/ UNCHANGED <<ep, rb, cancelled>>
          \/ cancelled /\ EndEpisode(FALSE, FALSE)
          \/ EndEpisode(TRUE, FALSE)
          \/ EndEpisode(FALSE, ~cancelled)
      BY <2>6, Zenon DEF TailEmpty, WalkFound, WalkFailed
    <3>3. FlagsKept
      BY <1>a, <3>2, Zenon DEF EndEpisode, FlagsKept, TypeOK
    <3>4. QED
      BY <3>1, <3>3, Zenon
  <2>7. QED
    BY <2>1, <2>2, <2>3, <2>4, <2>5, <2>6, Zenon DEF Quiet
<1>2. At' = At /\ Once'
  BY <1>1, StagesSame, Zenon DEF StageInv, stageVars
<1>3. QED
  BY <1>1, <1>2, StagesKept, Zenon

\* A still-held dispatch is given up only by a run that is ending or reorganizing.
LEMMA DropStages ==
  ASSUME TypeOK, StageInv,
         \/ ResolveConfirm \/ SelectDone \/ ApplyStale
         \/ Abandon /\ hold' # hold
  PROVE  StageInv'
<1> USE DEF dispVars, fetchVars, poolVars, applyVars, popVars, epVars, endVars
<1>a. rb => cancelled
  BY Zenon DEF StageInv
<1>1. /\ UNCHANGED <<storeChan, sw, completionChan, reorder, holes, cursor, nextToCommit,
                     rb, cancelled>>
      /\ hold' = NoItem /\ coll # "collect" /\ coll' # "collect"
  <2>1. CASE ResolveConfirm
    BY <2>1, Zenon DEF ResolveConfirm, Resolving, DropHeld
  <2>2. CASE SelectDone
    BY <2>2, Zenon DEF SelectDone, DropHeld
  <2>3. CASE ApplyStale
    BY <2>3, Zenon DEF ApplyStale, ApplyNext, DropHeld
  <2>4. CASE Abandon /\ hold' # hold
    BY <2>4, Zenon DEF Abandon, DropHeld
  <2>5. QED
    BY <2>1, <2>2, <2>3, <2>4, Zenon
<1>2. FlagsKept /\ (ep' # "none" \/ cancelled')
  <2>1. CASE ResolveConfirm
    BY <1>1, <1>a, <2>1 DEF ResolveConfirm, Resolving, FlagsKept
  <2>2. CASE SelectDone
    BY <1>1, <1>a, <2>2 DEF SelectDone, FlagsKept
  <2>3. CASE ApplyStale
    BY <1>1, <1>a, <2>3 DEF ApplyStale, FlagsKept
  <2>4. CASE Abandon /\ hold' # hold
    BY <1>1, <1>a, <2>4 DEF Abandon, FlagsKept
  <2>5. QED
    BY <2>1, <2>2, <2>3, <2>4, Zenon
<1>3. QED
  BY <1>1, <1>2, StageDropped, Zenon

\* The select hands the held block to the pool.
LEMMA SendStages ==
  ASSUME TypeOK, StageInv, SelectSend
  PROVE  StageInv'
<1> USE DEF dispVars, fetchVars, popVars, applyVars, epVars, endVars
<1>1. /\ hold # NoItem /\ hold' = NoItem /\ storeChan' = Append(storeChan, hold)
      /\ coll # "collect"
      /\ UNCHANGED <<sw, completionChan, reorder, holes, cursor, nextToCommit, ep,
                     cancelled, rb>>
  BY Zenon DEF SelectSend
<1>2. storeChan \in Seq(Nat) /\ hold \in Nat /\ Once /\ Apart(At)
  BY Zenon DEF TypeOK, StageInv
<1>3. Storings' = Storings
  BY <1>1, Zenon DEF Storings
<1>4. hold \in At["held"] /\ At'["held"] = At["held"] \ {hold}
  BY <1>1, AtStages, AtStagesNext, Zenon
<1>5. hold \notin At["queued"]
  BY <1>2, <1>4, Zenon DEF Apart, Stages
<1>6. /\ {Append(storeChan, hold)[i] : i \in 1 .. Len(Append(storeChan, hold))}
           = {storeChan[i] : i \in 1 .. Len(storeChan)} \cup {hold}
      /\ \A i, j \in 1 .. Len(Append(storeChan, hold)) :
           Append(storeChan, hold)[i] = Append(storeChan, hold)[j] => i = j
  <2>1. \A i, j \in 1 .. Len(storeChan) : storeChan[i] = storeChan[j] => i = j
    BY <1>2, Zenon DEF Once
  <2>2. hold \notin {storeChan[i] : i \in 1 .. Len(storeChan)}
    BY <1>5, AtStages, Zenon
  <2>3. QED
    BY ONLY <1>2, <2>1, <2>2, QueueAppend, Zenon
<1>7. At'["queued"] = {Append(storeChan, hold)[i] : i \in 1 .. Len(Append(storeChan, hold))}
  BY <1>1, AtStagesNext, Zenon
<1>8. At'["queued"] = At["queued"] \cup {hold}
  BY ONLY <1>6, <1>7, AtStages, Zenon
<1>9. /\ At'["working"] = At["working"] /\ At'["done"] = At["done"]
      /\ At'["parked"] = At["parked"] /\ At'["hole"] = At["hole"]
  BY <1>1, <1>3, AtStages, AtStagesNext
<1>10. \A s \in Stages : At'[s] = IF s = "held" THEN At["held"] \ {hold}
                                  ELSE IF s = "queued" THEN At["queued"] \cup {hold}
                                  ELSE At[s]
  BY <1>4, <1>8, <1>9, Zenon DEF Stages
<1>11. Once'
  <2>1. \A i, j \in 1 .. Len(storeChan') : storeChan'[i] = storeChan'[j] => i = j
    BY ONLY <1>1, <1>6, Zenon
  <2>2. QED
    BY <1>1, <1>2, <1>3, <2>1, Zenon DEF Once
<1>12. FlagsKept
  BY <1>1, Zenon DEF FlagsKept, StageInv
<1>13. "held" \in Stages /\ "queued" \in Stages
  BY Zenon DEF Stages
<1>14. /\ UNCHANGED <<cursor, nextToCommit>> /\ hold' \in {hold, NoItem}
       /\ UNCHANGED <<holes, reorder>> /\ coll # "collect"
  BY <1>1, Zenon
<1> DEFINE x == hold
<1>15. /\ x \in At["held"]
       /\ \A s \in Stages : At'[s] = IF s = "held" THEN At["held"] \ {x}
                                     ELSE IF s = "queued" THEN At["queued"] \cup {x}
                                     ELSE At[s]
  BY <1>4, <1>10, Zenon
<1> HIDE DEF x
<1>16. QED
  BY ONLY StageInv, <1>11, <1>12, <1>13, <1>14, <1>15, StageMoved

\* The ordered apply skips a hole at the cursor or takes the completion there.
LEMMA CollectStages ==
  ASSUME TypeOK, StageInv, CollectHole \/ CollectReady
  PROVE  StageInv'
<1> USE DEF dispVars, fetchVars, poolVars, popVars, epVars, endVars
<1>1. /\ UNCHANGED <<hold, storeChan, sw, completionChan, nextToCommit, ep, cancelled, rb>>
      /\ cursor' = cursor + 1 /\ coll' = "collect"
  <2>1. CASE CollectHole
    BY <2>1, Zenon DEF CollectHole
  <2>2. CASE CollectReady
    BY <2>2, Zenon DEF CollectReady
  <2>3. QED
    BY <2>1, <2>2, Zenon
<1>2. Storings' = Storings
  BY <1>1, Zenon DEF Storings
<1>3. /\ At'["held"] = At["held"] /\ At'["queued"] = At["queued"]
      /\ At'["working"] = At["working"] /\ At'["done"] = At["done"]
  BY <1>1, <1>2, AtStages, AtStagesNext
<1>4. Once /\ "hole" \in Stages /\ "parked" \in Stages
  BY Zenon DEF StageInv, Stages
<1>5. CASE CollectHole
  <2>1. cursor \in holes /\ holes' = holes \ {cursor} /\ reorder' = reorder
    BY <1>5, Zenon DEF CollectHole
  <2>2. cursor \in At["hole"] /\ At'["hole"] = At["hole"] \ {cursor}
        /\ At'["parked"] = At["parked"]
    BY <2>1, AtStages, AtStagesNext, Zenon
  <2>3. \A s \in Stages : At'[s] = IF s = "hole" THEN At["hole"] \ {cursor} ELSE At[s]
    BY <1>3, <2>2, Zenon DEF Stages
  <2>4. Once'
    BY <1>1, <1>2, <1>4, <2>1, Zenon DEF Once
  <2>5. QED
    BY <1>1, <1>4, <2>2, <2>3, <2>4, StagePast, Zenon
<1>6. CASE CollectReady
  <2>1. PICK c \in reorder : c.h = cursor /\ reorder' = reorder \ {c}
    BY <1>6, Zenon DEF CollectReady
  <2>2. holes' = holes
    BY <1>6, Zenon DEF CollectReady
  <2>3. \A d \in reorder : d.h = cursor => d = c
    BY <1>4, <2>1, Zenon DEF Once
  <2>4. cursor \in At["parked"] /\ At'["parked"] = At["parked"] \ {cursor}
        /\ At'["hole"] = At["hole"]
    BY <2>1, <2>2, <2>3, AtStages, AtStagesNext
  <2>5. \A s \in Stages : At'[s] = IF s = "parked" THEN At["parked"] \ {cursor} ELSE At[s]
    BY <1>3, <2>4, Zenon DEF Stages
  <2>6. Once'
    BY <1>1, <1>2, <1>4, <2>1 DEF Once
  <2>7. QED
    BY <1>1, <1>4, <2>4, <2>5, <2>6, StagePast, Zenon
<1>7. QED
  BY <1>5, <1>6, Zenon

\* Every step keeps the stages apart and the live heights contiguous.
LEMMA StageStep ==
  ASSUME TypeOK, CollectorInv, StageInv, [Next]_vars
  PROVE  StageInv'
<1>1. CASE Pop
  BY <1>1, PopStages, Zenon
<1>2. CASE Resolve
  BY <1>2, QuietStages, DropStages, Zenon DEF Resolve, Quiet
<1>3. CASE Select
  BY <1>3, QuietStages, DropStages, SendStages, ReceiveStages, Zenon
     DEF Select, SelectCompletion, Quiet
<1>4. CASE Apply
  BY <1>4, QuietStages, DropStages, CollectStages, Zenon DEF Apply, Quiet
<1>5. CASE Finalize
  BY <1>5, QuietStages, ReceiveStages, Zenon DEF Finalize, DrainReceive, TailReceive, Quiet
<1>6. CASE PopNothing \/ Abandon
  BY <1>6, QuietStages, DropStages, Zenon DEF Quiet
<1>7. CASE ~Collector
  BY <1>7, OutsideStages, PoolStages, Zenon DEF Next
<1>8. QED
  BY <1>1, <1>2, <1>3, <1>4, <1>5, <1>6, <1>7, Zenon DEF Collector

-----------------------------------------------------------------------------
(* The callbacks                                                             *)

\* The heights reported so far lie below the items of s.
Below(s) == \A i \in 1 .. Len(cb) : \A j \in 1 .. Len(s) : cb[i] < s[j].h

\* A step without a callback, whose cursor does not fall and whose batches hold
\* only heights that were not reported.
LEMMA CallbackKept ==
  ASSUME TypeOK, CallbackInv, cb' = cb, cursor' \in {cursor, cursor + 1},
         Below(batch'), Below(outer')
  PROVE  CallbackInv'
<1>1. /\ cb \in Seq(Nat) /\ cursor \in Nat
      /\ \A i \in 1 .. Len(cb) : cb[i] \in Nat /\ cb[i] < cursor
      /\ \A i, j \in 1 .. Len(cb) : i < j => cb[i] < cb[j]
  BY DEF TypeOK, CallbackInv
<1>2. \A i \in 1 .. Len(cb) : cb[i] < cursor'
  BY <1>1
<1>3. QED
  BY <1>1, <1>2, Zenon DEF CallbackInv, Below

\* The batches the collector holds lie above the reported heights.
LEMMA BatchesBelow ==
  ASSUME CallbackInv
  PROVE  Below(batch) /\ Below(outer)
BY Zenon DEF CallbackInv, Below

\* So does what applyBatch leaves when it takes an item,
LEMMA BelowTail ==
  ASSUME NEW s \in Seq(Completion), s # <<>>, Below(s)
  PROVE  Below(Tail(s))
<1>1. /\ Len(Tail(s)) = Len(s) - 1 /\ Len(s) \in Nat
      /\ \A j \in 1 .. Len(Tail(s)) : Tail(s)[j] = s[j + 1]
  OBVIOUS
<1>2. \A j \in 1 .. Len(Tail(s)) : j + 1 \in 1 .. Len(s) /\ Tail(s)[j] = s[j + 1]
  BY <1>1
<1>3. QED
  BY <1>2, Zenon DEF Below

\* ... and a batch extended by a completion above the reported heights.
LEMMA BelowAppend ==
  ASSUME NEW s \in Seq(Completion), Below(s), NEW c \in Completion,
         \A i \in 1 .. Len(cb) : cb[i] < c.h
  PROVE  Below(Append(s, c))
<1>1. /\ Len(Append(s, c)) = Len(s) + 1 /\ Len(s) \in Nat
      /\ \A j \in 1 .. Len(s) : Append(s, c)[j] = s[j]
      /\ Append(s, c)[Len(s) + 1] = c
  OBVIOUS
<1>2. \A j \in 1 .. Len(Append(s, c)) : j \in 1 .. Len(s) \/ j = Len(s) + 1
  BY <1>1
<1>3. QED
  BY <1>1, <1>2, Zenon DEF Below

\* Nothing lies above nothing.
LEMMA BelowEmpty == Below(<<>>)
BY DEF Below

\* A callback reports the lowest height not decided yet.
LEMMA CommitCallback ==
  ASSUME TypeOK, OrderInv, CallbackInv, ApplyCommit
  PROVE  CallbackInv'
<1>1. /\ batch # <<>> /\ batch' = Tail(batch) /\ outer' = outer /\ cursor' = cursor
      /\ cb' = Append(cb, Head(batch).h) /\ coll = "apply" /\ ~suppress
  BY Zenon DEF ApplyCommit, ApplyNext
<1>2. outer = <<>>
  BY <1>1, Zenon DEF OrderInv, InDrain, suppress
<1>3. /\ cb \in Seq(Nat) /\ cursor \in Nat /\ batch \in Seq(Completion)
      /\ Climbs(batch, cursor) /\ Below(batch)
  BY BatchesBelow, Zenon DEF TypeOK, OrderInv
<1> DEFINE b == batch
           h == Head(b).h
<1>4. /\ b \in Seq(Completion) /\ b # <<>> /\ Climbs(b, cursor) /\ Below(b)
      /\ batch' = Tail(b) /\ cb' = Append(cb, h)
  BY <1>1, <1>3, Zenon
<1> HIDE DEF b
<1>5. /\ Len(b) \in Nat /\ 1 \in 1 .. Len(b) /\ Head(b) = b[1]
      /\ Len(Tail(b)) = Len(b) - 1
      /\ \A j \in 1 .. Len(Tail(b)) : Tail(b)[j] = b[j + 1]
  BY <1>4
<1>6. h \in Nat /\ h < cursor
  BY <1>3, <1>4, ClimbsTail, Zenon
<1>7. \A i \in 1 .. Len(cb) : cb[i] < h
  BY <1>4, <1>5, Zenon DEF Below
<1>8. \A j \in 1 .. Len(Tail(b)) : h < Tail(b)[j].h
  <2> SUFFICES ASSUME NEW j \in 1 .. Len(Tail(b)) PROVE h < Tail(b)[j].h
    OBVIOUS
  <2>1. j + 1 \in 1 .. Len(b) /\ 1 < j + 1 /\ Tail(b)[j] = b[j + 1]
    BY <1>5
  <2>2. b[1].h < b[j + 1].h
    BY <1>4, <1>5, <2>1, Zenon DEF Climbs
  <2>3. QED
    BY <1>5, <2>1, <2>2, Zenon
<1>9. Below(Tail(b))
  BY <1>4, BelowTail, Zenon
<1> HIDE DEF h
<1>10. /\ Len(cb') = Len(cb) + 1 /\ Len(cb) \in Nat
       /\ \A i \in 1 .. Len(cb) : cb'[i] = cb[i] /\ cb[i] \in Nat
       /\ cb'[Len(cb) + 1] = h
  BY <1>3, <1>4, <1>6
<1>11. \A i \in 1 .. Len(cb') : i \in 1 .. Len(cb) \/ i = Len(cb) + 1
  BY ONLY <1>10
<1>12. \A i \in 1 .. Len(cb) : cb[i] < cursor
  BY Zenon DEF CallbackInv
<1>13. \A i \in 1 .. Len(cb') : cb'[i] < cursor'
  BY <1>1, <1>6, <1>10, <1>11, <1>12, Zenon
<1>14. \A i \in 1 .. Len(cb') : \A j \in 1 .. Len(batch') : cb'[i] < batch'[j].h
  <2> SUFFICES ASSUME NEW i \in 1 .. Len(cb'), NEW j \in 1 .. Len(Tail(b))
               PROVE  cb'[i] < Tail(b)[j].h
    BY <1>4, Zenon
  <2>1. CASE i \in 1 .. Len(cb)
    BY <1>9, <1>10, <2>1, Zenon DEF Below
  <2>2. CASE i = Len(cb) + 1
    BY <1>8, <1>10, <2>2, Zenon
  <2>3. QED
    BY <1>11, <2>1, <2>2, Zenon
<1>15. \A i, j \in 1 .. Len(cb') : i < j => cb'[i] < cb'[j]
  <2> SUFFICES ASSUME NEW i \in 1 .. Len(cb'), NEW j \in 1 .. Len(cb'), i < j
               PROVE  cb'[i] < cb'[j]
    OBVIOUS
  <2>1. i \in 1 .. Len(cb)
    BY <1>10
  <2>2. CASE j \in 1 .. Len(cb)
    BY <1>10, <2>1, <2>2, Zenon DEF CallbackInv
  <2>3. CASE j = Len(cb) + 1
    BY <1>7, <1>10, <2>1, <2>3, Zenon
  <2>4. QED
    BY <1>11, <2>2, <2>3, Zenon
<1>16. \A j \in 1 .. Len(outer') : FALSE
  BY <1>1, <1>2
<1>17. QED
  BY <1>13, <1>14, <1>15, <1>16, Zenon DEF CallbackInv

\* Every step keeps the reported heights below all that is not decided.
LEMMA CallbackStep ==
  ASSUME TypeOK, OrderInv, CallbackInv, [Next]_vars
  PROVE  CallbackInv'
<1> USE DEF dispVars, fetchVars, poolVars, applyVars, popVars, epVars, endVars
<1>0. /\ Below(batch) /\ Below(outer) /\ Below(<<>>)
      /\ batch \in Seq(Completion) /\ outer \in Seq(Completion) /\ cursor \in Nat
  BY BatchesBelow, BelowEmpty, Zenon DEF TypeOK
<1>1. CASE ApplyCommit
  BY <1>1, CommitCallback, Zenon
<1>2. CASE ApplySkip \/ ApplyDeleted \/ ApplyStale
  <2>1. /\ batch # <<>> /\ cb' = cb /\ cursor' = cursor
        /\ \/ batch' = Tail(batch) /\ outer' = outer
           \/ batch' = <<>> /\ outer' = Tail(batch)
    BY <1>2, Zenon DEF ApplySkip, ApplyDeleted, ApplyStale, ApplyNext
  <2>2. Below(Tail(batch))
    BY <1>0, <2>1, BelowTail, Zenon
  <2>3. Below(batch') /\ Below(outer')
    BY <1>0, <2>1, <2>2, Zenon
  <2>4. QED
    BY <2>1, <2>3, CallbackKept, Zenon
<1>3. CASE CollectHole
  <2>1. /\ UNCHANGED <<cb, batch, outer>> /\ cursor' = cursor + 1
    BY <1>3, Zenon DEF CollectHole
  <2>2. Below(batch') /\ Below(outer')
    BY <1>0, <2>1, Zenon
  <2>3. QED
    BY <2>1, <2>2, CallbackKept, Zenon
<1>4. CASE CollectReady
  <2>1. PICK c \in reorder : c.h = cursor /\ batch' = Append(batch, c)
    BY <1>4, Zenon DEF CollectReady
  <2>2. UNCHANGED <<cb, outer>> /\ cursor' = cursor + 1
    BY <1>4, Zenon DEF CollectReady
  <2>3. c \in Completion /\ \A i \in 1 .. Len(cb) : cb[i] < c.h
    BY <2>1, Zenon DEF TypeOK, CallbackInv
  <2>4. Below(Append(batch, c))
    BY <1>0, <2>3, BelowAppend, Zenon
  <2>5. Below(batch') /\ Below(outer')
    BY <1>0, <2>1, <2>2, <2>4, Zenon
  <2>6. QED
    BY <2>2, <2>5, CallbackKept, Zenon
<1>5. CASE Finalize
  <2>1. /\ cb' = cb /\ cursor' = cursor
        /\ \/ batch' = batch /\ outer' = outer
           \/ batch' = outer /\ outer' = <<>>
    BY <1>5, Zenon DEF Finalize, DrainReceive, DrainSettled, TailReceive, TailEmpty,
         WalkFound, WalkFailed, ReceiveCompletion, Resume
  <2>2. Below(batch') /\ Below(outer')
    BY <1>0, <2>1, Zenon
  <2>3. QED
    BY <2>1, <2>2, CallbackKept, Zenon
<1>6. ASSUME \/ Cancel \/ Dispatch \/ Shutdown \/ SignDone \/ Returned \/ UNCHANGED vars
             \/ \E w \in Fetchers : Fetcher(w)
             \/ \E w \in Storers : Storer(w)
             \/ PopNothing \/ Pop \/ Resolve \/ Abandon \/ Select
             \/ CollectEnd \/ ApplyEnd
      PROVE  CallbackInv'
  <2>1. UNCHANGED <<cb, batch, outer, cursor>>
    <3>1. CASE Cancel \/ Dispatch \/ Shutdown \/ SignDone
      BY <3>1, Zenon DEF Cancel, Dispatch, Shutdown, ShutdownStep, CloseWork,
           CloseResults, CloseCompletions, AwaitCollector, AwaitSigners, SignDone
    <3>2. CASE Returned \/ UNCHANGED vars
      BY <3>2, Zenon DEF Returned, vars
    <3>3. CASE \E w \in Fetchers : Fetcher(w)
      BY <3>3, Zenon DEF Fetcher, FetchTake, FetchDone, FetchSend, FetchExit
    <3>4. CASE \E w \in Storers : Storer(w)
      BY <3>4, Zenon DEF Storer, StoreTake, StoreDone, StoreReport, StoreDrop, StoreExit
    <3>5. CASE PopNothing \/ Pop
      BY <3>5, Zenon DEF PopNothing, Pop, Popped, PopDropped, PopHole, PopChecked,
           PopMismatch, PopParked
    <3>6. CASE Resolve \/ Abandon
      BY <3>6, Zenon DEF Resolve, Resolving, ResolveStop, ResolveConfirm,
           ResolveReanchor, ResolveRefill, RefillFetched, RefillFailed, Abandon
    <3>7. CASE Select
      BY <3>7, Zenon DEF Select, SelectResult, SelectCompletion, ReceiveCompletion,
           SelectSend, SelectDone, SelectClosed
    <3>8. CASE CollectEnd \/ ApplyEnd
      BY <3>8, Zenon DEF CollectEnd, ApplyEnd
    <3>9. QED
      BY <1>6, <3>1, <3>2, <3>3, <3>4, <3>5, <3>6, <3>7, <3>8, Zenon
  <2>2. Below(batch') /\ Below(outer')
    BY <1>0, <2>1, Zenon
  <2>3. QED
    BY <2>1, <2>2, CallbackKept, Zenon
<1>7. QED
  BY <1>1, <1>2, <1>3, <1>4, <1>5, <1>6, Zenon DEF Next, Collector, Apply

-----------------------------------------------------------------------------
(* Every run                                                                 *)

\* processBlocksOnce starts with every stage empty.
LEMMA StageInit == Init => StageInv /\ CallbackInv
<1> SUFFICES ASSUME Init PROVE StageInv /\ CallbackInv
  OBVIOUS
<1>1. Storings = {}
  BY Zenon DEF Init, Storings, IdleStore, Storing
<1>2. /\ hold = NoItem /\ storeChan = <<>> /\ completionChan = <<>> /\ reorder = {}
      /\ holes = {} /\ cursor = Start /\ nextToCommit = Start /\ coll = "pop"
      /\ rb = FALSE /\ cb = <<>> /\ Start \in Nat
  BY PipelineAssumption, Zenon DEF Init
<1>3. \A s \in Stages : At[s] = {}
  BY <1>1, <1>2, AtStages DEF Stages
<1>4. Apart(At) /\ Live(At) = {}
  BY <1>3, Zenon DEF Apart, Live
<1>5. Once
  BY <1>1, <1>2 DEF Once
<1>6. Contiguous
  BY <1>2, <1>4 DEF Contiguous
<1>7. QED
  BY <1>2, <1>4, <1>5, <1>6 DEF StageInv, CallbackInv

\* The inductive invariant of the order of a run.
LEMMA OrderedInvariance ==
  Spec => [](TypeOK /\ PipelineInv /\ OrderInv /\ OrderedInv)
<1>1. Init => OrderInv /\ OrderedInv
  BY OrderInit, FrontInit, StageInit, Zenon DEF OrderedInv
<1>2. TypeOK /\ PipelineInv /\ OrderInv /\ OrderedInv /\ TypeOK' /\ [Next]_vars
        => OrderInv' /\ OrderedInv'
  BY RefinementStep, LookaheadStep, FetchStep, StageStep, CallbackStep, Zenon
     DEF OrderedInv, PipelineInv
<1>3. QED
  BY <1>1, <1>2, Invariance, PTL DEF Spec

\* A height on its way lies at or above the cursor, or in a batch.
LEMMA OutstandingHeights ==
  ASSUME TypeOK, OrderedInv, NEW h \in Outstanding
  PROVE  \/ h \in Nat /\ cursor <= h
         \/ \E j \in 1 .. Len(batch) : h = batch[j].h
         \/ \E j \in 1 .. Len(outer) : h = outer[j].h
<1>a. /\ cursor \in Nat /\ nextToCommit \in Nat /\ cursor <= nextToCommit
      /\ \A w \in Fetches : fw[w].h \in Nat /\ nextToCommit <= fw[w].h
      /\ \A r \in results \cup pending : r.h \in Nat /\ nextToCommit <= r.h
  BY Zenon DEF TypeOK, OrderedInv, StageInv, Contiguous, FetchInv, Fetches, Result
<1>b. Live(At) \subseteq Nat /\ \A g \in Live(At) : cursor <= g
  BY LiveHeights, Zenon DEF OrderedInv, StageInv, Contiguous
<1>c. \A s \in Stages : At[s] \subseteq Live(At)
  BY Zenon DEF Live
<1>d. /\ At["held"] \subseteq Live(At) /\ At["queued"] \subseteq Live(At)
      /\ At["working"] \subseteq Live(At) /\ At["done"] \subseteq Live(At)
      /\ At["parked"] \subseteq Live(At)
  BY <1>c, Zenon DEF Stages
<1>e. /\ DOMAIN storeChan = 1 .. Len(storeChan) /\ DOMAIN batch = 1 .. Len(batch)
      /\ DOMAIN completionChan = 1 .. Len(completionChan)
      /\ DOMAIN outer = 1 .. Len(outer)
  BY DEF TypeOK
<1>1. \/ \E r \in results \cup pending : h = r.h
      \/ \E w \in Fetches : h = fw[w].h
      \/ h \in {hold} \ {NoItem}
      \/ h \in {sw[w].h : w \in Storings}
      \/ h \in {storeChan[i] : i \in 1 .. Len(storeChan)}
      \/ h \in {c.h : c \in reorder}
      \/ h \in {completionChan[i].h : i \in 1 .. Len(completionChan)}
      \/ \E j \in 1 .. Len(batch) : h = batch[j].h
      \/ \E j \in 1 .. Len(outer) : h = outer[j].h
  BY <1>e DEF Outstanding, Fetches, Storings
<1>2. CASE h \in Live(At)
  BY <1>b, <1>2, Zenon
<1>3. CASE \/ \E r \in results \cup pending : h = r.h
           \/ \E w \in Fetches : h = fw[w].h
  BY <1>a, <1>3
<1>4. QED
  BY <1>1, <1>2, <1>3, <1>d, AtStages, Zenon

\* onBlockProcessed fires in strict height order, at most once per height and only
\* when no lower height is still being fetched, stored or applied, for any number
\* of workers that finish in any order.
THEOREM CallbacksAreOrdered == Spec => []OrderedCallbacks
<1>1. ASSUME TypeOK, OrderedInv PROVE OrderedCallbacks
  <2>1. CallbackInv /\ cb \in Seq(Nat) /\ cursor \in Nat
    BY <1>1, Zenon DEF OrderedInv, TypeOK
  <2>2. DOMAIN cb = 1 .. Len(cb) /\ \A i \in 1 .. Len(cb) : cb[i] \in Nat
    BY <2>1
  <2>3. \A i \in 1 .. Len(cb) : \A h \in Outstanding : cb[i] < h
    <3> SUFFICES ASSUME NEW i \in 1 .. Len(cb), NEW h \in Outstanding
                 PROVE  cb[i] < h
      OBVIOUS
    <3>1. \/ h \in Nat /\ cursor <= h
          \/ \E j \in 1 .. Len(batch) : h = batch[j].h
          \/ \E j \in 1 .. Len(outer) : h = outer[j].h
      BY <1>1, OutstandingHeights, Zenon
    <3>2. /\ cb[i] \in Nat /\ cb[i] < cursor
          /\ \A j \in 1 .. Len(batch) : cb[i] < batch[j].h
          /\ \A j \in 1 .. Len(outer) : cb[i] < outer[j].h
      BY <2>1, <2>2, Zenon DEF CallbackInv
    <3>3. QED
      BY ONLY <2>1, <3>1, <3>2
  <2>4. QED
    BY <2>1, <2>2, <2>3, Zenon DEF CallbackInv, OrderedCallbacks
<1>2. QED
  BY <1>1, OrderedInvariance, PTL

\* When the walk-back starts the drain has resolved everything: no completion is
\* parked behind a hole or a lower height that would never come.
THEOREM DrainsResolveAll == Spec => []DrainResolvesAll
<1>1. TypeOK /\ PipelineInv /\ OrderInv /\ OrderedInv /\ QuiescentWalkBack
        => DrainResolvesAll
  <2> SUFFICES ASSUME TypeOK, OrderInv, OrderedInv, QuiescentWalkBack, coll = "walk"
               PROVE  reorder = {} /\ batch = <<>>
    BY Zenon DEF DrainResolvesAll
  <2>1. batch = <<>>
    BY Zenon DEF OrderInv
  <2>2. storeChan = <<>> /\ Busy = {} /\ hold = NoItem /\ completionChan = <<>>
    BY Zenon DEF QuiescentWalkBack
  <2>3. StageInv /\ Contiguous /\ cursor \in Nat
    BY Zenon DEF OrderedInv, StageInv, TypeOK
  <2>4. Storings = {}
    BY <2>2, Zenon DEF Storings, Busy
  <2>5. /\ At["held"] = {} /\ At["queued"] = {} /\ At["working"] = {} /\ At["done"] = {}
        /\ At["parked"] = {c.h : c \in reorder} /\ At["hole"] = holes
    BY <2>2, <2>4, AtStages
  <2>6. Live(At) = {c.h : c \in reorder} \cup holes
    BY <2>5, Zenon DEF Live, Stages
  <2>7. ASSUME NEW c \in reorder PROVE FALSE
    <3>1. c.h \in Live(At) /\ c.h \in Nat
      BY <2>6, LiveHeights, Zenon DEF OrderedInv
    <3>2. cursor <= c.h
      BY <2>3, <3>1, Zenon DEF Contiguous
    <3>3. cursor \in Live(At)
      BY <2>3, <3>1, <3>2 DEF Contiguous
    <3>4. Collected
      BY <2>3, Zenon DEF StageInv
    <3>5. QED
      BY <2>6, <3>3, <3>4, Zenon DEF Collected
  <2>8. QED
    BY <2>1, <2>7, Zenon
<1>2. QED
  BY <1>1, OrderedInvariance, WalkBackIsQuiescent, PTL

=============================================================================
