---------------------- MODULE PipelineRefinementProofs ----------------------
(* BlockPipeline implements SequentialIndexer, for every number of workers,  *)
(* every channel capacity and every bound, and its fetch workers run ahead   *)
(* of the ordered check by no more than the channels hold. The last section  *)
(* says where a height is between its pop and the ordered apply.             *)
EXTENDS PipelineRefinement, BlockPipelineProofs

\* A batch that collectReadyCompletionsLocked gathered below the cursor c.
Climbs(s, c) ==
  /\ s \in Seq(Completion)
  /\ \A i \in 1 .. Len(s) : s[i].h < c
  /\ \A i, j \in 1 .. Len(s) : i < j => s[i].h < s[j].h

\* What makes the collector's nested batches one upward sequence: a batch is
\* suspended only by a drain of a stale episode, which suppresses the callbacks
\* of the batches it applies, and is resumed only after them.
OrderInv ==
  /\ Climbs(batch, cursor) /\ Climbs(outer, cursor)
  /\ coll \notin {"collect", "apply"} => batch = <<>>
  /\ outer # <<>> => InDrain /\ ep = "stale"

\* The items of a batch (applyBatch) are completions, whose heights are naturals.
LEMMA CompletionHeights ==
  ASSUME NEW s \in Seq(Completion), NEW i \in 1 .. Len(s)
  PROVE  s[i] \in Completion /\ s[i].h \in Nat
<1>1. s[i] \in Completion
  OBVIOUS
<1>2. QED
  BY <1>1, Zenon DEF Completion

\* A batch that lost its first item still climbs below the cursor, and the
\* item lost lies below all that remain (applyBatch takes the first item).
LEMMA ClimbsTail ==
  ASSUME NEW s, NEW c \in Nat, Climbs(s, c), s # <<>>
  PROVE  /\ Climbs(Tail(s), c)
         /\ Head(s).h \in Nat /\ Head(s).h < c
         /\ Tail(s) # <<>> => Head(Tail(s)).h \in Nat /\ Head(s).h < Head(Tail(s)).h
<1>1. s \in Seq(Completion) /\ Len(s) \in Nat \ {0} /\ Head(s) = s[1] /\ s[1] \in Completion
  BY DEF Climbs
<1>2. /\ Tail(s) \in Seq(Completion) /\ Len(Tail(s)) = Len(s) - 1
      /\ \A i \in 1 .. Len(Tail(s)) : Tail(s)[i] = s[i + 1]
  BY <1>1
<1>3. Climbs(Tail(s), c)
  BY <1>1, <1>2 DEF Climbs
<1>4. Head(s).h \in Nat /\ Head(s).h < c
  BY <1>1 DEF Climbs, Completion
<1>5. ASSUME Tail(s) # <<>>
      PROVE  Head(Tail(s)).h \in Nat /\ Head(s).h < Head(Tail(s)).h
  <2>1. Len(Tail(s)) >= 1 /\ Head(Tail(s)) = Tail(s)[1]
    BY <1>2, <1>5
  <2>2. Head(Tail(s)) = s[2] /\ 2 \in 1 .. Len(s) /\ 1 \in 1 .. Len(s)
    BY <1>1, <1>2, <2>1
  <2>3. QED
    BY <1>1, <2>2, CompletionHeights DEF Climbs
<1>6. QED
  BY <1>3, <1>4, <1>5, Zenon

\* collectReadyCompletionsLocked appends the completion at the cursor and
\* moves the cursor past it: the batch still climbs below the cursor.
LEMMA ClimbsAppend ==
  ASSUME NEW s, NEW c \in Nat, Climbs(s, c), NEW x \in Completion, x.h = c
  PROVE  Climbs(Append(s, x), c + 1)
<1>1. s \in Seq(Completion) /\ Len(s) \in Nat
  BY DEF Climbs
<1>2. /\ Append(s, x) \in Seq(Completion) /\ Len(Append(s, x)) = Len(s) + 1
      /\ \A i \in 1 .. Len(s) : Append(s, x)[i] = s[i]
      /\ Append(s, x)[Len(s) + 1] = x
  BY <1>1
<1>3. \A i \in 1 .. Len(s) : s[i].h \in Nat
  BY <1>1, CompletionHeights, Zenon
<1>4. QED
  BY <1>1, <1>2, <1>3 DEF Climbs

\* A cursor that moves up past a hole stays above the batch.
LEMMA ClimbsUp ==
  ASSUME NEW s, NEW c \in Nat, Climbs(s, c)
  PROVE  Climbs(s, c + 1)
<1>1. \A i \in 1 .. Len(s) : s[i].h \in Nat
  BY CompletionHeights, Zenon DEF Climbs
<1>2. QED
  BY <1>1 DEF Climbs

\* An empty batch climbs below any cursor.
LEMMA ClimbsEmpty == ASSUME NEW c PROVE Climbs(<<>>, c)
BY DEF Climbs

\* The height applyBatch decides next is a natural, at or below the cursor.
LEMMA PositionType ==
  ASSUME TypeOK, OrderInv
  PROVE  Position \in Nat /\ Position <= cursor
<1>1. cursor \in Nat
  BY Zenon DEF TypeOK
<1>2. outer # <<>> => Head(outer).h \in Nat /\ Head(outer).h < cursor
  BY <1>1, ClimbsTail, Zenon DEF OrderInv
<1>3. batch # <<>> => Head(batch).h \in Nat /\ Head(batch).h < cursor
  BY <1>1, ClimbsTail, Zenon DEF OrderInv
<1>4. QED
  BY <1>1, <1>2, <1>3 DEF Position

\* A step that fires no callback: the position moves up or stays, and the run's
\* end is never taken back.
Passes ==
  /\ cb' = cb
  /\ Position' >= Position
  /\ fatal => fatal'
  /\ rb => rb'

\* The collector between two selects has no batch in its hands, so the heights
\* below the cursor are decided.
LEMMA EmptyHands ==
  ASSUME TypeOK, OrderInv, batch = <<>>, outer = <<>>,
         UNCHANGED <<batch, outer, cursor, cb, rb>>, fatal => fatal'
  PROVE  OrderInv' /\ Passes
<1>1. cursor \in Nat
  BY Zenon DEF TypeOK
<1>2. Position' = cursor /\ Position = cursor
  BY Zenon DEF Position
<1>3. Passes
  BY <1>1, <1>2 DEF Passes
<1>4. OrderInv'
  BY ClimbsEmpty, Zenon DEF OrderInv
<1>5. QED
  BY <1>3, <1>4, Zenon

\* Dispatch loop, workers and shutdown leave the collector's state alone.
LEMMA OtherGoroutines ==
  ASSUME TypeOK, OrderInv,
         \/ Cancel \/ Dispatch \/ Shutdown \/ SignDone \/ Returned \/ UNCHANGED vars
         \/ \E w \in Fetchers : Fetcher(w)
         \/ \E w \in Storers : Storer(w)
  PROVE  OrderInv' /\ Passes
<1> USE DEF dispVars, fetchVars, poolVars, applyVars, popVars, epVars, endVars
<1>1. UNCHANGED <<coll, ret, batch, outer, cursor, cb, ep, rb, fatal>>
  <2>1. CASE Cancel \/ Dispatch \/ Shutdown \/ SignDone
    BY <2>1, Zenon DEF Cancel, Dispatch, Shutdown, ShutdownStep, CloseWork,
         CloseResults, CloseCompletions, AwaitCollector, AwaitSigners, SignDone
  <2>2. CASE Returned \/ UNCHANGED vars
    BY <2>2, Zenon DEF Returned, vars
  <2>3. CASE \E w \in Fetchers : Fetcher(w)
    BY <2>3, Zenon DEF Fetcher, FetchTake, FetchDone, FetchSend, FetchExit
  <2>4. CASE \E w \in Storers : Storer(w)
    BY <2>4, Zenon DEF Storer, StoreTake, StoreDone, StoreReport, StoreDrop,
         StoreExit
  <2>5. QED
    BY <2>1, <2>2, <2>3, <2>4, Zenon
<1>2. OrderInv'
  BY <1>1, Zenon DEF OrderInv, InDrain
<1>3. Position' = Position /\ Position \in Nat
  BY <1>1, PositionType, Zenon DEF Position
<1>4. Passes
  BY <1>1, <1>3 DEF Passes
<1>5. QED
  BY <1>2, <1>4, Zenon

\* Pops, resolutions, abandoned dispatches and selects happen with empty hands.
LEMMA BetweenSelects ==
  ASSUME TypeOK, OrderInv, PopNothing \/ Pop \/ Resolve \/ Abandon \/ Select
  PROVE  OrderInv' /\ Passes
<1> USE DEF dispVars, fetchVars, poolVars, applyVars, popVars, epVars, endVars
<1>1. /\ coll \in {"pop", "resolve", "refill", "abandon", "select"}
      /\ UNCHANGED <<batch, outer, cursor, cb, rb>>
      /\ fatal => fatal'
  <2>1. CASE PopNothing
    BY <2>1, Zenon DEF PopNothing
  <2>2. CASE Pop
    <3>1. PICK r \in pending : Popped(r) /\ (rb' = rb /\ fatal' = fatal)
      BY <2>2, Zenon DEF Pop, Popped, PopDropped, PopHole, PopChecked,
           PopMismatch, PopParked
    <3>2. QED
      BY <3>1 DEF Popped
  <2>3. CASE Resolve
    BY <2>3, Zenon DEF Resolve, Resolving, ResolveStop, ResolveConfirm,
         ResolveReanchor, ResolveRefill, RefillFetched, RefillFailed, EndEpisode
  <2>4. CASE Abandon
    BY <2>4, Zenon DEF Abandon
  <2>5. CASE Select
    <3>1. CASE SelectResult \/ SelectSend \/ SelectDone
      BY <3>1 DEF SelectResult, SelectSend, SelectDone
    <3>2. CASE SelectCompletion
      BY <3>2, Zenon DEF SelectCompletion, ReceiveCompletion
    <3>3. CASE \E src \in Sources : SelectClosed(src)
      BY <3>3 DEF SelectClosed
    <3>4. QED
      BY <2>5, <3>1, <3>2, <3>3, Zenon DEF Select
  <2>6. QED
    BY <2>1, <2>2, <2>3, <2>4, <2>5, Zenon
<1>2. batch = <<>> /\ outer = <<>>
  BY <1>1, Zenon DEF OrderInv, InDrain
<1>3. QED
  BY <1>1, <1>2, EmptyHands, Zenon

\* A batch is gathered: a hole or a ready completion moves the cursor past it.
LEMMA Gathering ==
  ASSUME TypeOK, OrderInv, CollectHole \/ CollectReady \/ CollectEnd
  PROVE  OrderInv' /\ Passes
<1> USE DEF dispVars, fetchVars, poolVars, applyVars, popVars, epVars, endVars
<1>0. cursor \in Nat /\ Climbs(batch, cursor) /\ Climbs(outer, cursor)
  BY Zenon DEF TypeOK, OrderInv
<1>1. /\ UNCHANGED <<outer, cb, ep, rb, fatal, ret>>
      /\ coll = "collect" /\ coll' \in {"collect", "apply"}
  BY Zenon DEF CollectHole, CollectReady, CollectEnd
<1>2. InDrain' <=> InDrain
  BY <1>1, Zenon DEF InDrain
<1>3. CASE CollectHole
  <2>1. batch' = batch /\ cursor' = cursor + 1
    BY <1>3, Zenon DEF CollectHole
  <2>2. OrderInv'
    BY <1>0, <1>1, <1>2, <2>1, ClimbsUp, Zenon DEF OrderInv
  <2>3. Position \in Nat /\ Position' \in {Position, Position + 1}
    BY <1>0, <1>1, <2>1, PositionType, Zenon DEF Position
  <2>4. QED
    BY <1>1, <2>2, <2>3 DEF Passes
<1>4. CASE CollectReady
  <2>1. PICK c \in reorder : /\ c.h = cursor /\ batch' = Append(batch, c)
                             /\ cursor' = cursor + 1
    BY <1>4, Zenon DEF CollectReady
  <2>2. c \in Completion
    BY Zenon DEF TypeOK
  <2>3. Climbs(batch', cursor')
    BY <1>0, <2>1, <2>2, ClimbsAppend, Zenon
  <2>4. Climbs(outer', cursor')
    BY <1>0, <1>1, <2>1, ClimbsUp, Zenon
  <2>5. OrderInv'
    BY <1>1, <1>2, <2>3, <2>4, Zenon DEF OrderInv
  <2>6. batch' # <<>> /\ Head(batch') = IF batch = <<>> THEN c ELSE Head(batch)
    BY <1>0, <2>1, <2>2 DEF Climbs
  <2>7. Position' = Position /\ Position \in Nat
    BY <1>1, <2>1, <2>6, PositionType, Zenon DEF Position
  <2>8. QED
    BY <1>1, <2>5, <2>7 DEF Passes
<1>5. CASE CollectEnd
  <2>1. batch' = batch /\ cursor' = cursor
    BY <1>5, Zenon DEF CollectEnd
  <2>2. OrderInv'
    BY <1>1, <1>2, <2>1, Zenon DEF OrderInv
  <2>3. Position' = Position /\ Position \in Nat
    BY <1>1, <2>1, PositionType, Zenon DEF Position
  <2>4. QED
    BY <1>1, <2>2, <2>3 DEF Passes
<1>6. QED
  BY <1>3, <1>4, <1>5, Zenon

\* applyBatch moves past the head of its batch, and a suspended batch keeps the
\* position.
LEMMA HeadPassed ==
  ASSUME TypeOK, OrderInv, batch # <<>>, batch' = Tail(batch),
         UNCHANGED <<outer, cursor>>
  PROVE  /\ Climbs(batch', cursor') /\ Climbs(outer', cursor')
         /\ Position \in Nat /\ Position' \in Nat /\ Position' >= Position
         /\ outer = <<>> => Position' > Position
<1>1. cursor \in Nat /\ Climbs(batch, cursor) /\ Climbs(outer, cursor)
  BY Zenon DEF TypeOK, OrderInv
<1>2. /\ Climbs(Tail(batch), cursor)
      /\ Head(batch).h \in Nat /\ Head(batch).h < cursor
      /\ Tail(batch) # <<>> => /\ Head(Tail(batch)).h \in Nat
                               /\ Head(batch).h < Head(Tail(batch)).h
  BY <1>1, ClimbsTail, Zenon
<1>3. Climbs(batch', cursor') /\ Climbs(outer', cursor')
  BY <1>1, <1>2, Zenon
<1>4. CASE outer # <<>>
  <2>1. Position' = Position /\ Position \in Nat
    BY <1>4, PositionType, Zenon DEF Position
  <2>2. QED
    BY <1>3, <1>4, <2>1
<1>5. CASE outer = <<>>
  <2>1. /\ Position = Head(batch).h
        /\ Position' = IF Tail(batch) # <<>> THEN Head(Tail(batch)).h ELSE cursor
    BY <1>5, Zenon DEF Position
  <2>2. Position \in Nat /\ Position' \in Nat /\ Position' > Position
    <3>1. CASE Tail(batch) = <<>>
      BY <1>1, <1>2, <2>1, <3>1, Zenon
    <3>2. CASE Tail(batch) # <<>>
      BY <1>2, <2>1, <3>2, Zenon
    <3>3. QED
      BY <3>1, <3>2, Zenon
  <2>3. QED
    BY <1>3, <2>2
<1>6. QED
  BY <1>4, <1>5, Zenon

\* applyBatch and the drains: the only callback is applyCommit's, and it reports
\* the position.
LEMMA Applying ==
  ASSUME TypeOK, OrderInv, ApplySkip \/ ApplyDeleted \/ ApplyStale \/ ApplyEnd
  PROVE  OrderInv' /\ Passes
<1> USE DEF dispVars, fetchVars, poolVars, applyVars, popVars, epVars, endVars
<1>1. CASE ApplySkip \/ ApplyDeleted
  <2>1. /\ batch # <<>> /\ batch' = Tail(batch)
        /\ UNCHANGED <<outer, cursor, cb, ep, ret, coll, rb>>
        /\ coll = "apply" /\ (fatal => fatal')
    <3>1. CASE ApplySkip
      BY <3>1, Zenon DEF ApplySkip, ApplyNext
    <3>2. CASE ApplyDeleted
      BY <3>2, Zenon DEF ApplyDeleted, ApplyNext
    <3>3. QED
      BY <1>1, <3>1, <3>2, Zenon
  <2>2. /\ Climbs(batch', cursor') /\ Climbs(outer', cursor')
        /\ Position \in Nat /\ Position' \in Nat /\ Position' >= Position
    BY <2>1, HeadPassed, Zenon
  <2>3. OrderInv'
    BY <2>1, <2>2, Zenon DEF OrderInv, InDrain
  <2>4. QED
    BY <2>1, <2>2, <2>3, Zenon DEF Passes
<1>2. CASE ApplyStale
  <2>1. /\ batch # <<>> /\ outer' = Tail(batch) /\ batch' = <<>>
        /\ coll = "apply" /\ coll' = "drain" /\ ep = "none" /\ ep' = "stale"
        /\ UNCHANGED <<cursor, cb, rb, fatal>>
    BY <1>2, Zenon DEF ApplyStale, ApplyNext
  <2>2. cursor \in Nat /\ Climbs(batch, cursor) /\ outer = <<>>
    BY <2>1, Zenon DEF TypeOK, OrderInv
  <2>3. /\ Climbs(Tail(batch), cursor)
        /\ Head(batch).h \in Nat /\ Head(batch).h < cursor
        /\ Tail(batch) # <<>> => /\ Head(Tail(batch)).h \in Nat
                                 /\ Head(batch).h < Head(Tail(batch)).h
    BY <2>1, <2>2, ClimbsTail, Zenon
  <2>4. OrderInv'
    BY <2>1, <2>3, ClimbsEmpty, Zenon DEF OrderInv, InDrain
  <2>5. /\ Position = Head(batch).h
        /\ Position' = IF Tail(batch) # <<>> THEN Head(Tail(batch)).h ELSE cursor
    BY <2>1, <2>2, Zenon DEF Position
  <2>6. Position' >= Position
    <3>1. CASE Tail(batch) = <<>>
      BY <2>2, <2>3, <2>5, <3>1
    <3>2. CASE Tail(batch) # <<>>
      BY <2>3, <2>5, <3>2
    <3>3. QED
      BY <3>1, <3>2, Zenon
  <2>7. QED
    BY <2>1, <2>4, <2>6, Zenon DEF Passes
<1>3. CASE ApplyEnd
  <2>1. /\ coll = "apply" /\ batch = <<>>
        /\ coll' = IF ret = "loop" THEN "pop" ELSE ret
        /\ UNCHANGED <<batch, outer, cursor, cb, ep, ret, rb, fatal>>
    BY <1>3, Zenon DEF ApplyEnd
  <2>2. ret \in {"loop", "drain", "tail"}
    BY Zenon DEF TypeOK
  <2>3. OrderInv'
    BY <2>1, <2>2, Zenon DEF OrderInv, InDrain
  <2>4. Position' = Position /\ Position \in Nat
    BY <2>1, PositionType, Zenon DEF Position
  <2>5. QED
    BY <2>1, <2>3, <2>4 DEF Passes
<1>4. QED
  BY <1>1, <1>2, <1>3, Zenon

\* The phases of a drain receive completions; its end resumes what it suspended.
LEMMA Finalizing ==
  ASSUME TypeOK, OrderInv, Finalize
  PROVE  OrderInv' /\ Passes
<1> USE DEF dispVars, fetchVars, poolVars, applyVars, popVars, epVars, endVars
<1>1. coll \in {"drain", "tail", "walk"} /\ batch = <<>>
  <2>1. coll \in {"drain", "tail", "walk"}
    BY Zenon DEF Finalize, DrainReceive, DrainSettled, TailReceive, TailEmpty, WalkFound,
           WalkFailed
  <2>2. QED
    BY <2>1, Zenon DEF OrderInv
<1>2. cb' = cb /\ cursor' = cursor /\ (fatal => fatal') /\ (rb => rb')
  BY Zenon DEF Finalize, DrainReceive, DrainSettled, TailReceive, TailEmpty,
       WalkFound, WalkFailed, ReceiveCompletion, Resume, EndEpisode
<1>3. \/ /\ UNCHANGED <<batch, outer, ep>>
         /\ coll' \in {"tail", "walk"} \/ (coll' = "collect" /\ ret' # "loop")
      \/ /\ ep = "stale" /\ coll' = "apply" /\ batch' = outer /\ outer' = <<>>
      \/ ep # "stale" /\ coll' = "abandon" /\ UNCHANGED <<batch, outer>>
  <2>1. CASE DrainReceive \/ TailReceive
    BY <2>1, Zenon DEF DrainReceive, TailReceive, ReceiveCompletion
  <2>2. CASE DrainSettled
    BY <2>2, Zenon DEF DrainSettled
  <2>3. CASE TailEmpty
    BY <2>3, Zenon DEF TailEmpty, Resume
  <2>4. CASE WalkFound \/ WalkFailed
    BY <2>4, Zenon DEF WalkFound, WalkFailed, Resume
  <2>5. QED
    BY <2>1, <2>2, <2>3, <2>4, Zenon DEF Finalize
<1>4. OrderInv'
  BY <1>1, <1>2, <1>3, ClimbsEmpty, Zenon DEF OrderInv, InDrain
<1>5. Position' = Position /\ Position \in Nat
  BY <1>1, <1>2, <1>3, PositionType, Zenon DEF Position, OrderInv
<1>6. QED
  BY <1>2, <1>4, <1>5 DEF Passes

\* applyCommit reports the position of a running run: a suspended batch would
\* have suppressed it.
LEMMA Committing ==
  ASSUME TypeOK, OrderInv, ApplyCommit
  PROVE  OrderInv' /\ Sequential!Index
<1> USE DEF dispVars, fetchVars, poolVars, applyVars, popVars, epVars, endVars
<1>1. /\ batch # <<>> /\ batch' = Tail(batch) /\ coll = "apply"
      /\ cb' = Append(cb, Head(batch).h)
      /\ UNCHANGED <<outer, cursor, ep, ret, coll, rb, fatal>>
      /\ ~rb /\ ~fatal /\ ~(ret # "loop" /\ ep = "stale")
  BY Zenon DEF ApplyCommit, ApplyNext, ended, suppress
<1>2. outer = <<>>
  BY <1>1, Zenon DEF OrderInv, InDrain
<1>3. /\ Climbs(batch', cursor') /\ Climbs(outer', cursor')
      /\ Position' \in Nat /\ Position' > Position
  BY <1>1, <1>2, HeadPassed, Zenon
<1>4. OrderInv'
  BY <1>1, <1>2, <1>3, Zenon DEF OrderInv
<1>5. Position = Head(batch).h
  BY <1>1, <1>2, Zenon DEF Position
<1>6. RunOutcome = "running" /\ RunOutcome' = "running"
  BY <1>1, Zenon DEF RunOutcome
<1>7. Sequential!MovesUp
  BY <1>3, Zenon DEF Sequential!MovesUp
<1>8. QED
  BY <1>1, <1>4, <1>5, <1>6, <1>7, Zenon DEF Sequential!Index

\* The same of the next state, in the form the temporal step needs.
LEMMA PositionTypeNext == TypeOK' /\ OrderInv' => (Position \in Nat)'
<1>1. TypeOK /\ OrderInv => Position \in Nat
  BY PositionType, Zenon
<1>2. QED
  BY <1>1, PTL

\* A step without a callback passes over a height, ends the run, or stutters.
LEMMA PassingSteps ==
  ASSUME TypeOK, OrderInv, TypeOK', OrderInv', Passes
  PROVE  [Sequential!Next]_(Sequential!vars)
<1>1. Position \in Nat /\ Position' \in Nat
  BY PositionType, PositionTypeNext, Zenon
<1>2. Position' = Position \/ Sequential!MovesUp
  BY <1>1 DEF Passes, Sequential!MovesUp
<1>3. CASE RunOutcome' = RunOutcome
  BY <1>2, <1>3, Zenon DEF Passes, Sequential!Next, Sequential!Skip, Sequential!vars
<1>4. CASE RunOutcome' # RunOutcome
  <2>1. RunOutcome # "failed" /\ RunOutcome' \in {"reorg", "failed"} \ {RunOutcome}
    BY <1>4, Zenon DEF Passes, RunOutcome
  <2>2. QED
    BY <1>2, <2>1, Zenon DEF Passes, Sequential!Next, Sequential!End
<1>5. QED
  BY <1>3, <1>4, Zenon

\* Every step of every goroutine is a step of the loop, and silent once the run
\* has ended.
LEMMA RefinementStep ==
  ASSUME TypeOK, OrderInv, TypeOK', [Next]_vars
  PROVE  /\ OrderInv' /\ [Sequential!Next]_(Sequential!vars)
         /\ rb \/ fatal => cb' = cb
<1>1. CASE ApplyCommit
  BY <1>1, Committing, Zenon DEF Sequential!Next, ApplyCommit, ended
<1>2. CASE ~ApplyCommit
  <2>1. OrderInv' /\ Passes
    BY <1>2, OtherGoroutines, BetweenSelects, Gathering, Applying, Finalizing, Zenon
       DEF Next, Collector, Apply
  <2>2. QED
    BY <2>1, PassingSteps, Zenon DEF Passes
<1>3. QED
  BY <1>1, <1>2, Zenon

\* processBlocksOnce starts with empty hands.
LEMMA OrderInit == Init => OrderInv
BY ClimbsEmpty, Zenon DEF Init, OrderInv

\* A run of the concurrent processor implements the sequential loop: it reports
\* the heights upwards, each at most once, never below a decided height, and
\* none after a rollback point or a fatal error.
THEOREM PipelineIsSequential == Spec => ImplementsSequential
<1>1. Init => OrderInv /\ Sequential!Init
  BY OrderInit, Zenon DEF Init, Sequential!Init, Position, RunOutcome
<1>2. TypeOK /\ OrderInv /\ TypeOK' /\ [Next]_vars
        => OrderInv' /\ [Sequential!Next]_(Sequential!vars)
  BY RefinementStep, Zenon
<1>3. QED
  BY <1>1, <1>2, TypeCorrect, PTL DEF Spec, ImplementsSequential, Sequential!Spec

\* Once a rollback point or a fatal error is recorded, onBlockProcessed is never
\* called again, not even for the rest of a batch already gathered.
THEOREM EndedRunsStaySilent == Spec => EndedRunIsSilent
<1>1. TypeOK /\ OrderInv /\ TypeOK' /\ [Next]_vars
        => OrderInv' /\ [rb \/ fatal => cb' = cb]_vars
  BY RefinementStep, Zenon
<1>2. QED
  BY <1>1, OrderInit, TypeCorrect, PTL DEF Spec, EndedRunIsSilent

-----------------------------------------------------------------------------
(* How far the fetch workers run ahead                                       *)

\* Fetch workers that hold a height.
Fetches == {w \in Fetchers : fw[w].pc \in {"fetch", "send"}}

\* dispatchLoop's throttle bounds what is dispatched and not popped yet, and what
\* is fetched but not popped is part of it.
LookaheadInv ==
  /\ IsFiniteSet(results) /\ IsFiniteSet(pending)
  /\ Cardinality(results) + Cardinality(pending) + Cardinality(Fetches)
       <= taken - nextToCommit
  /\ taken <= nextBlock /\ nextBlock - nextToCommit <= ChanCap

\* A height between dispatch and pop is in one place: with one fetch worker, in
\* resultChan or in pending.
FetchInv ==
  /\ \A w \in Fetches : nextToCommit <= fw[w].h /\ fw[w].h < taken
  /\ \A v, w \in Fetches : fw[v].h = fw[w].h => v = w
  /\ \A r \in results \cup pending : nextToCommit <= r.h /\ r.h < taken
  /\ \A r, s \in results \cup pending : r.h = s.h => r = s
  /\ results \cap pending = {}
  /\ \A w \in Fetches, r \in results \cup pending : fw[w].h # r.h

\* There are finitely many fetch workers.
LEMMA FetchesFinite == IsFiniteSet(Fetches) /\ Cardinality(Fetches) \in Nat
BY FS_Subset, FS_CardinalityType, PipelineAssumption, Zenon DEF Fetches

\* Moving an element from a finite set to another keeps the sum of their sizes,
\* or lowers it (a send on resultChan, a receive into pending).
LEMMA MoveCounts ==
  ASSUME NEW A, NEW B, IsFiniteSet(A), IsFiniteSet(B), NEW x \in A, NEW y
  PROVE  /\ IsFiniteSet(A \ {x}) /\ IsFiniteSet(B \cup {y})
         /\ Cardinality(A) \in Nat /\ Cardinality(B) \in Nat
         /\ Cardinality(A \ {x}) = Cardinality(A) - 1
         /\ Cardinality(B \cup {y}) \in {Cardinality(B), Cardinality(B) + 1}
<1>1. IsFiniteSet(A \ {x}) /\ Cardinality(A \ {x}) = Cardinality(A) - 1
  BY FS_RemoveElement, Zenon
<1>2. /\ IsFiniteSet(B \cup {y})
      /\ Cardinality(B \cup {y}) \in {Cardinality(B), Cardinality(B) + 1}
  BY FS_AddElement, Zenon
<1>3. QED
  BY <1>1, <1>2, FS_CardinalityType, Zenon

\* What the dispatch loop, the fetch workers and the pops work on.
frontVars == <<nextBlock, taken, fw, results, pending, nextToCommit>>

\* Only they, and the receive of a result, change it.
LEMMA FrontSteps ==
  ASSUME [Next]_vars
  PROVE  \/ Dispatch \/ Pop \/ SelectResult \/ UNCHANGED frontVars
         \/ \E w \in Fetchers : Fetcher(w)
<1> USE DEF dispVars, fetchVars, popVars, frontVars
<1>1. Cancel \/ Shutdown \/ SignDone \/ Returned \/ UNCHANGED vars
        => UNCHANGED frontVars
  BY Zenon DEF Cancel, Shutdown, ShutdownStep, CloseWork, CloseResults,
       CloseCompletions, AwaitCollector, AwaitSigners, SignDone, Returned, vars
<1>2. (\E w \in Storers : Storer(w)) => UNCHANGED frontVars
  BY Zenon DEF Storer, StoreTake, StoreDone, StoreReport, StoreDrop, StoreExit
<1>3. PopNothing \/ Resolve \/ Abandon => UNCHANGED frontVars
  BY Zenon DEF PopNothing, Resolve, Resolving, ResolveStop, ResolveConfirm,
       ResolveReanchor, ResolveRefill, RefillFetched, RefillFailed, Abandon
<1>4. Select => SelectResult \/ UNCHANGED frontVars
  BY Zenon DEF Select, SelectCompletion, ReceiveCompletion, SelectSend, SelectDone,
       SelectClosed
<1>5. Apply => UNCHANGED frontVars
  BY Zenon DEF Apply, CollectHole, CollectReady, CollectEnd, ApplyNext, ApplyCommit,
       ApplySkip, ApplyDeleted, ApplyStale, ApplyEnd
<1>6. Finalize => UNCHANGED frontVars
  BY Zenon DEF Finalize, DrainReceive, DrainSettled, TailReceive, TailEmpty,
       WalkFound, WalkFailed, ReceiveCompletion, Resume
<1>7. QED
  BY <1>1, <1>2, <1>3, <1>4, <1>5, <1>6, Zenon DEF Next, Collector

\* A pop takes one result out of pending, at nextToCommit.
LEMMA PopFront ==
  ASSUME Pop
  PROVE  \E r \in pending : /\ r.h = nextToCommit /\ pending' = pending \ {r}
                            /\ nextToCommit' = nextToCommit + 1
                            /\ UNCHANGED <<nextBlock, taken, fw, results>>
BY Zenon DEF Pop, Popped, PopDropped, PopHole, PopChecked, PopMismatch, PopParked,
     dispVars, fetchVars

\* A fetch worker's record changes, and nothing else.
LEMMA FetchersMove ==
  ASSUME TypeOK, NEW w \in Fetchers, NEW new, fw' = [fw EXCEPT ![w] = new]
  PROVE  \A v \in Fetchers : fw'[v] = IF v = w THEN new ELSE fw[v]
<1>1. fw \in [Fetchers -> [pc : {"idle", "fetch", "send", "exited"},
                            h : Nat, ok : BOOLEAN]]
  BY Zenon DEF TypeOK
<1>2. QED
  BY <1>1, Zenon

\* It takes a height up, or goes on with it, ...
LEMMA FetchesGrow ==
  ASSUME TypeOK, NEW w \in Fetchers, NEW new, fw' = [fw EXCEPT ![w] = new],
         new.pc \in {"fetch", "send"}
  PROVE  Fetches' = Fetches \cup {w}
<1>1. \A v \in Fetchers : fw'[v] = IF v = w THEN new ELSE fw[v]
  BY FetchersMove, Zenon
<1>2. QED
  BY <1>1, Zenon DEF Fetches

\* ... or it has none any more.
LEMMA FetchesShrink ==
  ASSUME TypeOK, NEW w \in Fetchers, NEW new, fw' = [fw EXCEPT ![w] = new],
         new.pc \notin {"fetch", "send"}
  PROVE  Fetches' = Fetches \ {w}
<1>1. \A v \in Fetchers : fw'[v] = IF v = w THEN new ELSE fw[v]
  BY FetchersMove, Zenon
<1>2. QED
  BY <1>1, Zenon DEF Fetches

\* The four steps of a fetch worker, as they change its record.
LEMMA FetcherFront ==
  ASSUME TypeOK, NEW w \in Fetchers, Fetcher(w)
  PROVE  /\ UNCHANGED <<nextBlock, pending, nextToCommit>>
         /\ \/ /\ w \notin Fetches /\ taken < nextBlock /\ taken' = taken + 1
               /\ fw' = [fw EXCEPT ![w] = Fetching("fetch", taken, FALSE)]
               /\ results' = results
            \/ /\ w \in Fetches /\ UNCHANGED <<taken, results>>
               /\ \E ok \in BOOLEAN :
                    fw' = [fw EXCEPT ![w] = Fetching("send", fw[w].h, ok)]
            \/ /\ w \in Fetches /\ UNCHANGED taken
               /\ results' = results \cup {[h |-> fw[w].h, ok |-> fw[w].ok]}
               /\ fw' = [fw EXCEPT ![w] = IdleFetch]
            \/ /\ UNCHANGED <<taken, results>>
               /\ fw' = [fw EXCEPT ![w] = Fetching("exited", NoItem, FALSE)]
<1> USE DEF dispVars, popVars
<1>1. CASE FetchTake(w)
  BY <1>1, Zenon DEF FetchTake, Fetches
<1>2. CASE FetchDone(w)
  BY <1>2, Zenon DEF FetchDone, Fetches
<1>3. CASE FetchSend(w)
  BY <1>3, Zenon DEF FetchSend, Fetches
<1>4. CASE FetchExit(w)
  BY <1>4, Zenon DEF FetchExit
<1>5. QED
  BY <1>1, <1>2, <1>3, <1>4, Zenon DEF Fetcher

\* The throttle keeps its bound, and the counts move with the heights.
LEMMA LookaheadStep ==
  ASSUME TypeOK, LookaheadInv, [Next]_vars
  PROVE  LookaheadInv'
<1>a. /\ nextBlock \in Nat /\ taken \in Nat /\ nextToCommit \in Nat /\ ChanCap \in Int
      /\ Cardinality(Fetches) \in Nat /\ Cardinality(results) \in Nat
      /\ Cardinality(pending) \in Nat /\ IsFiniteSet(Fetches)
  BY FetchesFinite, FS_CardinalityType, PipelineAssumption
     DEF TypeOK, LookaheadInv, ChanCap, W
<1>1. CASE UNCHANGED frontVars
  <2>1. Fetches' = Fetches
    BY <1>1, Zenon DEF frontVars, Fetches
  <2>2. QED
    BY <1>1, <2>1, Zenon DEF LookaheadInv, frontVars
<1>2. CASE Dispatch
  <2>1. /\ UNCHANGED <<taken, fw, results, pending, nextToCommit>>
        /\ nextBlock' = nextBlock + 1 /\ ~(nextBlock - nextToCommit >= ChanCap)
    BY <1>2, Zenon DEF Dispatch, fetchVars, popVars, Throttled, ChanCap
  <2>2. Fetches' = Fetches
    BY <2>1, Zenon DEF Fetches
  <2>3. QED
    BY <1>a, <2>1, <2>2 DEF LookaheadInv
<1>3. CASE Pop
  <2>1. PICK r \in pending : /\ r.h = nextToCommit /\ pending' = pending \ {r}
                             /\ nextToCommit' = nextToCommit + 1
                             /\ UNCHANGED <<nextBlock, taken, fw, results>>
    BY <1>3, PopFront, Zenon
  <2>2. Fetches' = Fetches
    BY <2>1, Zenon DEF Fetches
  <2>3. IsFiniteSet(pending') /\ Cardinality(pending') = Cardinality(pending) - 1
    BY <2>1, MoveCounts, Zenon DEF LookaheadInv
  <2>4. QED
    BY <1>a, <2>1, <2>2, <2>3 DEF LookaheadInv
<1>4. CASE SelectResult
  <2>1. PICK r \in results : results' = results \ {r} /\ pending' = pending \cup {r}
    BY <1>4, Zenon DEF SelectResult
  <2>2. UNCHANGED <<nextBlock, taken, fw, nextToCommit>>
    BY <1>4, Zenon DEF SelectResult, dispVars
  <2>3. Fetches' = Fetches
    BY <2>2, Zenon DEF Fetches
  <2>4. /\ IsFiniteSet(results') /\ Cardinality(results') = Cardinality(results) - 1
        /\ IsFiniteSet(pending')
        /\ Cardinality(pending') \in {Cardinality(pending), Cardinality(pending) + 1}
    BY <2>1, MoveCounts, Zenon DEF LookaheadInv
  <2>5. QED
    BY <1>a, <2>2, <2>3, <2>4 DEF LookaheadInv
<1>5. ASSUME NEW w \in Fetchers, Fetcher(w)
      PROVE  LookaheadInv'
  <2>1. UNCHANGED <<nextBlock, pending, nextToCommit>>
    BY <1>5, FetcherFront, Zenon
  <2>2. CASE /\ w \notin Fetches /\ taken < nextBlock /\ taken' = taken + 1
             /\ fw' = [fw EXCEPT ![w] = Fetching("fetch", taken, FALSE)]
             /\ results' = results
    <3>1. Fetches' = Fetches \cup {w}
      BY <2>2, FetchesGrow, Zenon DEF Fetching
    <3>2. Cardinality(Fetches') = Cardinality(Fetches) + 1
      BY <1>a, <2>2, <3>1, FS_AddElement, Zenon
    <3>3. QED
      BY <1>a, <2>1, <2>2, <3>2 DEF LookaheadInv
  <2>3. CASE /\ w \in Fetches /\ UNCHANGED <<taken, results>>
             /\ \E ok \in BOOLEAN :
                  fw' = [fw EXCEPT ![w] = Fetching("send", fw[w].h, ok)]
    <3>1. PICK ok \in BOOLEAN : fw' = [fw EXCEPT ![w] = Fetching("send", fw[w].h, ok)]
      BY <2>3, Zenon
    <3>2. Fetches' = Fetches \cup {w}
      BY <3>1, FetchesGrow, Zenon DEF Fetching
    <3>3. Fetches' = Fetches
      BY <2>3, <3>2, Zenon
    <3>4. QED
      BY <2>1, <2>3, <3>3, Zenon DEF LookaheadInv
  <2>4. CASE /\ w \in Fetches /\ UNCHANGED taken
             /\ results' = results \cup {[h |-> fw[w].h, ok |-> fw[w].ok]}
             /\ fw' = [fw EXCEPT ![w] = IdleFetch]
    <3>1. Fetches' = Fetches \ {w}
      BY <2>4, FetchesShrink, Zenon DEF IdleFetch, Fetching
    <3>2. Cardinality(Fetches') = Cardinality(Fetches) - 1
      BY <1>a, <2>4, <3>1, FS_RemoveElement, Zenon
    <3>3. /\ IsFiniteSet(results')
          /\ Cardinality(results') \in {Cardinality(results), Cardinality(results) + 1}
      BY <2>4, FS_AddElement, Zenon DEF LookaheadInv
    <3>4. QED
      BY <1>a, <2>1, <2>4, <3>2, <3>3 DEF LookaheadInv
  <2>5. CASE /\ UNCHANGED <<taken, results>>
             /\ fw' = [fw EXCEPT ![w] = Fetching("exited", NoItem, FALSE)]
    <3>1. Fetches' = Fetches \ {w}
      BY <2>5, FetchesShrink, Zenon DEF Fetching
    <3>2. Cardinality(Fetches') \in Nat /\ Cardinality(Fetches') <= Cardinality(Fetches)
      BY <1>a, <3>1, FS_Subset, FS_CardinalityType, Zenon
    <3>3. QED
      BY <1>a, <2>1, <2>5, <3>2 DEF LookaheadInv
  <2>6. QED
    BY <1>5, <2>2, <2>3, <2>4, <2>5, FetcherFront, Zenon
<1>6. QED
  BY <1>1, <1>2, <1>3, <1>4, <1>5, FrontSteps, Zenon

-----------------------------------------------------------------------------
(* Fetched heights                                                           *)

\* A height that is fetched or being fetched stays in one place, at or above
\* nextToCommit, until it is popped.
LEMMA FetchStep ==
  ASSUME TypeOK, LookaheadInv, FetchInv, [Next]_vars
  PROVE  FetchInv'
<1>a. /\ nextBlock \in Nat /\ taken \in Nat /\ nextToCommit \in Nat
      /\ nextToCommit <= taken
  <2>1. /\ Cardinality(Fetches) \in Nat /\ Cardinality(results) \in Nat
        /\ Cardinality(pending) \in Nat /\ taken \in Nat /\ nextToCommit \in Nat
        /\ nextBlock \in Nat
    BY FetchesFinite, FS_CardinalityType, Zenon DEF TypeOK, LookaheadInv
  <2>2. QED
    BY <2>1 DEF LookaheadInv
<1>b. /\ \A w \in Fetchers : fw[w].h \in Nat
      /\ \A r \in results \cup pending : r.h \in Nat
  BY Zenon DEF TypeOK, Result
<1>c. \A v \in Fetches : v \in Fetchers /\ nextToCommit <= fw[v].h /\ fw[v].h < taken
  BY Zenon DEF FetchInv, Fetches
<1>d. \A u, v \in Fetches : fw[u].h = fw[v].h => u = v
  BY Zenon DEF FetchInv
<1>e. \A r \in results \cup pending : nextToCommit <= r.h /\ r.h < taken
  BY Zenon DEF FetchInv
<1>f. \A v \in Fetches, r \in results \cup pending : fw[v].h # r.h
  BY Zenon DEF FetchInv
<1>1. CASE UNCHANGED frontVars \/ Dispatch
  <2>1. UNCHANGED <<taken, fw, results, pending, nextToCommit>>
    BY <1>1, Zenon DEF Dispatch, fetchVars, popVars, frontVars
  <2>2. Fetches' = Fetches
    BY <2>1, Zenon DEF Fetches
  <2>3. QED
    BY <2>1, <2>2, Zenon DEF FetchInv
<1>2. CASE Pop
  <2>1. PICK r \in pending : /\ r.h = nextToCommit /\ pending' = pending \ {r}
                             /\ nextToCommit' = nextToCommit + 1
                             /\ UNCHANGED <<nextBlock, taken, fw, results>>
    BY <1>2, PopFront, Zenon
  <2>2. Fetches' = Fetches
    BY <2>1, Zenon DEF Fetches
  <2>3. \A s \in results' \cup pending' : s \in results \cup pending /\ s # r
    BY <2>1, Zenon DEF FetchInv
  <2>4. \A s \in results' \cup pending' : nextToCommit' <= s.h /\ s.h < taken'
    BY <1>a, <1>b, <2>1, <2>3 DEF FetchInv
  <2>5. \A w \in Fetches' : nextToCommit' <= fw'[w].h /\ fw'[w].h < taken'
    <3>1. \A w \in Fetches : fw[w].h \in Nat /\ fw[w].h # nextToCommit
      BY <1>b, <2>1, Zenon DEF FetchInv, Fetches
    <3>2. QED
      BY <1>a, <2>1, <2>2, <3>1 DEF FetchInv
  <2>6. QED
    BY <2>1, <2>2, <2>3, <2>4, <2>5 DEF FetchInv
<1>3. CASE SelectResult
  <2>1. PICK r \in results : results' = results \ {r} /\ pending' = pending \cup {r}
    BY <1>3, Zenon DEF SelectResult
  <2>2. UNCHANGED <<nextBlock, taken, fw, nextToCommit>>
    BY <1>3, Zenon DEF SelectResult, dispVars
  <2>3. Fetches' = Fetches
    BY <2>2, Zenon DEF Fetches
  <2>4. results' \cup pending' = results \cup pending /\ results' \cap pending' = {}
    BY <2>1, Zenon DEF FetchInv
  <2>5. QED
    BY <2>2, <2>3, <2>4 DEF FetchInv
<1>4. ASSUME NEW w \in Fetchers, Fetcher(w)
      PROVE  FetchInv'
  <2>1. UNCHANGED <<nextBlock, pending, nextToCommit>>
    BY <1>4, FetcherFront, Zenon
  <2>2. CASE /\ w \notin Fetches /\ taken < nextBlock /\ taken' = taken + 1
             /\ fw' = [fw EXCEPT ![w] = Fetching("fetch", taken, FALSE)]
             /\ results' = results
    <3>a. taken' = taken + 1 /\ results' = results
      BY <2>2, Zenon
    <3>1. Fetches' = Fetches \cup {w}
      BY <2>2, FetchesGrow, Zenon DEF Fetching
    <3>2. \A v \in Fetchers :
            fw'[v] = IF v = w THEN Fetching("fetch", taken, FALSE) ELSE fw[v]
      BY <2>2, FetchersMove, Zenon
    <3>3. fw'[w].h = taken /\ \A v \in Fetches : v # w /\ fw'[v].h = fw[v].h
      BY <1>c, <2>2, <3>2 DEF Fetching
    <3>4. \A v \in Fetches' : nextToCommit' <= fw'[v].h /\ fw'[v].h < taken'
      BY ONLY <1>a, <1>b, <1>c, <2>1, <3>1, <3>3, <3>a
    <3>5. \A u, v \in Fetches' : fw'[u].h = fw'[v].h => u = v
      <4>1. \A v \in Fetches : fw'[v].h # fw'[w].h
        BY <1>a, <1>b, <1>c, <3>3
      <4>2. QED
        BY <1>d, <3>1, <3>3, <4>1
    <3>6. \A r \in results' \cup pending' : nextToCommit' <= r.h /\ r.h < taken'
      BY <1>a, <1>b, <1>e, <2>1, <2>2
    <3>7. \A v \in Fetches', r \in results' \cup pending' : fw'[v].h # r.h
      <4>1. \A r \in results \cup pending : fw'[w].h # r.h
        BY <1>a, <1>b, <1>e, <3>3
      <4>2. QED
        BY ONLY <1>f, <2>1, <3>1, <3>3, <4>1, <3>a
    <3>8. QED
      BY ONLY FetchInv, <2>1, <3>a, <3>4, <3>5, <3>6, <3>7, Zenon DEF FetchInv
  <2>3. CASE /\ w \in Fetches /\ UNCHANGED <<taken, results>>
             /\ \E ok \in BOOLEAN :
                  fw' = [fw EXCEPT ![w] = Fetching("send", fw[w].h, ok)]
    <3>1. PICK ok \in BOOLEAN : fw' = [fw EXCEPT ![w] = Fetching("send", fw[w].h, ok)]
      BY <2>3, Zenon
    <3>2. Fetches' = Fetches \cup {w}
      BY <3>1, FetchesGrow, Zenon DEF Fetching
    <3>3. \A v \in Fetchers : fw'[v].h = fw[v].h
      BY <3>1, FetchersMove DEF Fetching
    <3>4. Fetches' = Fetches /\ \A v \in Fetches : v \in Fetchers
      BY <2>3, <3>2, Zenon DEF Fetches
    <3>5. QED
      BY <2>1, <2>3, <3>3, <3>4 DEF FetchInv
  <2>4. CASE /\ w \in Fetches /\ UNCHANGED taken
             /\ results' = results \cup {[h |-> fw[w].h, ok |-> fw[w].ok]}
             /\ fw' = [fw EXCEPT ![w] = IdleFetch]
    <3>1. Fetches' = Fetches \ {w}
      BY <2>4, FetchesShrink, Zenon DEF IdleFetch, Fetching
    <3>2. \A v \in Fetches' : v \in Fetches /\ v # w /\ fw'[v].h = fw[v].h
      BY <1>c, <2>4, <3>1, FetchersMove
    <3> DEFINE x == [h |-> fw[w].h, ok |-> fw[w].ok]
    <3>3. x.h = fw[w].h
      OBVIOUS
    <3>4. \A r \in results \cup pending : r.h # x.h
      BY <2>4, <3>3, Zenon DEF FetchInv
    <3>5. results' \cup pending' = (results \cup pending) \cup {x} /\ x \notin pending
      BY <2>1, <2>4, <3>4, Zenon
    <3> HIDE DEF x
    <3>6. results' \cap pending' = {}
      BY <2>1, <2>4, <3>5, Zenon DEF FetchInv, x
    <3>7. \A v \in Fetches', r \in results' \cup pending' : fw'[v].h # r.h
      BY <2>4, <3>2, <3>3, <3>5 DEF FetchInv
    <3>8. \A r, s \in results' \cup pending' : r.h = s.h => r = s
      BY <3>4, <3>5, Zenon DEF FetchInv
    <3>9. \A r \in results' \cup pending' : nextToCommit' <= r.h /\ r.h < taken'
      BY <2>1, <2>4, <3>3, <3>5, Zenon DEF FetchInv
    <3>10. taken' = taken /\ nextToCommit' = nextToCommit
      BY <2>1, <2>4, Zenon
    <3>11. QED
      BY ONLY FetchInv, <3>2, <3>6, <3>7, <3>8, <3>9, <3>10, Zenon DEF FetchInv
  <2>5. CASE /\ UNCHANGED <<taken, results>>
             /\ fw' = [fw EXCEPT ![w] = Fetching("exited", NoItem, FALSE)]
    <3>1. Fetches' = Fetches \ {w}
      BY <2>5, FetchesShrink, Zenon DEF Fetching
    <3>2. \A v \in Fetchers :
            fw'[v] = IF v = w THEN Fetching("exited", NoItem, FALSE) ELSE fw[v]
      BY <2>5, FetchersMove, Zenon
    <3>3. \A v \in Fetches' : v \in Fetches /\ fw'[v].h = fw[v].h
      BY <1>c, <3>1, <3>2, Zenon
    <3>4. results' = results /\ taken' = taken
      BY <2>5, Zenon
    <3>5. QED
      BY ONLY FetchInv, <2>1, <3>3, <3>4, Zenon DEF FetchInv
  <2>6. QED
    BY <1>4, <2>2, <2>3, <2>4, <2>5, FetcherFront, Zenon
<1>5. QED
  BY <1>1, <1>2, <1>3, <1>4, FrontSteps, Zenon

\* The channels hold a natural number of items: W * Ahead.
LEMMA ChanCapType == ChanCap \in Nat
<1>1. W \in Nat /\ Ahead \in Nat
  BY PipelineAssumption, FS_CardinalityType, Zenon DEF W
<1>2. QED
  BY <1>1 DEF ChanCap

\* processBlocksOnce starts with nothing dispatched.
LEMMA FrontInit == Init => LookaheadInv /\ FetchInv
<1> SUFFICES ASSUME Init PROVE LookaheadInv /\ FetchInv
  OBVIOUS
<1>1. Fetches = {} /\ results = {} /\ pending = {}
  BY Zenon DEF Init, Fetches, IdleFetch, Fetching
<1>2. ChanCap \in Nat
  BY ChanCapType, Zenon
<1>3. LookaheadInv
  BY <1>1, <1>2, FS_EmptySet, PipelineAssumption DEF Init, LookaheadInv
<1>4. QED
  BY <1>1, <1>3, Zenon DEF FetchInv

\* At most W * Ahead fetched blocks wait in memory for the ordered check, whatever
\* the workers' speeds: a fetch worker's send on resultChan never blocks.
THEOREM LookaheadIsBounded == Spec => []BoundedLookahead
<1>1. TypeOK /\ LookaheadInv /\ [Next]_vars => LookaheadInv'
  BY LookaheadStep, Zenon
<1>2. TypeOK /\ LookaheadInv => BoundedLookahead
  <2> SUFFICES ASSUME TypeOK, LookaheadInv PROVE BoundedLookahead
    OBVIOUS
  <2>1. /\ Cardinality(results) + Cardinality(pending) + Cardinality(Fetches)
             <= taken - nextToCommit
        /\ taken <= nextBlock /\ nextBlock - nextToCommit <= ChanCap
    BY Zenon DEF LookaheadInv
  <2>2. /\ Cardinality(results) \in Nat /\ Cardinality(pending) \in Nat
        /\ Cardinality(Fetches) \in Nat
    BY FetchesFinite, FS_CardinalityType, Zenon DEF LookaheadInv
  <2>3. taken \in Nat /\ nextBlock \in Nat /\ nextToCommit \in Nat /\ ChanCap \in Nat
    BY ChanCapType, Zenon DEF TypeOK
  <2>4. Cardinality(results) + Cardinality(pending) + Cardinality(Fetches) <= ChanCap
    BY ONLY <2>1, <2>2, <2>3
  <2>5. QED
    BY <2>4, Zenon DEF BoundedLookahead, Fetches
<1>3. QED
  BY <1>1, <1>2, FrontInit, TypeCorrect, PTL DEF Spec

-----------------------------------------------------------------------------
(* Where a height is between its pop and the cursor of the ordered apply     *)

\* The stages of a popped height, up to the cursor of the ordered apply.
Stages == {"held", "queued", "working", "done", "parked", "hole"}

Storings == {w \in Storers : sw[w].pc \in {"store", "report"}}

At == [s \in Stages |->
  CASE s = "held"    -> {hold} \ {NoItem}
    [] s = "queued"  -> {storeChan[i] : i \in 1 .. Len(storeChan)}
    [] s = "working" -> {sw[w].h : w \in Storings}
    [] s = "done"    -> {completionChan[i].h : i \in 1 .. Len(completionChan)}
    [] s = "parked"  -> {c.h : c \in reorder}
    [] s = "hole"    -> holes]

\* No height is in two of the stages of a ...
Apart(a) == \A s, t \in Stages : s # t => a[s] \cap a[t] = {}

\* ... and these are the heights in one of them.
Live(a) == UNION {a[s] : s \in Stages}

\* Within a stage, too, a height is there once.
Once ==
  /\ \A i, j \in 1 .. Len(storeChan) : storeChan[i] = storeChan[j] => i = j
  /\ \A v, w \in Storings : sw[v].h = sw[w].h => v = w
  /\ \A i, j \in 1 .. Len(completionChan) :
       completionChan[i].h = completionChan[j].h => i = j
  /\ \A c, d \in reorder : c.h = d.h => c = d

\* The live heights are an interval that starts at the cursor; as long as nothing
\* was given up, it reaches the last height popped.
Contiguous ==
  /\ cursor <= nextToCommit
  /\ \A h \in Live(At) : cursor <= h /\ h < nextToCommit
  /\ \A h \in Live(At) : \A g \in Nat : cursor <= g /\ g <= h => g \in Live(At)
  /\ ep = "none" /\ ~cancelled =>
       \A g \in Nat : cursor <= g /\ g < nextToCommit => g \in Live(At)

\* Nothing is left to collect at the cursor.
Collected == cursor \notin holes /\ \A c \in reorder : c.h # cursor

StageInv ==
  /\ Apart(At) /\ Once /\ Contiguous
  /\ hold # NoItem => hold + 1 = nextToCommit
  /\ rb => cancelled
  /\ coll # "collect" /\ reorder # {} => Collected

\* A callback's height is below all that is not decided yet.
CallbackInv ==
  /\ \A i, j \in 1 .. Len(cb) : i < j => cb[i] < cb[j]
  /\ \A i \in 1 .. Len(cb) :
       /\ cb[i] < cursor
       /\ \A j \in 1 .. Len(batch) : cb[i] < batch[j].h
       /\ \A j \in 1 .. Len(outer) : cb[i] < outer[j].h

OrderedInv == LookaheadInv /\ FetchInv /\ StageInv /\ CallbackInv

-----------------------------------------------------------------------------
(* The stages of a popped height                                             *)

\* The stages, one by one.
LEMMA AtStages ==
  /\ At["held"] = {hold} \ {NoItem}
  /\ At["queued"] = {storeChan[i] : i \in 1 .. Len(storeChan)}
  /\ At["working"] = {sw[w].h : w \in Storings}
  /\ At["done"] = {completionChan[i].h : i \in 1 .. Len(completionChan)}
  /\ At["parked"] = {c.h : c \in reorder}
  /\ At["hole"] = holes
BY Zenon DEF At, Stages

\* The same after a step.
LEMMA AtStagesNext ==
  /\ At'["held"] = {hold'} \ {NoItem}
  /\ At'["queued"] = {storeChan'[i] : i \in 1 .. Len(storeChan')}
  /\ At'["working"] = {sw'[w].h : w \in Storings'}
  /\ At'["done"] = {completionChan'[i].h : i \in 1 .. Len(completionChan')}
  /\ At'["parked"] = {c.h : c \in reorder'}
  /\ At'["hole"] = holes'
BY Zenon DEF At, Stages

\* A live height is a natural.
LEMMA LiveHeights == ASSUME TypeOK PROVE Live(At) \subseteq Nat
<1>1. /\ hold \in Nat /\ storeChan \in Seq(Nat) /\ holes \subseteq Nat
      /\ completionChan \in Seq(Completion) /\ reorder \subseteq Completion
      /\ \A w \in Storers : sw[w].h \in Nat
  BY Zenon DEF TypeOK
<1>2. /\ At["held"] \subseteq Nat /\ At["queued"] \subseteq Nat
      /\ At["hole"] \subseteq Nat
  BY <1>1, AtStages
<1>3. At["working"] \subseteq Nat
  BY <1>1, AtStages, Zenon DEF Storings
<1>4. At["done"] \subseteq Nat
  BY <1>1, AtStages, CompletionHeights, Zenon
<1>5. At["parked"] \subseteq Nat
  BY <1>1, AtStages, Zenon DEF Completion
<1>6. QED
  BY <1>2, <1>3, <1>4, <1>5, Zenon DEF Live, Stages

\* A step neither reopens a run that gave something up nor records a rollback
\* point without cancelling.
FlagsKept ==
  /\ ep' = "none" /\ ~cancelled' => ep = "none" /\ ~cancelled
  /\ rb' => cancelled'

\* A step that moves no height.
LEMMA StagesKept ==
  ASSUME StageInv, At' = At, Once', FlagsKept,
         UNCHANGED <<cursor, nextToCommit, hold, holes, reorder>>,
         coll' # "collect" => coll # "collect" \/ Collected
  PROVE  StageInv'
<1>1. Apart(At)' /\ Live(At)' = Live(At)
  BY Zenon DEF StageInv
<1>2. Contiguous'
  BY <1>1, Zenon DEF StageInv, Contiguous, FlagsKept
<1>3. Collected' = Collected
  BY Zenon DEF Collected
<1>4. QED
  BY <1>1, <1>2, <1>3, Zenon DEF StageInv, FlagsKept

\* A height moves from one stage to the next.
LEMMA StageMoved ==
  ASSUME StageInv, NEW x, NEW j \in Stages, NEW k \in Stages, j # k, x \in At[j],
         \A s \in Stages : At'[s] = IF s = j THEN At[j] \ {x}
                                    ELSE IF s = k THEN At[k] \cup {x} ELSE At[s],
         Once', FlagsKept, UNCHANGED <<cursor, nextToCommit>>, hold' \in {hold, NoItem},
         \/ coll' = "collect"
         \/ UNCHANGED <<holes, reorder>> /\ coll # "collect"
         \/ UNCHANGED <<holes, reorder, coll>>
  PROVE  StageInv'
<1>1. Apart(At) /\ Contiguous
  BY Zenon DEF StageInv
<1>2. Apart(At)'
  BY <1>1 DEF Apart
<1>3. Live(At)' = Live(At)
  BY Zenon DEF Live
<1>4. Contiguous'
  BY <1>1, <1>3, Zenon DEF Contiguous, FlagsKept
<1>5. UNCHANGED <<holes, reorder>> => Collected' = Collected
  BY Zenon DEF Collected
<1>6. QED
  BY <1>2, <1>4, <1>5, Zenon DEF StageInv, FlagsKept

\* A height is popped and registered, or recorded as a hole.
LEMMA StageEntered ==
  ASSUME TypeOK, StageInv, NEW k \in Stages,
         \A s \in Stages : At'[s] = IF s = k THEN At[k] \cup {nextToCommit} ELSE At[s],
         Once', FlagsKept, ep = "none", ~cancelled, hold = NoItem,
         hold' \in {NoItem, nextToCommit}, coll # "collect",
         nextToCommit' = nextToCommit + 1, UNCHANGED <<cursor, reorder>>,
         \A h \in holes' : h \in holes \/ h = nextToCommit
  PROVE  StageInv'
<1>1. Apart(At) /\ Contiguous /\ Live(At) \subseteq Nat
      /\ nextToCommit \in Nat /\ cursor \in Nat
  BY LiveHeights, Zenon DEF StageInv, TypeOK
<1>2. \A s \in Stages : nextToCommit \notin At[s]
  BY <1>1 DEF Contiguous, Live
<1>3. Apart(At)'
  BY <1>1, <1>2 DEF Apart
<1>4. Live(At)' = Live(At) \cup {nextToCommit}
  BY Zenon DEF Live
<1>5. Contiguous'
  <2>1. \A g \in Nat : cursor <= g /\ g < nextToCommit => g \in Live(At)
    BY <1>1, Zenon DEF Contiguous
  <2>2. cursor <= nextToCommit /\ \A h \in Live(At) : cursor <= h /\ h < nextToCommit
    BY <1>1, Zenon DEF Contiguous
  <2>3. \A g \in Nat : g < nextToCommit' => g < nextToCommit \/ g = nextToCommit
    BY <1>1
  <2>4. QED
    BY <1>1, <1>4, <2>1, <2>2, <2>3 DEF Contiguous
<1>6. reorder # {} => Collected'
  <2> SUFFICES ASSUME NEW c \in reorder PROVE Collected'
    OBVIOUS
  <2>1. c.h \in Live(At)
    BY AtStages, Zenon DEF Live, Stages
  <2>2. cursor # nextToCommit
    BY <1>1, <2>1 DEF Contiguous
  <2>3. QED
    BY <2>2, Zenon DEF Collected, StageInv
<1>7. QED
  BY <1>3, <1>5, <1>6, Zenon DEF StageInv, FlagsKept

\* A height is popped and left alone: the run is ending, or an episode is open.
LEMMA StagePassed ==
  ASSUME TypeOK, StageInv, At' = At, Once', FlagsKept, ep' # "none" \/ cancelled',
         hold = NoItem, nextToCommit' = nextToCommit + 1, coll # "collect",
         UNCHANGED <<cursor, hold, holes, reorder>>
  PROVE  StageInv'
<1>1. /\ Apart(At) /\ Contiguous /\ Live(At) \subseteq Nat
      /\ nextToCommit \in Nat /\ cursor \in Nat
  BY LiveHeights, Zenon DEF StageInv, TypeOK
<1>2. Apart(At)' /\ Live(At)' = Live(At) /\ Collected' = Collected
  BY <1>1, Zenon DEF Collected
<1>3. Contiguous'
  BY <1>1, <1>2 DEF Contiguous
<1>4. QED
  BY <1>2, <1>3, Zenon DEF StageInv, FlagsKept

\* The held dispatch, the highest live height, is given up.
LEMMA StageDropped ==
  ASSUME TypeOK, StageInv, hold' = NoItem, FlagsKept, ep' # "none" \/ cancelled',
         UNCHANGED <<storeChan, sw, completionChan, reorder, holes, cursor, nextToCommit>>,
         coll # "collect", coll' # "collect"
  PROVE  StageInv'
<1>1. /\ Apart(At) /\ Contiguous /\ Live(At) \subseteq Nat
      /\ nextToCommit \in Nat /\ cursor \in Nat /\ hold \in Nat
  BY LiveHeights, Zenon DEF StageInv, TypeOK
<1>2. \A s \in Stages : At'[s] = IF s = "held" THEN {} ELSE At[s]
  <2>1. Storings' = Storings
    BY Zenon DEF Storings
  <2>2. At'["held"] = {}
    BY AtStagesNext, Zenon
  <2>3. /\ At'["queued"] = At["queued"] /\ At'["done"] = At["done"]
        /\ At'["parked"] = At["parked"] /\ At'["hole"] = At["hole"]
    BY AtStages, AtStagesNext
  <2>4. At'["working"] = At["working"]
    BY <2>1, AtStages, AtStagesNext
  <2>5. QED
    BY <2>2, <2>3, <2>4, Zenon DEF Stages
<1>3. Apart(At)'
  BY <1>1, <1>2, Zenon DEF Apart
<1>4. /\ \A h \in Live(At)' : h \in Live(At) /\ h \notin At["held"]
      /\ \A h \in Live(At) : h \notin At["held"] => h \in Live(At)'
  BY <1>1, <1>2 DEF Live, Apart, Stages
<1>5. \A h \in At["held"] : h + 1 = nextToCommit
  BY AtStages, Zenon DEF StageInv
<1>6. Contiguous'
  <2>1. ASSUME NEW h \in Live(At)', NEW g \in Nat, cursor <= g, g <= h
        PROVE  g \in Live(At)'
    <3>1. h \in Nat /\ h < nextToCommit /\ g \in Live(At)
      BY <1>1, <1>4, <2>1, Zenon DEF Contiguous
    <3>2. CASE g \notin At["held"]
      BY <1>4, <3>1, <3>2, Zenon
    <3>3. CASE g \in At["held"]
      <4>1. g = h
        BY <1>1, <1>5, <2>1, <3>1, <3>3
      <4>2. QED
        BY <2>1, <4>1, Zenon
    <3>4. QED
      BY <3>2, <3>3, Zenon
  <2>2. /\ cursor <= nextToCommit
        /\ \A h \in Live(At)' : cursor <= h /\ h < nextToCommit
    BY <1>1, <1>4, Zenon DEF Contiguous
  <2>3. QED
    BY <2>1, <2>2, Zenon DEF Contiguous
<1>7. Once' /\ (reorder # {} => Collected')
  BY Zenon DEF StageInv, Once, Collected, Storings
<1>8. QED
  BY <1>3, <1>6, <1>7, Zenon DEF StageInv, FlagsKept

\* The ordered apply passes the cursor.
LEMMA StagePast ==
  ASSUME TypeOK, StageInv, NEW k \in Stages, cursor \in At[k],
         \A s \in Stages : At'[s] = IF s = k THEN At[k] \ {cursor} ELSE At[s],
         Once', cursor' = cursor + 1, coll' = "collect",
         UNCHANGED <<nextToCommit, hold, ep, cancelled, rb>>
  PROVE  StageInv'
<1>1. /\ Apart(At) /\ Contiguous /\ Live(At) \subseteq Nat
      /\ nextToCommit \in Nat /\ cursor \in Nat
  BY LiveHeights, Zenon DEF StageInv, TypeOK
<1>2. Apart(At)'
  BY <1>1, Zenon DEF Apart
<1>3. Live(At)' = Live(At) \ {cursor}
  BY <1>1 DEF Live, Apart
<1>4. Contiguous'
  <2>1. cursor \in Live(At) /\ cursor < nextToCommit
    BY <1>1, Zenon DEF Contiguous, Live
  <2>2. \A g \in Nat : cursor + 1 <= g <=> cursor <= g /\ g # cursor
    BY <1>1
  <2>3. QED
    BY <1>1, <1>3, <2>1, <2>2 DEF Contiguous
<1>5. QED
  BY <1>2, <1>4, Zenon DEF StageInv

\* The queue of the pool loses its first height, ...
LEMMA QueueTail ==
  ASSUME NEW s \in Seq(Nat), s # <<>>,
         \A i, j \in 1 .. Len(s) : s[i] = s[j] => i = j
  PROVE  /\ Head(s) \in {s[i] : i \in 1 .. Len(s)}
         /\ {Tail(s)[i] : i \in 1 .. Len(Tail(s))}
              = {s[i] : i \in 1 .. Len(s)} \ {Head(s)}
         /\ \A i, j \in 1 .. Len(Tail(s)) : Tail(s)[i] = Tail(s)[j] => i = j
<1>1. /\ Len(s) \in Nat /\ Len(s) >= 1 /\ Head(s) = s[1]
      /\ Len(Tail(s)) = Len(s) - 1
      /\ \A i \in 1 .. Len(Tail(s)) : Tail(s)[i] = s[i + 1]
  OBVIOUS
<1>2. ASSUME NEW i \in 1 .. Len(s), s[i] # s[1]
      PROVE  i - 1 \in 1 .. Len(Tail(s)) /\ Tail(s)[i - 1] = s[i]
  BY <1>1, <1>2
<1>3. \A i \in 1 .. Len(Tail(s)) : i + 1 \in 1 .. Len(s) /\ i + 1 # 1
  BY <1>1
<1>4. QED
  BY <1>1, <1>2, <1>3

\* ... or gains one at its end.
LEMMA QueueAppend ==
  ASSUME NEW s \in Seq(Nat), NEW x \in Nat, x \notin {s[i] : i \in 1 .. Len(s)},
         \A i, j \in 1 .. Len(s) : s[i] = s[j] => i = j
  PROVE  /\ {Append(s, x)[i] : i \in 1 .. Len(Append(s, x))}
              = {s[i] : i \in 1 .. Len(s)} \cup {x}
         /\ \A i, j \in 1 .. Len(Append(s, x)) :
              Append(s, x)[i] = Append(s, x)[j] => i = j
<1>1. /\ Len(s) \in Nat /\ Len(Append(s, x)) = Len(s) + 1
      /\ \A i \in 1 .. Len(s) : Append(s, x)[i] = s[i]
      /\ Append(s, x)[Len(s) + 1] = x
  OBVIOUS
<1>2. \A i \in 1 .. Len(s) + 1 : i \in 1 .. Len(s) \/ i = Len(s) + 1
  BY <1>1
<1>3. Len(s) + 1 \in 1 .. Len(s) + 1 /\ 1 .. Len(s) \subseteq 1 .. Len(s) + 1
  BY <1>1
<1>4. QED
  BY <1>1, <1>2, <1>3

\* The same of completionChan, whose items are completions.
LEMMA ChanTail ==
  ASSUME NEW s \in Seq(Completion), s # <<>>,
         \A i, j \in 1 .. Len(s) : s[i].h = s[j].h => i = j
  PROVE  /\ Head(s).h \in {s[i].h : i \in 1 .. Len(s)}
         /\ {Tail(s)[i].h : i \in 1 .. Len(Tail(s))}
              = {s[i].h : i \in 1 .. Len(s)} \ {Head(s).h}
         /\ \A i, j \in 1 .. Len(Tail(s)) : Tail(s)[i].h = Tail(s)[j].h => i = j
<1>1. /\ Len(s) \in Nat /\ Len(s) >= 1 /\ Head(s) = s[1]
      /\ Len(Tail(s)) = Len(s) - 1
      /\ \A i \in 1 .. Len(Tail(s)) : Tail(s)[i] = s[i + 1]
  OBVIOUS
<1>2. ASSUME NEW i \in 1 .. Len(s), s[i].h # s[1].h
      PROVE  i - 1 \in 1 .. Len(Tail(s)) /\ Tail(s)[i - 1] = s[i]
  BY <1>1, <1>2
<1>3. \A i \in 1 .. Len(Tail(s)) : i + 1 \in 1 .. Len(s) /\ i + 1 # 1
  BY <1>1
<1>4. QED
  BY <1>1, <1>2, <1>3

\* ... and a completion sent on completionChan joins it at the end.
LEMMA ChanAppend ==
  ASSUME NEW s \in Seq(Completion), NEW x \in Completion,
         x.h \notin {s[i].h : i \in 1 .. Len(s)},
         \A i, j \in 1 .. Len(s) : s[i].h = s[j].h => i = j
  PROVE  /\ {Append(s, x)[i].h : i \in 1 .. Len(Append(s, x))}
              = {s[i].h : i \in 1 .. Len(s)} \cup {x.h}
         /\ \A i, j \in 1 .. Len(Append(s, x)) :
              Append(s, x)[i].h = Append(s, x)[j].h => i = j
<1>1. /\ Len(s) \in Nat /\ Len(Append(s, x)) = Len(s) + 1
      /\ \A i \in 1 .. Len(s) : Append(s, x)[i] = s[i]
      /\ Append(s, x)[Len(s) + 1] = x
  OBVIOUS
<1>2. \A i \in 1 .. Len(s) + 1 : i \in 1 .. Len(s) \/ i = Len(s) + 1
  BY <1>1
<1>3. Len(s) + 1 \in 1 .. Len(s) + 1 /\ 1 .. Len(s) \subseteq 1 .. Len(s) + 1
  BY <1>1
<1>4. QED
  BY <1>1, <1>2, <1>3

=============================================================================
