------------------------------ MODULE Lifecycle ------------------------------
(***************************************************************************)
(* Starting and stopping a ChainIndexer, src/pkg/indexer/indexer.go:       *)
(* StartIndexing opens one subsystem after the other and then runs the     *)
(* indexing loop; StopIndexing, called by the signal handler and by        *)
(* StartIndexing's own error guard, aborts a start in flight, drains the   *)
(* loop and tears the subsystems down.                                     *)
(*                                                                         *)
(* The fields and flags are guarded by i.mutex, so each access is a step.  *)
(* A subsystem is in `field' while the ChainIndexer refers to it and in    *)
(* `open' while its goroutines, connections or files are in use.           *)
(***************************************************************************)
EXTENDS Integers, Sequences, FiniteSets

CONSTANTS
  Stoppers,     \* goroutines that call StopIndexing; the starter is another
  Starter,
  MaxStarts,    \* bound: calls of StartIndexing, one after the other
  MaxStops,     \* bound: calls of StopIndexing by the stoppers
  MaxAttempts,  \* DefraDBReadyMaxAttempts
  Faults,       \* steps of the start that may fail, and "loop"
  Timeouts,     \* IndexingStartStopTimeout and IndexingStopTimeout may expire
  EarlyStop     \* StopIndexing may be called before StartIndexing is under way

LifecycleAssumption ==
  /\ Starter \notin Stoppers /\ MaxStarts \in Nat /\ MaxStops \in Nat
  /\ MaxAttempts \in Nat \ {0} /\ Timeouts \in BOOLEAN /\ EarlyStop \in BOOLEAN

VARIABLES
  pc,        \* where StartIndexing is
  err,       \* what it is about to return: "nil", "abort" or "fail"
  starts,    \* the number of this start: it names its contexts and channels
  tries,     \* attempts of WaitForDefraDB
  cancelled, \* contexts cancelled with cause errIndexingStopped
  settling,  \* startInProgress
  startDone, \* i.startDone, 0 for nil
  initCancel, indexing, \* i.initCancel, and i.indexingCancel with i.indexingDone
  closed,    \* closed channels
  field, open,
  isStarted,
  stopMu,    \* who holds it
  stop,      \* where each StopIndexing is
  stops

startVars == <<pc, err, starts, tries>>
syncVars  == <<cancelled, settling, startDone, initCancel, indexing, closed>>
subVars   == <<field, open, isStarted>>
stopVars  == <<stopMu, stop, stops>>
vars == <<startVars, syncVars, subVars, stopVars>>

Procs == Stoppers \cup {Starter}
Nobody == "nobody"

\* The steps of the start in order, and the subsystem each one opens.
InitSteps == <<"fetcher", "defra", "wait", "connect", "blockHandler", "resolve",
               "healthServer", "pruner", "snapshotter", "register">>
Subsystems == {"fetcher", "node", "network", "healthServer", "pruner", "snapshotter"}
Opens(s) == CASE s = "defra" -> {"node", "network"}
              [] s \in Subsystems -> {s}
              [] OTHER -> {}

After(s) == InitSteps[(CHOOSE i \in 1 .. Len(InitSteps) : InitSteps[i] = s) + 1]

\* Mutant: the wait for DefraDB takes no context.
CancellableMutant == {"connect", "resolve"}

\* The calls that honour the init context.
Cancellable == {"wait", "connect", "resolve"}

InitCtx(n) == <<"init", n>>
LoopCtx(n) == <<"loop", n>>

Init ==
  /\ pc = "idle" /\ err = "nil" /\ starts = 0 /\ tries = 0
  /\ cancelled = {} /\ settling = FALSE /\ startDone = 0
  /\ initCancel = 0 /\ indexing = 0 /\ closed = {}
  /\ field = {} /\ open = {} /\ isStarted = FALSE
  /\ stopMu = Nobody /\ stop = [p \in Procs |-> [pc |-> "idle", on |-> 0]] /\ stops = 0

-----------------------------------------------------------------------------
(* StartIndexing                                                           *)

Call ==
  /\ pc = "idle" /\ starts < MaxStarts
  /\ pc' = "begin" /\ err' = "nil" /\ starts' = starts + 1 /\ tries' = 0
  /\ UNCHANGED <<syncVars, subVars, stopVars>>

BeginStart ==
  /\ pc = "begin" /\ pc' = InitSteps[1]
  /\ settling' = TRUE /\ startDone' = starts /\ initCancel' = starts
  /\ UNCHANGED <<err, starts, tries, cancelled, indexing, closed, subVars, stopVars>>

MoreAttempts == tries + 1 < MaxAttempts

\* A step of the init phase succeeds.  WaitForDefraDB may ask again.
InitStep ==
  /\ pc \in {InitSteps[i] : i \in 1 .. Len(InitSteps) - 1}
  /\ pc \in Cancellable => InitCtx(starts) \notin cancelled
  /\ field' = field \cup Opens(pc)
  /\ open' = open \cup (Opens(pc) \ {"healthServer"})
  /\ \/ pc' = After(pc) /\ tries' = 0
     \/ pc = "wait" /\ MoreAttempts /\ tries' = tries + 1 /\ UNCHANGED pc
  /\ UNCHANGED <<err, starts, syncVars, isStarted, stopVars>>

\* It fails, of itself or because the context is cancelled.
InitFails ==
  /\ pc \in {InitSteps[i] : i \in 1 .. Len(InitSteps) - 1}
  /\ \/ pc \in Faults /\ err' = "fail"
     \/ pc \in Cancellable /\ InitCtx(starts) \in cancelled /\ err' = "abort"
  /\ pc' = "settle"
  /\ UNCHANGED <<starts, tries, syncVars, subVars, stopVars>>

\* The goroutine that serves: ListenAndServe after Shutdown returns at once.
ServeHealth ==
  /\ "healthServer" \in field /\ "healthServer" \notin open
  /\ <<"health", starts>> \notin closed
  /\ open' = open \cup {"healthServer"}
  /\ UNCHANGED <<startVars, syncVars, field, isStarted, stopVars>>

\* runConcurrentIndexing: the flags, then indexingCancel and indexingDone ...
Register ==
  /\ pc = "register" /\ pc' = "handoff"
  /\ isStarted' = TRUE /\ indexing' = starts
  /\ UNCHANGED <<err, starts, tries, cancelled, settling, startDone, initCancel, closed,
                 field, open, stopVars>>

\* markStartSettled.
Settled ==
  /\ settling' = FALSE /\ startDone' = 0 /\ initCancel' = 0
  /\ closed' = closed \cup ({<<"start", startDone>>} \ {<<"start", 0>>})

Stopped(n) == InitCtx(n) \in cancelled \/ LoopCtx(n) \in cancelled

\* ... then the start is settled, and a stop that came before is honoured.
Handoff ==
  /\ pc = "handoff" /\ Settled
  /\ pc' = "check"
  /\ UNCHANGED <<err, starts, tries, cancelled, indexing, subVars, stopVars>>

CheckStopped ==
  /\ pc = "check"
  /\ pc' = IF Stopped(starts) THEN "unregister" ELSE "loop"
  /\ UNCHANGED <<err, starts, tries, syncVars, subVars, stopVars>>

\* ProcessBlocks returns when it is stopped, or with an error of its own; a
\* cancellation by StopIndexing is no error.
LoopEnds ==
  /\ pc = "loop" /\ pc' = "unregister"
  /\ \/ Stopped(starts) /\ UNCHANGED err
     \/ ~Stopped(starts) /\ "loop" \in Faults /\ err' = "fail"
  /\ UNCHANGED <<starts, tries, syncVars, subVars, stopVars>>

\* The deferred close of done, and then the fields.
CloseDone ==
  /\ pc = "unregister" /\ pc' = "unregistered"
  /\ closed' = closed \cup {<<"done", starts>>}
  /\ UNCHANGED <<err, starts, tries, cancelled, settling, startDone, initCancel, indexing,
                 subVars, stopVars>>

Unregister ==
  /\ pc = "unregistered" /\ pc' = "settle"
  /\ indexing' = 0
  /\ UNCHANGED <<err, starts, tries, cancelled, settling, startDone, initCancel, closed,
                 subVars, stopVars>>

\* Mutant: the settle call is deferred before the error guard, so it runs last.
DeferSettleMutant == pc' = "finish" /\ UNCHANGED <<settling, startDone, initCancel, closed>>

DeferSettle == pc' = "finish" /\ Settled

SettleStart ==
  /\ pc = "settle" /\ DeferSettle
  /\ UNCHANGED <<err, starts, tries, cancelled, indexing, subVars, stopVars>>


\* finishStart: an aborted start leaves the teardown to the stop that aborted
\* it; any other error tears down here.
MustTearDown == err = "fail"

FinishStart ==
  /\ pc = "finish"
  /\ IF MustTearDown
     THEN /\ stop[Starter].pc = "idle" /\ pc' = "guard"
          /\ stop' = [stop EXCEPT ![Starter].pc = "lock"] /\ UNCHANGED err
     ELSE pc' = "idle" /\ err' = "nil" /\ UNCHANGED stop
  /\ UNCHANGED <<starts, tries, syncVars, subVars, stopMu, stops>>

GuardDone ==
  /\ pc = "guard" /\ stop[Starter].pc = "idle"
  /\ pc' = "idle" /\ err' = "nil"
  /\ UNCHANGED <<starts, tries, syncVars, subVars, stopVars>>

-----------------------------------------------------------------------------
(* StopIndexing                                                            *)

CallStop(p) ==
  /\ stop[p].pc = "idle" /\ stops < MaxStops
  /\ ~EarlyStop => pc \notin {"idle", "begin"}
  /\ stops' = stops + 1
  /\ stop' = [stop EXCEPT ![p].pc = "lock"]
  /\ UNCHANGED <<startVars, syncVars, subVars, stopMu>>

\* Mutant: stopMu is not taken.
LockMutant(p) == TRUE

Lock(p) == stopMu = Nobody

TakeStopMu(p) ==
  /\ stop[p].pc = "lock" /\ Lock(p)
  /\ stopMu' = p
  /\ stop' = [stop EXCEPT ![p] = [pc |-> "abort", on |-> initCancel]]
  /\ UNCHANGED <<startVars, syncVars, subVars, stops>>

\* The init context is cancelled, and the settle channel is read.
AbortStart(p) ==
  /\ stop[p].pc = "abort"
  /\ cancelled' = cancelled \cup ({InitCtx(stop[p].on)} \ {InitCtx(0)})
  /\ stop' = [stop EXCEPT ![p] = [pc |-> "settling", on |-> IF settling THEN startDone ELSE 0]]
  /\ UNCHANGED <<startVars, settling, startDone, initCancel, indexing, closed, subVars,
                 stopMu, stops>>

\* Mutant: the start is not waited for.
HasSettledMutant(n) == TRUE

HasSettled(n) == n = 0 \/ <<"start", n>> \in closed \/ Timeouts

WaitStartSettled(p) ==
  /\ stop[p].pc = "settling" /\ HasSettled(stop[p].on)
  /\ stop' = [stop EXCEPT ![p] = [pc |-> "drain", on |-> indexing]]
  /\ UNCHANGED <<startVars, syncVars, subVars, stopMu, stops>>

Drain(p) ==
  /\ stop[p].pc = "drain"
  /\ cancelled' = cancelled \cup ({LoopCtx(stop[p].on)} \ {LoopCtx(0)})
  /\ stop' = [stop EXCEPT ![p].pc = "draining"]
  /\ UNCHANGED <<startVars, settling, startDone, initCancel, indexing, closed, subVars,
                 stopMu, stops>>

HasDrained(n) == n = 0 \/ <<"done", n>> \in closed \/ Timeouts

WaitDrained(p) ==
  /\ stop[p].pc = "draining" /\ HasDrained(stop[p].on)
  /\ stop' = [stop EXCEPT ![p] = [pc |-> "flags", on |-> 0]]
  /\ UNCHANGED <<startVars, syncVars, subVars, stopMu, stops>>

\* teardownSubsystems, step by step.
ResetFlags(p) ==
  /\ stop[p].pc = "flags" /\ isStarted' = FALSE
  /\ stop' = [stop EXCEPT ![p].pc = "snapshotter"]
  /\ UNCHANGED <<startVars, syncVars, field, open, stopMu, stops>>

NextTeardown(s) == CASE s = "snapshotter" -> "pruner"
                     [] s = "pruner" -> "healthServer"
                     [] s = "healthServer" -> "fetcher"
                     [] s = "fetcher" -> "node"

\* The health server is shut down and stays in its field.
Teardown(p) ==
  /\ stop[p].pc \in {"snapshotter", "pruner", "healthServer", "fetcher"}
  /\ LET s == stop[p].pc
     IN  /\ IF s \in field
            THEN /\ open' = open \ {s}
                 /\ field' = IF s = "healthServer" THEN field ELSE field \ {s}
                 /\ closed' = IF s = "healthServer"
                              THEN closed \cup {<<"health", starts>>} ELSE closed
            ELSE UNCHANGED <<open, field, closed>>
         /\ stop' = [stop EXCEPT ![p].pc = NextTeardown(s)]
  /\ UNCHANGED <<startVars, cancelled, settling, startDone, initCancel, indexing, isStarted,
                 stopMu, stops>>

\* The node and the network handler are detached, then closed.
Detach(p) ==
  /\ stop[p].pc = "node"
  /\ field' = field \ {"node", "network"}
  /\ stop' = [stop EXCEPT ![p] = [pc |-> "close", on |-> IF "node" \in field THEN 1 ELSE 0]]
  /\ UNCHANGED <<startVars, syncVars, open, isStarted, stopMu, stops>>

CloseNode(p) ==
  /\ stop[p].pc = "close"
  /\ open' = IF stop[p].on = 1 THEN open \ {"node", "network"} ELSE open
  /\ stop' = [stop EXCEPT ![p] = [pc |-> "idle", on |-> 0]]
  /\ stopMu' = Nobody
  /\ UNCHANGED <<startVars, syncVars, field, isStarted, stops>>

StartNext ==
  \/ BeginStart \/ InitStep \/ InitFails \/ Register \/ Handoff \/ CheckStopped
  \/ LoopEnds \/ CloseDone \/ Unregister \/ SettleStart \/ FinishStart \/ GuardDone

StopNext(p) ==
  \/ TakeStopMu(p) \/ AbortStart(p) \/ WaitStartSettled(p) \/ Drain(p) \/ WaitDrained(p)
  \/ ResetFlags(p) \/ Teardown(p) \/ Detach(p) \/ CloseNode(p)

Next ==
  \/ Call \/ StartNext \/ ServeHealth
  \/ \E p \in Stoppers : CallStop(p)
  \/ \E p \in Procs : StopNext(p)

Spec == Init /\ [][Next]_vars

\* A call over the network may hang, but it returns once its context is cancelled.
Returns ==
  \/ pc \notin {"wait", "connect", "resolve"} /\ StartNext
  \/ InitFails /\ err' = "abort"

\* Every goroutine that can run does; sync.Mutex hands a lock that is released
\* again and again to each waiter in the end.
FairSpec ==
  /\ Spec /\ WF_vars(Returns)
  /\ \A p \in Procs : WF_vars(StopNext(p)) /\ SF_vars(TakeStopMu(p))

-----------------------------------------------------------------------------
(* Properties                                                              *)

\* The variables have their types.
TypeOK ==
  /\ pc \in {InitSteps[i] : i \in 1 .. Len(InitSteps)} \cup
            {"idle", "begin", "handoff", "check", "loop", "unregister", "unregistered",
             "settle", "finish", "guard"}
  /\ err \in {"nil", "abort", "fail"} /\ starts \in 0 .. MaxStarts /\ tries \in 0 .. MaxAttempts - 1
  /\ cancelled \subseteq {"init", "loop"} \X (1 .. MaxStarts)
  /\ settling \in BOOLEAN /\ isStarted \in BOOLEAN
  /\ {startDone, initCancel, indexing} \subseteq 0 .. MaxStarts
  /\ closed \subseteq {"start", "done", "health"} \X (1 .. MaxStarts)
  /\ field \subseteq Subsystems /\ open \subseteq Subsystems
  /\ stopMu \in Procs \cup {Nobody} /\ stops \in 0 .. MaxStops


\* "before touching anything it may be assigning or using mid-init (fetcher,
\* defraNode)" (indexer.go:707) and "so nothing is mid-query when the
\* fetcher/defra node close" (indexer.go:714): what the start and the loop are
\* using is there and open.
NothingClosedInUse ==
  /\ pc \in {"connect", "resolve", "loop"} => "fetcher" \in field \cap open
  /\ pc \in {"wait", "blockHandler", "resolve", "pruner", "loop"} => "node" \in field \cap open

\* "never run teardown concurrently" (indexer.go:691).
TeardownAlone ==
  Cardinality({p \in Procs :
    stop[p].pc \in {"flags", "snapshotter", "pruner", "healthServer", "fetcher", "node", "close"}}) <= 1

\* Every StopIndexing returns, and every start that it meets does: the guard
\* never waits for the start it belongs to, nor the stops for one another.
StopReturns ==
  \A p \in Procs : stop[p].pc # "idle" ~> stop[p].pc = "idle"

\* A start under way when StopIndexing takes the lock does not survive it.
StopMeetsStart == \E p \in Stoppers : stop[p].pc = "abort" /\ stop[p].on # 0
StopEndsStart == StopMeetsStart ~> pc = "idle"
=============================================================================
