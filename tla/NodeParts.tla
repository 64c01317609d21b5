------------------------------ MODULE NodeParts ------------------------------
(***************************************************************************)
(* The parts of the node beside the indexing loop, for TLC: start and stop *)
(* of the indexer, the start of the embedded database, the P2P handler and *)
(* the loop of the snapshotter.  A behaviour is one of one part, which the *)
(* variable part names, under the constants of one of its instances; the   *)
(* variables of the other parts are Unused.                                *)
(***************************************************************************)
EXTENDS Integers, Sequences

VARIABLES
  part,
  \* of Lifecycle
  err, tries, cancelled, settling, startDone, initCancel, indexing, field,
  open, isStarted, stopMu, stop, stops,
  \* of NodeStart
  legacy, plain, keys, schema, id, refused,
  \* of NetworkHandler
  peers, gen, active, stopCh, loops, workers, calls, adds, ctxDone,
  \* of Snapshotter
  blocks, sigs, next, rolls, files, sigDocs, bpf, last, lo, hi, cur, procs,
  \* of several of them
  pc, starts, closed, own, todo, fails

lifeVars == <<err, tries, cancelled, settling, startDone, initCancel, indexing,
              field, open, isStarted, stopMu, stop, stops>>
nodeVars == <<legacy, plain, keys, schema, id, refused>>
netVars  == <<peers, gen, active, stopCh, loops, workers, calls, adds, ctxDone>>
snapVars == <<blocks, sigs, next, rolls, files, sigDocs, bpf, last, lo, hi, cur,
              procs>>

-----------------------------------------------------------------------------
(* The instances                                                           *)

\* Two goroutines stop the indexer, which is started once; every step of the
\* start may fail.
Life == INSTANCE Lifecycle WITH
  Stoppers <- {"signal", "other"}, Starter <- "start", MaxStarts <- 1,
  MaxStops <- 3, MaxAttempts <- 2, Timeouts <- FALSE, EarlyStop <- FALSE,
  Faults <- {"fetcher", "defra", "wait", "connect", "blockHandler", "resolve",
             "healthServer", "loop"}

KeyringFiles    == <<"encryption-key", "node-identity-key", "peer-key">>
CollectionFiles == <<"AccessListEntry", "Block", "BlockSignature", "Log",
                     "SnapshotSignature", "Transaction">>

\* A node upgraded from a release with a keyring in its store, a plaintext
\* identity file and fewer collections; ...
Upgrade == INSTANCE NodeStart WITH
  Nodes <- {"a"}, Legacy <- {"a"}, Plain <- {"a"}, Entries <- KeyringFiles,
  Files <- CollectionFiles,
  OldSchema <- {"AccessListEntry", "Block", "Log", "Transaction"},
  MaxStarts <- 4, Together <- FALSE, Faults <- {"copy", "crash", "node", "wipe"}

\* ... one with a plaintext identity file only; ...
Import == INSTANCE NodeStart WITH
  Nodes <- {"a"}, Legacy <- {}, Plain <- {"a"}, Entries <- KeyringFiles,
  Files <- CollectionFiles, OldSchema <- {},
  MaxStarts <- 4, Together <- FALSE, Faults <- {"crash", "node", "wipe"}

\* ... and two nodes whose stores lie in the same directory.
Two == INSTANCE NodeStart WITH
  Nodes <- {"a", "b"}, Legacy <- {"a", "b"}, Plain <- {}, Entries <- KeyringFiles,
  Files <- CollectionFiles, OldSchema <- {},
  MaxStarts <- 4, Together <- FALSE, Faults <- {"crash", "wipe"}

\* Two callers of the P2P handler and one peer; ...
Race == INSTANCE NetworkHandler WITH
  Addrs <- {"p"}, Bootstrap <- {"p"}, Callers <- {"c", "d"}, MaxRetries <- 2,
  AutoReconnect <- TRUE, MaxLoops <- 1, MaxAdds <- 1, Cancels <- TRUE

\* ... one caller and two peers; ...
Loop == INSTANCE NetworkHandler WITH
  Addrs <- {"p", "q"}, Bootstrap <- {"p", "q"}, Callers <- {"c"}, MaxRetries <- 1,
  AutoReconnect <- TRUE, MaxLoops <- 2, MaxAdds <- 0, Cancels <- TRUE

\* ... and two callers without automatic reconnection.
Still == INSTANCE NetworkHandler WITH
  Addrs <- {"p"}, Bootstrap <- {"p"}, Callers <- {"c", "d"}, MaxRetries <- 2,
  AutoReconnect <- FALSE, MaxLoops <- 2, MaxAdds <- 1, Cancels <- FALSE

\* The snapshotter of two processes, beside the pruner.
Snap == INSTANCE Snapshotter WITH
  MinHeight <- 2, MaxHeight <- 5, BlocksPerFile <- {2}, MaxSnapshots <- 1,
  MaxRolls <- 0, MaxProcs <- 2, MaxFails <- 1, Faults <- {"write", "crash"},
  Prunes <- TRUE

ASSUME NodePartsAssumption ==
  /\ Life!LifecycleAssumption
  /\ Upgrade!NodeAssumption /\ Import!NodeAssumption /\ Two!NodeAssumption
  /\ Race!NetworkAssumption /\ Loop!NetworkAssumption /\ Still!NetworkAssumption

-----------------------------------------------------------------------------
Unused == "unused"

NoLife ==
  /\ err = Unused /\ tries = Unused /\ cancelled = Unused /\ settling = Unused
  /\ startDone = Unused /\ initCancel = Unused /\ indexing = Unused
  /\ field = Unused /\ open = Unused /\ isStarted = Unused
  /\ stopMu = Unused /\ stop = Unused /\ stops = Unused
NoNode ==
  /\ legacy = Unused /\ plain = Unused /\ keys = Unused /\ schema = Unused
  /\ id = Unused /\ refused = Unused
NoNet ==
  /\ peers = Unused /\ gen = Unused /\ active = Unused /\ stopCh = Unused
  /\ loops = Unused /\ workers = Unused /\ calls = Unused /\ adds = Unused
  /\ ctxDone = Unused
NoSnap ==
  /\ blocks = Unused /\ sigs = Unused /\ next = Unused /\ rolls = Unused
  /\ files = Unused /\ sigDocs = Unused /\ bpf = Unused /\ last = Unused
  /\ lo = Unused /\ hi = Unused /\ cur = Unused /\ procs = Unused

LifeInit ==
  /\ part = "lifecycle" /\ Life!Init
  /\ NoNode /\ NoNet /\ NoSnap /\ own = Unused /\ todo = Unused /\ fails = Unused

NodeInit ==
  /\ \/ part = "upgrade" /\ Upgrade!Init
     \/ part = "import" /\ Import!Init
     \/ part = "two" /\ Two!Init
  /\ NoLife /\ NoNet /\ NoSnap /\ closed = Unused

NetInit ==
  /\ \/ part = "race" /\ Race!Init
     \/ part = "loop" /\ Loop!Init
     \/ part = "still" /\ Still!Init
  /\ NoLife /\ NoNode /\ NoSnap
  /\ pc = Unused /\ starts = Unused /\ todo = Unused /\ fails = Unused

SnapInit ==
  /\ part = "snapshots" /\ Snap!Init
  /\ NoLife /\ NoNode /\ NoNet
  /\ starts = Unused /\ closed = Unused /\ own = Unused

Init == LifeInit \/ NodeInit \/ NetInit \/ SnapInit

LifeNext ==
  /\ part = "lifecycle" /\ Life!Next
  /\ UNCHANGED <<part, nodeVars, netVars, snapVars, own, todo, fails>>

NodeNext ==
  /\ \/ part = "upgrade" /\ Upgrade!Next
     \/ part = "import" /\ Import!Next
     \/ part = "two" /\ Two!Next
  /\ UNCHANGED <<part, lifeVars, netVars, snapVars, closed>>

NetNext ==
  /\ \/ part = "race" /\ Race!Next
     \/ part = "loop" /\ Loop!Next
     \/ part = "still" /\ Still!Next
  /\ UNCHANGED <<part, lifeVars, nodeVars, snapVars, pc, starts, todo, fails>>

SnapNext ==
  /\ part = "snapshots" /\ Snap!Next
  /\ UNCHANGED <<part, lifeVars, nodeVars, netVars, starts, closed, own>>

Next == LifeNext \/ NodeNext \/ NetNext \/ SnapNext

vars == <<part, lifeVars, nodeVars, netVars, snapVars, pc, starts, closed, own, todo,
          fails>>

life == <<lifeVars, pc, starts, closed>>
net  == <<netVars, closed, own>>
snap == <<snapVars, pc, todo, fails>>

\* The fairness of Lifecycle, NetworkHandler and Snapshotter, in their parts.
Fairness ==
  /\ WF_life(part = "lifecycle" /\ Life!Returns)
  /\ \A p \in Life!Procs :
       /\ WF_life(part = "lifecycle" /\ Life!StopNext(p))
       /\ SF_life(part = "lifecycle" /\ Life!TakeStopMu(p))
  /\ WF_net(part = "loop" /\ Loop!Call("c"))
  /\ \A i \in Loop!LoopIds :
       /\ WF_net(part = "loop" /\ Loop!Loop(i))
       /\ SF_net(part = "loop" /\ Loop!LoopExit(i))
  /\ \A a \in {"p", "q"} : WF_net(part = "loop" /\ Loop!Reconnection(a))
  /\ \A c \in {"c", "d"} : WF_net(part = "still" /\ Still!Call(c))
  /\ WF_net(part = "still" /\ Still!Reconnection("p"))
  /\ WF_snap(part = "snapshots" /\ Snap!CycleNext)
  /\ WF_snap(part = "snapshots" /\ Snap!Start)

Spec == Init /\ [][Next]_vars /\ Fairness

-----------------------------------------------------------------------------
(* Properties                                                              *)


\* "so nothing is mid-query when the fetcher/defra node close" (indexer.go:714):
\* what the start and the loop are using is there and open; and callers of
\* StopIndexing "never run teardown concurrently" (indexer.go:691).
TeardownIsSafe ==
  part = "lifecycle" => Life!NothingClosedInUse /\ Life!TeardownAlone

\* "an upgraded node always keeps its existing identity" (defra.go:105): after an
\* upgrade, an import, and with a second node beside it, whatever crashes, torn
\* files and wiped stores lie between; and a node that is up has all its
\* collections, those that its release added included.
UpgradeKeepsTheNode ==
  /\ part = "upgrade" => Upgrade!IdentityKept /\ Upgrade!SchemaComplete
  /\ part = "import" => Import!IdentityKept
  /\ part = "two" => Two!IdentityKept


\* The state predicates of the liveness properties, of one part each.
Of(x, P) == IF part = x THEN P ELSE FALSE


\* While the network is active a peer that is not connected is tried again.
Reconnects ==
  \A a \in {"p", "q"} :
    Of("loop", active /\ peers[a] \in {"disconnected", "failed"})
      ~> Of("loop", ~active \/ peers[a] \in {"absent", "connecting", "connected"})

\* A full aligned range that stays stored is snapshotted: the loop never stalls,
\* not after errors, restarts and skipped ranges.
RangeIsSnapshotted ==
  \A s \in {2, 4} : Of("snapshots", Snap!Due(s)) ~> Of("snapshots", Snap!Taken(s))
=============================================================================
