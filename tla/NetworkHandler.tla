--------------------------- MODULE NetworkHandler ---------------------------
(***************************************************************************)
(* The peer-to-peer network handler, src/pkg/defradb/network_handler.go:   *)
(* callers start, stop and toggle the network and add and remove peers,    *)
(* while the reconnection loop and one goroutine per reconnecting peer run *)
(* beside them.                                                            *)
(*                                                                         *)
(* peersMu is held from one unlock to the next, so every action is what    *)
(* one goroutine does while it holds the lock: connectWithRetryLocked      *)
(* gives it up during the connection call and during the backoff.          *)
(***************************************************************************)
EXTENDS Integers, FiniteSets

CONSTANTS
  Addrs,          \* peer addresses
  Bootstrap,      \* cfg.DefraDB.P2P.BootstrapPeers
  Callers,        \* goroutines that call the handler
  MaxRetries,     \* cfg.DefraDB.P2P.MaxRetries
  AutoReconnect,  \* cfg.DefraDB.P2P.EnableAutoReconnect
  MaxLoops,       \* bound: successful starts, each with its loop and channel
  MaxAdds,        \* bound: peers added
  Cancels         \* the context given to StartNetwork may be cancelled

NetworkAssumption ==
  /\ Bootstrap \subseteq Addrs /\ MaxRetries \in Nat \ {0}
  /\ AutoReconnect \in BOOLEAN /\ Cancels \in BOOLEAN
  /\ MaxLoops \in Nat /\ MaxAdds \in Nat

VARIABLES
  peers,   \* nh.peers: the state of each peer, "absent" if there is none
  gen,     \* which PeerState of an address is in the map
  active,  \* nh.networkActive
  stopCh,  \* nh.reconnectStop, 0 for nil
  closed,  \* closed channels
  loops,   \* the reconnection loops; loop i was started with channel i
  workers, \* attemptReconnect goroutines; those in the same state are one
  calls,   \* what each caller is doing
  adds,
  ctxDone, \* the callers' context, which they share, is cancelled
  own      \* nh.cancel cancels that context

ctx  == <<ctxDone, own>>
vars == <<peers, gen, active, stopCh, closed, loops, workers, calls, adds, ctx>>

PeerStates == {"absent", "disconnected", "connecting", "connected", "failed"}
LoopIds    == 1 .. MaxLoops

\* A connection attempt: to whom, in which try, with which context.
Conn == [at : Addrs, g : 0 .. MaxAdds, try : 1 .. MaxRetries, pc : {"connect", "backoff"},
         detached : BOOLEAN]
Done == [pc |-> "done"]
Spawned(a) == [pc |-> "spawned", at |-> a]

Idle == [pc |-> "idle"]

Present == {a \in Addrs : peers[a] # "absent"}

Init ==
  /\ peers = [a \in Addrs |-> IF a \in Bootstrap THEN "disconnected" ELSE "absent"]
  /\ gen = [a \in Addrs |-> 0]
  /\ active = FALSE /\ stopCh = 0 /\ closed = {}
  /\ loops = [i \in LoopIds |-> [pc |-> "none", ch |-> 0]]
  /\ workers = {} /\ calls = [c \in Callers |-> Idle] /\ adds = 0
  /\ ctxDone = FALSE /\ own = FALSE

-----------------------------------------------------------------------------
(* connectWithRetryLocked                                                  *)

Begin(a, d) == [at |-> a, g |-> gen[a], try |-> 1, pc |-> "connect", detached |-> d]

\* The PeerState of a removed peer is written in vain.
SetState(w, s) ==
  IF gen[w.at] = w.g /\ peers[w.at] # "absent" THEN [peers EXCEPT ![w.at] = s] ELSE peers

GivesUp(w) == w.try = MaxRetries


Again(w) == [w EXCEPT !.pc = "connect", !.try = @ + 1]

\* Mutant: a cancelled attempt leaves the peer as it is.
AbandonMutant(w) == peers

Abandon(w) == SetState(w, "disconnected")

\* One step of the attempt w: what is left of it and the peers after it.
Connect(w, n, P) ==
  \/ w.pc = "connect" /\ n = Done /\ P = SetState(w, "connected")
  \/ w.pc = "connect" /\ (w.detached \/ ~ctxDone) /\ n = [w EXCEPT !.pc = "backoff"] /\ P = peers
  \/ ~w.detached /\ ctxDone /\ n = Done /\ P = Abandon(w)
  \/ w.pc = "backoff" /\ ~GivesUp(w) /\ n = Again(w) /\ P = peers
  \/ w.pc = "backoff" /\ GivesUp(w) /\ n = Done /\ P = SetState(w, "failed")

\* What may be left of it.
Left(w) == {Done, Again(w), [w EXCEPT !.pc = "backoff"]}

-----------------------------------------------------------------------------
(* StartNetwork                                                            *)

\* The next peer of the range over nh.peers; behind the last one the network is
\* active and the loop is started.
Proceed(c, left, P) ==
  LET rest == {a \in left : P[a] # "absent"}
  IN  IF rest # {}
      THEN /\ \E a \in rest :
                /\ peers' = [P EXCEPT ![a] = "connecting"]
                /\ calls' = [calls EXCEPT ![c] = [pc |-> "start", left |-> rest \ {a},
                                                   conn |-> Begin(a, FALSE)]]
           /\ UNCHANGED <<active, stopCh, loops>>
      ELSE /\ peers' = P /\ active' = TRUE
           /\ calls' = [calls EXCEPT ![c] = Idle]
           /\ IF AutoReconnect
              THEN \E i \in LoopIds :
                     /\ \A j \in LoopIds : loops[j].pc = "none" <=> j >= i
                     /\ stopCh' = i /\ loops' = [loops EXCEPT ![i].pc = "top"]
              ELSE UNCHANGED <<stopCh, loops>>

\* Bound: no more starts than loops.
MayStart ==
  Cardinality({i \in LoopIds : loops[i].pc # "none"})
    + Cardinality({c \in Callers : calls[c].pc = "start"}) < MaxLoops


Inactive == ~active

StartNetwork(c) ==
  /\ calls[c].pc \in {"idle", "on"} /\ MayStart
  /\ IF Inactive
     THEN Proceed(c, Present, peers)
     ELSE calls' = [calls EXCEPT ![c] = Idle] /\ UNCHANGED <<peers, active, stopCh, loops>>
  /\ UNCHANGED <<gen, closed, workers, adds, ctx>>

StartStep(c) ==
  /\ calls[c].pc = "start"
  /\ \E n \in Left(calls[c].conn), P \in {peers} \cup {SetState(calls[c].conn, s) : s \in PeerStates} :
       /\ Connect(calls[c].conn, n, P)
       /\ IF n = Done
          THEN Proceed(c, calls[c].left, P)
          ELSE /\ peers' = P /\ calls' = [calls EXCEPT ![c].conn = n]
               /\ UNCHANGED <<active, stopCh, loops>>
  /\ UNCHANGED <<gen, closed, workers, adds, ctx>>

-----------------------------------------------------------------------------
(* StopNetwork and ToggleNetwork                                           *)

Live(i) == loops[i].pc \notin {"none", "dead"}

\* nh.wg is at zero.
Joined == workers = {} /\ \A i \in LoopIds : ~Live(i)

\* nh.cancel cancels a context nobody uses, and after a first stop the one that
\* StopNetwork has put in the place of the caller's.
StopNetwork(c) ==
  /\ calls[c].pc \in {"idle", "off"}
  /\ IF active
     THEN /\ closed' = closed \cup ({stopCh} \ {0}) /\ stopCh' = 0
          /\ active' = FALSE
          /\ peers' = [a \in Addrs |-> IF peers[a] = "absent" THEN "absent" ELSE "disconnected"]
          /\ calls' = [calls EXCEPT ![c] = [pc |-> "wait"]]
          /\ ctxDone' = (ctxDone \/ own)
     ELSE /\ calls' = [calls EXCEPT ![c] = Idle]
          /\ UNCHANGED <<closed, stopCh, active, peers, ctxDone>>
  /\ UNCHANGED <<gen, loops, workers, adds, own>>

\* wg.Wait returns, and the caller's context is replaced by a new one.
StopReturn(c) ==
  /\ calls[c].pc = "wait" /\ Joined
  /\ calls' = [calls EXCEPT ![c] = Idle]
  /\ ctxDone' = FALSE /\ own' = TRUE
  /\ UNCHANGED <<peers, gen, active, stopCh, closed, loops, workers, adds>>

\* ToggleNetwork asks, gives up the lock, and starts or stops.
ToggleNetwork(c) ==
  /\ calls[c].pc = "idle"
  /\ calls' = [calls EXCEPT ![c] = [pc |-> IF active THEN "off" ELSE "on"]]
  /\ UNCHANGED <<peers, gen, active, stopCh, closed, loops, workers, adds, ctx>>

-----------------------------------------------------------------------------
(* AddPeer and RemovePeer                                                  *)

\* A running range over nh.peers may or may not come to the new peer.
AddPeer(c, a) ==
  /\ calls[c].pc = "idle" /\ peers[a] = "absent" /\ adds < MaxAdds
  /\ adds' = adds + 1
  /\ peers' = [peers EXCEPT ![a] = "disconnected"] /\ gen' = [gen EXCEPT ![a] = adds + 1]
  /\ workers' = IF active THEN workers \cup {Spawned(a)} ELSE workers
  /\ \E seen \in SUBSET {d \in Callers : calls[d].pc = "start"} :
       calls' = [d \in Callers |->
                   IF d \in seen THEN [calls[d] EXCEPT !.left = @ \cup {a}] ELSE calls[d]]
  /\ UNCHANGED <<active, stopCh, closed, loops, ctx>>

RemovePeer(c, a) ==
  /\ calls[c].pc = "idle" /\ peers[a] # "absent"
  /\ peers' = [peers EXCEPT ![a] = "absent"]
  /\ UNCHANGED <<gen, active, stopCh, closed, loops, workers, calls, adds, ctx>>

CancelContext ==
  /\ Cancels /\ ~own /\ ~ctxDone /\ ctxDone' = TRUE
  /\ UNCHANGED <<peers, gen, active, stopCh, closed, loops, workers, calls, adds, own>>

-----------------------------------------------------------------------------
(* The reconnection loop and its goroutines                                *)

\* The select reads the field nh.reconnectStop, and waits on what it read: on
\* nothing if StopNetwork has set it to nil.
LoopSelect(i) ==
  /\ loops[i].pc = "top"
  /\ loops' = [loops EXCEPT ![i] = [pc |-> "select", ch |-> stopCh]]
  /\ UNCHANGED <<peers, gen, active, stopCh, closed, workers, calls, adds, ctx>>

LoopExit(i) ==
  /\ loops[i].pc = "select" /\ loops[i].ch \in closed
  /\ loops' = [loops EXCEPT ![i].pc = "dead"]
  /\ UNCHANGED <<peers, gen, active, stopCh, closed, workers, calls, adds, ctx>>

\* The ticker fires; checkPeerHealth finds that some peers are gone.
LoopTick(i) ==
  /\ loops[i].pc = "select"
  /\ \E gone \in SUBSET {a \in Addrs : peers[a] = "connected"} :
       peers' = [a \in Addrs |-> IF a \in gone THEN "disconnected" ELSE peers[a]]
  /\ loops' = [loops EXCEPT ![i].pc = "reconnect"]
  /\ UNCHANGED <<gen, active, stopCh, closed, workers, calls, adds, ctx>>

\* Mutant: peers whose tries were used up are not tried again.
ReconnectableMutant(a) == peers[a] = "disconnected"

Reconnectable(a) == peers[a] \in {"disconnected", "failed"}

\* reconnectDisconnectedPeers spawns a goroutine for each.
LoopReconnect(i) ==
  /\ loops[i].pc = "reconnect"
  /\ workers' = workers \cup {Spawned(a) : a \in {b \in Addrs : Reconnectable(b)}}
  /\ loops' = [loops EXCEPT ![i].pc = "top"]
  /\ UNCHANGED <<peers, gen, active, stopCh, closed, calls, adds, ctx>>

\* attemptReconnect.
Attempt(w) ==
  /\ w.pc = "spawned"
  /\ IF peers[w.at] \in {"absent", "connected", "connecting"}
     THEN workers' = workers \ {w} /\ UNCHANGED peers
     ELSE /\ peers' = [peers EXCEPT ![w.at] = "connecting"]
          /\ workers' = (workers \ {w}) \cup {Begin(w.at, TRUE)}
  /\ UNCHANGED <<gen, active, stopCh, closed, loops, calls, adds, ctx>>

AttemptStep(w) ==
  /\ w.pc \in {"connect", "backoff"}
  /\ \E n \in Left(w), P \in {peers} \cup {SetState(w, s) : s \in PeerStates} :
       /\ Connect(w, n, P)
       /\ peers' = P /\ workers' = (workers \ {w}) \cup ({n} \ {Done})
  /\ UNCHANGED <<gen, active, stopCh, closed, loops, calls, adds, ctx>>

Worker == \E w \in workers : Attempt(w) \/ AttemptStep(w)
Loop(i) == LoopSelect(i) \/ LoopExit(i) \/ LoopTick(i) \/ LoopReconnect(i)
Caller(c) ==
  \/ StartNetwork(c) \/ StopNetwork(c) \/ ToggleNetwork(c)
  \/ \E a \in Addrs : AddPeer(c, a) \/ RemovePeer(c, a)
Call(c) == StartStep(c) \/ StopReturn(c)

Next ==
  \/ \E c \in Callers : Caller(c) \/ Call(c)
  \/ \E i \in LoopIds : Loop(i)
  \/ Worker \/ CancelContext

Spec == Init /\ [][Next]_vars

\* An attempt of a goroutine to connect to a peer goes on.
Reconnection(a) == \E w \in workers : w.at = a /\ (Attempt(w) \/ AttemptStep(w))

\* The connection calls and backoffs end, the tickers fire, and a loop that
\* waits on a closed channel sees it sooner or later although a tick that is due
\* at the same time may win.
FairSpec ==
  /\ Spec
  /\ \A c \in Callers : WF_vars(Call(c))
  /\ \A i \in LoopIds : WF_vars(Loop(i)) /\ SF_vars(LoopExit(i))
  /\ \A a \in Addrs : WF_vars(Reconnection(a))

-----------------------------------------------------------------------------
(* Properties                                                              *)

\* The variables have their types.
TypeOK ==
  /\ peers \in [Addrs -> PeerStates] /\ gen \in [Addrs -> 0 .. MaxAdds]
  /\ active \in BOOLEAN /\ ctxDone \in BOOLEAN /\ own \in BOOLEAN /\ adds \in 0 .. MaxAdds
  /\ stopCh \in 0 .. MaxLoops /\ closed \subseteq LoopIds
  /\ loops \in [LoopIds -> [pc : {"none", "top", "select", "reconnect", "dead"}, ch : 0 .. MaxLoops]]
  /\ workers \subseteq Conn \cup {Spawned(a) : a \in Addrs}
  /\ \A c \in Callers :
       \/ calls[c] \in [pc : {"idle", "on", "off", "wait"}]
       \/ calls[c] \in [pc : {"start"}, left : SUBSET Addrs, conn : Conn]

\* The attempts under way, of callers and of goroutines.
Conns == (workers \ {Spawned(a) : a \in Addrs})
         \cup {calls[c].conn : c \in {d \in Callers : calls[d].pc = "start"}}

\* A peer in state CONNECTING has somebody connecting to it: however a stop, a
\* removal and a new peer of the address and several attempts fall together, no
\* peer is left in a state that reconnectDisconnectedPeers skips for ever.
ConnectingIsWorkedOn ==
  \A a \in Addrs : peers[a] = "connecting" => \E w \in Conns : w.at = a /\ w.g = gen[a]

\* One caller at a time: an active network has exactly one reconnection loop,
\* which waits on the channel that StopNetwork will close, or will do so.
OneLoop ==
  active /\ AutoReconnect =>
    /\ stopCh # 0 /\ stopCh \notin closed /\ Live(stopCh)
    /\ loops[stopCh].pc = "select" => loops[stopCh].ch = stopCh
    /\ \A i \in LoopIds : Live(i) => i = stopCh

\* While the network is active a peer that is not connected is tried again.
Reconnects ==
  \A a \in Addrs :
    (active /\ peers[a] \in {"disconnected", "failed"})
      ~> (~active \/ peers[a] \in {"absent", "connecting", "connected"})

\* "StopNetwork deactivates P2P networking gracefully." (network_handler.go:101)
\* It returns.
StopReturns == \A c \in Callers : calls[c].pc = "wait" ~> calls[c].pc # "wait"

\* ... and once every call has returned and no goroutine is left, no peer of an
\* inactive network counts as connected.
StoppedIsDisconnected ==
  ~active /\ Joined /\ (\A c \in Callers : calls[c] = Idle) =>
    \A a \in Addrs : peers[a] # "connected"
=============================================================================
