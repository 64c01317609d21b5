-------------------------- MODULE SequentialIndexer --------------------------
(***************************************************************************)
(* What a run of the block processor promises, without its goroutines:     *)
(* one loop that goes up through the heights, and indexes or passes over   *)
(* each of them, until it meets a reorganisation or fails.                 *)
(* BlockPipeline implements it, see PipelineRefinement.                    *)
(***************************************************************************)
EXTENDS Naturals, Sequences

CONSTANT Start  \* the first height of the run

VARIABLES
  next,     \* every height below is decided
  log,      \* the heights reported as indexed
  outcome   \* "running", "reorg" or "failed"

vars == <<next, log, outcome>>

Init == next = Start /\ log = <<>> /\ outcome = "running"

\* The loop never goes back to a height it has decided.
MovesUp == next' \in Nat /\ next' > next

\* The next height is indexed; heights above it that have failed already are
\* passed over with it.
Index ==
  /\ outcome = "running"
  /\ log' = Append(log, next)
  /\ MovesUp
  /\ UNCHANGED outcome

\* The next height is passed over: its fetch or its store failed, or the run is
\* leaving for a reorganisation.
Skip == MovesUp /\ UNCHANGED <<log, outcome>>

\* A fork point is found, or an error ends the run.
End ==
  /\ outcome # "failed"
  /\ outcome' \in {"reorg", "failed"} \ {outcome}
  /\ next' = next \/ MovesUp
  /\ UNCHANGED log

Next == Index \/ Skip \/ End

Spec == Init /\ [][Next]_vars
=============================================================================
