--------------------------- MODULE ReorgScenarios ---------------------------
(* The indexer in two scenarios that one choice of the constants does not   *)
(* reach, over the same variables; scenario says which of them a behaviour  *)
(* is in.  "resume" has the constants of the cfg: rollbacks that a crash or *)
(* a stop cuts short and the next process resumes.  "genesis" is an         *)
(* instance of ReorgIndexer; the constants it does not name are the cfg's.  *)
EXTENDS MCReorgIndexer

VARIABLE scenario

GenesisHeight == [a \in GenesisTree |-> HeightOf(a)]
GenesisParent == [a \in GenesisTree |-> ForkAtGenesis(a)]

\* Branches that share the genesis only, indexed from the genesis.
Genesis == INSTANCE ReorgIndexer WITH
  Blocks <- GenesisTree, Parent <- GenesisParent, Ht <- GenesisHeight,
  StartHeight <- 0, StartBuffer <- 1, Pool <- 2, MaxRewalks <- 1,
  MaxGapRefills <- 0, MaxFlips <- 2, MaxStarts <- 2, MaxFails <- 1,
  Faults <- {"stop", "fetch", "store", "query"},
  CrashModes <- {"run", "walk", "rollback"}

ScenarioInit ==
  \/ scenario = "genesis" /\ Genesis!Init
  \/ scenario = "resume" /\ Init

ScenarioNext ==
  /\ UNCHANGED scenario
  /\ \/ scenario = "genesis" /\ Genesis!Next
     \/ scenario = "resume" /\ Next

ScenarioSpec == ScenarioInit /\ [][ScenarioNext]_<<vars, scenario>>

-----------------------------------------------------------------------------
\* Orphans are deleted from the top down, so that a rollback that was cut short
\* and resumed leaves no hole at the fork.
ResumedRollbackLeavesNoHole == scenario = "resume" => NoHoleBelowFront

\* A fork just above the genesis is detected like any other: what is stored is
\* linked by parent hashes, even when it begins at height 0.
GenesisForkIsLinked == scenario = "genesis" => Genesis!LinkedStore
=============================================================================
