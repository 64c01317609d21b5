--------------------------- MODULE MCBlockPipeline ---------------------------
(* BlockPipeline for TLC: the workers of each pool are interchangeable.      *)
EXTENDS PipelineRefinement, TLC

Symmetry == Permutations(Fetchers) \cup Permutations(Storers)
=============================================================================
