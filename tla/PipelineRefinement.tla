-------------------------- MODULE PipelineRefinement --------------------------
(***************************************************************************)
(* The run of BlockPipeline, seen from its caller: SequentialIndexer.      *)
(***************************************************************************)
EXTENDS BlockPipeline

\* The height applyBatch decides next.  A batch that openStaleEpisode suspended
\* lies below the one its drain works on.
Position ==
  IF outer # <<>> THEN Head(outer).h
  ELSE IF batch # <<>> THEN Head(batch).h
  ELSE cursor

RunOutcome == IF fatal THEN "failed" ELSE IF rb THEN "reorg" ELSE "running"

Sequential ==
  INSTANCE SequentialIndexer WITH next <- Position, log <- cb, outcome <- RunOutcome

\* With all its workers, channels, reordered completions and nested drains, a
\* run reports its heights as one loop would: each at most once, upwards, never
\* one below a height already decided, and none after the run has ended
\* (onBlockProcessed, applyBatch).
ImplementsSequential == Sequential!Spec
=============================================================================
