---------------------------- MODULE MCCheckpoint ----------------------------
(* Checkpoint with finitely many workers, iterations and objects. *)
EXTENDS Checkpoint, TLC

Symmetry == Permutations(Worker)

\* State constraint: do not look beyond the first parallel region.
FirstRegion == mainPc # "idle"

\* Action constraint: one invocation with all its recoveries.  A recovery
\* resumes after the misspeculated iteration, the next invocation at 0.
OneInvocation == mainPc = "idle" => firstIter' # 0
=============================================================================
