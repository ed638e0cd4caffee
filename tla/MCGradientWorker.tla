--------------------------- MODULE MCGradientWorker ---------------------------
(* GradientWorker with small sets of model values for TLC. *)
EXTENDS GradientWorker, TLC

\* Goroutines, job IDs and query IDs are interchangeable.
Symmetry == Permutations(Handler) \union Permutations(JobID)
              \union Permutations(QueryID)
=============================================================================
