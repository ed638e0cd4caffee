---------------------------- MODULE MCBuilderPool ----------------------------
(* BuilderPool with small sets of model values for TLC. *)
EXTENDS BuilderPool

\* Callers, builder IDs and architectures are interchangeable.
Symmetry == Permutations(Client) \union Permutations(Builder)
              \union Permutations(Arch)

\* Explores the pool before a shutdown signal.
Serving == mode = "serving"
=============================================================================
