-------------------------- MODULE MCRecipePipeline --------------------------
(* RecipePipeline with interchangeable handlers and jobs.                 *)
EXTENDS RecipePipeline, TLC

Symmetry == Permutations(Handlers) \cup Permutations(Jobs)
=============================================================================
