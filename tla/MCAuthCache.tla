---------------------------- MODULE MCAuthCache ----------------------------
(* AuthCache with interchangeable validations and writers.                *)
EXTENDS AuthCache, TLC

Symmetry == Permutations(Validations) \cup Permutations(Writers)
=============================================================================
