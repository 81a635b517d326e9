--------------------------- MODULE MCSubmissions ---------------------------
(* Submissions of names where n2 is similar to both others.                *)
EXTENDS Submissions, TLC

CONSTANTS n1, n2, n3

Chain == {<<n1, n1>>, <<n2, n2>>, <<n3, n3>>, <<n1, n2>>, <<n2, n1>>, <<n2, n3>>, <<n3, n2>>}

Symmetry == Permutations(Handlers) \cup Permutations({n1, n3})
=============================================================================
