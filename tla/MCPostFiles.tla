----------------------------- MODULE MCPostFiles -----------------------------
(* TLC instances of PostFiles. *)
EXTENDS PostFiles, TLC

CONSTANTS k1, k2, k3, r1, r2

MCKeys == {k1, k2, k3}
MCRequests == {r1, r2}

KeysAndRequests == Permutations(MCKeys) \union Permutations(MCRequests)

=============================================================================
