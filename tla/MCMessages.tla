----------------------------- MODULE MCMessages -----------------------------
(* TLC instances of Messages. *)
EXTENDS Messages, TLC

CONSTANTS u1, u2, m1, m2, f1, f2, r1, r2

MCUsers == {u1, u2}
MCAdmins == {u2}
MCReaders == {u1}
MCIds == {m1}
MCFiles == {f1, f2}
MCRequests == {r1, r2}

Alike == Permutations(MCRequests) \union Permutations(MCFiles)

=============================================================================
