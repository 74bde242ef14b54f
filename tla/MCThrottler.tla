---------------------------- MODULE MCThrottler ----------------------------
(* TLC instances of Throttler. *)
EXTENDS Throttler, TLC

CONSTANTS pay, a, b, r1, r2

MCKeys == {pay, a, b}
MCPayments == {pay}
MCCalls == {r1, r2}

\* Redis counts one key at a time; the memory of the process counts any.
OneCounter == Cardinality({k \in Keys : hits[k] > 0 \/ block[k] > 0}) <= 1

Alike == Permutations(MCCalls) \union Permutations({a, b})

=============================================================================
