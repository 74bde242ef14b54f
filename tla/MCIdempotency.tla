---------------------------- MODULE MCIdempotency ----------------------------
(* TLC instances of Idempotency. *)
EXTENDS Idempotency

CONSTANTS r1, r2, r3

MCRequests == {r1, r2, r3}

\* Two requests are the same, the third is another one under the same key.
MCPayload == [r \in MCRequests |-> IF r = r3 THEN "other" ELSE "same"]

=============================================================================
