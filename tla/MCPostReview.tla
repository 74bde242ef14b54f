---------------------------- MODULE MCPostReview ----------------------------
(* TLC instances of PostReview. *)
EXTENDS PostReview, TLC

CONSTANTS p1, m1, m2

MCPosts == {p1}
MCStaff == {m1, m2}

\* An approval and a rejection: what modifyPostReviewStatus lets through
\* besides are variants of a PENDING review.
MCTried == {[review |-> "APPROVED", post |-> "APPROVED"],
            [review |-> "REJECTED", post |-> "BLOCKED"]}

Decide == {u \in Deciders : deciding[u] # None}

\* Bound: two writers at a time, and two decisions only while nobody is demoted
\* or about to be assigned, and one of the staff has no part in any review.
FewWriters ==
    /\ Cardinality(Decide) + Cardinality({p \in Posts : assigning[p] # None})
         + Cardinality({plan} \ {None}) <= 2
    /\ \/ Cardinality(Decide) <= 1
       \/ /\ moderators = Staff /\ assignJob = [p \in Posts |-> "none"]
          /\ \E m \in Staff : deciding[m] = None /\ \A r \in reviews : r.by # m

StaffSymmetry == Permutations({m1, m2})

=============================================================================
