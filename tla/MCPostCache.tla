---------------------------- MODULE MCPostCache ----------------------------
(* TLC instances of PostCache. *)
EXTENDS PostCache, TLC

CONSTANTS u1, u2, p1, c1, r1, r2

MCUsers == {u1, u2}
MCPosts == {p1}
MCComments == {c1}
MCPostOf == (c1 :> p1)
MCAuthor == (p1 :> u1 @@ c1 :> u1)
MCAdmins == {u2}
MCRequests == {r1, r2}

Alike == Permutations(MCRequests)

\* Bounds: one copy at a time, stored or about to be, of a key of each kind,
\* since each is compared with the database on its own; a copy that was spared
\* is followed no further; the post is at rest, without likes, while its
\* comment lives.
Followed ==
    UNION {Key({"post"}, {u2}, {p1}), Key({"public"}, {u1, u2}, {None}), Key({"comments"}, {u1}, {p1}),
           Key({"user"}, {u1}, {None}), Key({"staff"}, {None}, {None})}
MaxCopies == 1
FewCopies ==
    LET stored == {k \in Keys : cache[k] # None}
        filling == {r \in Requests : At(r, "fill")}
    IN /\ stored \union {request[r].key : r \in filling} \subseteq Followed
       /\ \A k \in stored : ~cache[k].spared
       /\ \A r \in filling : ~request[r].copy.spared
       /\ Cardinality(stored) + Cardinality(filling) <= MaxCopies
PostRests ==
    status[c1] # "NEW" => \/ status[p1] = "GONE"
                          \/ /\ status[p1] = "APPROVED" /\ review[p1] = "APPROVED"
                             /\ likes[p1] \union lost[p1] = {}
Small == FewCopies /\ PostRests

=============================================================================
