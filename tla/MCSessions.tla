----------------------------- MODULE MCSessions -----------------------------
(* TLC instances of Sessions. *)
EXTENDS Sessions, TLC

CONSTANTS d1, d2, d3, l1, l2, l3

MCDevices == {d1, d2, d3}
MCLogins == {l1, l2, l3}

\* Bound: past the first second there are two devices and no guarded request.
FewLater ==
    \/ now = 0
    \/ /\ requests = {}
       /\ Cardinality(({device[l] : l \in Logins} \ {None}) \union Rows) <= 2

DevicesAndLogins == Permutations(MCDevices) \union Permutations(MCLogins)

=============================================================================
