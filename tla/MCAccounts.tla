----------------------------- MODULE MCAccounts -----------------------------
(* TLC instances of Accounts. *)
EXTENDS Accounts, TLC

CONSTANTS u1, u2, t1, t2, google, r1, r2

MCUsers == {u1, u2}
MCTokens == {t1, t2}
MCProfiles == {google}
MCRequests == {r1, r2}
MCOthers == [role \in Tracked |-> 2]

\* Bound: requests, mail jobs, sweeps and staff at a time, and links that live.
FewAtOnce ==
    /\ Cardinality({r \in Requests : request[r] # Nothing}) + Cardinality({k \in Kinds : job[k] # Nothing})
         + Cardinality(unverified) + Cardinality({u \in Users : open[u] # <<>>}) <= 2
    /\ Cardinality({t \in Tokens : Live(t)}) <= 1

\* Bound: or else one account without links, sessions and Google account, and
\* changes of its role, any number of which may overtake another one.
RolesOnly ==
    /\ Cardinality(used) <= 1 /\ unverified = {} /\ issued = {} /\ signedIn = {}
    /\ linked = [p \in Profiles |-> Nothing]
    /\ \A r \in Requests : request[r] # Nothing => request[r].step = "changeRole"

FewOrRoles == FewAtOnce \/ RolesOnly

Alike == Permutations(MCUsers) \union Permutations(MCTokens) \union Permutations(MCRequests)

=============================================================================
