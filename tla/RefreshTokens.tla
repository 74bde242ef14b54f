---------------------------- MODULE RefreshTokens ----------------------------
(***************************************************************************)
(* What logging in promises about refresh tokens, apart from sessions and  *)
(* hashes: a device gets in with the token of its latest login, if with    *)
(* any, and a token that was refused is refused until another login ends   *)
(* that made the same one.                                                 *)
(*                                                                         *)
(* A token is a session id and the second of its making.  accepted[d] are  *)
(* the tokens that open the session of device d.                           *)
(***************************************************************************)
EXTENDS Naturals

CONSTANTS Devices, Logins, Ids

VARIABLES
    now,      \* the second of the clock
    made,     \* the token of each login, as a set of one or none
    ended,    \* logins that are over and gave their token to the client
    accepted

TokensInit ==
    /\ now = 0
    /\ made = [l \in Logins |-> {}]
    /\ ended = {}
    /\ accepted = [d \in Devices |-> {}]

Pass ==
    /\ now' = now + 1
    /\ UNCHANGED <<made, ended, accepted>>

\* A login signs its token, once, and it is of this second.
Make(l, id) ==
    /\ made[l] = {}
    /\ made' = [made EXCEPT ![l] = {[id |-> id, at |-> now]}]
    /\ UNCHANGED <<now, ended, accepted>>

\* A login ends.  Its token takes the place of the device's former one, or
\* opens nothing: then another login of the device took its session.
Issue(l, d) ==
    /\ l \notin ended /\ made[l] # {}
    /\ ended' = ended \union {l}
    /\ \E opens \in SUBSET made[l] : accepted' = [accepted EXCEPT ![d] = opens]
    /\ UNCHANGED <<now, made>>

\* A login that fails gives its token to nobody.
Fail(l) ==
    /\ l \notin ended
    /\ made' = [made EXCEPT ![l] = {}]
    /\ UNCHANGED <<now, ended, accepted>>

\* Tokens are revoked or expire, of some devices or all.
Refuse(ds) ==
    /\ accepted' = [d \in Devices |-> IF d \in ds THEN {} ELSE accepted[d]]
    /\ UNCHANGED <<now, made, ended>>

TokensNext ==
    \/ Pass
    \/ \E l \in Logins, id \in Ids : Make(l, id)
    \/ \E l \in Logins, d \in Devices : Issue(l, d)
    \/ \E l \in Logins : Fail(l)
    \/ \E ds \in SUBSET Devices : Refuse(ds)

TokensSpec == TokensInit /\ [][TokensNext]_<<now, made, ended, accepted>>

=============================================================================
