----------------------------- MODULE MCPayments -----------------------------
(* TLC instances of Payments: all donations go to one post. *)
EXTENDS Payments, FiniteSets, TLC

CONSTANTS
    p1, p2, t1, t2, thePost,
    MaxWebhooks, \* bound: different webhooks sent in one behaviour
    MaxOfOne     \* the same, where there is only one payment

MCPayments == {p1, p2}
MCPosts == {thePost}
MCPostOf == [p \in {p1, p2} |-> thePost]
\* Two transactions of one order, and webhooks that name none.
MCTxns == {t1, t2, NoTxn}

MCOnePayment == {p1}
MCPostOfOne == [p \in {p1} |-> thePost]

Alike == Permutations({t1, t2}) \union Permutations(MCPayments)

FewWebhooks ==
    \/ Cardinality(webhooks) <= MaxWebhooks
    \/ Cardinality(webhooks) <= MaxOfOne /\ Cardinality({p \in Payments : flow[p] # "idle"}) <= 1

=============================================================================
