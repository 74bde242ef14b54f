--------------------------- MODULE DonationLedger ---------------------------
(***************************************************************************)
(* What the payment service promises about money, apart from how it does   *)
(* it.  Each donation is added to its post's raised amount once, and what  *)
(* was added is never taken back.  There is one exception: a donation that *)
(* was forgotten, which is to say that its row was written back to PENDING *)
(* after it had been added, is added a second time if the provider told of *)
(* its success without a transaction id, by which a repetition would be    *)
(* known.  No donation is added a third time.                              *)
(*                                                                         *)
(* ledger[p] is how many times the amount of donation p has been added to  *)
(* Post.currentAmount.                                                     *)
(***************************************************************************)
EXTENDS Naturals

CONSTANT Payments

VARIABLES
    ledger,
    forgotten,  \* donations that were added and are PENDING again
    nameless    \* donations with an approval that has no transaction id

LedgerInit ==
    /\ ledger = [p \in Payments |-> 0]
    /\ forgotten = {}
    /\ nameless = {}

\* A donation is confirmed for the first time.
Record(p) ==
    /\ ledger[p] = 0
    /\ ledger' = [ledger EXCEPT ![p] = 1]
    /\ UNCHANGED <<forgotten, nameless>>

\* The request that made the row writes over the confirmation, once.
Forget(p) ==
    /\ ledger[p] = 1
    /\ p \notin forgotten
    /\ forgotten' = forgotten \union {p}
    /\ UNCHANGED <<ledger, nameless>>

\* The provider approves p, and does not say in which transaction.
ApproveNameless(p) ==
    /\ nameless' = nameless \union {p}
    /\ UNCHANGED <<ledger, forgotten>>

\* A repetition that nothing tells from a first approval.
RecordAgain(p) ==
    /\ p \in forgotten \intersect nameless
    /\ ledger[p] = 1
    /\ ledger' = [ledger EXCEPT ![p] = 2]
    /\ UNCHANGED <<forgotten, nameless>>

LedgerNext ==
    \E p \in Payments : Record(p) \/ Forget(p) \/ ApproveNameless(p) \/ RecordAgain(p)

\* The idempotency the webhook handler is for, as far as it goes.
LedgerSpec == LedgerInit /\ [][LedgerNext]_<<ledger, forgotten, nameless>>

=============================================================================
