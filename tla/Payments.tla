------------------------------ MODULE Payments ------------------------------
(***************************************************************************)
(* Donations: PaymentsService, PaymentsRepo, the WayForPay gateway and the *)
(* job that sweeps expired payments, over one PostgreSQL database.         *)
(*                                                                         *)
(* A row of "payments" is the values at p of status, confirmed, expiry and *)
(* lastAttempt; amount, currency and owner never change after the insert   *)
(* and are left out, the post is PostOf.  Requests interleave wherever the *)
(* code awaits: between the insert and the call to the provider, between   *)
(* the provider's answer and saveCheckout, between a webhook's findById    *)
(* and its transaction, between the sweep's SELECT and its DELETE (a       *)
(* READ COMMITTED transaction, so rows may change in between).  The two    *)
(* webhook transactions are one step each: the insert of the attempt takes *)
(* the key lock of the payment row, the UPDATE its row lock.               *)
(***************************************************************************)
EXTENDS Naturals

CONSTANTS
    Payments,   \* payment ids, each used by at most one request
    Posts,      \* fundraising posts
    PostOf,     \* the post a payment is for
    Txns,       \* what transactionId may be: provider ids, perhaps NoTxn
    NoTxn,      \* the webhook carries no transactionId (NULL in the column)
    NoAttempt   \* lastAttemptId IS NULL

ASSUME PostOfAssumption == PostOf \in [Payments -> Posts]

VARIABLES
    postState,   \* APPROVED and not deleted ("open"), else "closed", "purged"
    status,      \* Payment.status, "ABSENT" where there is no row
    confirmed,   \* confirmedAt IS NOT NULL
    expiry,      \* expiredAt: NULL ("never"), after now ("future"), "past"
    lastAttempt, \* lastAttemptId, as the attempt it names
    attempts,    \* the rows of payment_attempts, equal ones as one
    credits,     \* how often the amount was added to Post.currentAmount
    flow,        \* where the request that inserted the row is
    invoices,    \* orders the provider knows
    webhooks,    \* notifications the provider sends, and may send again
    handling,    \* webhooks past findById, before their transaction
    answered,    \* webhooks acknowledged with 'accept'
    sweep        \* ids the sweep has selected and will delete

postVars == <<postState>>
rowVars  == <<status, confirmed, expiry, lastAttempt>>
ledgerVars == <<attempts, credits>>
providerVars == <<invoices, webhooks>>
handlerVars == <<handling, answered>>
vars == <<postState, status, confirmed, expiry, lastAttempt, attempts, credits,
          flow, invoices, webhooks, handling, answered, sweep>>

-----------------------------------------------------------------------------
PaymentStatus == {"PENDING", "SUCCESS", "FAILED", "EXPIRED"}
Outcomes == {"approved", "sessionExpired", "other"}

Webhook == [payment : Payments, txn : Txns, outcome : Outcomes]
Attempt == [payment : Payments, txn : Txns, status : PaymentStatus]

(***************************************************************************)
(* The request behind row p is "checkout" or "regenerating" while it waits *)
(* for createCheckout, "invoiced" between that answer and                  *)
(* updatePaymentCheckoutState, and then over: "ready", "aborted" (an error *)
(* or a crash on the way), or "reset", where the final write found a       *)
(* payment already confirmed and set it back to PENDING.                   *)
(***************************************************************************)
Flow == {"idle", "checkout", "regenerating", "invoiced",
         "ready", "reset", "aborted"}
Over == {"ready", "reset", "aborted"}

One(b) == IF b THEN 1 ELSE 0
Exists(p) == status[p] # "ABSENT"
AttemptsOf(p) == {a \in attempts : a.payment = p}

Init ==
    /\ postState = [o \in Posts |-> "open"]
    /\ status = [p \in Payments |-> "ABSENT"]
    /\ confirmed = [p \in Payments |-> FALSE]
    /\ expiry = [p \in Payments |-> "never"]
    /\ lastAttempt = [p \in Payments |-> NoAttempt]
    /\ attempts = {}
    /\ credits = [p \in Payments |-> 0]
    /\ flow = [p \in Payments |-> "idle"]
    /\ invoices = {}
    /\ webhooks = {}
    /\ handling = {}
    /\ answered = {}
    /\ sweep = {}

-----------------------------------------------------------------------------
(* Checkout *)

\* paymentRepo.create: a PENDING row that does not expire yet.
Insert(p, phase) ==
    /\ flow[p] = "idle"
    /\ flow' = [flow EXCEPT ![p] = phase]
    /\ status' = [status EXCEPT ![p] = "PENDING"]
    /\ UNCHANGED <<confirmed, expiry, lastAttempt>>

(***************************************************************************)
(* createPayment up to the call of the gateway.  Reading the post and      *)
(* inserting the row are one step: a post that closes in between leaves    *)
(* the state of a post that closes just after the insert.                  *)
(***************************************************************************)
CreatePayment(p) ==
    /\ postState[PostOf[p]] = "open"
    /\ Insert(p, "checkout")
    /\ UNCHANGED <<postVars, ledgerVars, providerVars, handlerVars, sweep>>

\* getPaymentForRegeneration: unexpired, and its post open; not its status.
Regenerable(p) ==
    /\ Exists(p)
    /\ expiry[p] = "future"
    /\ postState[PostOf[p]] = "open"

\* regeneratePaymentLink: a second row q for the donation of row p.
RegeneratePaymentLink(p, q) ==
    /\ Regenerable(p)
    /\ PostOf[q] = PostOf[p]
    /\ Insert(q, "regenerating")
    /\ UNCHANGED <<postVars, ledgerVars, providerVars, handlerVars, sweep>>

\* The provider takes the order, even of a request that was then given up.
RegisterInvoice(p) ==
    /\ flow[p] \in {"checkout", "regenerating", "aborted"}
    /\ invoices' = invoices \union {p}
    /\ UNCHANGED <<postVars, rowVars, ledgerVars, flow, webhooks, handlerVars,
                   sweep>>

\* createCheckout returns; after a regeneration nothing more is written.
CheckoutReturns(p) ==
    /\ p \in invoices
    /\ \/ /\ flow[p] = "checkout"
          /\ flow' = [flow EXCEPT ![p] = "invoiced"]
       \/ /\ flow[p] = "regenerating"
          /\ flow' = [flow EXCEPT ![p] = "ready"]
    /\ UNCHANGED <<postVars, rowVars, ledgerVars, providerVars, handlerVars,
                   sweep>>

\* createCheckout or the last UPDATE fails, or the process stops: the row stays.
CheckoutAborts(p) ==
    /\ flow[p] \in {"checkout", "regenerating", "invoiced"}
    /\ flow' = [flow EXCEPT ![p] = "aborted"]
    /\ UNCHANGED <<postVars, rowVars, ledgerVars, providerVars, handlerVars,
                   sweep>>

\* confirmedAt as updatePaymentCheckoutState leaves it, and a variant.
KeepConfirmation(p) == confirmed[p]
ResetConfirmation(p) == FALSE

\* updatePaymentCheckoutState: PENDING whatever the status is by now.
SaveCheckout(p) ==
    /\ flow[p] = "invoiced"
    /\ Exists(p)
    /\ status' = [status EXCEPT ![p] = "PENDING"]
    /\ expiry' = [expiry EXCEPT ![p] = "future"]
    /\ confirmed' = [confirmed EXCEPT ![p] = ResetConfirmation(p)]
    /\ flow' = [flow EXCEPT
                  ![p] = IF status[p] = "SUCCESS" THEN "reset" ELSE "ready"]
    /\ UNCHANGED <<postVars, lastAttempt, ledgerVars, providerVars,
                   handlerVars, sweep>>

-----------------------------------------------------------------------------
(* The provider *)

(***************************************************************************)
(* The provider notifies serviceUrl of what became of a transaction.  A    *)
(* transaction id belongs to one order, and approvals of an order that say *)
(* in which transaction name the same one; the same id is used for every   *)
(* stage of a transaction (in process, approved, refunded, ...).  The id   *)
(* is optional, in any of them.                                            *)
(***************************************************************************)
SendWebhook(p, t, o) ==
    /\ p \in invoices
    /\ \A w \in webhooks :
          /\ w.txn = t /\ t # NoTxn => w.payment = p
          /\ o = "approved" /\ w.outcome = "approved" /\ w.payment = p
             /\ NoTxn \notin {t, w.txn}
                => w.txn = t
    /\ webhooks' = webhooks \union {[payment |-> p, txn |-> t, outcome |-> o]}
    /\ UNCHANGED <<postVars, rowVars, ledgerVars, flow, invoices, handlerVars,
                   sweep>>

-----------------------------------------------------------------------------
(* Webhooks *)

(***************************************************************************)
(* handleWebhook up to its transaction.  An unknown payment is answered    *)
(* with 404 and a bad signature, amount or currency with 400: nothing is   *)
(* written, so these are no steps.  The provider repeats a webhook as      *)
(* often as it likes, also one that was accepted.                          *)
(***************************************************************************)
ReceiveWebhook(w) ==
    /\ Exists(w.payment)
    /\ handling' = handling \union {w}
    /\ UNCHANGED <<postVars, rowVars, ledgerVars, flow, providerVars, answered,
                   sweep>>

\* The unique index (provider, providerPaymentId), where NULLs are distinct;
\* the variant is a schema without it.
IndexMissing(t) == FALSE
Recorded(t) == t # NoTxn /\ \E a \in attempts : a.txn = t

\* The WHERE clause of both UPDATEs of a payment's status; the variant matches
\* by id alone.
AnyStatus(p) == Exists(p)
NotYetConfirmed(p) == Exists(p) /\ status[p] # "SUCCESS"

\* The status an outcome is stored as, and a variant that stores it unmapped.
UnmappedStatus(o) == IF o = "approved" THEN "SUCCESS" ELSE o
StatusFor(o) == CASE o = "approved" -> "SUCCESS"
                  [] o = "sessionExpired" -> "EXPIRED"
                  [] o = "other" -> "FAILED"

NewAttempt(w) ==
    [payment |-> w.payment, txn |-> w.txn, status |-> StatusFor(w.outcome)]

Answer(w) ==
    /\ handling' = handling \ {w}
    /\ answered' = answered \union {w}

\* A variant of AcknowledgeOnly that answers a duplicate with an error.
RefuseDuplicate(w) ==
    /\ handling' = handling \ {w}
    /\ UNCHANGED <<postVars, rowVars, ledgerVars, flow, providerVars, answered,
                   sweep>>

\* No payment row in the transaction, or P2002: accepted, nothing written.
AcknowledgeOnly(w) ==
    /\ Answer(w)
    /\ UNCHANGED <<postVars, rowVars, ledgerVars, flow, providerVars, sweep>>

\* The attempt is kept although the UPDATE matched no row.
RecordAttemptOnly(w) ==
    /\ attempts' = attempts \union {NewAttempt(w)}
    /\ Answer(w)
    /\ UNCHANGED <<postVars, rowVars, credits, flow, providerVars, sweep>>

RecordAttempt(w) ==
    LET p == w.payment IN
    /\ attempts' = attempts \union {NewAttempt(w)}
    /\ lastAttempt' = [lastAttempt EXCEPT ![p] = NewAttempt(w)]
    /\ status' = [status EXCEPT ![p] = StatusFor(w.outcome)]
    /\ Answer(w)
    /\ UNCHANGED <<postVars, flow, providerVars, sweep>>

\* updateStatusWithPostIncrement: the transaction of an approved webhook.
ConfirmPayment(w) ==
    /\ w.outcome = "approved"
    /\ \/ /\ ~Exists(w.payment) \/ Recorded(w.txn)
          /\ AcknowledgeOnly(w)
       \/ /\ Exists(w.payment)
          /\ ~Recorded(w.txn)
          /\ ~NotYetConfirmed(w.payment)
          /\ RecordAttemptOnly(w)
       \/ /\ ~Recorded(w.txn)
          /\ NotYetConfirmed(w.payment)
          /\ RecordAttempt(w)
          /\ confirmed' = [confirmed EXCEPT ![w.payment] = TRUE]
          /\ credits' = [credits EXCEPT ![w.payment] = @ + 1]
          /\ UNCHANGED expiry

\* A variant of DeclinePayment that ignores the count of the UPDATE.
DeclineAndPointAtAttempt(w) ==
    /\ w.outcome # "approved"
    /\ ~Recorded(w.txn)
    /\ Exists(w.payment)
    /\ attempts' = attempts \union {NewAttempt(w)}
    /\ lastAttempt' = [lastAttempt EXCEPT ![w.payment] = NewAttempt(w)]
    /\ Answer(w)
    /\ UNCHANGED <<postVars, status, confirmed, expiry, credits, flow,
                   providerVars, sweep>>

(***************************************************************************)
(* updateStatusWithoutPostIncrement: any other webhook.  With the row gone *)
(* the foreign key refuses the attempt and the webhook ends in an error.   *)
(***************************************************************************)
DeclinePayment(w) ==
    /\ w.outcome # "approved"
    /\ \/ /\ Recorded(w.txn)
          /\ AcknowledgeOnly(w)
       \/ /\ Exists(w.payment)
          /\ ~Recorded(w.txn)
          /\ ~NotYetConfirmed(w.payment)
          /\ RecordAttemptOnly(w)
       \/ /\ ~Recorded(w.txn)
          /\ NotYetConfirmed(w.payment)
          /\ RecordAttempt(w)
          /\ expiry' = IF w.outcome = "sessionExpired"
                         THEN [expiry EXCEPT ![w.payment] = "past"]
                         ELSE expiry
          /\ UNCHANGED <<confirmed, credits>>

\* The transaction fails or the process stops: no answer, no effect.
WebhookFails(w) ==
    /\ handling' = handling \ {w}
    /\ UNCHANGED <<postVars, rowVars, ledgerVars, flow, providerVars, answered,
                   sweep>>

-----------------------------------------------------------------------------
(* Time, posts and the sweep *)

\* expiredAt passes.
Expire(p) ==
    /\ expiry[p] = "future"
    /\ expiry' = [expiry EXCEPT ![p] = "past"]
    /\ UNCHANGED <<postVars, status, confirmed, lastAttempt, ledgerVars, flow,
                   providerVars, handlerVars, sweep>>

\* The author or a moderator takes the post out of, or back into, donations.
SetPostStatus(o, s) ==
    /\ postState[o] # "purged"
    /\ postState' = [postState EXCEPT ![o] = s]
    /\ UNCHANGED <<rowVars, ledgerVars, flow, providerVars, handlerVars, sweep>>

\* Deleting rows takes their attempts with them (onDelete: Cascade).
DeleteRows(gone) ==
    /\ status' = [p \in Payments |-> IF p \in gone THEN "ABSENT" ELSE status[p]]
    /\ confirmed' = [p \in Payments |-> p \notin gone /\ confirmed[p]]
    /\ expiry' = [p \in Payments |-> IF p \in gone THEN "never" ELSE expiry[p]]
    /\ lastAttempt' =
         [p \in Payments |-> IF p \in gone THEN NoAttempt ELSE lastAttempt[p]]
    /\ attempts' = {a \in attempts : a.payment \notin gone}
    /\ UNCHANGED <<credits, flow, providerVars, handlerVars>>

\* deleteByAdmin of the post deletes its payments too.
PurgePost(o) ==
    /\ postState[o] # "purged"
    /\ postState' = [postState EXCEPT ![o] = "purged"]
    /\ DeleteRows({p \in Payments : PostOf[p] = o})
    /\ UNCHANGED sweep

\* What findMany of the sweep looks for.
Abandoned(p) ==
    /\ status[p] = "PENDING"
    /\ expiry[p] = "past"
    /\ AttemptsOf(p) = {}

\* A batch is selected; its size (100) only bounds how much one batch takes.
SweepSelect ==
    /\ sweep = {}
    /\ \E batch \in SUBSET {p \in Payments : Abandoned(p)} :
          /\ batch # {}
          /\ sweep' = batch
    /\ UNCHANGED <<postVars, rowVars, ledgerVars, flow, providerVars,
                   handlerVars>>

\* deleteMany by id alone.
SweepDelete ==
    /\ sweep # {}
    /\ DeleteRows(sweep)
    /\ sweep' = {}
    /\ UNCHANGED postVars

\* The job's transaction fails; it is logged and the job ends.
SweepFails ==
    /\ sweep # {}
    /\ sweep' = {}
    /\ UNCHANGED <<postVars, rowVars, ledgerVars, flow, providerVars,
                   handlerVars>>

-----------------------------------------------------------------------------
Checkout ==
    \/ \E p \in Payments :
          \/ CreatePayment(p)
          \/ RegisterInvoice(p)
          \/ CheckoutReturns(p)
          \/ CheckoutAborts(p)
          \/ SaveCheckout(p)
    \/ \E p, q \in Payments : RegeneratePaymentLink(p, q)

Webhooks ==
    \/ \E w \in webhooks : ReceiveWebhook(w)
    \/ \E w \in handling :
          \/ ConfirmPayment(w)
          \/ DeclinePayment(w)
          \/ WebhookFails(w)

Environment ==
    \/ \E p \in Payments, t \in Txns, o \in Outcomes : SendWebhook(p, t, o)
    \/ \E p \in Payments : Expire(p)
    \/ \E o \in Posts, s \in {"open", "closed"} : SetPostStatus(o, s)
    \/ \E o \in Posts : PurgePost(o)

Sweep == SweepSelect \/ SweepDelete \/ SweepFails

Next == Checkout \/ Webhooks \/ Environment \/ Sweep

Spec == Init /\ [][Next]_vars

(***************************************************************************)
(* The provider repeats a webhook until it is accepted and does not lose   *)
(* every repetition; a handler that keeps being retried is not cut off     *)
(* every time.  Nothing else is assumed to happen.                         *)
(***************************************************************************)
Fairness ==
    \A w \in Webhook :
        /\ SF_vars(w \in webhooks \ answered /\ ReceiveWebhook(w))
        /\ SF_vars(w \in handling /\ (ConfirmPayment(w) \/ DeclinePayment(w)))

FairSpec == Spec /\ Fairness

-----------------------------------------------------------------------------
(* Properties *)

\* Every variable holds a value of its column or set.
TypeOK ==
    /\ postState \in [Posts -> {"open", "closed", "purged"}]
    /\ status \in [Payments -> PaymentStatus \union {"ABSENT"}]
    /\ confirmed \in [Payments -> BOOLEAN]
    /\ expiry \in [Payments -> {"never", "future", "past"}]
    /\ lastAttempt \in [Payments -> Attempt \union {NoAttempt}]
    /\ attempts \subseteq Attempt
    /\ credits \in [Payments -> Nat]
    /\ flow \in [Payments -> Flow]
    /\ invoices \subseteq Payments
    /\ webhooks \subseteq Webhook
    /\ handling \subseteq webhooks
    /\ answered \subseteq webhooks
    /\ sweep \subseteq Payments

(***************************************************************************)
(* The public donation history lists rows with status SUCCESS and a        *)
(* confirmedAt; both are written in three places, by requests that race.   *)
(* They never disagree.                                                    *)
(***************************************************************************)
ConfirmedIffSuccess ==
    \A p \in Payments : confirmed[p] <=> status[p] = "SUCCESS"

(***************************************************************************)
(* Post.currentAmount and the rows agree: a row's amount has been added    *)
(* once if it is SUCCESS and not at all otherwise, and once more if        *)
(* updatePaymentCheckoutState took a confirmation back.                    *)
(***************************************************************************)
LedgerMatchesRows ==
    \A p \in Payments : Exists(p) =>
        credits[p] = One(status[p] = "SUCCESS") + One(flow[p] = "reset")

\* Payments whose SUCCESS the final write of their request took back.
TakenBack == {p \in Payments : flow[p] = "reset"}

\* Payments of which the provider has sent an approval without transactionId.
Nameless == {p \in Payments : [payment |-> p, txn |-> NoTxn, outcome |-> "approved"]
                                 \in webhooks}

(***************************************************************************)
(* A donation is added to its post's raised amount at most once, however   *)
(* webhooks are repeated, reordered and raced.  Twice, and no more, is a   *)
(* donation whose confirmation updatePaymentCheckoutState has taken back   *)
(* and which was approved without transactionId: the unique index cannot   *)
(* know the repetition.  Neither of the two alone is enough.               *)
(***************************************************************************)
CreditedOnce ==
    \A p \in Payments :
        credits[p] <= 1 + One(p \in TakenBack \intersect Nameless)

(***************************************************************************)
(* A confirmation is final once the request that created the row is over:  *)
(* no later webhook, of any outcome or order, undoes it.                   *)
(***************************************************************************)
ConfirmationIsFinal ==
    [][\A p \in Payments :
         status[p] = "SUCCESS" /\ flow[p] \in Over \union {"regenerating"}
            => status'[p] \in {"SUCCESS", "ABSENT"}]_vars

\* The last attempt shown with a confirmed payment is one that succeeded.
LastAttemptBacksConfirmation ==
    \A p \in Payments : status[p] = "SUCCESS" =>
        /\ lastAttempt[p] \in AttemptsOf(p)
        /\ lastAttempt[p].status = "SUCCESS"

(***************************************************************************)
(* Payments implement DonationLedger: each step of checkout, webhook and   *)
(* sweep adds a donation for the first time, or a second one where both    *)
(* conditions of CreditedOnce hold, or adds nothing; none takes back.      *)
(***************************************************************************)
Ledger == INSTANCE DonationLedger WITH
              ledger <- credits, forgotten <- TakenBack, nameless <- Nameless
ImplementsLedger == Ledger!LedgerSpec

\* Every webhook of an existing payment is accepted in the end.
WebhooksAnswered ==
    \A w \in Webhook :
        w \in webhooks ~> w \in answered \/ ~Exists(w.payment)

=============================================================================
