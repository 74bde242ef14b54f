--------------------------- MODULE PaymentsProofs ---------------------------
(***************************************************************************)
(* What holds of Payments for any number of payments, posts and            *)
(* transaction ids.                                                        *)
(***************************************************************************)
EXTENDS Payments, TLAPS

\* A payment id that no request has used has left no trace.
UnusedIds ==
    \A p \in Payments : flow[p] = "idle" => ~Exists(p) /\ credits[p] = 0

\* A recorded success is the trace of an approved webhook.
SuccessesWereSent ==
    \A a \in attempts : a.status = "SUCCESS" =>
        [payment |-> a.payment, txn |-> a.txn, outcome |-> "approved"]
            \in webhooks

\* The approvals of an order that say in which transaction name the same one:
\* what the provider guarantees.
OneApprovalPerOrder ==
    \A v, w \in webhooks :
        /\ v.outcome = "approved" /\ w.outcome = "approved"
        /\ v.payment = w.payment
        /\ NoTxn \notin {v.txn, w.txn}
        => v.txn = w.txn

\* A credited row still has the attempt that credited it.
CreditsHaveAttempts ==
    \A p \in Payments : Exists(p) /\ credits[p] > 0 =>
        \E a \in AttemptsOf(p) : a.status = "SUCCESS"

-----------------------------------------------------------------------------
LEMMA TypeInit == Init => TypeOK
  BY PostOfAssumption DEF Init, TypeOK, Flow

LEMMA TypeStep == TypeOK /\ [Next]_vars => TypeOK'
<1> SUFFICES ASSUME TypeOK, [Next]_vars PROVE TypeOK'
  OBVIOUS
<1> USE DEF TypeOK, Flow, PaymentStatus, Webhook, Outcomes, postVars, rowVars,
            ledgerVars, providerVars, handlerVars
<1>1. CASE Checkout
  <2>1. ASSUME NEW p \in Payments, CreatePayment(p) PROVE TypeOK'
    BY <2>1 DEF CreatePayment, Insert
  <2>2. ASSUME NEW p \in Payments, RegisterInvoice(p) PROVE TypeOK'
    BY <2>2 DEF RegisterInvoice
  <2>3. ASSUME NEW p \in Payments, CheckoutReturns(p) PROVE TypeOK'
    BY <2>3 DEF CheckoutReturns
  <2>4. ASSUME NEW p \in Payments, CheckoutAborts(p) PROVE TypeOK'
    BY <2>4 DEF CheckoutAborts
  <2>5. ASSUME NEW p \in Payments, SaveCheckout(p) PROVE TypeOK'
    BY <2>5 DEF SaveCheckout, ResetConfirmation
  <2>6. ASSUME NEW p \in Payments, NEW q \in Payments,
               RegeneratePaymentLink(p, q)
        PROVE TypeOK'
    BY <2>6 DEF RegeneratePaymentLink, Insert
  <2> QED
    BY <1>1, <2>1, <2>2, <2>3, <2>4, <2>5, <2>6 DEF Checkout
<1>2. CASE Webhooks
  <2>1. ASSUME NEW w \in webhooks, ReceiveWebhook(w) PROVE TypeOK'
    BY <2>1 DEF ReceiveWebhook
  <2>2. ASSUME NEW w \in handling PROVE NewAttempt(w) \in Attempt
    BY DEF NewAttempt, Attempt, StatusFor
  <2>3. ASSUME NEW w \in handling, AcknowledgeOnly(w) PROVE TypeOK'
    BY <2>3 DEF AcknowledgeOnly, Answer
  <2>4. ASSUME NEW w \in handling, RecordAttemptOnly(w) PROVE TypeOK'
    BY <2>2, <2>4 DEF RecordAttemptOnly, Answer
  <2>5. ASSUME NEW w \in handling, ConfirmPayment(w) PROVE TypeOK'
    <3>1. ASSUME RecordAttempt(w), UNCHANGED expiry,
                 confirmed' = [confirmed EXCEPT ![w.payment] = TRUE],
                 credits' = [credits EXCEPT ![w.payment] = @ + 1]
          PROVE TypeOK'
      BY <2>2, <3>1 DEF RecordAttempt, Answer, StatusFor
    <3> QED
      BY <2>3, <2>4, <2>5, <3>1 DEF ConfirmPayment
  <2>6. ASSUME NEW w \in handling, DeclinePayment(w) PROVE TypeOK'
    <3>1. ASSUME RecordAttempt(w), UNCHANGED <<confirmed, credits>>,
                 expiry' = expiry \/ expiry' = [expiry EXCEPT ![w.payment] = "past"]
          PROVE TypeOK'
      BY <2>2, <3>1 DEF RecordAttempt, Answer, StatusFor
    <3> QED
      BY <2>3, <2>4, <2>6, <3>1 DEF DeclinePayment
  <2>7. ASSUME NEW w \in handling, WebhookFails(w) PROVE TypeOK'
    BY <2>7 DEF WebhookFails
  <2> QED
    BY <1>2, <2>1, <2>5, <2>6, <2>7 DEF Webhooks
<1>3. CASE Environment
  <2>1. ASSUME NEW p \in Payments, NEW t \in Txns, NEW o \in Outcomes,
               SendWebhook(p, t, o)
        PROVE TypeOK'
    BY <2>1 DEF SendWebhook
  <2>2. ASSUME NEW p \in Payments, Expire(p) PROVE TypeOK'
    BY <2>2 DEF Expire
  <2>3. ASSUME NEW o \in Posts, NEW s \in {"open", "closed"},
               SetPostStatus(o, s)
        PROVE TypeOK'
    BY <2>3 DEF SetPostStatus
  <2>4. ASSUME NEW o \in Posts, PurgePost(o) PROVE TypeOK'
    BY <2>4 DEF PurgePost, DeleteRows
  <2> QED
    BY <1>3, <2>1, <2>2, <2>3, <2>4 DEF Environment
<1>4. CASE Sweep
  <2>1. CASE SweepSelect
    BY <2>1 DEF SweepSelect
  <2>2. CASE SweepDelete
    BY <2>2 DEF SweepDelete, DeleteRows
  <2>3. CASE SweepFails
    BY <2>3 DEF SweepFails
  <2> QED
    BY <1>4, <2>1, <2>2, <2>3 DEF Sweep
<1>5. CASE UNCHANGED vars
  BY <1>5 DEF vars
<1> QED
  BY <1>1, <1>2, <1>3, <1>4, <1>5 DEF Next

\* Every variable always holds a value of its type.
THEOREM TypeCorrect == Spec => []TypeOK
<1>1. QED
  BY TypeInit, TypeStep, PTL DEF Spec

-----------------------------------------------------------------------------
(***************************************************************************)
(* With TypeOK, the inductive invariant.  LedgerMatchesRows needs          *)
(* UnusedIds, because an insert must find no credit of an earlier use of   *)
(* the id; the last three carry the argument for CreditedOnce.             *)
(***************************************************************************)
Consistent ==
    /\ ConfirmedIffSuccess
    /\ LedgerMatchesRows
    /\ LastAttemptBacksConfirmation
    /\ UnusedIds
    /\ SuccessesWereSent
    /\ OneApprovalPerOrder
    /\ CreditsHaveAttempts

LEMMA InitConsistent == Init => Consistent
  BY DEF Init, Consistent, ConfirmedIffSuccess, LedgerMatchesRows, UnusedIds,
         LastAttemptBacksConfirmation, SuccessesWereSent, OneApprovalPerOrder,
         CreditsHaveAttempts, Exists

\* Deleting rows together with their attempts.
LEMMA DeleteKeepsConsistent ==
  ASSUME TypeOK, Consistent, NEW gone \in SUBSET Payments, DeleteRows(gone)
  PROVE  Consistent'
<1> USE DEF TypeOK, Consistent, DeleteRows, Exists, handlerVars, providerVars
<1>1. ConfirmedIffSuccess' /\ UnusedIds'
  BY DEF ConfirmedIffSuccess, UnusedIds
<1>2. LedgerMatchesRows'
  BY DEF LedgerMatchesRows
<1>3. LastAttemptBacksConfirmation'
  BY DEF LastAttemptBacksConfirmation, AttemptsOf
<1>4. SuccessesWereSent' /\ OneApprovalPerOrder'
  BY DEF SuccessesWereSent, OneApprovalPerOrder
<1>5. CreditsHaveAttempts'
  BY DEF CreditsHaveAttempts, AttemptsOf
<1> QED
  BY <1>1, <1>2, <1>3, <1>4, <1>5

\* The request that creates a row.
LEMMA CheckoutKeepsConsistent ==
  ASSUME TypeOK, Consistent, Checkout
  PROVE  Consistent'
<1> USE DEF TypeOK, Consistent, ConfirmedIffSuccess, LedgerMatchesRows,
            UnusedIds, LastAttemptBacksConfirmation, SuccessesWereSent,
            OneApprovalPerOrder, CreditsHaveAttempts, Exists, AttemptsOf, One,
            postVars, rowVars, ledgerVars, providerVars, handlerVars
<1>1. ASSUME NEW p \in Payments, NEW phase \in {"checkout", "regenerating"},
             Insert(p, phase), UNCHANGED <<ledgerVars, providerVars>>
      PROVE  Consistent'
  BY <1>1 DEF Insert
<1>2. ASSUME NEW p \in Payments, RegisterInvoice(p) PROVE Consistent'
  BY <1>2 DEF RegisterInvoice
<1>3. ASSUME NEW p \in Payments, CheckoutReturns(p) PROVE Consistent'
  BY <1>3 DEF CheckoutReturns
<1>4. ASSUME NEW p \in Payments, CheckoutAborts(p) PROVE Consistent'
  BY <1>4 DEF CheckoutAborts
<1>5. ASSUME NEW p \in Payments, SaveCheckout(p) PROVE Consistent'
  BY <1>5 DEF SaveCheckout, ResetConfirmation
<1> QED
  BY <1>1, <1>2, <1>3, <1>4, <1>5 DEF Checkout, CreatePayment,
     RegeneratePaymentLink

\* A webhook's transaction.
LEMMA WebhookKeepsConsistent ==
  ASSUME TypeOK, Consistent, NEW w \in handling,
         ConfirmPayment(w) \/ DeclinePayment(w)
  PROVE  Consistent'
<1> USE DEF TypeOK, Consistent, Exists, AttemptsOf, One,
            postVars, rowVars, ledgerVars, providerVars, handlerVars
<1> DEFINE p == w.payment
           a == NewAttempt(w)
<1>1. /\ w \in webhooks /\ p \in Payments /\ w.outcome \in Outcomes
      /\ w = [payment |-> p, txn |-> w.txn, outcome |-> w.outcome]
  BY DEF Webhook
<1>2. /\ a \in Attempt /\ a.payment = p /\ a.txn = w.txn
      /\ a.status = StatusFor(w.outcome)
      /\ a.status = "SUCCESS" <=> w.outcome = "approved"
  <2>1. w.txn \in Txns
    BY <1>1 DEF Webhook
  <2>2. StatusFor(w.outcome) =
          IF w.outcome = "approved" THEN "SUCCESS"
          ELSE IF w.outcome = "sessionExpired" THEN "EXPIRED" ELSE "FAILED"
    BY <1>1 DEF StatusFor, Outcomes
  <2> QED
    BY <1>1, <2>1, <2>2 DEF NewAttempt, Attempt, PaymentStatus
<1>3. ASSUME attempts' = attempts \union {a}, UNCHANGED webhooks
      PROVE  SuccessesWereSent'
  BY <1>1, <1>2, <1>3 DEF SuccessesWereSent
<1>4. CASE AcknowledgeOnly(w)
  BY <1>4 DEF AcknowledgeOnly, ConfirmedIffSuccess, LedgerMatchesRows,
     UnusedIds, LastAttemptBacksConfirmation, SuccessesWereSent,
     OneApprovalPerOrder, CreditsHaveAttempts
<1>5. CASE RecordAttemptOnly(w)
  BY <1>3, <1>5 DEF RecordAttemptOnly, ConfirmedIffSuccess, LedgerMatchesRows,
     UnusedIds, LastAttemptBacksConfirmation, OneApprovalPerOrder,
     CreditsHaveAttempts
<1>6. ASSUME w.outcome = "approved", NotYetConfirmed(p), RecordAttempt(w),
             confirmed' = [confirmed EXCEPT ![p] = TRUE],
             credits' = [credits EXCEPT ![p] = @ + 1]
      PROVE  Consistent'
  <2> USE <1>6 DEF NotYetConfirmed, RecordAttempt
  <2>1. status' = [status EXCEPT ![p] = "SUCCESS"]
    BY DEF StatusFor
  <2>2. ConfirmedIffSuccess' /\ LedgerMatchesRows' /\ UnusedIds'
    BY <1>1, <2>1 DEF ConfirmedIffSuccess, LedgerMatchesRows, UnusedIds
  <2>3. LastAttemptBacksConfirmation' /\ CreditsHaveAttempts'
    BY <1>1, <1>2, <2>1 DEF LastAttemptBacksConfirmation, CreditsHaveAttempts
  <2> QED
    BY <1>3, <2>2, <2>3 DEF OneApprovalPerOrder
<1>7. ASSUME w.outcome # "approved", NotYetConfirmed(p), RecordAttempt(w),
             UNCHANGED <<confirmed, credits>>
      PROVE  Consistent'
  <2> USE <1>7 DEF NotYetConfirmed, RecordAttempt
  <2>1. /\ status' = [status EXCEPT ![p] = StatusFor(w.outcome)]
        /\ StatusFor(w.outcome) \in {"FAILED", "EXPIRED"}
    BY <1>1 DEF StatusFor, Outcomes
  <2>2. ConfirmedIffSuccess' /\ LedgerMatchesRows' /\ UnusedIds'
    BY <1>1, <2>1 DEF ConfirmedIffSuccess, LedgerMatchesRows, UnusedIds
  <2>3. LastAttemptBacksConfirmation' /\ CreditsHaveAttempts'
    BY <1>1, <1>2, <2>1 DEF LastAttemptBacksConfirmation, CreditsHaveAttempts
  <2> QED
    BY <1>3, <2>2, <2>3 DEF OneApprovalPerOrder
<1> QED
  BY <1>4, <1>5, <1>6, <1>7 DEF ConfirmPayment, DeclinePayment

LEMMA EnvironmentKeepsConsistent ==
  ASSUME TypeOK, Consistent, Environment
  PROVE  Consistent'
<1> USE DEF TypeOK, Consistent, ConfirmedIffSuccess, LedgerMatchesRows,
            UnusedIds, LastAttemptBacksConfirmation, SuccessesWereSent,
            OneApprovalPerOrder, CreditsHaveAttempts, Exists, AttemptsOf,
            postVars, rowVars, ledgerVars, providerVars, handlerVars
<1>1. ASSUME NEW p \in Payments, NEW t \in Txns, NEW o \in Outcomes,
             SendWebhook(p, t, o)
      PROVE  Consistent'
  <2> DEFINE new == [payment |-> p, txn |-> t, outcome |-> o]
  <2>1. OneApprovalPerOrder'
    <3> SUFFICES ASSUME NEW v \in webhooks', NEW w \in webhooks',
                        v.outcome = "approved", w.outcome = "approved",
                        v.payment = w.payment, NoTxn \notin {v.txn, w.txn}
                 PROVE  v.txn = w.txn
      OBVIOUS
    <3>1. /\ v \in webhooks \/ v = new
          /\ w \in webhooks \/ w = new
      BY <1>1 DEF SendWebhook
    <3> QED
      BY <1>1, <3>1 DEF SendWebhook
  <2> QED
    BY <1>1, <2>1 DEF SendWebhook
<1>2. ASSUME NEW p \in Payments, Expire(p) PROVE Consistent'
  BY <1>2 DEF Expire
<1>3. ASSUME NEW o \in Posts, NEW s \in {"open", "closed"}, SetPostStatus(o, s)
      PROVE  Consistent'
  BY <1>3 DEF SetPostStatus
<1>4. ASSUME NEW o \in Posts, PurgePost(o) PROVE Consistent'
  BY <1>4, DeleteKeepsConsistent DEF PurgePost
<1> QED
  BY <1>1, <1>2, <1>3, <1>4 DEF Environment

LEMMA ConsistentStep == TypeOK /\ Consistent /\ [Next]_vars => Consistent'
<1> SUFFICES ASSUME TypeOK, Consistent, [Next]_vars PROVE Consistent'
  OBVIOUS
<1> DEFINE Same == UNCHANGED <<status, confirmed, lastAttempt, attempts,
                               credits, flow, webhooks>>
<1>1. CASE Same
  BY <1>1 DEF Consistent, ConfirmedIffSuccess, LedgerMatchesRows, UnusedIds,
     LastAttemptBacksConfirmation, SuccessesWereSent, OneApprovalPerOrder,
     CreditsHaveAttempts, Exists, AttemptsOf
<1>2. CASE Checkout
  BY <1>2, CheckoutKeepsConsistent
<1>3. CASE Webhooks
  <2>1. ASSUME NEW w \in webhooks, ReceiveWebhook(w) PROVE Same
    BY <2>1 DEF ReceiveWebhook, rowVars, ledgerVars, providerVars
  <2>2. ASSUME NEW w \in handling, WebhookFails(w) PROVE Same
    BY <2>2 DEF WebhookFails, rowVars, ledgerVars, providerVars
  <2> QED
    BY <1>1, <1>3, <2>1, <2>2, WebhookKeepsConsistent DEF Webhooks
<1>4. CASE Environment
  BY <1>4, EnvironmentKeepsConsistent
<1>5. CASE Sweep
  <2>1. CASE SweepDelete
    BY <2>1, DeleteKeepsConsistent DEF SweepDelete, TypeOK
  <2>2. CASE SweepSelect \/ SweepFails
    BY <1>1, <2>2 DEF SweepSelect, SweepFails, rowVars, ledgerVars, providerVars
  <2> QED
    BY <1>5, <2>1, <2>2 DEF Sweep
<1>6. CASE UNCHANGED vars
  BY <1>1, <1>6 DEF vars
<1> QED
  BY <1>2, <1>3, <1>4, <1>5, <1>6 DEF Next

THEOREM Invariance == Spec => [](TypeOK /\ Consistent)
<1>1. QED
  BY TypeInit, TypeStep, InitConsistent, ConsistentStep, PTL DEF Spec

\* confirmedAt is set exactly on the SUCCESS rows, whatever races.
THEOREM ConfirmedRows == Spec => []ConfirmedIffSuccess
<1>1. TypeOK /\ Consistent => ConfirmedIffSuccess
  BY DEF Consistent
<1> QED
  BY <1>1, Invariance, PTL

\* Post.currentAmount agrees with the rows, up to the confirmations that
\* updatePaymentCheckoutState took back.
THEOREM Ledgers == Spec => []LedgerMatchesRows
<1>1. TypeOK /\ Consistent => LedgerMatchesRows
  BY DEF Consistent
<1> QED
  BY <1>1, Invariance, PTL

\* A confirmed payment points at the attempt that succeeded.
THEOREM LastAttempts == Spec => []LastAttemptBacksConfirmation
<1>1. TypeOK /\ Consistent => LastAttemptBacksConfirmation
  BY DEF Consistent
<1> QED
  BY <1>1, Invariance, PTL

-----------------------------------------------------------------------------
(***************************************************************************)
(* A webhook that credits a row which was credited before finds it reset.  *)
(* The row still has the attempt of the first credit, so either both carry *)
(* one transaction id, and the unique index refuses the second, or the     *)
(* approval of one of the two had none.                                    *)
(***************************************************************************)
LEMMA CreditStep ==
  ASSUME TypeOK, Consistent, NEW w \in handling,
         w.outcome = "approved", ~Recorded(w.txn), NotYetConfirmed(w.payment),
         credits' = [credits EXCEPT ![w.payment] = @ + 1],
         UNCHANGED <<flow, webhooks>>
  PROVE  Ledger!LedgerNext
<1> DEFINE p == w.payment
<1>1. /\ w \in webhooks /\ p \in Payments
      /\ w = [payment |-> p, txn |-> w.txn, outcome |-> "approved"]
      /\ credits \in [Payments -> Nat]
  BY DEF TypeOK, Webhook
<1>2. Exists(p) /\ status[p] # "SUCCESS"
  BY DEF NotYetConfirmed
<1>3. UNCHANGED <<TakenBack, Nameless>>
  BY DEF TakenBack, Nameless
<1>4. credits[p] = One(flow[p] = "reset")
  BY <1>1, <1>2 DEF Consistent, LedgerMatchesRows, One
<1>5. CASE flow[p] # "reset"
  <2>1. credits[p] = 0
    BY <1>4, <1>5 DEF One
  <2>2. credits' = [credits EXCEPT ![p] = 1]
    BY <1>1, <2>1
  <2> QED
    BY <1>1, <1>3, <2>1, <2>2 DEF Ledger!LedgerNext, Ledger!Record
<1>6. CASE flow[p] = "reset"
  <2>1. credits[p] = 1 /\ p \in TakenBack
    BY <1>1, <1>4, <1>6 DEF One, TakenBack
  <2>2. PICK a \in AttemptsOf(p) : a.status = "SUCCESS"
    BY <1>1, <1>2, <2>1 DEF Consistent, CreditsHaveAttempts
  <2>3. /\ a \in attempts /\ a.payment = p
        /\ [payment |-> p, txn |-> a.txn, outcome |-> "approved"] \in webhooks
    BY <2>2 DEF Consistent, SuccessesWereSent, AttemptsOf
  <2>4. NoTxn \in {a.txn, w.txn}
    <3> SUFFICES ASSUME NoTxn \notin {a.txn, w.txn} PROVE FALSE
      OBVIOUS
    <3>1. a.txn = w.txn
      BY <1>1, <2>3 DEF Consistent, OneApprovalPerOrder
    <3> QED
      BY <2>3, <3>1 DEF Recorded
  <2>5. p \in Nameless
    BY <1>1, <2>3, <2>4 DEF Nameless
  <2>6. credits' = [credits EXCEPT ![p] = 2]
    BY <1>1, <2>1
  <2> QED
    BY <1>1, <1>3, <2>1, <2>5, <2>6 DEF Ledger!LedgerNext, Ledger!RecordAgain
<1> QED
  BY <1>5, <1>6

\* Any step is one of the ledger, or does not show there.
LEMMA LedgerStep ==
  TypeOK /\ Consistent /\ [Next]_vars
    => [Ledger!LedgerNext]_<<credits, TakenBack, Nameless>>
<1> SUFFICES ASSUME TypeOK, Consistent, [Next]_vars
             PROVE  [Ledger!LedgerNext]_<<credits, TakenBack, Nameless>>
  OBVIOUS
<1> USE DEF postVars, rowVars, ledgerVars, providerVars, handlerVars
<1> DEFINE Goal == [Ledger!LedgerNext]_<<credits, TakenBack, Nameless>>
<1>1. ASSUME UNCHANGED <<credits, flow, webhooks>> PROVE Goal
  BY <1>1 DEF TakenBack, Nameless
<1>2. CASE Checkout
  <2>1. ASSUME NEW p \in Payments, NEW phase \in Flow \ {"idle", "reset"},
               flow[p] # "reset", flow' = [flow EXCEPT ![p] = phase],
               UNCHANGED <<credits, webhooks>>
        PROVE  Goal
    BY <2>1 DEF TakenBack, Nameless, TypeOK
  <2>2. ASSUME NEW p \in Payments, SaveCheckout(p) PROVE Goal
    <3>1. CASE status[p] # "SUCCESS"
      BY <2>1, <2>2, <3>1 DEF SaveCheckout, Flow
    <3>2. CASE status[p] = "SUCCESS"
      <4>1. /\ flow[p] = "invoiced" /\ flow' = [flow EXCEPT ![p] = "reset"]
            /\ UNCHANGED <<credits, webhooks>> /\ Exists(p)
        BY <2>2, <3>2 DEF SaveCheckout
      <4>2. credits[p] = 1
        BY <3>2, <4>1 DEF Consistent, LedgerMatchesRows, One
      <4>3. /\ p \notin TakenBack
            /\ TakenBack' = TakenBack \union {p}
            /\ UNCHANGED Nameless
        BY <4>1 DEF TakenBack, Nameless, TypeOK
      <4> QED
        BY <4>1, <4>2, <4>3 DEF Ledger!LedgerNext, Ledger!Forget
    <3> QED
      BY <3>1, <3>2
  <2>3. ASSUME NEW p \in Payments, NEW phase \in {"checkout", "regenerating"},
               Insert(p, phase), UNCHANGED <<credits, webhooks>>
        PROVE  Goal
    BY <2>1, <2>3 DEF Insert, Flow
  <2>4. ASSUME NEW p \in Payments, RegisterInvoice(p) PROVE Goal
    BY <1>1, <2>4 DEF RegisterInvoice
  <2>5. ASSUME NEW p \in Payments, CheckoutReturns(p) PROVE Goal
    BY <2>1, <2>5 DEF CheckoutReturns, Flow
  <2>6. ASSUME NEW p \in Payments, CheckoutAborts(p) PROVE Goal
    BY <2>1, <2>6 DEF CheckoutAborts, Flow
  <2> QED
    BY <1>2, <2>2, <2>3, <2>4, <2>5, <2>6 DEF Checkout, CreatePayment,
       RegeneratePaymentLink
<1>3. CASE Webhooks
  <2>1. ASSUME NEW w \in handling, ConfirmPayment(w) PROVE Goal
    <3>1. CASE AcknowledgeOnly(w) \/ RecordAttemptOnly(w)
      BY <1>1, <3>1 DEF AcknowledgeOnly, RecordAttemptOnly
    <3>2. CASE /\ w.outcome = "approved" /\ ~Recorded(w.txn)
               /\ NotYetConfirmed(w.payment) /\ RecordAttempt(w)
               /\ credits' = [credits EXCEPT ![w.payment] = @ + 1]
      BY <3>2, CreditStep DEF RecordAttempt
    <3> QED
      BY <2>1, <3>1, <3>2 DEF ConfirmPayment
  <2>2. ASSUME NEW w \in handling, DeclinePayment(w) PROVE Goal
    BY <1>1, <2>2 DEF DeclinePayment, AcknowledgeOnly, RecordAttemptOnly,
       RecordAttempt
  <2> QED
    BY <1>1, <1>3, <2>1, <2>2 DEF Webhooks, ReceiveWebhook, WebhookFails
<1>4. CASE Environment
  <2>1. ASSUME NEW p \in Payments, NEW t \in Txns, NEW o \in Outcomes,
               SendWebhook(p, t, o)
        PROVE  Goal
    <3>1. /\ webhooks' = webhooks \union
                            {[payment |-> p, txn |-> t, outcome |-> o]}
          /\ UNCHANGED <<credits, TakenBack>>
      BY <2>1 DEF SendWebhook, TakenBack
    <3>2. CASE t = NoTxn /\ o = "approved"
      <4>1. Nameless' = Nameless \union {p}
        BY <3>1, <3>2 DEF Nameless
      <4> QED
        BY <3>1, <4>1 DEF Ledger!LedgerNext, Ledger!ApproveNameless
    <3>3. CASE ~(t = NoTxn /\ o = "approved")
      BY <3>1, <3>3 DEF Nameless
    <3> QED
      BY <3>2, <3>3
  <2> QED
    BY <1>1, <1>4, <2>1 DEF Environment, Expire, SetPostStatus, PurgePost,
       DeleteRows
<1>5. CASE Sweep
  BY <1>1, <1>5 DEF Sweep, SweepSelect, SweepDelete, SweepFails, DeleteRows
<1>6. CASE UNCHANGED vars
  BY <1>1, <1>6 DEF vars
<1> QED
  BY <1>2, <1>3, <1>4, <1>5, <1>6 DEF Next

\* Payments implements the ledger: an amount is added a second time only for a
\* donation taken back and approved without transaction id, and is never taken
\* back.
THEOREM Refinement == Spec => ImplementsLedger
<1>1. Init => Ledger!LedgerInit
  BY DEF Init, Ledger!LedgerInit, TakenBack, Nameless
<1> QED
  BY <1>1, LedgerStep, Invariance, PTL
  DEF Spec, ImplementsLedger, Ledger!LedgerSpec

\* And so each donation is credited once, but for those.
THEOREM AtMostOneCredit == Spec => []CreditedOnce
<1>1. Init => CreditedOnce
  <2> SUFFICES ASSUME Init, NEW p \in Payments
               PROVE  credits[p] <= 1 + One(p \in TakenBack \intersect Nameless)
    BY DEF CreditedOnce
  <2>1. credits[p] = 0
    BY DEF Init
  <2>2. One(p \in TakenBack \intersect Nameless) \in {0, 1}
    BY DEF One
  <2> QED
    BY <2>1, <2>2
<1>2. TypeOK /\ Consistent /\ CreditedOnce /\ [Next]_vars => CreditedOnce'
  <2> SUFFICES ASSUME TypeOK, Consistent, CreditedOnce, [Next]_vars,
                      NEW p \in Payments
               PROVE  credits'[p] <= 1 + One(p \in TakenBack' \intersect Nameless')
    BY DEF CreditedOnce, One
  <2> DEFINE both == TakenBack \intersect Nameless
  <2>1. /\ credits \in [Payments -> Nat]
        /\ credits[p] <= 1 + One(p \in both)
    BY DEF TypeOK, CreditedOnce
  <2>2. ASSUME credits'[p] = credits[p] \/ credits'[p] = 1,
               both \subseteq TakenBack' \intersect Nameless'
        PROVE  credits'[p] <= 1 + One(p \in TakenBack' \intersect Nameless')
    BY <2>1, <2>2 DEF One
  <2>3. CASE UNCHANGED <<credits, TakenBack, Nameless>>
    BY <2>2, <2>3
  <2>4. ASSUME NEW q \in Payments, Ledger!Record(q)
        PROVE  credits'[p] <= 1 + One(p \in TakenBack' \intersect Nameless')
    BY <2>1, <2>2, <2>4 DEF Ledger!Record
  <2>5. ASSUME NEW q \in Payments, Ledger!Forget(q)
        PROVE  credits'[p] <= 1 + One(p \in TakenBack' \intersect Nameless')
    BY <2>2, <2>5 DEF Ledger!Forget
  <2>6. ASSUME NEW q \in Payments, Ledger!ApproveNameless(q)
        PROVE  credits'[p] <= 1 + One(p \in TakenBack' \intersect Nameless')
    BY <2>2, <2>6 DEF Ledger!ApproveNameless
  <2>7. ASSUME NEW q \in Payments, Ledger!RecordAgain(q)
        PROVE  credits'[p] <= 1 + One(p \in TakenBack' \intersect Nameless')
    <3>1. CASE q = p
      BY <2>1, <2>7, <3>1 DEF Ledger!RecordAgain, One
    <3>2. CASE q # p
      BY <2>1, <2>2, <2>7, <3>2 DEF Ledger!RecordAgain
    <3> QED
      BY <3>1, <3>2
  <2> QED
    BY <2>3, <2>4, <2>5, <2>6, <2>7, LedgerStep DEF Ledger!LedgerNext
<1> QED
  BY <1>1, <1>2, Invariance, PTL DEF Spec

-----------------------------------------------------------------------------
\* Once the creating request is over, nothing takes SUCCESS back but the
\* deletion of the row.
THEOREM FinalConfirmation == Spec => ConfirmationIsFinal
<1> DEFINE Final(p) == status[p] = "SUCCESS" /\ flow[p] \in Over \union {"regenerating"}
                          => status'[p] \in {"SUCCESS", "ABSENT"}
<1>1. ASSUME TypeOK, [Next]_vars, NEW p \in Payments PROVE Final(p)
  <2> USE DEF TypeOK, Over, postVars, rowVars, ledgerVars, providerVars,
              handlerVars
  <2>1. CASE Checkout
    <3>1. ASSUME NEW q \in Payments, NEW phase, Insert(q, phase) PROVE Final(p)
      BY <3>1 DEF Insert
    <3>2. ASSUME NEW q \in Payments, SaveCheckout(q) PROVE Final(p)
      BY <3>2 DEF SaveCheckout
    <3>3. ASSUME NEW q \in Payments,
                 RegisterInvoice(q) \/ CheckoutReturns(q) \/ CheckoutAborts(q)
          PROVE  Final(p)
      BY <3>3 DEF RegisterInvoice, CheckoutReturns, CheckoutAborts
    <3> QED
      BY <2>1, <3>1, <3>2, <3>3 DEF Checkout, CreatePayment,
         RegeneratePaymentLink
  <2>2. CASE Webhooks
    <3>1. ASSUME NEW w \in handling, ConfirmPayment(w) \/ DeclinePayment(w)
          PROVE  Final(p)
      <4>1. CASE UNCHANGED status
        BY <4>1
      <4>2. CASE NotYetConfirmed(w.payment) /\ RecordAttempt(w)
        BY <4>2 DEF NotYetConfirmed, RecordAttempt
      <4> QED
        BY <3>1, <4>1, <4>2 DEF ConfirmPayment, DeclinePayment,
           AcknowledgeOnly, RecordAttemptOnly
    <3> QED
      BY <2>2, <3>1 DEF Webhooks, ReceiveWebhook, WebhookFails
  <2>3. CASE Environment
    BY <2>3 DEF Environment, SendWebhook, Expire, SetPostStatus, PurgePost,
       DeleteRows
  <2>4. CASE Sweep
    BY <2>4 DEF Sweep, SweepSelect, SweepDelete, SweepFails, DeleteRows
  <2>5. CASE UNCHANGED vars
    BY <2>5 DEF vars
  <2> QED
    BY <1>1, <2>1, <2>2, <2>3, <2>4, <2>5 DEF Next
<1>2. TypeOK /\ [Next]_vars => [\A p \in Payments : Final(p)]_vars
  BY <1>1
<1> QED
  BY <1>2, TypeCorrect, PTL DEF Spec, ConfirmationIsFinal

=============================================================================
