------------------------------ MODULE PaymentFlow ------------------------------
(***************************************************************************)
(* Paying for an assessment: one user's payments for one certificate and   *)
(* one payment type, the Stripe intents behind them, the webhook handlers, *)
(* an admin's manual confirmation and the assessments created on payments. *)
(* Requests and handlers interleave at every awaited call; Stripe moves on *)
(* its own, and delivers its events in any order and more than once.       *)
(***************************************************************************)
EXTENDS Naturals, Sequences, FiniteSets

CONSTANTS
    Creators,    \* createStripePaymentIntent requests
    Confirmers,  \* confirmStripePayment and testConfirmPayment requests
    Admins,      \* confirmPayment requests
    Assessors,   \* createAssessment requests
    Prices,      \* what the certificate may cost
    MaxTroubles  \* how many failing calls, restarts, price changes, declines,
                 \* cancellations, refunds, disputes and duplicate deliveries

Actors == Creators \cup Confirmers \cup Admins \cup Assessors

ASSUME PaymentBounds == MaxTroubles \in Nat /\ Prices # {}

VARIABLES
    price,       \* the certificate's price for this payment type
    payments,    \* the payments rows, in the order of their creation
    stripe,      \* what Stripe knows of each of them: its intent and its events
    assessments, \* the payment_id of each certificate_assessments row
    pc, frame,   \* the step each request is at, and its local variables
    failures, incidents

vars == <<price, payments, stripe, assessments, pc, frame, failures, incidents>>

-----------------------------------------------------------------------------
(* Rows.  A payment is known by its place in payments. *)

NoPayment == 0

Statuses == {"pending", "completed", "failed", "refunded", "disputed",
             "partially_refunded"}

\* paid is is_paid, intent tells whether stripe_payment_intent_id is stored, and
\* txn what transaction_id holds: the charge of the intent or an admin's reference.
PaymentRows == [status: Statuses, paid: BOOLEAN, amount: Prices,
                intent: BOOLEAN, txn: {"none", "charge", "manual"}]

NewPayment(amount) == [status |-> "pending", paid |-> FALSE, amount |-> amount,
                       intent |-> FALSE, txn |-> "none"]

IntentStates == {"none", "open", "succeeded", "canceled"}
Kinds == {"succeeded", "payment_failed", "canceled", "refunded",
          "partially_refunded", "disputed"}

\* The idempotency key is made of the user and the payment, so that there is
\* one intent per payment.  An event is sent, found by its handler and done.
StripeRows == [intent: IntentStates,
               event: [Kinds -> {"none", "sent", "found", "done"}]]

NoIntent == [intent |-> "none", event |-> [k \in Kinds |-> "none"]]

Steps == {"find", "retire", "insert", "intent", "store", "markFailed",
          "confirm", "pay", "adminPay", "existing", "insertAsmt"}
Labels == {"idle", "done"} \cup Steps

\* settled: the payment was paid and completed when the request read it.
Frames == [pay: Nat, price: Prices, settled: BOOLEAN]
EmptyFrame == [pay |-> NoPayment, price |-> CHOOSE p \in Prices : TRUE,
               settled |-> FALSE]

At(a, l) == pc[a] = l
MoveTo(a, l, f) ==
    /\ pc' = [pc EXCEPT ![a] = l]
    /\ frame' = [frame EXCEPT ![a] = f]
Go(a, l) == MoveTo(a, l, IF l = "done" THEN EmptyFrame ELSE frame[a])

-----------------------------------------------------------------------------
(* The UPDATEs: every one is by id, whatever the row holds by then.  A request *)
(* that is refused with a 400 changes nothing and is left out.               *)

Write(p, row) == payments' = [payments EXCEPT ![p] = row]

MarkExpired(p) == Write(p, [payments[p] EXCEPT !.status = "expired"])   \* a variant

MarkFailed(p) == Write(p, [payments[p] EXCEPT !.status = "failed"])

Unpay(p, status) == Write(p, [payments[p] EXCEPT !.status = status, !.paid = FALSE])

Complete(p, txn) ==
    Write(p, [payments[p] EXCEPT !.status = "completed", !.paid = TRUE, !.txn = txn])

Settled(p) == payments[p].paid /\ payments[p].status = "completed"

-----------------------------------------------------------------------------
(* PaymentService.createStripePaymentIntent *)

CreateRead(a) ==
    /\ At(a, "idle")
    /\ MoveTo(a, "find", [EmptyFrame EXCEPT !.price = price])
    /\ UNCHANGED <<price, payments, stripe, assessments, failures, incidents>>

\* LIMIT 1 without an order takes any of the pending rows.
FindPending(a) ==
    /\ At(a, "find")
    /\ LET pending == {p \in DOMAIN payments : payments[p].status = "pending"}
       IN  \/ pending = {} /\ Go(a, "insert")
           \/ \E p \in pending :
                 IF payments[p].amount = frame[a].price
                 THEN MoveTo(a, "intent", [EmptyFrame EXCEPT !.pay = p])
                 ELSE MoveTo(a, "retire", [frame[a] EXCEPT !.pay = p])
    /\ UNCHANGED <<price, payments, stripe, assessments, failures, incidents>>

\* The pending payment asks another price: it is given up for a new one.
RetirePayment(a) ==
    /\ At(a, "retire")
    /\ MarkFailed(frame[a].pay)
    /\ MoveTo(a, "insert", [frame[a] EXCEPT !.pay = NoPayment])
    /\ UNCHANGED <<price, stripe, assessments, failures, incidents>>

CreatePayment(a) ==
    /\ At(a, "insert")
    /\ payments' = Append(payments, NewPayment(frame[a].price))
    /\ stripe' = Append(stripe, NoIntent)
    /\ MoveTo(a, "intent", [EmptyFrame EXCEPT !.pay = Len(payments) + 1])
    /\ UNCHANGED <<price, assessments, failures, incidents>>

\* The same key gives the same intent back, or is refused when the parameters
\* differ from the first request's or that request is still in progress.
CreateIntent(a) ==
    /\ At(a, "intent")
    /\ LET p == frame[a].pay
       IN  \/ /\ stripe' = IF stripe[p].intent = "none"
                           THEN [stripe EXCEPT ![p].intent = "open"]
                           ELSE stripe
              /\ Go(a, "store")
           \/ /\ stripe[p].intent # "none"
              /\ UNCHANGED stripe
              /\ Go(a, "markFailed")
    /\ UNCHANGED <<price, payments, assessments, failures, incidents>>

StoreIntent(a) ==
    /\ At(a, "store")
    /\ Write(frame[a].pay, [payments[frame[a].pay] EXCEPT !.intent = TRUE])
    /\ Go(a, "done")
    /\ UNCHANGED <<price, stripe, assessments, failures, incidents>>

\* The catch clause.
FailPayment(a) ==
    /\ At(a, "markFailed")
    /\ MarkFailed(frame[a].pay)
    /\ Go(a, "done")
    /\ UNCHANGED <<price, stripe, assessments, failures, incidents>>

-----------------------------------------------------------------------------
(* PaymentService.confirmStripePayment and testConfirmPayment *)

ConfirmRead(a) ==
    /\ At(a, "idle")
    /\ \E p \in DOMAIN payments :
          /\ payments[p].intent
          /\ MoveTo(a, "confirm", [EmptyFrame EXCEPT !.pay = p, !.settled = Settled(p)])
    /\ UNCHANGED <<price, payments, stripe, assessments, failures, incidents>>

\* What Stripe does to an intent, and the event it sends about it.
Send(p, intent, k) ==
    stripe' = [stripe EXCEPT ![p].intent = intent, ![p].event[k] = "sent"]

\* A declined attempt leaves the intent open.
Decline(p) ==
    /\ stripe[p].intent = "open" /\ failures + incidents < MaxTroubles
    /\ stripe[p].event["payment_failed"] \in {"none", "done"}
    /\ Send(p, "open", "payment_failed")
    /\ incidents' = incidents + 1

ConfirmIntentUnchecked(a) ==   \* a variant: the status Stripe answers is ignored
    /\ At(a, "confirm")
    /\ \/ stripe[frame[a].pay].intent = "open" /\ Send(frame[a].pay, "succeeded", "succeeded")
       \/ UNCHANGED stripe
    /\ Go(a, "pay")
    /\ UNCHANGED <<price, payments, assessments, failures, incidents>>

\* Stripe captures the money, asks for an action of the card's holder, declines,
\* or refuses because the intent is no longer open.
ConfirmIntent(a) ==
    /\ At(a, "confirm")
    /\ LET p == frame[a].pay
       IN  \/ /\ stripe[p].intent = "open"
              /\ Go(a, IF frame[a].settled THEN "done" ELSE "pay")
              /\ Send(p, "succeeded", "succeeded")
              /\ UNCHANGED incidents
           \/ Decline(p) /\ Go(a, "done")
           \/ Go(a, "done") /\ UNCHANGED <<stripe, incidents>>
    /\ UNCHANGED <<price, payments, assessments, failures>>

ConfirmWrite(a) ==
    /\ At(a, "pay")
    /\ Complete(frame[a].pay, "charge")
    /\ Go(a, "done")
    /\ UNCHANGED <<price, stripe, assessments, failures, incidents>>

-----------------------------------------------------------------------------
(* PaymentService.confirmPayment, an admin's manual confirmation *)

AdminRead(a) ==
    /\ At(a, "idle")
    /\ \E p \in DOMAIN payments :
          /\ ~payments[p].paid /\ payments[p].status # "failed"
          /\ MoveTo(a, "adminPay", [EmptyFrame EXCEPT !.pay = p])
    /\ UNCHANGED <<price, payments, stripe, assessments, failures, incidents>>

AdminConfirm(a) ==
    /\ At(a, "adminPay")
    /\ Complete(frame[a].pay, "manual")
    /\ Go(a, "done")
    /\ UNCHANGED <<price, stripe, assessments, failures, incidents>>

-----------------------------------------------------------------------------
(* AssessmentService.createAssessment, for a self-disclosure *)

VerifyPaymentUnpaid(a) ==   \* a variant: only a failed payment is refused
    /\ At(a, "idle")
    /\ \E p \in DOMAIN payments :
          /\ payments[p].status # "failed"
          /\ MoveTo(a, "existing", [EmptyFrame EXCEPT !.pay = p])
    /\ UNCHANGED <<price, payments, stripe, assessments, failures, incidents>>

VerifyPayment(a) ==
    /\ At(a, "idle")
    /\ \E p \in DOMAIN payments :
          /\ Settled(p)
          /\ MoveTo(a, "existing", [EmptyFrame EXCEPT !.pay = p])
    /\ UNCHANGED <<price, payments, stripe, assessments, failures, incidents>>

FindExisting(a) ==
    /\ At(a, "existing")
    /\ IF \E i \in DOMAIN assessments : assessments[i] = frame[a].pay
       THEN Go(a, "done") ELSE Go(a, "insertAsmt")
    /\ UNCHANGED <<price, payments, stripe, assessments, failures, incidents>>

CreateAssessment(a) ==
    /\ At(a, "insertAsmt")
    /\ assessments' = Append(assessments, frame[a].pay)
    /\ Go(a, "done")
    /\ UNCHANGED <<price, payments, stripe, failures, incidents>>
-----------------------------------------------------------------------------
(* StripeWebhookService.  The route answers 200 before the handler has read   *)
(* the row, so that Stripe never sends an event again because it was lost.    *)

\* findPaymentById(metadata.paymentId) for the intent's events,
\* findPaymentByTransactionId for those of a charge.
IntentEvents == {"succeeded", "payment_failed", "canceled"}

Finds(p, k) == k \in IntentEvents \/ payments[p].txn = "charge"

DeliverPendingOnly(p, k) ==   \* a variant: a success only settles a pending payment
    /\ stripe[p].event[k] = "sent"
    /\ stripe' = [stripe EXCEPT ![p].event[k] =
          IF Finds(p, k) /\ (k = "succeeded" => payments[p].status = "pending")
          THEN "found" ELSE "done"]
    /\ UNCHANGED <<price, payments, assessments, pc, frame, failures, incidents>>

\* A success is skipped when the payment is paid and completed already.
Deliver(p, k) ==
    /\ stripe[p].event[k] = "sent"
    /\ stripe' = [stripe EXCEPT ![p].event[k] =
          IF Finds(p, k) /\ ~(k = "succeeded" /\ Settled(p)) THEN "found" ELSE "done"]
    /\ UNCHANGED <<price, payments, assessments, pc, frame, failures, incidents>>

\* Stripe delivers at least once.
Duplicate(p, k) ==
    /\ stripe[p].event[k] = "done" /\ failures + incidents < MaxTroubles
    /\ stripe' = [stripe EXCEPT ![p].event[k] = "sent"]
    /\ incidents' = incidents + 1
    /\ UNCHANGED <<price, payments, assessments, pc, frame, failures>>

HandleRefundFlagOnly(p, k) ==   \* a variant: a refund leaves the status alone
    /\ stripe[p].event[k] = "found"
    /\ CASE k = "succeeded" -> Complete(p, "charge")
         [] k \in {"payment_failed", "canceled"} -> Unpay(p, "failed")
         [] k \in {"refunded", "partially_refunded"} -> Unpay(p, payments[p].status)
         [] OTHER -> Write(p, [payments[p] EXCEPT !.status = "disputed"])
    /\ stripe' = [stripe EXCEPT ![p].event[k] = "done"]
    /\ UNCHANGED <<price, assessments, pc, frame, failures, incidents>>

\* The one UPDATE of each handler.
Handle(p, k) ==
    /\ stripe[p].event[k] = "found"
    /\ CASE k = "succeeded" -> Complete(p, "charge")
         [] k \in {"payment_failed", "canceled"} -> Unpay(p, "failed")
         [] k \in {"refunded", "partially_refunded"} -> Unpay(p, k)
         [] OTHER -> Write(p, [payments[p] EXCEPT !.status = "disputed"])
    /\ stripe' = [stripe EXCEPT ![p].event[k] = "done"]
    /\ UNCHANGED <<price, assessments, pc, frame, failures, incidents>>

-----------------------------------------------------------------------------
(* The surroundings: Stripe, the admin who sets the price, and failures.     *)

\* The customer confirms with Stripe.js, or completes the action asked for.
PayOnline(p) ==
    /\ stripe[p].intent = "open"
    /\ Send(p, "succeeded", "succeeded")
    /\ UNCHANGED <<price, payments, assessments, pc, frame, failures, incidents>>

DeclineOnline(p) ==
    /\ Decline(p)
    /\ UNCHANGED <<price, payments, assessments, pc, frame, failures>>

\* An intent is canceled, a charge refunded or disputed, from Stripe's dashboard.
Incident(p, k) ==
    /\ failures + incidents < MaxTroubles /\ stripe[p].event[k] = "none"
    /\ \/ k = "canceled" /\ stripe[p].intent = "open" /\ Send(p, "canceled", k)
       \/ /\ k \in {"refunded", "partially_refunded", "disputed"}
          /\ stripe[p].intent = "succeeded" /\ Send(p, "succeeded", k)
    /\ incidents' = incidents + 1
    /\ UNCHANGED <<price, payments, assessments, pc, frame, failures>>

UpdateCertificate ==
    /\ failures + incidents < MaxTroubles
    /\ \E new \in Prices \ {price} : price' = new
    /\ incidents' = incidents + 1
    /\ UNCHANGED <<payments, stripe, assessments, pc, frame, failures>>

\* A failing call throws.  Creating the intent may fail on either side of
\* Stripe's work; from there to the end the catch clause is due.
RequestFault(a) ==
    /\ failures + incidents < MaxTroubles /\ pc[a] \in Steps
    /\ failures' = failures + 1
    /\ \/ pc[a] \notin {"intent", "store"} /\ Go(a, "done") /\ UNCHANGED stripe
       \/ /\ At(a, "intent") /\ Go(a, "markFailed")
          /\ \/ UNCHANGED stripe
             \/ stripe[frame[a].pay].intent = "none"
                /\ stripe' = [stripe EXCEPT ![frame[a].pay].intent = "open"]
       \/ At(a, "store") /\ Go(a, "markFailed") /\ UNCHANGED stripe
    /\ UNCHANGED <<price, payments, assessments, incidents>>

\* The error of a handler is only logged: the event is lost.
HandlerFault(p, k) ==
    /\ failures + incidents < MaxTroubles /\ stripe[p].event[k] \in {"sent", "found"}
    /\ failures' = failures + 1
    /\ stripe' = [stripe EXCEPT ![p].event[k] = "done"]
    /\ UNCHANGED <<price, payments, assessments, pc, frame, incidents>>

\* The process dies and restarts: requests and handlers in flight are lost.
Crash ==
    /\ failures + incidents < MaxTroubles
    /\ failures' = failures + 1
    /\ pc' = [a \in Actors |-> IF pc[a] = "idle" THEN "idle" ELSE "done"]
    /\ frame' = [a \in Actors |-> EmptyFrame]
    /\ stripe' = [p \in DOMAIN stripe |-> [stripe[p] EXCEPT !.event =
          [k \in Kinds |-> IF stripe[p].event[k] = "found" THEN "done"
                           ELSE stripe[p].event[k]]]]
    /\ UNCHANGED <<price, payments, assessments, incidents>>

-----------------------------------------------------------------------------
Init ==
    /\ price \in Prices
    /\ payments = <<>> /\ stripe = <<>> /\ assessments = <<>>
    /\ pc = [a \in Actors |-> "idle"]
    /\ frame = [a \in Actors |-> EmptyFrame]
    /\ failures = 0 /\ incidents = 0

Start(a) ==
    \/ a \in Creators /\ CreateRead(a)
    \/ a \in Confirmers /\ ConfirmRead(a)
    \/ a \in Admins /\ AdminRead(a)
    \/ a \in Assessors /\ VerifyPayment(a)

Continue(a) ==
    \/ FindPending(a) \/ RetirePayment(a) \/ CreatePayment(a)
    \/ CreateIntent(a) \/ StoreIntent(a) \/ FailPayment(a)
    \/ ConfirmIntent(a) \/ ConfirmWrite(a) \/ AdminConfirm(a)
    \/ FindExisting(a) \/ CreateAssessment(a)

Webhook(p, k) == p \in DOMAIN stripe /\ (Deliver(p, k) \/ Handle(p, k))

OfStripe(p) ==
    \/ PayOnline(p) \/ DeclineOnline(p)
    \/ \E k \in Kinds : Incident(p, k) \/ Duplicate(p, k)

Next ==
    \/ \E a \in Actors : Start(a) \/ Continue(a) \/ RequestFault(a)
    \/ \E p \in DOMAIN stripe :
          OfStripe(p) \/ \E k \in Kinds : Webhook(p, k) \/ HandlerFault(p, k)
    \/ UpdateCertificate \/ Crash

Spec == Init /\ [][Next]_vars

\* Stripe goes on delivering what it has sent and the event loop runs the
\* handlers; no request has to be sent or finished, and nobody has to pay.
Fairness ==
    \A p \in 1..Cardinality(Creators) : WF_vars(\E k \in Kinds : Webhook(p, k))

FairSpec == Spec /\ Fairness

-----------------------------------------------------------------------------
(* Properties *)

TypeOK ==
    /\ price \in Prices
    /\ payments \in Seq(PaymentRows)
    /\ stripe \in Seq(StripeRows)
    /\ assessments \in Seq(Nat)
    /\ pc \in [Actors -> Labels]
    /\ frame \in [Actors -> Frames]
    /\ failures \in Nat /\ incidents \in Nat

\* is_paid is never set without a reason: Stripe has captured the money or an
\* admin has vouched for it, whichever of the seven writers of the row came
\* last and however old the row it had read (every UPDATE is by id alone).
PaidForReason ==
    \A p \in DOMAIN payments :
        payments[p].paid => stripe[p].intent = "succeeded" \/ payments[p].txn = "manual"

\* status and is_paid, two columns that every reader combines in its own way,
\* agree as far as a reader may rely on: completed implies paid, and a payment
\* that is pending or refunded is not paid (a failed or disputed one may be).
StatusAgrees ==
    \A p \in DOMAIN payments :
        /\ payments[p].status = "completed" => payments[p].paid
        /\ payments[p].status \in {"pending", "refunded", "partially_refunded"} =>
              ~payments[p].paid

\* Every assessment was paid for, although the payment is verified several
\* calls before the row is inserted and may be refunded or failed in between
\* (verifyPaymentForAssessment, createAssessment).
AssessmentsPaidFor ==
    \A i \in DOMAIN assessments :
        LET p == assessments[i]
        IN  /\ p \in DOMAIN payments
            /\ stripe[p].intent = "succeeded" \/ payments[p].txn = "manual"

\* A captured payment becomes usable: once Stripe has sent its success, the row
\* gets to be paid and completed, whatever a failed creation, a price change or
\* another event wrote on it before; unless a call fails, for by then the event
\* has been acknowledged and is not sent again.
SuccessArrives ==
    \A p \in 1..Cardinality(Creators) :
        (p \in DOMAIN stripe /\ stripe[p].event["succeeded"] = "sent")
            ~> (failures > 0 \/ (p \in DOMAIN payments /\ Settled(p)))

Quiet ==
    /\ \A a \in Actors : pc[a] \in {"idle", "done"}
    /\ \A p \in DOMAIN stripe, k \in Kinds : stripe[p].event[k] \in {"none", "done"}

\* The documentation of POST create-intent: the webhook confirms the final
\* payment status.
FinalStatus ==
    Quiet /\ failures = 0 =>
        \A p \in DOMAIN payments :
            /\ stripe[p].intent = "succeeded"
            /\ \A k \in Kinds \ IntentEvents : stripe[p].event[k] = "none"
            => Settled(p)
=============================================================================
