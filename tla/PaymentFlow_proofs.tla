-------------------------- MODULE PaymentFlow_proofs --------------------------
(***************************************************************************)
(* Proofs about the payments, for any number of requests, prices, failures *)
(* and incidents: type correctness, that nothing is paid or assessed        *)
(* without a reason, and that the two columns of a payment agree.           *)
(***************************************************************************)
EXTENDS PaymentFlow, SequenceTheorems, TLAPS

-----------------------------------------------------------------------------
(* The inductive invariant *)

\* A payment and its intent: PaidForReason and StatusAgrees, row by row, and
\* Stripe speaks of a success only after one.
GoodRow(row, st) ==
    /\ row.paid => st.intent = "succeeded" \/ row.txn = "manual"
    /\ row.status = "completed" => row.paid
    /\ row.status \in {"pending", "refunded", "partially_refunded"} => ~row.paid
    /\ st.event["succeeded"] # "none" => st.intent = "succeeded"

RowsInv ==
    /\ payments \in Seq(PaymentRows)
    /\ stripe \in Seq(StripeRows)
    /\ Len(stripe) = Len(payments)
    /\ \A p \in DOMAIN payments : GoodRow(payments[p], stripe[p])

Reason(p) ==
    p \in DOMAIN payments /\ (stripe[p].intent = "succeeded" \/ payments[p].txn = "manual")

\* The same after the step.
ReasonNext(p) ==
    p \in DOMAIN payments' /\ (stripe'[p].intent = "succeeded" \/ payments'[p].txn = "manual")

\* What a request has established when it gets to a step.
Bound == {"retire", "intent", "store", "markFailed", "confirm", "pay", "adminPay"}
Justified(a) ==
    /\ pc[a] \in Bound => frame[a].pay \in DOMAIN payments
    /\ pc[a] = "pay" => stripe[frame[a].pay].intent = "succeeded"
    /\ pc[a] \in {"existing", "insertAsmt"} => Reason(frame[a].pay)

\* PaidForReason and AssessmentsPaidFor are not inductive without Justified: a
\* request writes on what it established at an earlier step.
IInv ==
    /\ TypeOK /\ RowsInv
    /\ \A a \in Actors : Justified(a)
    /\ \A i \in DOMAIN assessments : Reason(assessments[i])

-----------------------------------------------------------------------------
(* What a step may do to the rows *)

\* A reason once there is there for good.
RowsStep ==
    /\ RowsInv'
    /\ DOMAIN payments \subseteq DOMAIN payments'
    /\ \A p \in DOMAIN payments :
          /\ stripe[p].intent = "succeeded" => stripe'[p].intent = "succeeded"
          /\ Reason(p) => ReasonNext(p)

\* The intent of a row stays captured, and an admin's reference gives way only
\* to the charge of a captured intent.
Keeps(row, st, newRow, newSt) ==
    /\ st.intent = "succeeded" => newSt.intent = "succeeded"
    /\ row.txn = "manual" => newRow.txn = "manual" \/ newSt.intent = "succeeded"

LEMMA Rows ==
    ASSUME RowsInv
    PROVE  /\ Len(payments) \in Nat
           /\ DOMAIN payments = 1..Len(payments) /\ DOMAIN stripe = DOMAIN payments
           /\ payments \in [DOMAIN payments -> PaymentRows]
           /\ stripe \in [DOMAIN payments -> StripeRows]
BY LenProperties DEF RowsInv

LEMMA RowByRow ==
    ASSUME NEW S, NEW s \in Seq(S), NEW t \in [DOMAIN s -> S]
    PROVE  t \in Seq(S) /\ DOMAIN t = DOMAIN s /\ Len(t) = Len(s)
<1>1. Len(s) \in Nat /\ DOMAIN s = 1..Len(s)
  BY LenProperties
<1>2. t \in [1..Len(s) -> S]
  BY <1>1
<1>3. t \in Seq(S)
  BY <1>1, <1>2, SeqDef
<1>4. Len(t) \in Nat /\ DOMAIN t = 1..Len(t)
  BY <1>3, LenProperties
<1>5. DOMAIN t = 1..Len(s)
  BY <1>2
<1>6. Len(t) = Len(s)
  BY <1>1, <1>4, <1>5
<1> QED BY <1>1, <1>3, <1>5, <1>6

\* Rows written in place, each keeping what it stands for.
LEMMA RowsWritten ==
    ASSUME RowsInv,
           payments' \in [DOMAIN payments -> PaymentRows],
           stripe' \in [DOMAIN payments -> StripeRows],
           \A p \in DOMAIN payments :
              /\ GoodRow(payments'[p], stripe'[p])
              /\ Keeps(payments[p], stripe[p], payments'[p], stripe'[p])
    PROVE  RowsStep
<1>1. payments \in Seq(PaymentRows) /\ stripe \in Seq(StripeRows)
      /\ DOMAIN stripe = DOMAIN payments /\ Len(stripe) = Len(payments)
  BY Rows DEF RowsInv
<1>2. payments' \in Seq(PaymentRows) /\ DOMAIN payments' = DOMAIN payments
      /\ Len(payments') = Len(payments)
  BY <1>1, RowByRow
<1>3. stripe' \in Seq(StripeRows) /\ Len(stripe') = Len(stripe)
  BY <1>1, RowByRow
<1>4. RowsInv'
  BY <1>1, <1>2, <1>3 DEF RowsInv
<1>5. \A p \in DOMAIN payments : Reason(p) => ReasonNext(p)
  BY <1>2 DEF Reason, ReasonNext, Keeps
<1> QED BY <1>2, <1>4, <1>5 DEF RowsStep, Keeps

LEMMA Nothing ==
    ASSUME RowsInv, UNCHANGED <<payments, stripe>>
    PROVE  RowsStep
BY DEF RowsInv, RowsStep, Reason, ReasonNext, GoodRow

\* The UPDATE of one payment.
LEMMA PaymentWritten ==
    ASSUME RowsInv, NEW p \in DOMAIN payments, NEW row \in PaymentRows,
           Write(p, row), UNCHANGED stripe,
           GoodRow(row, stripe[p]), Keeps(payments[p], stripe[p], row, stripe[p])
    PROVE  RowsStep
<1>1. payments \in [DOMAIN payments -> PaymentRows] /\ stripe \in [DOMAIN payments -> StripeRows]
  BY Rows
<1>2. payments' \in [DOMAIN payments -> PaymentRows]
  BY <1>1 DEF Write
<1>3. \A q \in DOMAIN payments : payments'[q] = IF q = p THEN row ELSE payments[q]
  BY <1>1 DEF Write
<1>4. \A q \in DOMAIN payments :
         /\ GoodRow(payments'[q], stripe'[q])
         /\ Keeps(payments[q], stripe[q], payments'[q], stripe'[q])
  BY <1>3 DEF RowsInv, Keeps
<1> QED BY <1>1, <1>2, <1>4, RowsWritten

\* What happens to one intent and its events.
LEMMA IntentMoved ==
    ASSUME RowsInv, NEW p \in DOMAIN payments, NEW st \in StripeRows,
           stripe' = [stripe EXCEPT ![p] = st], UNCHANGED payments,
           GoodRow(payments[p], st), stripe[p].intent = "succeeded" => st.intent = "succeeded"
    PROVE  RowsStep
<1>1. payments \in [DOMAIN payments -> PaymentRows] /\ stripe \in [DOMAIN payments -> StripeRows]
  BY Rows
<1>2. stripe' \in [DOMAIN payments -> StripeRows]
  BY <1>1
<1>3. \A q \in DOMAIN payments : stripe'[q] = IF q = p THEN st ELSE stripe[q]
  BY <1>1
<1>4. \A q \in DOMAIN payments :
         /\ GoodRow(payments'[q], stripe'[q])
         /\ Keeps(payments[q], stripe[q], payments'[q], stripe'[q])
  BY <1>3 DEF RowsInv, Keeps
<1> QED BY <1>1, <1>2, <1>4, RowsWritten

-----------------------------------------------------------------------------
(* What a step may do to the requests *)

RequestsInv ==
    /\ pc \in [Actors -> Labels] /\ frame \in [Actors -> Frames]
    /\ \A a \in Actors : Justified(a)

\* A request may come to step l with the locals f.
Arrives(l, f) ==
    /\ l \in Bound => f.pay \in DOMAIN payments'
    /\ l = "pay" => stripe'[f.pay].intent = "succeeded"
    /\ l \in {"existing", "insertAsmt"} => ReasonNext(f.pay)

LEMMA Waits ==
    ASSUME IInv, RowsStep, NEW a \in Actors, pc'[a] = pc[a], frame'[a] = frame[a]
    PROVE  Justified(a)'
<1>1. Justified(a)
  BY DEF IInv
<1>2. pc[a] = "pay" => pc[a] \in Bound
  BY DEF Bound
<1>3. /\ \A p \in DOMAIN payments : p \in DOMAIN payments'
      /\ \A p \in DOMAIN payments :
            stripe[p].intent = "succeeded" => stripe'[p].intent = "succeeded"
      /\ \A p : Reason(p) => ReasonNext(p)
  BY DEF RowsStep, Reason
<1>4. pc[a] \in Bound => frame'[a].pay \in DOMAIN payments'
  BY <1>1, <1>3 DEF Justified
<1>5. pc[a] = "pay" => stripe'[frame'[a].pay].intent = "succeeded"
  BY <1>1, <1>2, <1>3 DEF Justified
<1>6. pc[a] \in {"existing", "insertAsmt"} => ReasonNext(frame'[a].pay)
  BY <1>1, <1>3 DEF Justified
<1> QED BY <1>4, <1>5, <1>6 DEF Justified, Reason, ReasonNext

LEMMA AllWait ==
    ASSUME IInv, RowsStep, UNCHANGED <<pc, frame>>
    PROVE  RequestsInv'
<1>1. pc' \in [Actors -> Labels] /\ frame' \in [Actors -> Frames]
  BY DEF IInv, TypeOK
<1>2. \A a \in Actors : Justified(a)'
  BY Waits
<1> QED BY <1>1, <1>2 DEF RequestsInv

LEMMA OneMoves ==
    ASSUME IInv, RowsStep, NEW a \in Actors, NEW l \in Labels, NEW f \in Frames,
           MoveTo(a, l, f), Arrives(l, f)
    PROVE  RequestsInv'
<1>1. pc \in [Actors -> Labels] /\ frame \in [Actors -> Frames]
  BY DEF IInv, TypeOK
<1>2. pc' \in [Actors -> Labels] /\ frame' \in [Actors -> Frames]
  BY <1>1 DEF MoveTo
<1>3. pc'[a] = l /\ frame'[a] = f
  BY <1>1 DEF MoveTo
<1>4. Justified(a)'
  BY <1>3 DEF Arrives, Justified, Reason, ReasonNext
<1>5. ASSUME NEW b \in Actors, b # a
      PROVE  Justified(b)'
  <2>1. pc'[b] = pc[b] /\ frame'[b] = frame[b]
    BY <1>1, <1>5 DEF MoveTo
  <2> QED BY <2>1, Waits
<1> QED BY <1>2, <1>4, <1>5 DEF RequestsInv

LEMMA Blank == EmptyFrame \in Frames
BY PaymentBounds DEF EmptyFrame, Frames, NoPayment

\* A request that goes on with its locals, or ends without them.
LEMMA OneGoes ==
    ASSUME IInv, RowsStep, NEW a \in Actors, NEW l \in Labels, Go(a, l),
           l # "done" => Arrives(l, frame[a])
    PROVE  RequestsInv'
<1>1. frame[a] \in Frames
  BY DEF IInv, TypeOK
<1>2. CASE l = "done"
  <2>1. MoveTo(a, l, EmptyFrame)
    BY <1>2 DEF Go
  <2>2. Arrives(l, EmptyFrame)
    BY <1>2 DEF Arrives, Bound
  <2> QED BY <2>1, <2>2, Blank, OneMoves
<1>3. CASE l # "done"
  <2>1. MoveTo(a, l, frame[a])
    BY <1>3 DEF Go
  <2> QED BY <1>1, <1>3, <2>1, OneMoves
<1> QED BY <1>2, <1>3

LEMMA OneEnds ==
    ASSUME IInv, RowsStep, NEW a \in Actors, Go(a, "done")
    PROVE  RequestsInv'
BY OneGoes DEF Labels

\* The step of a request, a handler or Stripe, in order.
AssessmentsStep ==
    \/ assessments' = assessments
    \/ \E p \in Nat : ReasonNext(p) /\ assessments' = Append(assessments, p)

Orderly ==
    /\ RowsStep /\ RequestsInv' /\ AssessmentsStep
    /\ price' \in Prices /\ failures' \in Nat /\ incidents' \in Nat

LEMMA OrderlyKeeps ==
    ASSUME IInv, Orderly
    PROVE  IInv'
<1>1. assessments \in Seq(Nat) /\ Len(assessments) \in Nat
      /\ DOMAIN assessments = 1..Len(assessments)
  BY LenProperties DEF IInv, TypeOK
<1>2. \A p : Reason(p) => ReasonNext(p)
  BY DEF Orderly, RowsStep, Reason
<1>3. assessments' \in Seq(Nat) /\ \A i \in DOMAIN assessments' : ReasonNext(assessments'[i])
  <2>1. CASE assessments' = assessments
    BY <1>1, <1>2, <2>1 DEF IInv
  <2>2. ASSUME NEW p \in Nat, ReasonNext(p), assessments' = Append(assessments, p)
        PROVE  assessments' \in Seq(Nat)
               /\ \A i \in DOMAIN assessments' : ReasonNext(assessments'[i])
    <3>1. /\ assessments' \in Seq(Nat)
          /\ Len(assessments') = Len(assessments) + 1
          /\ \A i \in 1..Len(assessments) : assessments'[i] = assessments[i]
          /\ assessments'[Len(assessments) + 1] = p
      BY <1>1, <2>2, AppendProperties
    <3>2. DOMAIN assessments' = 1..(Len(assessments) + 1)
      BY <3>1, LenProperties
    <3>3. ASSUME NEW i \in DOMAIN assessments'
          PROVE  ReasonNext(assessments'[i])
      <4>1. CASE i \in 1..Len(assessments)
        <5>1. Reason(assessments[i])
          BY <1>1, <4>1 DEF IInv
        <5> QED BY <1>2, <3>1, <4>1, <5>1
      <4>2. CASE i = Len(assessments) + 1
        BY <2>2, <3>1, <4>2
      <4> QED BY <1>1, <3>2, <4>1, <4>2
    <3> QED BY <3>1, <3>3
  <2> QED BY <2>1, <2>2 DEF Orderly, AssessmentsStep
<1>4. TypeOK'
  BY <1>3 DEF Orderly, RowsStep, RowsInv, RequestsInv, TypeOK
<1> QED BY <1>3, <1>4 DEF Orderly, RowsStep, RequestsInv, IInv, Reason, ReasonNext

\* What a step leaves alone.
LEMMA Surroundings ==
    ASSUME IInv
    PROVE  /\ UNCHANGED assessments => AssessmentsStep
           /\ UNCHANGED price => price' \in Prices
           /\ UNCHANGED failures => failures' \in Nat
           /\ UNCHANGED incidents => incidents' \in Nat
           /\ failures + 1 \in Nat /\ incidents + 1 \in Nat
BY DEF IInv, TypeOK, AssessmentsStep

-----------------------------------------------------------------------------
(* The UPDATEs and Stripe's moves keep the rows *)

LEMMA OneRow ==
    ASSUME IInv, NEW p \in DOMAIN payments
    PROVE  /\ payments[p] \in PaymentRows /\ stripe[p] \in StripeRows
           /\ GoodRow(payments[p], stripe[p]) /\ p \in Nat /\ p \in DOMAIN stripe
           /\ RowsInv
<1>1. RowsInv
  BY DEF IInv
<1> QED BY <1>1, Rows DEF RowsInv

LEMMA FailedWritten ==
    ASSUME IInv, NEW p \in DOMAIN payments, MarkFailed(p), UNCHANGED stripe
    PROVE  RowsStep
<1> DEFINE row == [payments[p] EXCEPT !.status = "failed"]
<1>1. row \in PaymentRows
  BY OneRow DEF PaymentRows, Statuses
<1>2. GoodRow(row, stripe[p]) /\ Keeps(payments[p], stripe[p], row, stripe[p])
  BY OneRow DEF PaymentRows, GoodRow, Keeps
<1>3. Write(p, row)
  BY DEF MarkFailed
<1> HIDE DEF row
<1> QED BY <1>1, <1>2, <1>3, OneRow, PaymentWritten

LEMMA CompletedWritten ==
    ASSUME IInv, NEW p \in DOMAIN payments, NEW txn \in {"charge", "manual"},
           Complete(p, txn), UNCHANGED stripe,
           txn = "charge" => stripe[p].intent = "succeeded"
    PROVE  RowsStep
<1> DEFINE row == [payments[p] EXCEPT !.status = "completed", !.paid = TRUE, !.txn = txn]
<1>1. row \in PaymentRows
  BY OneRow DEF PaymentRows, Statuses
<1>2. GoodRow(row, stripe[p]) /\ Keeps(payments[p], stripe[p], row, stripe[p])
  BY OneRow DEF PaymentRows, GoodRow, Keeps
<1>3. Write(p, row)
  BY DEF Complete
<1> HIDE DEF row
<1> QED BY <1>1, <1>2, <1>3, OneRow, PaymentWritten

LEMMA IntentStored ==
    ASSUME IInv, NEW p \in DOMAIN payments,
           Write(p, [payments[p] EXCEPT !.intent = TRUE]), UNCHANGED stripe
    PROVE  RowsStep
<1> DEFINE row == [payments[p] EXCEPT !.intent = TRUE]
<1>1. row \in PaymentRows
  BY OneRow DEF PaymentRows
<1>2. GoodRow(row, stripe[p]) /\ Keeps(payments[p], stripe[p], row, stripe[p])
  BY OneRow DEF PaymentRows, GoodRow, Keeps
<1> HIDE DEF row
<1>3. Write(p, row)
  BY DEF row
<1> QED BY <1>1, <1>2, <1>3, OneRow, PaymentWritten

Marks == {"none", "sent", "found", "done"}

LEMMA Sent ==
    ASSUME IInv, NEW p \in DOMAIN payments, NEW k \in Kinds, NEW intent \in IntentStates,
           Send(p, intent, k), UNCHANGED payments,
           stripe[p].intent = "succeeded" => intent = "succeeded",
           k = "succeeded" => intent = "succeeded"
    PROVE  RowsStep /\ stripe'[p].intent = intent
<1> DEFINE st == [stripe[p] EXCEPT !.intent = intent, !.event[k] = "sent"]
<1>1. st \in StripeRows /\ st.intent = intent
  BY OneRow DEF StripeRows
<1>2. st.event["succeeded"] = IF k = "succeeded" THEN "sent" ELSE stripe[p].event["succeeded"]
  BY OneRow DEF StripeRows, Kinds
<1>3. stripe' = [stripe EXCEPT ![p] = st]
  BY OneRow DEF Send, StripeRows
<1> HIDE DEF st
<1>4. GoodRow(payments[p], st)
  BY <1>1, <1>2, OneRow DEF GoodRow
<1>5. stripe'[p] = st
  BY <1>3, OneRow
<1> QED BY <1>1, <1>3, <1>4, <1>5, OneRow, IntentMoved

LEMMA Marked ==
    ASSUME IInv, NEW p \in DOMAIN payments, NEW k \in Kinds, NEW mark \in Marks,
           stripe' = [stripe EXCEPT ![p].event[k] = mark], UNCHANGED payments,
           stripe[p].event[k] # "none"
    PROVE  RowsStep
<1> DEFINE st == [stripe[p] EXCEPT !.event[k] = mark]
<1>1. st \in StripeRows /\ st.intent = stripe[p].intent
  BY OneRow DEF StripeRows, Marks
<1>2. st.event["succeeded"] = IF k = "succeeded" THEN mark ELSE stripe[p].event["succeeded"]
  BY OneRow DEF StripeRows, Kinds
<1>3. stripe' = [stripe EXCEPT ![p] = st]
  BY OneRow
<1> HIDE DEF st
<1>4. GoodRow(payments[p], st)
  BY <1>1, <1>2, OneRow DEF GoodRow
<1> QED BY <1>1, <1>3, <1>4, OneRow, IntentMoved

LEMMA IntentOpened ==
    ASSUME IInv, NEW p \in DOMAIN payments, stripe[p].intent = "none",
           stripe' = [stripe EXCEPT ![p].intent = "open"], UNCHANGED payments
    PROVE  RowsStep
<1> DEFINE st == [stripe[p] EXCEPT !.intent = "open"]
<1>1. st \in StripeRows
  BY OneRow DEF StripeRows, IntentStates
<1>2. GoodRow(payments[p], st)
  BY OneRow DEF StripeRows, GoodRow
<1>3. stripe' = [stripe EXCEPT ![p] = st]
  BY OneRow
<1> HIDE DEF st
<1> QED BY <1>1, <1>2, <1>3, OneRow, IntentMoved

\* The UPDATE of a handler and the end of its event, in one step.
LEMMA Handled ==
    ASSUME IInv, NEW p \in DOMAIN payments, NEW k \in Kinds, Handle(p, k)
    PROVE  RowsStep
<1> DEFINE old == payments[p]
           row == IF k = "succeeded"
                  THEN [old EXCEPT !.status = "completed", !.paid = TRUE, !.txn = "charge"]
                  ELSE IF k \in {"payment_failed", "canceled"}
                       THEN [old EXCEPT !.status = "failed", !.paid = FALSE]
                       ELSE IF k \in {"refunded", "partially_refunded"}
                            THEN [old EXCEPT !.status = k, !.paid = FALSE]
                            ELSE [old EXCEPT !.status = "disputed"]
           st == [stripe[p] EXCEPT !.event[k] = "done"]
<1>1. /\ old \in PaymentRows /\ stripe[p] \in StripeRows /\ GoodRow(old, stripe[p])
      /\ p \in DOMAIN stripe /\ RowsInv
  BY OneRow
<1>2. k = "succeeded" => stripe[p].intent = "succeeded"
  BY <1>1 DEF Handle, GoodRow
<1>3. row \in PaymentRows
  BY <1>1 DEF PaymentRows, Statuses, Kinds
<1>4. st \in StripeRows /\ st.intent = stripe[p].intent
  BY <1>1 DEF StripeRows
<1>5. st.event["succeeded"] # "none" => st.intent = "succeeded"
  BY <1>1, <1>2 DEF StripeRows, Kinds, GoodRow
<1>6. GoodRow(row, st) /\ Keeps(old, stripe[p], row, st)
  <2>1. /\ row.paid => st.intent = "succeeded" \/ row.txn = "manual"
        /\ row.status = "completed" => row.paid
        /\ row.status \in {"pending", "refunded", "partially_refunded"} => ~row.paid
    BY <1>1, <1>2, <1>4 DEF PaymentRows, GoodRow, Kinds
  <2>2. Keeps(old, stripe[p], row, st)
    BY <1>1, <1>2, <1>4 DEF PaymentRows, Keeps
  <2> QED BY <1>5, <2>1, <2>2 DEF GoodRow
<1>7. Write(p, row)
  BY DEF Handle, Complete, Unpay, Write, Kinds
<1>8. stripe' = [stripe EXCEPT ![p] = st]
  BY <1>1 DEF Handle
<1> HIDE DEF row, st
<1>9. /\ payments \in [DOMAIN payments -> PaymentRows] /\ stripe \in [DOMAIN payments -> StripeRows]
      /\ payments' = [payments EXCEPT ![p] = row]
  BY <1>1, <1>7, Rows DEF Write
<1>10. payments' \in [DOMAIN payments -> PaymentRows] /\ stripe' \in [DOMAIN payments -> StripeRows]
  BY <1>3, <1>4, <1>8, <1>9
<1>11. ASSUME NEW q \in DOMAIN payments
       PROVE  /\ GoodRow(payments'[q], stripe'[q])
              /\ Keeps(payments[q], stripe[q], payments'[q], stripe'[q])
  <2>1. CASE q = p
    BY <1>6, <1>8, <1>9, <2>1
  <2>2. CASE q # p
    <3>1. payments'[q] = payments[q] /\ stripe'[q] = stripe[q]
      BY <1>8, <1>9, <2>2
    <3> QED BY <1>1, <3>1 DEF RowsInv, Keeps
  <2> QED BY <2>1, <2>2
<1> QED BY <1>1, <1>10, <1>11, RowsWritten

\* The INSERT of a payment, with nothing at Stripe yet.
LEMMA Inserted ==
    ASSUME IInv, NEW row \in PaymentRows, row.status = "pending", ~row.paid,
           payments' = Append(payments, row), stripe' = Append(stripe, NoIntent)
    PROVE  RowsStep /\ Len(payments) + 1 \in DOMAIN payments'
<1>1. /\ RowsInv /\ payments \in Seq(PaymentRows) /\ stripe \in Seq(StripeRows)
      /\ Len(payments) \in Nat /\ Len(stripe) = Len(payments)
      /\ DOMAIN payments = 1..Len(payments) /\ DOMAIN stripe = DOMAIN payments
  BY Rows DEF IInv, RowsInv
<1>2. NoIntent \in StripeRows /\ NoIntent.event["succeeded"] = "none"
  BY DEF NoIntent, StripeRows, IntentStates, Kinds
<1>3. /\ payments' \in Seq(PaymentRows) /\ Len(payments') = Len(payments) + 1
      /\ \A q \in 1..Len(payments) : payments'[q] = payments[q]
      /\ payments'[Len(payments) + 1] = row
  BY <1>1, AppendProperties
<1>4. /\ stripe' \in Seq(StripeRows) /\ Len(stripe') = Len(payments) + 1
      /\ \A q \in 1..Len(payments) : stripe'[q] = stripe[q]
      /\ stripe'[Len(payments) + 1] = NoIntent
  BY <1>1, <1>2, AppendProperties
<1>5. DOMAIN payments' = 1..(Len(payments) + 1)
  BY <1>3, LenProperties
<1>6. ASSUME NEW q \in DOMAIN payments'
      PROVE  GoodRow(payments'[q], stripe'[q])
  <2>1. CASE q \in 1..Len(payments)
    BY <1>1, <1>3, <1>4, <2>1 DEF RowsInv
  <2>2. CASE q = Len(payments) + 1
    BY <1>2, <1>3, <1>4, <2>2 DEF GoodRow
  <2> QED BY <1>1, <1>5, <2>1, <2>2
<1>7. RowsInv'
  BY <1>3, <1>4, <1>6 DEF RowsInv
<1>8. DOMAIN payments \subseteq DOMAIN payments'
  BY <1>1, <1>5
<1>9. \A q \in DOMAIN payments : payments'[q] = payments[q] /\ stripe'[q] = stripe[q]
  BY <1>1, <1>3, <1>4
<1> QED BY <1>1, <1>5, <1>7, <1>8, <1>9 DEF RowsStep, Reason, ReasonNext

\* A restart: what the handlers had found is lost.
LEMMA Lost ==
    ASSUME IInv, Crash
    PROVE  RowsStep
<1>1. /\ RowsInv /\ payments \in [DOMAIN payments -> PaymentRows]
      /\ stripe \in [DOMAIN payments -> StripeRows] /\ DOMAIN stripe = DOMAIN payments
  BY Rows DEF IInv
<1>2. payments' \in [DOMAIN payments -> PaymentRows]
  BY <1>1 DEF Crash
<1>3. ASSUME NEW q \in DOMAIN payments
      PROVE  /\ stripe'[q] \in StripeRows
             /\ GoodRow(payments'[q], stripe'[q])
             /\ Keeps(payments[q], stripe[q], payments'[q], stripe'[q])
  <2> DEFINE events == [k \in Kinds |-> IF stripe[q].event[k] = "found" THEN "done"
                                        ELSE stripe[q].event[k]]
             st == [stripe[q] EXCEPT !.event = events]
  <2>1. stripe'[q] = st /\ payments'[q] = payments[q]
    BY <1>1 DEF Crash
  <2>2. stripe[q] \in StripeRows /\ GoodRow(payments[q], stripe[q])
    BY <1>1 DEF RowsInv
  <2>3. events \in [Kinds -> {"none", "sent", "found", "done"}]
    BY <2>2 DEF StripeRows
  <2>4. events["succeeded"] # "none" => stripe[q].event["succeeded"] # "none"
    BY DEF Kinds
  <2> HIDE DEF events
  <2>5. st \in StripeRows /\ st.intent = stripe[q].intent /\ st.event = events
    BY <2>2, <2>3 DEF StripeRows
  <2> HIDE DEF st
  <2>6. GoodRow(payments[q], st) /\ Keeps(payments[q], stripe[q], payments[q], st)
    BY <2>2, <2>4, <2>5 DEF GoodRow, Keeps
  <2> QED BY <2>1, <2>5, <2>6
<1>4. stripe' \in [DOMAIN payments -> StripeRows]
  <2>1. stripe' = [q \in DOMAIN payments |-> stripe'[q]]
    BY <1>1 DEF Crash
  <2> QED BY <1>3, <2>1
<1> QED BY <1>1, <1>2, <1>3, <1>4, RowsWritten

-----------------------------------------------------------------------------
(* The requests *)

\* Where a request is, its row is there.
LEMMA Here ==
    ASSUME IInv, NEW a \in Actors
    PROVE  /\ frame[a] \in Frames
           /\ pc[a] \in Bound => frame[a].pay \in DOMAIN payments
           /\ RowsInv
BY DEF IInv, TypeOK, Justified

\* A request that reads and goes on with a row it has found.
LEMMA Reads ==
    ASSUME IInv, NEW a \in Actors, NEW l \in Labels, NEW f \in Frames,
           MoveTo(a, l, f),
           UNCHANGED <<price, payments, stripe, assessments, failures, incidents>>,
           l \in Bound => f.pay \in DOMAIN payments,
           l = "pay" => stripe[f.pay].intent = "succeeded",
           l \in {"existing", "insertAsmt"} => Reason(f.pay)
    PROVE  Orderly
<1>1. RowsStep
  BY Nothing DEF IInv
<1>2. Arrives(l, f)
  BY DEF Arrives, Reason, ReasonNext
<1> QED BY <1>1, <1>2, OneMoves, Surroundings DEF Orderly

\* A request that writes rows and goes on or ends.
LEMMA Writes ==
    ASSUME IInv, RowsStep, RequestsInv', UNCHANGED <<price, assessments, failures>>,
           UNCHANGED incidents \/ incidents' = incidents + 1
    PROVE  Orderly
BY Surroundings DEF Orderly

LEMMA CreateReadKeeps ==
    ASSUME IInv, NEW a \in Actors, CreateRead(a)
    PROVE  Orderly
<1> DEFINE f == [EmptyFrame EXCEPT !.price = price]
<1>1. f \in Frames
  BY Blank DEF IInv, TypeOK, Frames
<1>2. MoveTo(a, "find", f)
  BY DEF CreateRead
<1> HIDE DEF f
<1> QED BY <1>1, <1>2, Reads DEF CreateRead, Labels, Steps, Bound

LEMMA FindPendingKeeps ==
    ASSUME IInv, NEW a \in Actors, FindPending(a)
    PROVE  Orderly
<1>1. frame[a] \in Frames /\ DOMAIN payments \subseteq Nat
  BY Here, Rows
<1>2. UNCHANGED <<price, payments, stripe, assessments, failures, incidents>>
  BY DEF FindPending
<1>3. CASE Go(a, "insert")
  BY <1>1, <1>2, <1>3, Reads DEF Go, Labels, Steps, Bound
<1>4. ASSUME NEW p \in DOMAIN payments,
             \/ MoveTo(a, "intent", [EmptyFrame EXCEPT !.pay = p])
             \/ MoveTo(a, "retire", [frame[a] EXCEPT !.pay = p])
      PROVE  Orderly
  <2> DEFINE f == [EmptyFrame EXCEPT !.pay = p]
             g == [frame[a] EXCEPT !.pay = p]
  <2>1. f \in Frames /\ f.pay = p /\ g \in Frames /\ g.pay = p
    BY <1>1, Blank DEF Frames
  <2>2. MoveTo(a, "intent", f) \/ MoveTo(a, "retire", g)
    BY <1>4
  <2> HIDE DEF f, g
  <2>3. CASE MoveTo(a, "intent", f)
    BY <1>2, <2>1, <2>3, Reads DEF Labels, Steps
  <2>4. CASE MoveTo(a, "retire", g)
    BY <1>2, <2>1, <2>4, Reads DEF Labels, Steps
  <2> QED BY <2>2, <2>3, <2>4
<1> QED BY <1>3, <1>4 DEF FindPending

LEMMA RetirePaymentKeeps ==
    ASSUME IInv, NEW a \in Actors, RetirePayment(a)
    PROVE  Orderly
<1> DEFINE f == [frame[a] EXCEPT !.pay = NoPayment]
<1>1. frame[a].pay \in DOMAIN payments
  BY Here DEF RetirePayment, At, Bound
<1>2. RowsStep
  BY <1>1, FailedWritten DEF RetirePayment
<1>3. f \in Frames
  BY Here DEF Frames, NoPayment
<1>4. MoveTo(a, "insert", f)
  BY DEF RetirePayment
<1> HIDE DEF f
<1>5. RequestsInv'
  BY <1>2, <1>3, <1>4, OneMoves DEF Arrives, Labels, Steps, Bound
<1> QED BY <1>2, <1>5, Writes DEF RetirePayment

LEMMA CreatePaymentKeeps ==
    ASSUME IInv, NEW a \in Actors, CreatePayment(a)
    PROVE  Orderly
<1> DEFINE row == NewPayment(frame[a].price)
           f == [EmptyFrame EXCEPT !.pay = Len(payments) + 1]
<1>1. row \in PaymentRows /\ row.status = "pending" /\ ~row.paid
  BY Here DEF NewPayment, PaymentRows, Statuses, Frames
<1>2. payments' = Append(payments, row) /\ stripe' = Append(stripe, NoIntent)
      /\ MoveTo(a, "intent", f)
  BY DEF CreatePayment
<1>3. f \in Frames /\ f.pay = Len(payments) + 1
  BY Blank, Here, Rows DEF Frames
<1> HIDE DEF row, f
<1>4. RowsStep /\ Len(payments) + 1 \in DOMAIN payments'
  BY <1>1, <1>2, Inserted
<1>5. RequestsInv'
  BY <1>2, <1>3, <1>4, OneMoves DEF Arrives, Labels, Steps
<1> QED BY <1>4, <1>5, Writes DEF CreatePayment

LEMMA CreateIntentKeeps ==
    ASSUME IInv, NEW a \in Actors, CreateIntent(a)
    PROVE  Orderly
<1>1. frame[a].pay \in DOMAIN payments
  BY Here DEF CreateIntent, At, Bound
<1>2. RowsStep
  BY <1>1, Here, Nothing, IntentOpened DEF CreateIntent
<1>3. frame[a].pay \in DOMAIN payments'
  BY <1>1, <1>2 DEF RowsStep
<1>4. Go(a, "store") \/ Go(a, "markFailed")
  BY DEF CreateIntent
<1>5. RequestsInv'
  BY <1>2, <1>3, <1>4, OneGoes DEF Arrives, Labels, Steps
<1> QED BY <1>2, <1>5, Writes DEF CreateIntent

LEMMA StoreIntentKeeps ==
    ASSUME IInv, NEW a \in Actors, StoreIntent(a)
    PROVE  Orderly
<1>1. RowsStep
  BY Here, IntentStored DEF StoreIntent, At, Bound
<1> QED BY <1>1, OneEnds, Writes DEF StoreIntent

LEMMA FailPaymentKeeps ==
    ASSUME IInv, NEW a \in Actors, FailPayment(a)
    PROVE  Orderly
<1>1. RowsStep
  BY Here, FailedWritten DEF FailPayment, At, Bound
<1> QED BY <1>1, OneEnds, Writes DEF FailPayment

LEMMA ConfirmReadKeeps ==
    ASSUME IInv, NEW a \in Actors, ConfirmRead(a)
    PROVE  Orderly
<1>1. PICK p \in DOMAIN payments :
         MoveTo(a, "confirm", [EmptyFrame EXCEPT !.pay = p, !.settled = Settled(p)])
  BY DEF ConfirmRead
<1> DEFINE f == [EmptyFrame EXCEPT !.pay = p, !.settled = Settled(p)]
<1>2. payments[p].paid \in BOOLEAN
  BY OneRow DEF PaymentRows
<1>3. f \in Frames /\ f.pay = p
  BY <1>2, OneRow, Blank DEF Frames, Settled
<1>4. MoveTo(a, "confirm", f)
  BY <1>1
<1> HIDE DEF f
<1> QED BY <1>3, <1>4, Reads DEF ConfirmRead, Labels, Steps

LEMMA DeclineKeeps ==
    ASSUME IInv, NEW p \in DOMAIN payments, Decline(p), UNCHANGED payments
    PROVE  RowsStep
BY Sent DEF Decline, IntentStates, Kinds

LEMMA ConfirmIntentKeeps ==
    ASSUME IInv, NEW a \in Actors, ConfirmIntent(a)
    PROVE  Orderly
<1> DEFINE p == frame[a].pay
<1>1. p \in DOMAIN payments
  BY Here DEF ConfirmIntent, At, Bound
<1>2. UNCHANGED <<price, payments, assessments, failures>>
  BY DEF ConfirmIntent
<1>3. CASE /\ Go(a, IF frame[a].settled THEN "done" ELSE "pay")
           /\ Send(p, "succeeded", "succeeded") /\ UNCHANGED incidents
  <2>1. RowsStep /\ stripe'[p].intent = "succeeded"
    BY <1>1, <1>2, <1>3, Sent DEF IntentStates, Kinds
  <2>2. p \in DOMAIN payments'
    BY <1>1, <2>1 DEF RowsStep
  <2>3. Arrives("pay", frame[a])
    BY <2>1, <2>2 DEF Arrives
  <2>4. CASE Go(a, "done")
    BY <1>2, <1>3, <2>1, <2>4, OneEnds, Writes
  <2>5. CASE Go(a, "pay")
    <3>1. RequestsInv'
      BY <2>1, <2>3, <2>5, OneGoes DEF Labels, Steps
    <3> QED BY <1>2, <1>3, <2>1, <3>1, Writes
  <2> QED BY <1>3, <2>4, <2>5
<1>4. CASE Decline(p) /\ Go(a, "done")
  <2>1. RowsStep /\ incidents' = incidents + 1
    BY <1>1, <1>2, <1>4, DeclineKeeps DEF Decline
  <2> QED BY <1>2, <1>4, <2>1, OneEnds, Writes
<1>5. CASE Go(a, "done") /\ UNCHANGED <<stripe, incidents>>
  <2>1. RowsStep
    BY <1>2, <1>5, Here, Nothing
  <2> QED BY <1>2, <1>5, <2>1, OneEnds, Writes
<1> QED BY <1>3, <1>4, <1>5 DEF ConfirmIntent

LEMMA ConfirmWriteKeeps ==
    ASSUME IInv, NEW a \in Actors, ConfirmWrite(a)
    PROVE  Orderly
<1>1. frame[a].pay \in DOMAIN payments /\ stripe[frame[a].pay].intent = "succeeded"
  BY DEF IInv, Justified, ConfirmWrite, At, Bound
<1>2. RowsStep
  BY <1>1, CompletedWritten DEF ConfirmWrite
<1> QED BY <1>2, OneEnds, Writes DEF ConfirmWrite

LEMMA AdminReadKeeps ==
    ASSUME IInv, NEW a \in Actors, AdminRead(a)
    PROVE  Orderly
<1>1. PICK p \in DOMAIN payments : MoveTo(a, "adminPay", [EmptyFrame EXCEPT !.pay = p])
  BY DEF AdminRead
<1> DEFINE f == [EmptyFrame EXCEPT !.pay = p]
<1>2. f \in Frames /\ f.pay = p
  BY OneRow, Blank DEF Frames
<1>3. MoveTo(a, "adminPay", f)
  BY <1>1
<1> HIDE DEF f
<1> QED BY <1>2, <1>3, Reads DEF AdminRead, Labels, Steps

LEMMA AdminConfirmKeeps ==
    ASSUME IInv, NEW a \in Actors, AdminConfirm(a)
    PROVE  Orderly
<1>1. RowsStep
  BY Here, CompletedWritten DEF AdminConfirm, At, Bound
<1> QED BY <1>1, OneEnds, Writes DEF AdminConfirm

LEMMA VerifyPaymentKeeps ==
    ASSUME IInv, NEW a \in Actors, VerifyPayment(a)
    PROVE  Orderly
<1>1. PICK p \in DOMAIN payments :
         Settled(p) /\ MoveTo(a, "existing", [EmptyFrame EXCEPT !.pay = p])
  BY DEF VerifyPayment
<1> DEFINE f == [EmptyFrame EXCEPT !.pay = p]
<1>2. f \in Frames /\ f.pay = p
  BY OneRow, Blank DEF Frames
<1>3. MoveTo(a, "existing", f)
  BY <1>1
<1>4. Reason(p)
  BY <1>1, OneRow DEF Settled, GoodRow, Reason
<1> HIDE DEF f
<1> QED BY <1>2, <1>3, <1>4, Reads DEF VerifyPayment, Labels, Steps, Bound

LEMMA FindExistingKeeps ==
    ASSUME IInv, NEW a \in Actors, FindExisting(a)
    PROVE  Orderly
<1>1. Reason(frame[a].pay)
  BY DEF IInv, Justified, FindExisting, At
<1>2. UNCHANGED <<price, payments, stripe, assessments, failures, incidents>>
  BY DEF FindExisting
<1>3. CASE Go(a, "done")
  <2>1. RowsStep
    BY <1>2, Here, Nothing
  <2> QED BY <1>2, <1>3, <2>1, OneEnds, Writes
<1>4. CASE Go(a, "insertAsmt")
  BY <1>1, <1>2, <1>4, Here, Reads DEF Go, Labels, Steps, Bound
<1> QED BY <1>3, <1>4 DEF FindExisting

LEMMA CreateAssessmentKeeps ==
    ASSUME IInv, NEW a \in Actors, CreateAssessment(a)
    PROVE  Orderly
<1>1. Reason(frame[a].pay)
  BY DEF IInv, Justified, CreateAssessment, At
<1>2. RowsStep
  BY Here, Nothing DEF CreateAssessment
<1>3. AssessmentsStep
  <2>1. ReasonNext(frame[a].pay)
    BY <1>1, <1>2 DEF RowsStep, Reason
  <2>2. frame[a].pay \in Nat
    BY Here DEF Frames
  <2>3. assessments' = Append(assessments, frame[a].pay)
    BY DEF CreateAssessment
  <2> QED BY <2>1, <2>2, <2>3 DEF AssessmentsStep
<1>4. RequestsInv'
  BY <1>2, OneEnds DEF CreateAssessment
<1> QED BY <1>2, <1>3, <1>4, Surroundings DEF Orderly, CreateAssessment

LEMMA RequestFaultKeeps ==
    ASSUME IInv, NEW a \in Actors, RequestFault(a)
    PROVE  Orderly
<1>1. UNCHANGED <<price, payments, assessments, incidents>> /\ failures' = failures + 1
  BY DEF RequestFault
<1>2. RowsStep
  <2>1. CASE UNCHANGED stripe
    BY <1>1, <2>1, Here, Nothing
  <2>2. CASE /\ At(a, "intent") /\ stripe[frame[a].pay].intent = "none"
             /\ stripe' = [stripe EXCEPT ![frame[a].pay].intent = "open"]
    <3>1. frame[a].pay \in DOMAIN payments
      BY <2>2, Here DEF At, Bound
    <3> QED BY <1>1, <2>2, <3>1, IntentOpened
  <2> QED BY <2>1, <2>2 DEF RequestFault
<1>3. RequestsInv'
  <2>1. CASE Go(a, "done")
    BY <1>2, <2>1, OneEnds
  <2>2. CASE pc[a] \in {"intent", "store"} /\ Go(a, "markFailed")
    <3>1. frame[a].pay \in DOMAIN payments'
      BY <1>2, <2>2, Here DEF Bound, RowsStep
    <3> QED BY <1>2, <2>2, <3>1, OneGoes DEF Arrives, Labels, Steps
  <2> QED BY <2>1, <2>2 DEF RequestFault, At
<1> QED BY <1>1, <1>2, <1>3, Surroundings DEF Orderly

-----------------------------------------------------------------------------
(* Stripe, its handlers and the surroundings *)

\* A step of no request.
LEMMA Elsewhere ==
    ASSUME IInv, RowsStep, UNCHANGED <<assessments, pc, frame>>,
           UNCHANGED price \/ price' \in Prices,
           UNCHANGED failures \/ failures' = failures + 1,
           UNCHANGED incidents \/ incidents' = incidents + 1
    PROVE  Orderly
BY AllWait, Surroundings DEF Orderly

LEMMA WebhookKeeps ==
    ASSUME IInv, NEW p \in DOMAIN payments, NEW k \in Kinds,
           Deliver(p, k) \/ Handle(p, k) \/ Duplicate(p, k) \/ HandlerFault(p, k)
    PROVE  Orderly
<1>1. CASE Deliver(p, k)
  <2>1. UNCHANGED <<price, payments, assessments, pc, frame, failures, incidents>>
        /\ stripe[p].event[k] # "none"
    BY <1>1 DEF Deliver
  <2>2. PICK mark \in Marks : stripe' = [stripe EXCEPT ![p].event[k] = mark]
    BY <1>1 DEF Deliver, Marks
  <2>3. RowsStep
    BY <2>1, <2>2, Marked
  <2> QED BY <2>1, <2>3, Elsewhere
<1>2. CASE Handle(p, k)
  BY <1>2, Handled, Elsewhere DEF Handle
<1>3. CASE Duplicate(p, k)
  <2>1. RowsStep
    BY <1>3, Marked DEF Duplicate, Marks
  <2> QED BY <1>3, <2>1, Elsewhere DEF Duplicate
<1>4. CASE HandlerFault(p, k)
  <2>1. RowsStep
    BY <1>4, Marked DEF HandlerFault, Marks
  <2> QED BY <1>4, <2>1, Elsewhere DEF HandlerFault
<1> QED BY <1>1, <1>2, <1>3, <1>4

LEMMA IncidentKeeps ==
    ASSUME IInv, NEW p \in DOMAIN payments, NEW k \in Kinds,
           PayOnline(p) \/ DeclineOnline(p) \/ Incident(p, k)
    PROVE  Orderly
<1>1. CASE PayOnline(p)
  <2>1. RowsStep
    BY <1>1, Sent DEF PayOnline, IntentStates, Kinds
  <2> QED BY <1>1, <2>1, Elsewhere DEF PayOnline
<1>2. CASE DeclineOnline(p)
  <2>1. RowsStep
    BY <1>2, DeclineKeeps DEF DeclineOnline
  <2> QED BY <1>2, <2>1, Elsewhere DEF DeclineOnline, Decline
<1>3. CASE Incident(p, k)
  <2>1. RowsStep
    BY <1>3, Sent DEF Incident, IntentStates
  <2> QED BY <1>3, <2>1, Elsewhere DEF Incident
<1> QED BY <1>1, <1>2, <1>3

LEMMA CrashKeeps ==
    ASSUME IInv, Crash
    PROVE  Orderly
<1>1. RowsStep
  BY Lost
<1>2. pc' \in [Actors -> {"idle", "done"}] /\ frame' = [a \in Actors |-> EmptyFrame]
  BY DEF Crash
<1>3. pc' \in [Actors -> Labels] /\ frame' \in [Actors -> Frames]
  BY <1>2, Blank DEF Labels
<1>4. ASSUME NEW a \in Actors
      PROVE  Justified(a)'
  <2>1. pc'[a] \in {"idle", "done"}
    BY <1>2
  <2> QED BY <2>1 DEF Justified, Bound
<1>5. RequestsInv'
  BY <1>3, <1>4 DEF RequestsInv
<1> QED BY <1>1, <1>5, Surroundings DEF Orderly, Crash

LEMMA UpdateCertificateKeeps ==
    ASSUME IInv, UpdateCertificate
    PROVE  Orderly
<1>1. RowsStep
  BY Nothing DEF IInv, UpdateCertificate
<1>2. price' \in Prices
  BY DEF UpdateCertificate
<1> QED BY <1>1, <1>2, Elsewhere DEF UpdateCertificate

-----------------------------------------------------------------------------
(* The inductive invariant, and what follows from it *)

LEMMA InitIInv == Init => IInv
<1> SUFFICES ASSUME Init PROVE IInv
  OBVIOUS
<1>1. DOMAIN payments = {} /\ DOMAIN assessments = {} /\ Len(payments) = Len(stripe)
  BY DEF Init
<1>2. \A S : <<>> \in Seq(S)
  BY EmptySeq
<1>3. TypeOK
  BY <1>2, Blank DEF Init, TypeOK, Labels
<1>4. RowsInv
  BY <1>1, <1>2 DEF Init, RowsInv
<1>5. \A a \in Actors : Justified(a)
  BY DEF Init, Justified, Bound
<1> QED BY <1>1, <1>3, <1>4, <1>5 DEF IInv

LEMMA NextOrderly ==
    ASSUME IInv, Next
    PROVE  Orderly
<1>1. DOMAIN stripe = DOMAIN payments
  BY Rows DEF IInv
<1>2. ASSUME NEW a \in Actors, Start(a) \/ Continue(a)
      PROVE  Orderly
  BY <1>2, CreateReadKeeps, ConfirmReadKeeps, AdminReadKeeps, VerifyPaymentKeeps,
     FindPendingKeeps, RetirePaymentKeeps, CreatePaymentKeeps, CreateIntentKeeps,
     StoreIntentKeeps, FailPaymentKeeps, ConfirmIntentKeeps, ConfirmWriteKeeps,
     AdminConfirmKeeps, FindExistingKeeps, CreateAssessmentKeeps
     DEF Start, Continue
<1>3. ASSUME NEW a \in Actors, RequestFault(a)
      PROVE  Orderly
  BY <1>3, RequestFaultKeeps
<1>4. ASSUME NEW p \in DOMAIN stripe, OfStripe(p)
      PROVE  Orderly
  <2>1. "disputed" \in Kinds
    BY DEF Kinds
  <2> QED BY <1>1, <1>4, <2>1, IncidentKeeps, WebhookKeeps DEF OfStripe
<1>5. ASSUME NEW p \in DOMAIN stripe, NEW k \in Kinds, Webhook(p, k) \/ HandlerFault(p, k)
      PROVE  Orderly
  BY <1>1, <1>5, WebhookKeeps DEF Webhook
<1>6. ASSUME UpdateCertificate \/ Crash
      PROVE  Orderly
  BY <1>6, UpdateCertificateKeeps, CrashKeeps
<1> QED BY <1>2, <1>3, <1>4, <1>5, <1>6 DEF Next

LEMMA StutterKeeps ==
    ASSUME IInv, UNCHANGED vars
    PROVE  IInv'
<1>1. Orderly
  <2>1. RowsStep
    BY Nothing DEF IInv, vars
  <2> QED BY <2>1, Elsewhere DEF vars
<1> QED BY <1>1, OrderlyKeeps

THEOREM Inductive == Spec => []IInv
<1>1. Init => IInv
  BY InitIInv
<1>2. IInv /\ [Next]_vars => IInv'
  BY NextOrderly, OrderlyKeeps, StutterKeeps
<1> QED BY <1>1, <1>2, PTL DEF Spec

\* Every column of every row and every local variable keeps its type
\* (createStripePaymentIntent, confirmStripePayment, confirmPayment,
\* createAssessment and the webhook's handlers).
THEOREM TypeCorrectness == Spec => []TypeOK
<1>1. IInv => TypeOK
  BY DEF IInv
<1> QED BY <1>1, Inductive, PTL

\* is_paid is never set before Stripe has captured the money or an admin has
\* vouched for it, for any number of requests, rows and failures.
THEOREM PaidHasReason == Spec => []PaidForReason
<1>1. IInv => PaidForReason
  BY DEF IInv, RowsInv, GoodRow, PaidForReason
<1> QED BY <1>1, Inductive, PTL

\* status and is_paid agree as far as a reader may rely on, whichever of the
\* seven writers came last.
THEOREM ColumnsAgree == Spec => []StatusAgrees
<1>1. IInv => StatusAgrees
  BY DEF IInv, RowsInv, GoodRow, StatusAgrees
<1> QED BY <1>1, Inductive, PTL

\* Every assessment was paid for, although its payment is verified several
\* calls before it is inserted.
THEOREM NoFreeAssessment == Spec => []AssessmentsPaidFor
<1>1. IInv => AssessmentsPaidFor
  BY DEF IInv, Reason, AssessmentsPaidFor
<1> QED BY <1>1, Inductive, PTL
=============================================================================
