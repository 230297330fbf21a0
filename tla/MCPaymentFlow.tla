----------------------------- MODULE MCPaymentFlow -----------------------------
(* Payments of one user for one certificate on small sets of requests. *)
EXTENDS PaymentFlow, TLC

=============================================================================
