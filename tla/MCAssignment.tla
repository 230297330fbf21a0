----------------------------- MODULE MCAssignment -----------------------------
(* The assignment of one assessment on small sets of people and requests. *)
EXTENDS Assignment, TLC

=============================================================================
