------------------------- MODULE CertificateLifecycle -------------------------
(***************************************************************************)
(* What the platform promises about the certificate of one assessment: it  *)
(* is issued at most once, a revoked certificate stays revoked, and        *)
(* revoking it also locks the assessment for the applicant.  The two       *)
(* records of a revocation may change in either order, but never one       *)
(* without the other in the end.                                           *)
(***************************************************************************)
VARIABLES cert, locked

vars == <<cert, locked>>

TypeOK == cert \in {"none", "valid", "revoked"} /\ locked \in BOOLEAN

Init == cert = "none" /\ locked = FALSE

Issue  == cert = "none" /\ cert' = "valid" /\ UNCHANGED locked
Revoke == cert = "valid" /\ cert' = "revoked" /\ UNCHANGED locked
Lock   == cert # "none" /\ ~locked /\ locked' = TRUE /\ UNCHANGED cert

Next == Issue \/ Revoke \/ Lock

\* The second record of a revocation that has begun.
Finish == (locked /\ Revoke) \/ (cert = "revoked" /\ Lock)

Spec == Init /\ [][Next]_vars /\ WF_vars(Finish)
=============================================================================
