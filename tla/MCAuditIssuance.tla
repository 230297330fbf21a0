---------------------------- MODULE MCAuditIssuance ----------------------------
(* The audit and issuance of one assessment on small sets of requests. *)
EXTENDS AuditIssuance, TLC

Symmetry == Permutations(Auditors) \cup Permutations(Reviewers)
            \cup Permutations(Issuers) \cup Permutations(Reaudits)
=============================================================================
