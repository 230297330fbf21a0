------------------------- MODULE SubmissionLifecycle -------------------------
(***************************************************************************)
(* What the platform promises the owner of one assessment: an open         *)
(* assessment is handed in, it is reviewed, and the review either closes   *)
(* it for good or hands it back to be corrected and handed in again.  A    *)
(* review always ends.                                                     *)
(***************************************************************************)
VARIABLE phase

vars == <<phase>>

Phases == {"open", "reviewing", "closed"}

Init == phase = "open"

\* submitAssessment, or the retry job re-submitting on the owner's behalf.
HandIn == phase = "open" /\ phase' = "reviewing"

\* A failed review reverts the submission.
HandBack == phase = "reviewing" /\ phase' = "open"

\* The review completes; nothing reopens a closed assessment.
Close == phase = "reviewing" /\ phase' = "closed"

Next == HandIn \/ HandBack \/ Close

Spec == Init /\ [][Next]_vars /\ WF_vars(HandBack \/ Close)

TypeOK == phase \in Phases
=============================================================================
