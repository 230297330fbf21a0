----------------------------- MODULE AuditIssuance -----------------------------
(***************************************************************************)
(* From the auditor's assignment to the certificate: the audit record of   *)
(* one assessment, the reviewer's decision on it, the AI score computed in *)
(* the background, and the issuing, blocking and re-auditing that follow.  *)
(* An action is what a request does between two awaited database calls; a  *)
(* repository method is one SQL statement and so one step.                 *)
(***************************************************************************)
EXTENDS Naturals, Sequences

CONSTANTS
    Assigners,   \* requests that assign or unassign the auditor
    Auditors,    \* upsertAudit requests
    Reviewers,   \* upsertReview requests
    Issuers,     \* issueCertificate requests
    Blockers,    \* blockCertificate requests
    Reaudits,    \* reauditAssessment requests
    Admins,      \* requests that set or clear is_certificate_blocked alone
    MaxFailures  \* how many database calls may fail or restarts may happen

Actors == Assigners \cup Auditors \cup Reviewers \cup Issuers \cup Blockers
          \cup Reaudits \cup Admins

ASSUME BoundsAssumption == MaxFailures \in Nat

VARIABLES
    assigned,   \* certificate_assessments.assigned_auditor_id is set
    completed,  \* certificate_assessments.status = 'completed'
    barred,     \* certificate_assessments.is_certificate_blocked
    audits,     \* the audits rows, in the order of their creation
    scores,     \* the ai_audit_scores rows, in the order of created_at
    cert,       \* the issued_certificates row
    pc, frame,  \* the step each request is at, and its local variables
    failures    \* failed calls and restarts so far

vars == <<assigned, completed, barred, audits, scores, cert, pc, frame,
          failures>>
asmtRow == <<assigned, completed, barred>>

-----------------------------------------------------------------------------
(* Rows.  conditionally_approved counts as approved: the code never tells   *)
(* them apart.  A row of audits or scores is known by its place.            *)

NoRow == 0
Decisions == {"none", "approved", "rejected"}
Stages == {"in_progress", "auditor_submitted", "reviewer_submitted", "completed"}
CertStates == {"none", "valid", "blocked"}
Writes == {"cert", "bar"}

\* score is the row of scores that updateAuditScores copied.
AuditRows == [version: Nat \ {0}, archived: BOOLEAN, status: Decisions,
              review: Decisions, stage: Stages, score: Nat]

\* audit is the row the score is filed under, of the row whose texts were
\* scored, and review the decision the provider was shown.
ScoreRows == [audit: Nat, of: Nat, review: Decisions]

\* audit and score are what the issuing request looked at.
CertRows == [state: CertStates, audit: Nat, score: Nat]

NewAudit(v) == [version |-> v, archived |-> FALSE, status |-> "none",
                review |-> "none", stage |-> "in_progress", score |-> NoRow]

NoCert == [state |-> "none", audit |-> NoRow, score |-> NoRow]

Active == {i \in DOMAIN audits : ~audits[i].archived}

\* SELECT ... WHERE is_archived = FALSE
Current == IF Active = {} THEN NoRow ELSE CHOOSE i \in Active : TRUE

Steps == {"assign", "open", "saveAudit", "saveReview", "scoreRead", "score",
          "scoreWrite", "checkReview", "checkScore", "issue", "complete",
          "stage", "blocking", "create", "findCert"}
Labels == {"idle", "done"} \cup Steps

Frames == [audit: Nat, of: Nat, decision: Decisions, found: CertStates,
           score: Nat, version: Nat \ {0}, todo: SUBSET Writes]
EmptyFrame == [audit |-> NoRow, of |-> NoRow, decision |-> "none",
               found |-> "none", score |-> NoRow, version |-> 1, todo |-> {}]

At(a, l) == pc[a] = l
MoveTo(a, l, f) ==
    /\ pc' = [pc EXCEPT ![a] = l]
    /\ frame' = [frame EXCEPT ![a] = f]
Go(a, l) == MoveTo(a, l, IF l = "done" THEN EmptyFrame ELSE frame[a])

\* COALESCE(new, old) on a decision
Coalesce(new, old) == IF new = "none" THEN old ELSE new

-----------------------------------------------------------------------------
(* AuditorService.assignToAssessment, the direct path *)

Assign(a) ==
    /\ At(a, "idle")
    /\ IF assigned THEN Go(a, "done") ELSE Go(a, "assign")   \* 400
    /\ UNCHANGED <<asmtRow, audits, scores, cert, failures>>

AssignAuditor(a) ==
    /\ At(a, "assign")
    /\ assigned' = TRUE
    /\ Go(a, "open")
    /\ UNCHANGED <<completed, barred, audits, scores, cert, failures>>

CreateAuditOnAssignment(a) ==
    /\ At(a, "open")
    /\ audits' = IF Active = {} THEN Append(audits, NewAudit(1)) ELSE audits
    /\ Go(a, "done")
    /\ UNCHANGED <<asmtRow, scores, cert, failures>>

Unassign(a) ==
    /\ At(a, "idle")
    /\ assigned' = FALSE
    /\ Go(a, "done")
    /\ UNCHANGED <<completed, barred, audits, scores, cert, failures>>

-----------------------------------------------------------------------------
(* upsertAudit: only a decision needs an assigned auditor with a signature *)

AuditorRead(a) ==
    /\ At(a, "idle")
    /\ \E d \in Decisions :
          IF d # "none" /\ ~assigned
          THEN Go(a, "done")
          ELSE MoveTo(a, "saveAudit", [EmptyFrame EXCEPT !.decision = d])
    /\ UNCHANGED <<asmtRow, audits, scores, cert, failures>>

AuditedAlways(row, d) ==   \* a variant: a draft counts as submitted
    [row EXCEPT !.status = Coalesce(d, @), !.stage = "auditor_submitted"]

Audited(row, d) ==
    [row EXCEPT !.status = Coalesce(d, @),
                !.stage  = IF d = "none" THEN @ ELSE "auditor_submitted"]

\* One INSERT ... ON CONFLICT on the index of active audits.
AuditorSave(a) ==
    LET d == frame[a].decision IN
    /\ At(a, "saveAudit")
    /\ audits' = IF Active = {}
                 THEN Append(audits, Audited(NewAudit(1), d))
                 ELSE [i \in DOMAIN audits |->
                         IF audits[i].archived THEN audits[i] ELSE Audited(audits[i], d)]
    /\ Go(a, "done")
    /\ UNCHANGED <<asmtRow, scores, cert, failures>>

-----------------------------------------------------------------------------
(* upsertReview and the background triggerAiAuditScoring *)

ReviewerRead(a) ==
    /\ At(a, "idle")
    /\ IF Active = {}
       THEN Go(a, "done")            \* 400: the auditor must submit first
       ELSE \E d \in Decisions :
               MoveTo(a, "saveReview", [EmptyFrame EXCEPT !.decision = d])
    /\ UNCHANGED <<asmtRow, audits, scores, cert, failures>>

ReviewedPlain(row, d) ==   \* a variant: review_status = $5
    [row EXCEPT !.review = d,
                !.stage  = IF d = "none" THEN @ ELSE "reviewer_submitted"]

Reviewed(row, d) ==
    [row EXCEPT !.review = Coalesce(d, @),
                !.stage  = IF d = "none" THEN @ ELSE "reviewer_submitted"]

\* The UPDATE returns no row, and result.id throws, when nothing is active.
ReviewerSave(a) ==
    /\ At(a, "saveReview")
    /\ audits' = [i \in DOMAIN audits |->
                    IF audits[i].archived THEN audits[i]
                    ELSE Reviewed(audits[i], frame[a].decision)]
    /\ IF Active = {}
       THEN Go(a, "done")
       ELSE MoveTo(a, "scoreRead", [EmptyFrame EXCEPT !.audit = Current])
    /\ UNCHANGED <<asmtRow, scores, cert, failures>>

\* The texts are read again, from whatever audit is active by then.
ScoreRead(a) ==
    /\ At(a, "scoreRead")
    /\ IF Active = {}
       THEN Go(a, "done")
       ELSE MoveTo(a, "score", [frame[a] EXCEPT !.of = Current,
                                                !.decision = audits[Current].review])
    /\ UNCHANGED <<asmtRow, audits, scores, cert, failures>>

\* The provider answers, and the score is inserted, or it fails.
CreateAiAuditScore(a) ==
    /\ At(a, "score")
    /\ \/ Go(a, "done") /\ UNCHANGED scores
       \/ /\ scores' = Append(scores, [audit  |-> frame[a].audit,
                                       of     |-> frame[a].of,
                                       review |-> frame[a].decision])
          /\ MoveTo(a, "scoreWrite", [frame[a] EXCEPT !.score = Len(scores) + 1])
    /\ UNCHANGED <<asmtRow, audits, cert, failures>>

UpdateAuditScoresById(a) ==   \* a variant: WHERE id = $1 only
    /\ At(a, "scoreWrite")
    /\ audits' = [audits EXCEPT ![frame[a].audit].score = frame[a].score]
    /\ Go(a, "done")
    /\ UNCHANGED <<asmtRow, scores, cert, failures>>

UpdateAuditScores(a) ==
    /\ At(a, "scoreWrite")
    /\ audits' = IF frame[a].audit \in Active
                 THEN [audits EXCEPT ![frame[a].audit].score = frame[a].score]
                 ELSE audits
    /\ Go(a, "done")
    /\ UNCHANGED <<asmtRow, scores, cert, failures>>

-----------------------------------------------------------------------------
(* issueCertificate *)

IssueRead(a) ==
    /\ At(a, "idle")
    /\ IF cert.state = "valid"
       THEN Go(a, "done")            \* 409: already issued
       ELSE MoveTo(a, "checkReview", [EmptyFrame EXCEPT !.found = cert.state])
    /\ UNCHANGED <<asmtRow, audits, scores, cert, failures>>

CheckAudit(a) ==   \* a variant: review_status is not looked at
    /\ At(a, "checkReview")
    /\ IF Active # {} /\ audits[Current].review # "rejected"
       THEN MoveTo(a, "checkScore", [frame[a] EXCEPT !.audit = Current])
       ELSE Go(a, "done")
    /\ UNCHANGED <<asmtRow, audits, scores, cert, failures>>

CheckReview(a) ==
    /\ At(a, "checkReview")
    /\ IF Active # {} /\ audits[Current].review = "approved"
       THEN MoveTo(a, "checkScore", [frame[a] EXCEPT !.audit = Current])
       ELSE Go(a, "done")            \* 400
    /\ UNCHANGED <<asmtRow, audits, scores, cert, failures>>

\* findLatestAiAuditScore: the newest score of the assessment, of any audit.
CheckScore(a) ==
    /\ At(a, "checkScore")
    /\ IF scores = <<>>
       THEN Go(a, "done")            \* 400
       ELSE MoveTo(a, "issue", [frame[a] EXCEPT !.score = Len(scores)])
    /\ UNCHANGED <<asmtRow, audits, scores, cert, failures>>

\* uq_issued_cert_assessment rejects a second row, blocked or not.
CreateIssuedCertificate(a) ==
    /\ At(a, "issue")
    /\ IF cert.state = "none"
       THEN /\ cert' = [state |-> "valid", audit |-> frame[a].audit,
                        score |-> frame[a].score]
            /\ Go(a, "complete")
       ELSE UNCHANGED cert /\ Go(a, "done")
    /\ UNCHANGED <<asmtRow, audits, scores, failures>>

SetAssessmentCompleted(a) ==
    /\ At(a, "complete")
    /\ completed' = TRUE
    /\ Go(a, "stage")
    /\ UNCHANGED <<assigned, barred, audits, scores, cert, failures>>

\* setAuditLifecycleStatus('completed') on whatever audit is active by then.
SetAuditLifecycle(a) ==
    /\ At(a, "stage")
    /\ audits' = [i \in DOMAIN audits |->
                    IF audits[i].archived THEN audits[i]
                    ELSE [audits[i] EXCEPT !.stage = "completed"]]
    /\ Go(a, "done")
    /\ UNCHANGED <<asmtRow, scores, cert, failures>>

-----------------------------------------------------------------------------
(* blockCertificate, and the block at the end of a re-audit: two UPDATEs   *)
(* started together (Promise.all)                                          *)

BlockRead(a) ==
    /\ At(a, "idle")
    /\ IF cert.state = "valid"
       THEN MoveTo(a, "blocking", [EmptyFrame EXCEPT !.todo = Writes])
       ELSE Go(a, "done")            \* 404 or 409
    /\ UNCHANGED <<asmtRow, audits, scores, cert, failures>>

\* One of the two writes is over; Promise.all ends with the second.
WriteOver(a, w) ==
    LET left == frame[a].todo \ {w}
    IN  IF left = {} THEN Go(a, "done")
                     ELSE MoveTo(a, "blocking", [frame[a] EXCEPT !.todo = left])

BlockIssuedCertificate(a) ==
    /\ At(a, "blocking") /\ "cert" \in frame[a].todo
    /\ cert' = [cert EXCEPT !.state = "blocked"]
    /\ WriteOver(a, "cert")
    /\ UNCHANGED <<asmtRow, audits, scores, failures>>

BlockAssessmentCertificate(a) ==
    /\ At(a, "blocking") /\ "bar" \in frame[a].todo
    /\ barred' = TRUE
    /\ WriteOver(a, "bar")
    /\ UNCHANGED <<assigned, completed, audits, scores, cert, failures>>

\* AssessmentAdminService.setCertificateBlockStatus, and the escalation.
SetCertificateBlockStatus(a) ==
    /\ At(a, "idle")
    /\ barred' \in BOOLEAN
    /\ Go(a, "done")
    /\ UNCHANGED <<assigned, completed, audits, scores, cert, failures>>

-----------------------------------------------------------------------------
(* reauditAssessment *)

NextVersionPlain ==   \* a variant: archived?.version ?? 0
    IF Active = {} THEN 0 ELSE audits[Current].version

\* (archived?.version ?? 0) + 1
NextVersion == IF Active = {} THEN 1 ELSE audits[Current].version + 1

ArchiveCurrentAudit(a) ==
    /\ At(a, "idle")
    /\ audits' = [i \in DOMAIN audits |-> [audits[i] EXCEPT !.archived = TRUE]]
    /\ MoveTo(a, "create", [EmptyFrame EXCEPT !.version = NextVersion])
    /\ UNCHANGED <<asmtRow, scores, cert, failures>>

CreateAuditFirstOnly(a) ==   \* a variant: UNIQUE(assessment_id), before 038
    /\ At(a, "create")
    /\ IF audits # <<>>
       THEN UNCHANGED audits /\ Go(a, "done")
       ELSE audits' = Append(audits, NewAudit(frame[a].version)) /\ Go(a, "findCert")
    /\ UNCHANGED <<asmtRow, scores, cert, failures>>

\* idx_audits_active_per_assessment rejects a second active row.
CreateAuditForReaudit(a) ==
    /\ At(a, "create")
    /\ IF Active # {}
       THEN UNCHANGED audits /\ Go(a, "done")
       ELSE audits' = Append(audits, NewAudit(frame[a].version)) /\ Go(a, "findCert")
    /\ UNCHANGED <<asmtRow, scores, cert, failures>>

ReauditFindCertOnly(a) ==   \* a variant: the assessment itself is not blocked
    /\ At(a, "findCert")
    /\ IF cert.state = "valid"
       THEN MoveTo(a, "blocking", [frame[a] EXCEPT !.todo = {"cert"}])
       ELSE Go(a, "done")
    /\ UNCHANGED <<asmtRow, audits, scores, cert, failures>>

ReauditFindCert(a) ==
    /\ At(a, "findCert")
    /\ IF cert.state = "valid"
       THEN MoveTo(a, "blocking", [frame[a] EXCEPT !.todo = Writes])
       ELSE Go(a, "done")
    /\ UNCHANGED <<asmtRow, audits, scores, cert, failures>>

-----------------------------------------------------------------------------
(* Failures.  A failing database call changes nothing and throws. *)

\* Issuing goes on when its last two writes fail; any other request ends.
DbFault(a) ==
    /\ failures < MaxFailures /\ pc[a] \in Steps
    /\ failures' = failures + 1
    /\ \/ pc[a] \notin {"complete", "blocking"} /\ Go(a, "done")
       \/ At(a, "complete") /\ Go(a, "stage")
       \/ At(a, "blocking") /\ \E w \in frame[a].todo : WriteOver(a, w)
    /\ UNCHANGED <<asmtRow, audits, scores, cert>>

\* The process dies and restarts: every request in flight is lost.
Crash ==
    /\ failures < MaxFailures
    /\ failures' = failures + 1
    /\ pc' = [a \in Actors |-> IF pc[a] = "idle" THEN "idle" ELSE "done"]
    /\ frame' = [a \in Actors |-> EmptyFrame]
    /\ UNCHANGED <<asmtRow, audits, scores, cert>>

-----------------------------------------------------------------------------
Init ==
    /\ assigned = FALSE /\ completed = FALSE /\ barred = FALSE
    /\ audits = <<>> /\ scores = <<>>
    /\ cert = NoCert
    /\ pc = [a \in Actors |-> "idle"]
    /\ frame = [a \in Actors |-> EmptyFrame]
    /\ failures = 0

Start(a) ==
    \/ a \in Assigners /\ (Assign(a) \/ Unassign(a))
    \/ a \in Auditors /\ AuditorRead(a)
    \/ a \in Reviewers /\ ReviewerRead(a)
    \/ a \in Issuers /\ IssueRead(a)
    \/ a \in Blockers /\ BlockRead(a)
    \/ a \in Reaudits /\ ArchiveCurrentAudit(a)
    \/ a \in Admins /\ SetCertificateBlockStatus(a)

Continue(a) ==
    \/ AssignAuditor(a) \/ CreateAuditOnAssignment(a)
    \/ AuditorSave(a)
    \/ ReviewerSave(a) \/ ScoreRead(a) \/ CreateAiAuditScore(a) \/ UpdateAuditScores(a)
    \/ CheckReview(a) \/ CheckScore(a) \/ CreateIssuedCertificate(a)
    \/ SetAssessmentCompleted(a) \/ SetAuditLifecycle(a)
    \/ BlockIssuedCertificate(a) \/ BlockAssessmentCertificate(a)
    \/ CreateAuditForReaudit(a) \/ ReauditFindCert(a)

Next == (\E a \in Actors : Start(a) \/ Continue(a) \/ DbFault(a)) \/ Crash

Spec == Init /\ [][Next]_vars

\* A request that was started runs to its end.
Fairness == \A a \in Actors : WF_vars(Continue(a))

FairSpec == Spec /\ Fairness

-----------------------------------------------------------------------------
(* Properties *)

TypeOK ==
    /\ assigned \in BOOLEAN /\ completed \in BOOLEAN /\ barred \in BOOLEAN
    /\ audits \in Seq(AuditRows)
    /\ scores \in Seq(ScoreRows)
    /\ cert \in CertRows
    /\ pc \in [Actors -> Labels]
    /\ frame \in [Actors -> Frames]
    /\ failures \in Nat

\* The lifecycle shown for an audit is earned: it says auditor_submitted or
\* reviewer_submitted only over a decision, and completed only when there is a
\* certificate, although each of the three is written by a different request
\* on whatever row is active at that moment (upsert, upsertReview,
\* setAuditLifecycleStatus).  And an assessment has one active audit at most.
StageEarned ==
    /\ \A i \in DOMAIN audits :
          /\ audits[i].stage = "auditor_submitted"  => audits[i].status # "none"
          /\ audits[i].stage = "reviewer_submitted" => audits[i].review # "none"
          /\ audits[i].stage = "completed"          => cert.state # "none"
    /\ \A i, j \in Active : i = j

\* A certificate rests on a review decision and a score that are still on
\* record, whatever was saved, scored or archived after the issuing request
\* looked at them (issueCertificate, COALESCE in upsertReview).
CertificateHasBasis ==
    cert.state # "none" =>
        /\ cert.audit \in DOMAIN audits
        /\ audits[cert.audit].review # "none"
        /\ cert.score \in DOMAIN scores

\* A decision of the auditor or the reviewer may change but is never unmade by
\* a later draft, a re-audit or a late request (COALESCE in both upserts).
DecisionsKept ==
    [][\A i \in DOMAIN audits :
          /\ audits'[i].status = "none" => audits[i].status = "none"
          /\ audits'[i].review = "none" => audits[i].review = "none"]_vars

\* Nothing writes on an archived audit, not even a score that was being
\* computed when it was archived (WHERE ... AND is_archived = FALSE).
ArchivedFrozen ==
    [][\A i \in DOMAIN audits : audits[i].archived => audits'[i] = audits[i]]_vars

\* An assessment that is being audited always gets an active audit back: a
\* re-audit archives first and creates later, and only one of two competing
\* re-audits may create (reauditAssessment).
AuditReturns == audits # <<>> ~> Active # {}

Lifecycle == INSTANCE CertificateLifecycle WITH
    cert   <- IF cert.state = "blocked" THEN "revoked" ELSE cert.state,
    locked <- barred

\* Issuing, blocking and re-auditing keep the promise made about certificates:
\* issued at most once, never unblocked, and blocked on both rows or on none.
KeepsCertificateLifecycle == Lifecycle!Spec

Settled == \A a \in Actors : pc[a] \in {"idle", "done"}

\* The documentation of the re-audit: an issued certificate that is active is blocked.
ReauditBlocks ==
    Settled /\ cert.state = "valid" => ~audits[cert.audit].archived
=============================================================================
