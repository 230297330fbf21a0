------------------------------ MODULE Assignment ------------------------------
(***************************************************************************)
(* Who works on one assessment: the invitation of an auditor and its        *)
(* answer, the assignment that follows an acceptance, the assignment of a   *)
(* reviewer, taking either back, and what each of these writes beside the   *)
(* assessment: the person's own list, the audit record, the AI review's     *)
(* reviewer flag and the chat thread.  Requests interleave at every await.  *)
(***************************************************************************)
EXTENDS Naturals, Sequences, FiniteSets

CONSTANTS
    Auditors, Reviewers,  \* users with the profile of that role
    Nobody,               \* the NULL of a user column
    Invites,              \* assign-assessment requests naming an auditor
    Accepts, Declines,    \* the answers of the invited
    Unassigns,            \* assign-assessment requests without an auditor
    ReviewerAssigns, ReviewerUnassigns,
    Openers,              \* createThreadForAssuredAssessment requests
    MaxFailures           \* how many calls may fail

People == Auditors \cup Reviewers
Actors == Invites \cup Accepts \cup Declines \cup Unassigns
          \cup ReviewerAssigns \cup ReviewerUnassigns \cup Openers

\* A user has one role.
ASSUME PeopleDistinct == Nobody \notin People /\ Auditors \cap Reviewers = {}
ASSUME FailureBound == MaxFailures \in Nat

VARIABLES
    assessment,   \* its certificate_assessments row
    invitations,  \* its assessment_invitations, in the order of their creation
    lists,        \* entries for it in each person's assigned_assessments_json
    audit,        \* its audits row
    reviewerSet,  \* ai_reviews.is_reviewer_assigned
    thread, members,  \* the auditor_applicant thread and its participants
    pc, frame,    \* the step each request is at, and its local variables
    failures

vars == <<assessment, invitations, lists, audit, reviewerSet, thread, members,
          pc, frame, failures>>

-----------------------------------------------------------------------------
(* Rows *)

Assessments == [type: {"self_disclosure", "assured"},
                status: {"submitted", "completed"},
                auditor: Auditors \cup {Nobody}, reviewer: Reviewers \cup {Nobody}]

Invitations == [user: Auditors, status: {"pending", "accepted", "declined"}]

\* made tells whether the row exists.
Audits == [made: BOOLEAN, auditor: Auditors \cup {Nobody}, reviewer: Reviewers \cup {Nobody}]
NoAudit == [made |-> FALSE, auditor |-> Nobody, reviewer |-> Nobody]

Steps == {"cancel", "invite", "accept", "assign", "drop", "write", "reopen",
          "list", "join", "member", "audit", "decline", "detach", "unlist",
          "reviewerWrite", "reviewerList", "flag", "reviewerDetach", "unflag",
          "open", "openAuditor", "openReviewer"}
Labels == {"idle", "done"} \cup Steps

\* user: whom the request is about; prev: whom it read on the row;
\* redo: the assessment was a completed self-disclosure when it was read.
Frames == [inv: Nat, user: People \cup {Nobody}, prev: People \cup {Nobody}, redo: BOOLEAN]
EmptyFrame == [inv |-> 0, user |-> Nobody, prev |-> Nobody, redo |-> FALSE]

At(a, l) == pc[a] = l
MoveTo(a, l, f) ==
    /\ pc' = [pc EXCEPT ![a] = l]
    /\ frame' = [frame EXCEPT ![a] = f]
Go(a, l) == MoveTo(a, l, IF l = "done" THEN EmptyFrame ELSE frame[a])

User(a) == frame[a].user

Redoable == assessment.type = "self_disclosure" /\ assessment.status = "completed"

Pending == {i \in DOMAIN invitations : invitations[i].status = "pending"}

\* updateStatus, by id alone.
Answer(i, status) == invitations' = [invitations EXCEPT ![i].status = status]

\* removeAssignedAssessment drops every entry of the assessment, addAssigned-
\* Assessment appends one more.
Unlist(p) == lists' = [lists EXCEPT ![p] = 0]
AddToList(p) == lists' = [lists EXCEPT ![p] = @ + 1]

-----------------------------------------------------------------------------
(* AssessmentInvitationService.createInvitation *)

InviteRead(a) ==
    /\ At(a, "idle")
    /\ assessment.auditor = Nobody \/ Redoable
    /\ \E u \in Auditors : MoveTo(a, "cancel", [EmptyFrame EXCEPT !.user = u])
    /\ UNCHANGED <<assessment, invitations, lists, audit, reviewerSet, thread, members, failures>>

CancelledPending(a) ==   \* a variant: a status the enum does not have
    /\ At(a, "cancel")
    /\ invitations' = [i \in DOMAIN invitations |->
          IF i \in Pending THEN [invitations[i] EXCEPT !.status = "cancelled"]
          ELSE invitations[i]]
    /\ Go(a, "invite")
    /\ UNCHANGED <<assessment, lists, audit, reviewerSet, thread, members, failures>>

CancelPending(a) ==
    /\ At(a, "cancel")
    /\ invitations' = [i \in DOMAIN invitations |->
          IF i \in Pending THEN [invitations[i] EXCEPT !.status = "declined"]
          ELSE invitations[i]]
    /\ Go(a, "invite")
    /\ UNCHANGED <<assessment, lists, audit, reviewerSet, thread, members, failures>>

\* The unique index lets one invitation be pending: the other insertion fails.
CreateInvitation(a) ==
    /\ At(a, "invite")
    /\ invitations' = IF Pending = {}
                      THEN Append(invitations, [user |-> User(a), status |-> "pending"])
                      ELSE invitations
    /\ Go(a, "done")
    /\ UNCHANGED <<assessment, lists, audit, reviewerSet, thread, members, failures>>

-----------------------------------------------------------------------------
(* acceptInvitation and declineInvitation *)

ReadInvitationOfAnyone(a, step) ==   \* a variant: the invited user is not compared
    /\ At(a, "idle")
    /\ \E i \in Pending, u \in Auditors :
          MoveTo(a, step, [EmptyFrame EXCEPT !.inv = i, !.user = u])
    /\ UNCHANGED <<assessment, invitations, lists, audit, reviewerSet, thread, members, failures>>

\* The auditor answers a pending invitation of his own.
ReadInvitation(a, step) ==
    /\ At(a, "idle")
    /\ \E i \in Pending :
          MoveTo(a, step, [EmptyFrame EXCEPT !.inv = i, !.user = invitations[i].user])
    /\ UNCHANGED <<assessment, invitations, lists, audit, reviewerSet, thread, members, failures>>

AcceptInvitation(a) ==
    /\ At(a, "accept")
    /\ Answer(frame[a].inv, "accepted")
    /\ Go(a, "assign")
    /\ UNCHANGED <<assessment, lists, audit, reviewerSet, thread, members, failures>>

DeclineInvitation(a) ==
    /\ At(a, "decline")
    /\ Answer(frame[a].inv, "declined")
    /\ Go(a, "done")
    /\ UNCHANGED <<assessment, lists, audit, reviewerSet, thread, members, failures>>

-----------------------------------------------------------------------------
(* AuditorService.assignToAssessment, as acceptInvitation calls it *)

AssignReadWhileInvited(a) ==   \* a variant: an open invitation of another auditor refuses it too
    /\ At(a, "assign")
    /\ LET prev == assessment.auditor
       IN  IF (prev # Nobody /\ ~Redoable) \/ Pending # {} THEN Go(a, "done")
           ELSE MoveTo(a, IF prev = Nobody THEN "write" ELSE "drop",
                       [frame[a] EXCEPT !.prev = prev, !.redo = Redoable])
    /\ UNCHANGED <<assessment, invitations, lists, audit, reviewerSet, thread, members, failures>>

\* Refused when somebody is assigned, except to a completed self-disclosure.
AssignRead(a) ==
    /\ At(a, "assign")
    /\ LET prev == assessment.auditor
       IN  IF prev # Nobody /\ ~Redoable THEN Go(a, "done")
           ELSE MoveTo(a, IF prev = Nobody THEN "write" ELSE "drop",
                       [frame[a] EXCEPT !.prev = prev, !.redo = Redoable])
    /\ UNCHANGED <<assessment, invitations, lists, audit, reviewerSet, thread, members, failures>>

DropPrevious(a) ==
    /\ At(a, "drop")
    /\ Unlist(frame[a].prev)
    /\ Go(a, "write")
    /\ UNCHANGED <<assessment, invitations, audit, reviewerSet, thread, members, failures>>

AssignAuditor(a) ==
    /\ At(a, "write")
    /\ assessment' = [assessment EXCEPT !.auditor = User(a)]
    /\ Go(a, IF frame[a].redo THEN "reopen" ELSE "list")
    /\ UNCHANGED <<invitations, lists, audit, reviewerSet, thread, members, failures>>

\* Back to 'submitted', so that the disclosure can be audited.
ReopenDisclosure(a) ==
    /\ At(a, "reopen")
    /\ assessment' = [assessment EXCEPT !.status = "submitted"]
    /\ Go(a, "list")
    /\ UNCHANGED <<invitations, lists, audit, reviewerSet, thread, members, failures>>

ListAndDrop(a) ==   \* a variant: the previous auditor's entry is dropped last
    /\ At(a, "list")
    /\ lists' = IF frame[a].prev = Nobody
                THEN [lists EXCEPT ![User(a)] = @ + 1]
                ELSE [[lists EXCEPT ![User(a)] = @ + 1] EXCEPT ![frame[a].prev] = 0]
    /\ Go(a, "join")
    /\ UNCHANGED <<assessment, invitations, audit, reviewerSet, thread, members, failures>>

AddAssignedAssessment(a) ==
    /\ At(a, "list")
    /\ AddToList(User(a))
    /\ Go(a, "join")
    /\ UNCHANGED <<assessment, invitations, audit, reviewerSet, thread, members, failures>>

\* ChatService.addParticipantToAssessmentThread: no thread, a locked one or a
\* participant already, and there is nothing to do.
AfterJoin(a) == IF User(a) \in Auditors THEN "audit" ELSE "done"

FindThreadOfParticipant(a) ==   \* a variant: only a participant's role is looked at
    /\ At(a, "join")
    /\ Go(a, IF thread = "open" /\ User(a) \in members THEN "member" ELSE AfterJoin(a))
    /\ UNCHANGED <<assessment, invitations, lists, audit, reviewerSet, thread, members, failures>>

FindThread(a) ==
    /\ At(a, "join")
    /\ Go(a, IF thread = "open" /\ User(a) \notin members THEN "member" ELSE AfterJoin(a))
    /\ UNCHANGED <<assessment, invitations, lists, audit, reviewerSet, thread, members, failures>>

AddParticipant(a) ==
    /\ At(a, "member")
    /\ members' = members \cup {User(a)}
    /\ Go(a, AfterJoin(a))
    /\ UNCHANGED <<assessment, invitations, lists, audit, reviewerSet, thread, failures>>

\* One statement: the row is inserted with the assessment's reviewer, or its
\* auditor is replaced and its reviewer kept.
CreateAuditOnAssignment(a) ==
    /\ At(a, "audit")
    /\ audit' = [made |-> TRUE, auditor |-> User(a),
                 reviewer |-> IF audit.reviewer # Nobody THEN audit.reviewer
                              ELSE assessment.reviewer]
    /\ Go(a, "done")
    /\ UNCHANGED <<assessment, invitations, lists, reviewerSet, thread, members, failures>>
-----------------------------------------------------------------------------
(* assignToAssessment without an auditor *)

UnassignRead(a) ==
    /\ At(a, "idle")
    /\ MoveTo(a, "detach", [EmptyFrame EXCEPT !.prev = assessment.auditor])
    /\ UNCHANGED <<assessment, invitations, lists, audit, reviewerSet, thread, members, failures>>

DetachAuditor(a) ==
    /\ At(a, "detach")
    /\ assessment' = [assessment EXCEPT !.auditor = Nobody]
    /\ Go(a, IF frame[a].prev = Nobody THEN "done" ELSE "unlist")
    /\ UNCHANGED <<invitations, lists, audit, reviewerSet, thread, members, failures>>

\* For a reviewer the AI review's flag is still to be cleared.
RemoveAssignedAssessment(a) ==
    /\ At(a, "unlist")
    /\ Unlist(frame[a].prev)
    /\ Go(a, IF frame[a].prev \in Auditors THEN "done" ELSE "unflag")
    /\ UNCHANGED <<assessment, invitations, audit, reviewerSet, thread, members, failures>>

-----------------------------------------------------------------------------
(* ReviewerService.assignToAssessment *)

ReviewerRead(a) ==
    /\ At(a, "idle")
    /\ assessment.reviewer = Nobody
    /\ \E r \in Reviewers : MoveTo(a, "reviewerWrite", [EmptyFrame EXCEPT !.user = r])
    /\ UNCHANGED <<assessment, invitations, lists, audit, reviewerSet, thread, members, failures>>

AssignReviewer(a) ==
    /\ At(a, "reviewerWrite")
    /\ assessment' = [assessment EXCEPT !.reviewer = User(a)]
    /\ Go(a, "reviewerList")
    /\ UNCHANGED <<invitations, lists, audit, reviewerSet, thread, members, failures>>

ListReviewer(a) ==
    /\ At(a, "reviewerList")
    /\ AddToList(User(a))
    /\ Go(a, "flag")
    /\ UNCHANGED <<assessment, invitations, audit, reviewerSet, thread, members, failures>>

\* setAssignedReviewer, after the thread has been joined, has no action of its
\* own: the row it proposes has no certificate_id, which is NOT NULL, and the
\* database refuses it before it looks for a conflict; the error is only logged.
FlagReviewer(a) ==
    /\ At(a, "flag")
    /\ reviewerSet' = TRUE
    /\ Go(a, "join")
    /\ UNCHANGED <<assessment, invitations, lists, audit, thread, members, failures>>

ReviewerUnassignRead(a) ==
    /\ At(a, "idle")
    /\ MoveTo(a, "reviewerDetach", [EmptyFrame EXCEPT !.prev = assessment.reviewer])
    /\ UNCHANGED <<assessment, invitations, lists, audit, reviewerSet, thread, members, failures>>

DetachReviewer(a) ==
    /\ At(a, "reviewerDetach")
    /\ assessment' = [assessment EXCEPT !.reviewer = Nobody]
    /\ Go(a, IF frame[a].prev = Nobody THEN "unflag" ELSE "unlist")
    /\ UNCHANGED <<invitations, lists, audit, reviewerSet, thread, members, failures>>

UnflagReviewer(a) ==
    /\ At(a, "unflag")
    /\ reviewerSet' = FALSE
    /\ Go(a, "done")
    /\ UNCHANGED <<assessment, invitations, lists, audit, thread, members, failures>>

-----------------------------------------------------------------------------
(* ChatService.createThreadForAssuredAssessment: the people it adds are the   *)
(* ones it read on the assessment before it looked for the thread.           *)

OpenRead(a) ==
    /\ At(a, "idle")
    /\ assessment.type = "assured" /\ thread = "none"
    /\ MoveTo(a, "open", [EmptyFrame EXCEPT !.user = assessment.auditor,
                                            !.prev = assessment.reviewer])
    /\ UNCHANGED <<assessment, invitations, lists, audit, reviewerSet, thread, members, failures>>

\* A second thread is refused by the unique index on the assessment and type.
CreateThread(a) ==
    /\ At(a, "open")
    /\ IF thread = "none" THEN thread' = "open" /\ Go(a, "openAuditor")
       ELSE UNCHANGED thread /\ Go(a, "done")
    /\ UNCHANGED <<assessment, invitations, lists, audit, reviewerSet, members, failures>>

OpenTo(a) ==
    /\ \/ At(a, "openAuditor") /\ members' = members \cup ({User(a)} \ {Nobody})
          /\ Go(a, "openReviewer")
       \/ At(a, "openReviewer") /\ members' = members \cup ({frame[a].prev} \ {Nobody})
          /\ Go(a, "done")
    /\ UNCHANGED <<assessment, invitations, lists, audit, reviewerSet, thread, failures>>

-----------------------------------------------------------------------------
(* The surroundings *)

\* A read of its score completes a self-disclosure whose AI review is complete.
GetAssessmentScore ==
    /\ assessment.type = "self_disclosure" /\ assessment.status = "submitted"
    /\ assessment' = [assessment EXCEPT !.status = "completed"]
    /\ UNCHANGED <<invitations, lists, audit, reviewerSet, thread, members, pc, frame, failures>>

\* The thread is locked when the certificate is issued.
LockThread ==
    /\ thread = "open"
    /\ thread' = "locked"
    /\ UNCHANGED <<assessment, invitations, lists, audit, reviewerSet, members, pc, frame, failures>>

\* A failing call ends its request; what goes wrong with the thread or the
\* audit record is caught.
Fault(a) ==
    /\ failures < MaxFailures /\ pc[a] \in Steps
    /\ failures' = failures + 1
    /\ Go(a, IF pc[a] \in {"join", "member"} THEN AfterJoin(a) ELSE "done")
    /\ UNCHANGED <<assessment, invitations, lists, audit, reviewerSet, thread, members>>

-----------------------------------------------------------------------------
\* A self-disclosure may have a thread already, of any age.
Init ==
    /\ assessment \in {x \in Assessments : x.auditor = Nobody /\ x.reviewer = Nobody}
    /\ assessment.type = "assured" => assessment.status = "submitted"
    /\ thread \in IF assessment.type = "assured" THEN {"none"} ELSE {"none", "open"}
    /\ invitations = <<>> /\ lists = [p \in People |-> 0]
    /\ audit = NoAudit /\ reviewerSet = FALSE /\ members = {}
    /\ pc = [a \in Actors |-> "idle"] /\ frame = [a \in Actors |-> EmptyFrame]
    /\ failures = 0

Start(a) ==
    \/ a \in Invites /\ InviteRead(a)
    \/ a \in Accepts /\ ReadInvitation(a, "accept")
    \/ a \in Declines /\ ReadInvitation(a, "decline")
    \/ a \in Unassigns /\ UnassignRead(a)
    \/ a \in ReviewerAssigns /\ ReviewerRead(a)
    \/ a \in ReviewerUnassigns /\ ReviewerUnassignRead(a)
    \/ a \in Openers /\ OpenRead(a)

Continue(a) ==
    \/ CancelPending(a) \/ CreateInvitation(a)
    \/ AcceptInvitation(a) \/ DeclineInvitation(a)
    \/ AssignRead(a) \/ DropPrevious(a) \/ AssignAuditor(a) \/ ReopenDisclosure(a)
    \/ AddAssignedAssessment(a) \/ FindThread(a) \/ AddParticipant(a)
    \/ CreateAuditOnAssignment(a)
    \/ DetachAuditor(a) \/ RemoveAssignedAssessment(a)
    \/ AssignReviewer(a) \/ ListReviewer(a) \/ FlagReviewer(a)
    \/ DetachReviewer(a) \/ UnflagReviewer(a)
    \/ CreateThread(a) \/ OpenTo(a)

Next ==
    \/ \E a \in Actors : Start(a) \/ Continue(a) \/ Fault(a)
    \/ GetAssessmentScore \/ LockThread

Spec == Init /\ [][Next]_vars

\* The event loop goes on with every acceptance it has begun.
Fairness == \A a \in Accepts : WF_vars(Continue(a))

FairSpec == Spec /\ Fairness

-----------------------------------------------------------------------------
(* Properties *)

TypeOK ==
    /\ assessment \in Assessments
    /\ invitations \in Seq(Invitations)
    /\ lists \in [People -> Nat]
    /\ audit \in Audits
    /\ reviewerSet \in BOOLEAN
    /\ thread \in {"none", "open", "locked"} /\ members \subseteq People
    /\ pc \in [Actors -> Labels]
    /\ frame \in [Actors -> Frames]
    /\ failures \in Nat

\* Auditors who have answered an invitation of theirs, whatever became of the
\* answer since.
Answered == {invitations[i].user : i \in DOMAIN invitations \ Pending}

\* No auditor is assigned, listed, named in the audit record or let into the
\* applicant's chat without an answered invitation of his own: invitations are
\* cancelled, replaced and answered at the same time, and every write is by id
\* (acceptInvitation, assignToAssessment, createThreadForAssuredAssessment).
ConsentGiven ==
    \A u \in Auditors :
        \/ assessment.auditor = u \/ lists[u] > 0
        \/ audit.auditor = u \/ u \in members
        => u \in Answered

Quiet == \A a \in Actors : pc[a] \in {"idle", "done"}
NotBegun(requests) == \A a \in requests : pc[a] = "idle"

\* However many acceptances overlap, the auditor who ends up on the assessment
\* has it in his list, an audit record and a place in the open thread, and so
\* has the reviewer; unless something failed or someone was taken off.
AssignmentTakesHold ==
    Quiet /\ failures = 0 /\ NotBegun(Openers) =>
        /\ NotBegun(Unassigns) /\ assessment.auditor # Nobody =>
              /\ lists[assessment.auditor] > 0 /\ audit.made
              /\ thread = "open" => assessment.auditor \in members
        /\ NotBegun(ReviewerUnassigns) /\ assessment.reviewer # Nobody =>
              /\ lists[assessment.reviewer] > 0 /\ reviewerSet
              /\ thread = "open" => assessment.reviewer \in members

\* An acceptance is not used up for nothing: once a request has marked its
\* invitation accepted, somebody is assigned, unless a call failed.
AcceptanceSettles ==
    \A a \in Accepts :
        pc[a] \in {"assign", "drop", "write"}
            ~> (failures > 0 \/ assessment.auditor # Nobody)
=============================================================================
