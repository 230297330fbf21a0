--------------------------- MODULE Assignment_proofs ---------------------------
(***************************************************************************)
(* Proofs about the assignment of one assessment, for any people, requests *)
(* and failures: type correctness, and that no auditor is involved without *)
(* an answered invitation of his own.                                       *)
(***************************************************************************)
EXTENDS Assignment, SequenceTheorems, TLAPS

-----------------------------------------------------------------------------
(* The inductive invariant *)

\* The auditor has answered an invitation of his, and the same after the step.
Consents(u) == \E i \in DOMAIN invitations :
    invitations[i].user = u /\ invitations[i].status # "pending"
ConsentsNext(u) == \E i \in DOMAIN invitations' :
    invitations'[i].user = u /\ invitations'[i].status # "pending"

Involved(u) ==
    \/ assessment.auditor = u \/ lists[u] > 0
    \/ audit.auditor = u \/ u \in members
InvolvedNext(u) ==
    \/ assessment'.auditor = u \/ lists'[u] > 0
    \/ audit'.auditor = u \/ u \in members'

\* What the locals of a request hold at a step: the roles of the people, ...
OfAuditor == {"cancel", "invite", "accept", "decline", "assign", "drop", "write",
              "reopen", "list", "audit"}
Opening == {"open", "openAuditor", "openReviewer"}

Roles(l, f) ==
    /\ l \in OfAuditor => f.user \in Auditors
    /\ l \in {"reviewerWrite", "reviewerList", "flag"} => f.user \in Reviewers
    /\ l \in {"join", "member"} => f.user \in People
    /\ l \in {"drop", "unlist"} => f.prev \in People
    /\ l \in Opening => f.user \in Auditors \cup {Nobody} /\ f.prev \in Reviewers \cup {Nobody}

\* ... and the invitation and the answer that brought it there.
Answering == {"accept", "decline"}
Consented == {"assign", "drop", "write", "reopen", "list", "join", "member", "audit",
              "open", "openAuditor"}

Backed(l, f) ==
    /\ l \in Answering => f.inv \in DOMAIN invitations /\ invitations[f.inv].user = f.user
    /\ l \in Consented /\ f.user \in Auditors => Consents(f.user)
BackedNext(l, f) ==
    /\ l \in Answering => f.inv \in DOMAIN invitations' /\ invitations'[f.inv].user = f.user
    /\ l \in Consented /\ f.user \in Auditors => ConsentsNext(f.user)

\* ConsentGiven is not inductive alone: a request writes the user it found some
\* steps earlier, in an invitation or on the assessment.
IInv ==
    /\ TypeOK
    /\ \A a \in Actors : Roles(pc[a], frame[a]) /\ Backed(pc[a], frame[a])
    /\ \A u \in Auditors : Involved(u) => Consents(u)

-----------------------------------------------------------------------------
(* What a step may do to the invitations *)

InvitationsStep ==
    /\ invitations' \in Seq(Invitations)
    /\ DOMAIN invitations \subseteq DOMAIN invitations'
    /\ \A i \in DOMAIN invitations :
          /\ invitations'[i].user = invitations[i].user
          /\ invitations[i].status # "pending" => invitations'[i].status # "pending"

LEMMA Listed ==
    ASSUME IInv
    PROVE  /\ invitations \in Seq(Invitations) /\ Len(invitations) \in Nat
           /\ DOMAIN invitations = 1..Len(invitations)
           /\ invitations \in [DOMAIN invitations -> Invitations]
BY LenProperties DEF IInv, TypeOK

LEMMA StaysAnswered ==
    ASSUME InvitationsStep, NEW u, Consents(u)
    PROVE  ConsentsNext(u)
BY DEF InvitationsStep, Consents, ConsentsNext

LEMMA StaysBacked ==
    ASSUME InvitationsStep, NEW l, NEW f, Backed(l, f)
    PROVE  BackedNext(l, f)
BY StaysAnswered DEF InvitationsStep, Backed, BackedNext

LEMMA NoInvitation ==
    ASSUME IInv, UNCHANGED invitations
    PROVE  InvitationsStep
BY DEF IInv, TypeOK, InvitationsStep

\* Invitations answered in place.
LEMMA InvitationsWritten ==
    ASSUME IInv, invitations' \in [DOMAIN invitations -> Invitations],
           \A i \in DOMAIN invitations :
              /\ invitations'[i].user = invitations[i].user
              /\ invitations[i].status # "pending" => invitations'[i].status # "pending"
    PROVE  InvitationsStep
<1>1. invitations' \in Seq(Invitations)
  BY Listed, SeqDef
<1> QED BY <1>1 DEF InvitationsStep

LEMMA OneAnswered ==
    ASSUME IInv, NEW i \in DOMAIN invitations, NEW status \in {"accepted", "declined"},
           Answer(i, status)
    PROVE  InvitationsStep /\ ConsentsNext(invitations[i].user)
<1> DEFINE row == [invitations[i] EXCEPT !.status = status]
<1>1. invitations \in [DOMAIN invitations -> Invitations]
  BY Listed
<1>2. row \in Invitations /\ row.user = invitations[i].user /\ row.status = status
  BY <1>1 DEF Invitations
<1>3. invitations' = [invitations EXCEPT ![i] = row]
  BY DEF Answer
<1> HIDE DEF row
<1>4. invitations' \in [DOMAIN invitations -> Invitations]
  BY <1>1, <1>2, <1>3
<1>5. InvitationsStep
  BY <1>1, <1>2, <1>3, <1>4, InvitationsWritten
<1> QED BY <1>2, <1>3, <1>4, <1>5 DEF ConsentsNext

LEMMA PendingDeclined ==
    ASSUME IInv, NEW a, CancelPending(a)
    PROVE  InvitationsStep
<1>1. invitations \in [DOMAIN invitations -> Invitations]
  BY Listed
<1>2. invitations' = [i \in DOMAIN invitations |->
          IF i \in Pending THEN [invitations[i] EXCEPT !.status = "declined"]
          ELSE invitations[i]]
  BY DEF CancelPending
<1>3. ASSUME NEW i \in DOMAIN invitations
      PROVE  /\ invitations'[i] \in Invitations
             /\ invitations'[i].user = invitations[i].user
             /\ invitations[i].status # "pending" => invitations'[i].status # "pending"
  BY <1>1, <1>2 DEF Invitations
<1>4. invitations' \in [DOMAIN invitations -> Invitations]
  BY <1>2, <1>3
<1> QED BY <1>3, <1>4, InvitationsWritten

LEMMA OneInvited ==
    ASSUME IInv, NEW a \in Actors, CreateInvitation(a)
    PROVE  InvitationsStep
<1> DEFINE row == [user |-> User(a), status |-> "pending"]
<1>1. row \in Invitations
  BY DEF IInv, CreateInvitation, At, Roles, OfAuditor, Invitations, User
<1>2. CASE UNCHANGED invitations
  BY <1>2, NoInvitation
<1>3. CASE invitations' = Append(invitations, row)
  <2> HIDE DEF row
  <2>1. /\ invitations' \in Seq(Invitations) /\ Len(invitations') = Len(invitations) + 1
        /\ \A i \in 1..Len(invitations) : invitations'[i] = invitations[i]
    BY <1>1, <1>3, Listed, AppendProperties
  <2>2. DOMAIN invitations' = 1..(Len(invitations) + 1)
    BY <2>1, LenProperties
  <2> QED BY <2>1, <2>2, Listed DEF InvitationsStep
<1> QED BY <1>2, <1>3 DEF CreateInvitation

-----------------------------------------------------------------------------
(* What a step may do to the requests *)

RequestsNext ==
    /\ pc' \in [Actors -> Labels] /\ frame' \in [Actors -> Frames]
    /\ \A a \in Actors : Roles(pc'[a], frame'[a]) /\ BackedNext(pc'[a], frame'[a])

LEMMA AllWait ==
    ASSUME IInv, InvitationsStep, UNCHANGED <<pc, frame>>
    PROVE  RequestsNext
BY StaysBacked DEF IInv, TypeOK, RequestsNext

LEMMA OneMoves ==
    ASSUME IInv, InvitationsStep, NEW a \in Actors, NEW l \in Labels, NEW f \in Frames,
           MoveTo(a, l, f), Roles(l, f), BackedNext(l, f)
    PROVE  RequestsNext
<1>1. pc \in [Actors -> Labels] /\ frame \in [Actors -> Frames]
  BY DEF IInv, TypeOK
<1>2. pc' \in [Actors -> Labels] /\ frame' \in [Actors -> Frames]
      /\ pc'[a] = l /\ frame'[a] = f
  BY <1>1 DEF MoveTo
<1>3. ASSUME NEW b \in Actors, b # a
      PROVE  Roles(pc'[b], frame'[b]) /\ BackedNext(pc'[b], frame'[b])
  <2>1. pc'[b] = pc[b] /\ frame'[b] = frame[b]
    BY <1>1, <1>3 DEF MoveTo
  <2> QED BY <2>1, StaysBacked DEF IInv
<1> QED BY <1>2, <1>3 DEF RequestsNext

LEMMA Blank == EmptyFrame \in Frames
BY DEF EmptyFrame, Frames

LEMMA OneGoes ==
    ASSUME IInv, InvitationsStep, NEW a \in Actors, NEW l \in Labels, Go(a, l),
           l # "done" => Roles(l, frame[a]) /\ BackedNext(l, frame[a])
    PROVE  RequestsNext
<1>1. frame[a] \in Frames
  BY DEF IInv, TypeOK
<1>2. CASE l = "done"
  <2>1. MoveTo(a, l, EmptyFrame)
    BY <1>2 DEF Go
  <2>2. Roles(l, EmptyFrame) /\ BackedNext(l, EmptyFrame)
    BY <1>2 DEF Roles, BackedNext, OfAuditor, Opening, Answering, Consented
  <2> QED BY <2>1, <2>2, Blank, OneMoves
<1>3. CASE l # "done"
  <2>1. MoveTo(a, l, frame[a])
    BY <1>3 DEF Go
  <2> QED BY <1>1, <1>3, <2>1, OneMoves
<1> QED BY <1>2, <1>3

LEMMA OneEnds ==
    ASSUME IInv, InvitationsStep, NEW a \in Actors, Go(a, "done")
    PROVE  RequestsNext
BY OneGoes DEF Labels

\* A request that goes on while the invitations stay as they are.
LEMMA OneGoesOn ==
    ASSUME IInv, UNCHANGED invitations, NEW a \in Actors, NEW l \in Labels, Go(a, l),
           l # "done" => Roles(l, frame[a]) /\ Backed(l, frame[a])
    PROVE  RequestsNext
BY NoInvitation, StaysBacked, OneGoes

LEMMA OneReads ==
    ASSUME IInv, UNCHANGED invitations, NEW a \in Actors, NEW l \in Labels, NEW f \in Frames,
           MoveTo(a, l, f), Roles(l, f), Backed(l, f)
    PROVE  RequestsNext
BY NoInvitation, StaysBacked, OneMoves

-----------------------------------------------------------------------------
(* What a step may do to the rest *)

WorkTypes ==
    /\ assessment \in Assessments
    /\ lists \in [People -> Nat]
    /\ audit \in Audits
    /\ reviewerSet \in BOOLEAN
    /\ thread \in {"none", "open", "locked"} /\ members \subseteq People
    /\ failures \in Nat

Orderly ==
    /\ InvitationsStep /\ RequestsNext /\ WorkTypes'
    /\ \A u \in Auditors : InvolvedNext(u) => Involved(u) \/ Consents(u)

LEMMA OrderlyKeeps ==
    ASSUME IInv, Orderly
    PROVE  IInv'
<1>1. TypeOK'
  BY DEF Orderly, InvitationsStep, RequestsNext, WorkTypes, TypeOK
<1>2. \A a \in Actors : Roles(pc'[a], frame'[a]) /\ BackedNext(pc'[a], frame'[a])
  BY DEF Orderly, RequestsNext
<1>3. \A u \in Auditors : InvolvedNext(u) => ConsentsNext(u)
  BY StaysAnswered DEF Orderly, IInv
<1>4. \A a \in Actors : Roles(pc[a], frame[a])' /\ Backed(pc[a], frame[a])'
  BY <1>2 DEF Roles, Backed, BackedNext, Consents, ConsentsNext
<1>5. \A u \in Auditors : Involved(u)' => Consents(u)'
  BY <1>3 DEF Involved, InvolvedNext, Consents, ConsentsNext
<1> QED BY <1>1, <1>4, <1>5 DEF IInv

LEMMA Types ==
    ASSUME IInv
    PROVE  WorkTypes
BY DEF IInv, TypeOK, WorkTypes

LEMMA Untouched ==
    ASSUME IInv, InvitationsStep, RequestsNext,
           UNCHANGED <<assessment, lists, audit, reviewerSet, thread, members, failures>>
    PROVE  Orderly
<1>1. WorkTypes'
  BY Types DEF WorkTypes
<1>2. \A u \in Auditors : InvolvedNext(u) => Involved(u)
  BY DEF Involved, InvolvedNext
<1> QED BY <1>1, <1>2 DEF Orderly

\* The locals of the request at a.
LEMMA Here ==
    ASSUME IInv, NEW a \in Actors
    PROVE  frame[a] \in Frames /\ Roles(pc[a], frame[a]) /\ Backed(pc[a], frame[a])
BY DEF IInv, TypeOK

\* A request that only reads, or is refused.
LEMMA Reads ==
    ASSUME IInv, NEW a \in Actors, NEW l \in Labels, NEW f \in Frames,
           MoveTo(a, l, f), Roles(l, f), Backed(l, f),
           UNCHANGED <<assessment, invitations, lists, audit, reviewerSet, thread,
                       members, failures>>
    PROVE  Orderly
BY NoInvitation, OneReads, Untouched

LEMMA Turns ==
    ASSUME IInv, NEW a \in Actors, NEW l \in Labels, Go(a, l),
           l # "done" => Roles(l, frame[a]) /\ Backed(l, frame[a]),
           UNCHANGED <<assessment, invitations, lists, audit, reviewerSet, thread,
                       members, failures>>
    PROVE  Orderly
BY NoInvitation, OneGoesOn, Untouched

-----------------------------------------------------------------------------
(* Invitations and their answers *)

LEMMA InviteReadKeeps ==
    ASSUME IInv, NEW a \in Actors, InviteRead(a)
    PROVE  Orderly
<1>1. PICK u \in Auditors : MoveTo(a, "cancel", [EmptyFrame EXCEPT !.user = u])
  BY DEF InviteRead
<1> DEFINE f == [EmptyFrame EXCEPT !.user = u]
<1>2. f \in Frames /\ f.user = u
  BY Blank DEF Frames, People
<1>3. MoveTo(a, "cancel", f)
  BY <1>1
<1> HIDE DEF f
<1>4. Roles("cancel", f) /\ Backed("cancel", f)
  BY <1>2 DEF Roles, Backed, Opening, Answering, Consented
<1> QED BY <1>2, <1>3, <1>4, Reads DEF InviteRead, Labels, Steps

LEMMA CancelPendingKeeps ==
    ASSUME IInv, NEW a \in Actors, CancelPending(a)
    PROVE  Orderly
<1>1. InvitationsStep
  BY PendingDeclined
<1>2. Roles("invite", frame[a]) /\ BackedNext("invite", frame[a])
  BY Here DEF CancelPending, At, Roles, BackedNext, OfAuditor, Opening, Answering, Consented
<1>3. RequestsNext
  BY <1>1, <1>2, OneGoes DEF CancelPending, Labels, Steps
<1> QED BY <1>1, <1>3, Untouched DEF CancelPending

LEMMA CreateInvitationKeeps ==
    ASSUME IInv, NEW a \in Actors, CreateInvitation(a)
    PROVE  Orderly
<1>1. InvitationsStep
  BY OneInvited
<1>2. RequestsNext
  BY <1>1, OneEnds DEF CreateInvitation
<1> QED BY <1>1, <1>2, Untouched DEF CreateInvitation

LEMMA ReadInvitationKeeps ==
    ASSUME IInv, NEW a \in Actors, NEW step \in Answering, ReadInvitation(a, step)
    PROVE  Orderly
<1>1. PICK i \in Pending :
         MoveTo(a, step, [EmptyFrame EXCEPT !.inv = i, !.user = invitations[i].user])
  BY DEF ReadInvitation
<1> DEFINE f == [EmptyFrame EXCEPT !.inv = i, !.user = invitations[i].user]
<1>2. i \in DOMAIN invitations /\ i \in Nat /\ invitations[i].user \in Auditors
  BY Listed DEF Pending, Invitations
<1>3. f \in Frames /\ f.inv = i /\ f.user = invitations[i].user
  BY <1>2, Blank DEF Frames, People
<1>4. MoveTo(a, step, f)
  BY <1>1
<1> HIDE DEF f
<1>5. Roles(step, f) /\ Backed(step, f)
  BY <1>2, <1>3 DEF Roles, Backed, Opening, Answering, Consented
<1> QED BY <1>3, <1>4, <1>5, Reads DEF ReadInvitation, Labels, Steps, Answering

LEMMA AcceptInvitationKeeps ==
    ASSUME IInv, NEW a \in Actors, AcceptInvitation(a)
    PROVE  Orderly
<1>1. /\ frame[a].inv \in DOMAIN invitations /\ frame[a].user \in Auditors
      /\ invitations[frame[a].inv].user = frame[a].user
  BY Here DEF AcceptInvitation, At, Roles, Backed, OfAuditor, Answering
<1>2. InvitationsStep /\ ConsentsNext(frame[a].user)
  BY <1>1, OneAnswered DEF AcceptInvitation
<1>3. Roles("assign", frame[a]) /\ BackedNext("assign", frame[a])
  BY <1>1, <1>2 DEF Roles, BackedNext, Opening, Answering
<1>4. RequestsNext
  BY <1>2, <1>3, OneGoes DEF AcceptInvitation, Labels, Steps
<1> QED BY <1>2, <1>4, Untouched DEF AcceptInvitation

LEMMA DeclineInvitationKeeps ==
    ASSUME IInv, NEW a \in Actors, DeclineInvitation(a)
    PROVE  Orderly
<1>1. frame[a].inv \in DOMAIN invitations
  BY Here DEF DeclineInvitation, At, Backed, Answering
<1>2. InvitationsStep
  BY <1>1, OneAnswered DEF DeclineInvitation
<1>3. RequestsNext
  BY <1>2, OneEnds DEF DeclineInvitation
<1> QED BY <1>2, <1>3, Untouched DEF DeclineInvitation

-----------------------------------------------------------------------------
(* The assignment of an auditor *)

LEMMA AssignReadKeeps ==
    ASSUME IInv, NEW a \in Actors, AssignRead(a)
    PROVE  Orderly
<1> DEFINE prev == assessment.auditor
           f == [frame[a] EXCEPT !.prev = prev, !.redo = Redoable]
<1>1. UNCHANGED <<assessment, invitations, lists, audit, reviewerSet, thread, members, failures>>
  BY DEF AssignRead
<1>2. CASE Go(a, "done")
  BY <1>1, <1>2, Turns DEF Labels
<1>3. CASE MoveTo(a, IF prev = Nobody THEN "write" ELSE "drop", f)
  <2>1. prev \in Auditors \cup {Nobody}
    BY DEF IInv, TypeOK, Assessments
  <2>2. frame[a] \in Frames /\ Roles("assign", frame[a]) /\ Backed("assign", frame[a])
    BY Here DEF AssignRead, At
  <2>3. f \in Frames /\ f.user = frame[a].user /\ f.prev = prev
    BY <2>1, <2>2 DEF Frames, People, Redoable
  <2> HIDE DEF f
  <2>4. /\ Roles("write", f) /\ Backed("write", f)
        /\ prev # Nobody => Roles("drop", f) /\ Backed("drop", f)
    BY <2>1, <2>2, <2>3 DEF Roles, Backed, OfAuditor, Opening, Answering, Consented, People
  <2>5. CASE prev = Nobody
    BY <1>1, <1>3, <2>3, <2>4, <2>5, Reads DEF Labels, Steps
  <2>6. CASE prev # Nobody
    BY <1>1, <1>3, <2>3, <2>4, <2>6, Reads DEF Labels, Steps
  <2> QED BY <2>5, <2>6
<1> QED BY <1>2, <1>3 DEF AssignRead

\* What is dropped from a list involves nobody.
LEMMA Unlisted ==
    ASSUME IInv, NEW p \in People, Unlist(p), InvitationsStep, RequestsNext,
           UNCHANGED <<assessment, audit, reviewerSet, thread, members, failures>>
    PROVE  Orderly
<1>1. lists \in [People -> Nat]
  BY DEF IInv, TypeOK
<1>2. lists' \in [People -> Nat] /\ \A u \in People : lists'[u] > 0 => lists[u] > 0
  BY <1>1 DEF Unlist
<1>3. WorkTypes'
  BY <1>2, Types DEF WorkTypes
<1>4. \A u \in Auditors : InvolvedNext(u) => Involved(u)
  BY <1>2 DEF Involved, InvolvedNext, People
<1> QED BY <1>3, <1>4 DEF Orderly

\* Whoever is listed has answered, or is a reviewer.
LEMMA OneListed ==
    ASSUME IInv, NEW p \in People, AddToList(p), p \in Auditors => Consents(p),
           InvitationsStep, RequestsNext,
           UNCHANGED <<assessment, audit, reviewerSet, thread, members, failures>>
    PROVE  Orderly
<1>1. lists \in [People -> Nat]
  BY DEF IInv, TypeOK
<1>2. lists' \in [People -> Nat] /\ \A u \in People : u # p => lists'[u] = lists[u]
  BY <1>1 DEF AddToList
<1>3. WorkTypes'
  BY <1>2, Types DEF WorkTypes
<1>4. \A u \in Auditors : InvolvedNext(u) => Involved(u) \/ Consents(u)
  BY <1>2 DEF Involved, InvolvedNext, People
<1> QED BY <1>3, <1>4 DEF Orderly

LEMMA DropPreviousKeeps ==
    ASSUME IInv, NEW a \in Actors, DropPrevious(a)
    PROVE  Orderly
<1>1. Roles("drop", frame[a]) /\ Backed("drop", frame[a])
  BY Here DEF DropPrevious, At
<1>2. frame[a].prev \in People /\ Roles("write", frame[a]) /\ Backed("write", frame[a])
  BY <1>1 DEF Roles, Backed, OfAuditor, Opening, Answering, Consented
<1>3. RequestsNext
  BY <1>2, OneGoesOn DEF DropPrevious, Labels, Steps
<1> QED BY <1>2, <1>3, NoInvitation, Unlisted DEF DropPrevious

LEMMA AssignAuditorKeeps ==
    ASSUME IInv, NEW a \in Actors, AssignAuditor(a)
    PROVE  Orderly
<1>1. Roles("write", frame[a]) /\ Backed("write", frame[a])
  BY Here DEF AssignAuditor, At
<1>2. User(a) \in Auditors /\ Consents(User(a))
  BY <1>1 DEF Roles, Backed, OfAuditor, Consented, User
<1>3. /\ Roles("reopen", frame[a]) /\ Backed("reopen", frame[a])
      /\ Roles("list", frame[a]) /\ Backed("list", frame[a])
  BY <1>1 DEF Roles, Backed, OfAuditor, Opening, Answering, Consented
<1>4. RequestsNext
  <2>1. UNCHANGED invitations /\ (Go(a, "reopen") \/ Go(a, "list"))
    BY DEF AssignAuditor
  <2> QED BY <1>3, <2>1, OneGoesOn DEF Labels, Steps
<1>5. assessment \in Assessments /\ assessment' = [assessment EXCEPT !.auditor = User(a)]
  BY DEF IInv, TypeOK, AssignAuditor
<1>6. assessment' \in Assessments /\ assessment'.auditor = User(a)
  BY <1>2, <1>5 DEF Assessments
<1>7. WorkTypes'
  BY <1>6, Types DEF WorkTypes, AssignAuditor
<1>8. \A u \in Auditors : InvolvedNext(u) => Involved(u) \/ Consents(u)
  BY <1>2, <1>6 DEF Involved, InvolvedNext, AssignAuditor
<1> QED BY <1>4, <1>7, <1>8, NoInvitation DEF Orderly, AssignAuditor

\* A write of the row that leaves its auditor alone, or removes him.
LEMMA RowWritten ==
    ASSUME IInv, InvitationsStep, RequestsNext, assessment' \in Assessments,
           assessment'.auditor \in {assessment.auditor, Nobody},
           UNCHANGED <<lists, audit, reviewerSet, thread, members, failures>>
    PROVE  Orderly
<1>1. WorkTypes'
  BY Types DEF WorkTypes
<1>2. \A u \in Auditors : u # Nobody
  BY PeopleDistinct DEF People
<1>3. \A u \in Auditors : InvolvedNext(u) => Involved(u)
  BY <1>2 DEF Involved, InvolvedNext
<1> QED BY <1>1, <1>3 DEF Orderly

LEMMA ReopenDisclosureKeeps ==
    ASSUME IInv, NEW a \in Actors, ReopenDisclosure(a)
    PROVE  Orderly
<1>1. Roles("list", frame[a]) /\ Backed("list", frame[a])
  BY Here DEF ReopenDisclosure, At, Roles, Backed, OfAuditor, Opening, Answering, Consented
<1>2. RequestsNext
  BY <1>1, OneGoesOn DEF ReopenDisclosure, Labels, Steps
<1>3. assessment' \in Assessments /\ assessment'.auditor = assessment.auditor
  BY Types DEF WorkTypes, Assessments, ReopenDisclosure
<1> QED BY <1>2, <1>3, NoInvitation, RowWritten DEF ReopenDisclosure

LEMMA AddAssignedAssessmentKeeps ==
    ASSUME IInv, NEW a \in Actors, AddAssignedAssessment(a)
    PROVE  Orderly
<1>1. Roles("list", frame[a]) /\ Backed("list", frame[a])
  BY Here DEF AddAssignedAssessment, At
<1>2. User(a) \in Auditors /\ Consents(User(a)) /\ User(a) \in People
  BY <1>1 DEF Roles, Backed, OfAuditor, Consented, User, People
<1>3. Roles("join", frame[a]) /\ Backed("join", frame[a])
  BY <1>1, <1>2 DEF Roles, Backed, OfAuditor, Opening, Answering, Consented, User
<1>4. RequestsNext
  BY <1>3, OneGoesOn DEF AddAssignedAssessment, Labels, Steps
<1> QED BY <1>2, <1>4, NoInvitation, OneListed DEF AddAssignedAssessment

\* From the thread a request goes on to the audit record, or ends.
LEMMA ThreadDone ==
    ASSUME IInv, UNCHANGED invitations, NEW a \in Actors, pc[a] \in {"join", "member"},
           Go(a, AfterJoin(a))
    PROVE  RequestsNext
<1>1. Roles(pc[a], frame[a]) /\ Backed(pc[a], frame[a])
  BY Here
<1>2. CASE User(a) \in Auditors
  <2>1. Go(a, "audit")
    BY <1>2 DEF AfterJoin
  <2>2. Roles("audit", frame[a]) /\ Backed("audit", frame[a])
    BY <1>1, <1>2 DEF Roles, Backed, OfAuditor, Opening, Answering, Consented, User
  <2> QED BY <2>1, <2>2, OneGoesOn DEF Labels, Steps
<1>3. CASE User(a) \notin Auditors
  <2>1. Go(a, "done")
    BY <1>3 DEF AfterJoin
  <2> QED BY <2>1, NoInvitation, OneEnds
<1> QED BY <1>2, <1>3

LEMMA FindThreadKeeps ==
    ASSUME IInv, NEW a \in Actors, FindThread(a)
    PROVE  Orderly
<1>1. UNCHANGED <<assessment, invitations, lists, audit, reviewerSet, thread, members, failures>>
      /\ pc[a] = "join"
  BY DEF FindThread, At
<1>2. CASE Go(a, "member")
  <2>1. Roles("member", frame[a]) /\ Backed("member", frame[a])
    BY <1>1, Here DEF Roles, Backed, OfAuditor, Opening, Answering, Consented
  <2> QED BY <1>1, <1>2, <2>1, Turns DEF Labels, Steps
<1>3. CASE Go(a, AfterJoin(a))
  <2>1. RequestsNext
    BY <1>1, <1>3, ThreadDone
  <2> QED BY <1>1, <2>1, NoInvitation, Untouched
<1> QED BY <1>2, <1>3 DEF FindThread

\* Whoever is let in has answered, or is a reviewer.
LEMMA OneJoins ==
    ASSUME IInv, InvitationsStep, RequestsNext, NEW p \in People \cup {Nobody},
           p \in Auditors => Consents(p),
           members' = members \cup ({p} \ {Nobody}),
           UNCHANGED <<assessment, lists, audit, reviewerSet, thread, failures>>
    PROVE  Orderly
<1>1. members' \subseteq People
  BY DEF IInv, TypeOK
<1>2. WorkTypes'
  BY <1>1, Types DEF WorkTypes
<1>3. \A u \in Auditors : InvolvedNext(u) => Involved(u) \/ Consents(u)
  BY DEF Involved, InvolvedNext
<1> QED BY <1>2, <1>3 DEF Orderly

LEMMA AddParticipantKeeps ==
    ASSUME IInv, NEW a \in Actors, AddParticipant(a)
    PROVE  Orderly
<1>1. Roles("member", frame[a]) /\ Backed("member", frame[a])
  BY Here DEF AddParticipant, At
<1>2. User(a) \in People /\ (User(a) \in Auditors => Consents(User(a)))
  BY <1>1 DEF Roles, Backed, Consented, User
<1>3. RequestsNext
  BY ThreadDone DEF AddParticipant, At
<1>4. User(a) # Nobody
  BY <1>2, PeopleDistinct
<1>5. members' = members \cup ({User(a)} \ {Nobody})
  BY <1>4 DEF AddParticipant
<1> QED BY <1>2, <1>3, <1>5, NoInvitation, OneJoins DEF AddParticipant

LEMMA CreateAuditKeeps ==
    ASSUME IInv, NEW a \in Actors, CreateAuditOnAssignment(a)
    PROVE  Orderly
<1>1. User(a) \in Auditors /\ Consents(User(a))
  BY Here DEF CreateAuditOnAssignment, At, Roles, Backed, OfAuditor, Consented, User
<1>2. assessment.reviewer \in Reviewers \cup {Nobody} /\ audit.reviewer \in Reviewers \cup {Nobody}
  BY Types DEF WorkTypes, Assessments, Audits
<1>3. audit' \in Audits /\ audit'.auditor = User(a)
  BY <1>1, <1>2 DEF CreateAuditOnAssignment, Audits
<1>4. WorkTypes'
  BY <1>3, Types DEF WorkTypes, CreateAuditOnAssignment
<1>5. \A u \in Auditors : InvolvedNext(u) => Involved(u) \/ Consents(u)
  BY <1>1, <1>3 DEF Involved, InvolvedNext, CreateAuditOnAssignment
<1>6. RequestsNext
  BY NoInvitation, OneEnds DEF CreateAuditOnAssignment
<1> QED BY <1>4, <1>5, <1>6, NoInvitation DEF Orderly, CreateAuditOnAssignment

-----------------------------------------------------------------------------
(* Taking somebody off, and the reviewer *)

LEMMA UnassignReadKeeps ==
    ASSUME IInv, NEW a \in Actors, UnassignRead(a)
    PROVE  Orderly
<1> DEFINE f == [EmptyFrame EXCEPT !.prev = assessment.auditor]
<1>1. f \in Frames
  BY Types, Blank DEF WorkTypes, Assessments, Frames, People
<1>2. MoveTo(a, "detach", f)
  BY DEF UnassignRead
<1> HIDE DEF f
<1>3. Roles("detach", f) /\ Backed("detach", f)
  BY DEF Roles, Backed, OfAuditor, Opening, Answering, Consented
<1> QED BY <1>1, <1>2, <1>3, Reads DEF UnassignRead, Labels, Steps

\* From either detachment to the list of the person who was taken off.
LEMMA ToUnlist ==
    ASSUME IInv, UNCHANGED invitations, NEW a \in Actors, frame[a].prev # Nobody, Go(a, "unlist")
    PROVE  RequestsNext
<1>1. frame[a].prev \in People
  BY Here DEF Frames
<1>2. Roles("unlist", frame[a]) /\ Backed("unlist", frame[a])
  BY <1>1 DEF Roles, Backed, OfAuditor, Opening, Answering, Consented
<1> QED BY <1>2, OneGoesOn DEF Labels, Steps

LEMMA ToUnflag ==
    ASSUME IInv, UNCHANGED invitations, NEW a \in Actors, Go(a, "unflag")
    PROVE  RequestsNext
<1>1. Roles("unflag", frame[a]) /\ Backed("unflag", frame[a])
  BY DEF Roles, Backed, OfAuditor, Opening, Answering, Consented
<1> QED BY <1>1, OneGoesOn DEF Labels, Steps

LEMMA DetachAuditorKeeps ==
    ASSUME IInv, NEW a \in Actors, DetachAuditor(a)
    PROVE  Orderly
<1>1. RequestsNext
  <2>1. CASE frame[a].prev = Nobody
    BY <2>1, NoInvitation, OneEnds DEF DetachAuditor
  <2>2. CASE frame[a].prev # Nobody
    BY <2>2, ToUnlist DEF DetachAuditor
  <2> QED BY <2>1, <2>2
<1>2. assessment' \in Assessments /\ assessment'.auditor = Nobody
  BY Types DEF WorkTypes, Assessments, DetachAuditor
<1> QED BY <1>1, <1>2, NoInvitation, RowWritten DEF DetachAuditor

LEMMA RemoveAssignedAssessmentKeeps ==
    ASSUME IInv, NEW a \in Actors, RemoveAssignedAssessment(a)
    PROVE  Orderly
<1>1. frame[a].prev \in People
  BY Here DEF RemoveAssignedAssessment, At, Roles
<1>2. RequestsNext
  BY NoInvitation, OneEnds, ToUnflag DEF RemoveAssignedAssessment
<1> QED BY <1>1, <1>2, NoInvitation, Unlisted DEF RemoveAssignedAssessment

LEMMA ReviewerReadKeeps ==
    ASSUME IInv, NEW a \in Actors, ReviewerRead(a)
    PROVE  Orderly
<1>1. PICK r \in Reviewers : MoveTo(a, "reviewerWrite", [EmptyFrame EXCEPT !.user = r])
  BY DEF ReviewerRead
<1> DEFINE f == [EmptyFrame EXCEPT !.user = r]
<1>2. f \in Frames /\ f.user = r
  BY Blank DEF Frames, People
<1>3. MoveTo(a, "reviewerWrite", f)
  BY <1>1
<1> HIDE DEF f
<1>4. Roles("reviewerWrite", f) /\ Backed("reviewerWrite", f)
  BY <1>2 DEF Roles, Backed, OfAuditor, Opening, Answering, Consented
<1> QED BY <1>2, <1>3, <1>4, Reads DEF ReviewerRead, Labels, Steps

LEMMA AssignReviewerKeeps ==
    ASSUME IInv, NEW a \in Actors, AssignReviewer(a)
    PROVE  Orderly
<1>1. User(a) \in Reviewers
  BY Here DEF AssignReviewer, At, Roles, User
<1>2. Roles("reviewerList", frame[a]) /\ Backed("reviewerList", frame[a])
  BY <1>1 DEF Roles, Backed, OfAuditor, Opening, Answering, Consented, User
<1>3. RequestsNext
  BY <1>2, OneGoesOn DEF AssignReviewer, Labels, Steps
<1>4. assessment' \in Assessments /\ assessment'.auditor = assessment.auditor
  BY <1>1, Types DEF WorkTypes, Assessments, AssignReviewer
<1> QED BY <1>3, <1>4, NoInvitation, RowWritten DEF AssignReviewer

LEMMA ListReviewerKeeps ==
    ASSUME IInv, NEW a \in Actors, ListReviewer(a)
    PROVE  Orderly
<1>1. User(a) \in Reviewers
  BY Here DEF ListReviewer, At, Roles, User
<1>2. Roles("flag", frame[a]) /\ Backed("flag", frame[a])
  BY <1>1 DEF Roles, Backed, OfAuditor, Opening, Answering, Consented, User
<1>3. RequestsNext
  BY <1>2, OneGoesOn DEF ListReviewer, Labels, Steps
<1>4. User(a) \in People /\ User(a) \notin Auditors
  BY <1>1, PeopleDistinct DEF People
<1> QED BY <1>3, <1>4, NoInvitation, OneListed DEF ListReviewer

\* A step that involves nobody.
LEMMA Aside ==
    ASSUME IInv, InvitationsStep, RequestsNext,
           UNCHANGED reviewerSet \/ reviewerSet' \in BOOLEAN,
           UNCHANGED thread \/ thread' \in {"open", "locked"},
           UNCHANGED failures \/ failures' = failures + 1,
           UNCHANGED <<assessment, lists, audit, members>>
    PROVE  Orderly
<1>1. WorkTypes'
  BY Types DEF WorkTypes
<1>2. \A u \in Auditors : InvolvedNext(u) => Involved(u)
  BY DEF Involved, InvolvedNext
<1> QED BY <1>1, <1>2 DEF Orderly

LEMMA FlagReviewerKeeps ==
    ASSUME IInv, NEW a \in Actors, FlagReviewer(a)
    PROVE  Orderly
<1>1. User(a) \in Reviewers
  BY Here DEF FlagReviewer, At, Roles, User
<1>2. User(a) \in People /\ User(a) \notin Auditors
  BY <1>1, PeopleDistinct DEF People
<1>3. Roles("join", frame[a]) /\ Backed("join", frame[a])
  BY <1>2 DEF Roles, Backed, OfAuditor, Opening, Answering, Consented, User
<1>4. RequestsNext
  BY <1>3, OneGoesOn DEF FlagReviewer, Labels, Steps
<1> QED BY <1>4, NoInvitation, Aside DEF FlagReviewer

LEMMA ReviewerUnassignReadKeeps ==
    ASSUME IInv, NEW a \in Actors, ReviewerUnassignRead(a)
    PROVE  Orderly
<1> DEFINE f == [EmptyFrame EXCEPT !.prev = assessment.reviewer]
<1>1. f \in Frames
  BY Types, Blank DEF WorkTypes, Assessments, Frames, People
<1>2. MoveTo(a, "reviewerDetach", f)
  BY DEF ReviewerUnassignRead
<1> HIDE DEF f
<1>3. Roles("reviewerDetach", f) /\ Backed("reviewerDetach", f)
  BY DEF Roles, Backed, OfAuditor, Opening, Answering, Consented
<1> QED BY <1>1, <1>2, <1>3, Reads DEF ReviewerUnassignRead, Labels, Steps

LEMMA DetachReviewerKeeps ==
    ASSUME IInv, NEW a \in Actors, DetachReviewer(a)
    PROVE  Orderly
<1>1. RequestsNext
  <2>1. CASE frame[a].prev = Nobody
    BY <2>1, ToUnflag DEF DetachReviewer
  <2>2. CASE frame[a].prev # Nobody
    BY <2>2, ToUnlist DEF DetachReviewer
  <2> QED BY <2>1, <2>2
<1>2. assessment' \in Assessments /\ assessment'.auditor = assessment.auditor
  BY Types DEF WorkTypes, Assessments, DetachReviewer
<1> QED BY <1>1, <1>2, NoInvitation, RowWritten DEF DetachReviewer

LEMMA UnflagReviewerKeeps ==
    ASSUME IInv, NEW a \in Actors, UnflagReviewer(a)
    PROVE  Orderly
BY NoInvitation, OneEnds, Aside DEF UnflagReviewer

-----------------------------------------------------------------------------
(* The thread and the surroundings *)

\* Whoever is on the assessment has answered.
LEMMA OpenReadKeeps ==
    ASSUME IInv, NEW a \in Actors, OpenRead(a)
    PROVE  Orderly
<1> DEFINE f == [EmptyFrame EXCEPT !.user = assessment.auditor, !.prev = assessment.reviewer]
<1>1. assessment.auditor \in Auditors \cup {Nobody} /\ assessment.reviewer \in Reviewers \cup {Nobody}
  BY Types DEF WorkTypes, Assessments
<1>2. f \in Frames /\ f.user = assessment.auditor /\ f.prev = assessment.reviewer
  BY <1>1, Blank DEF Frames, People
<1>3. MoveTo(a, "open", f)
  BY DEF OpenRead
<1> HIDE DEF f
<1>4. f.user \in Auditors => Consents(f.user)
  BY <1>2 DEF IInv, Involved
<1>5. Roles("open", f) /\ Backed("open", f)
  BY <1>1, <1>2, <1>4 DEF Roles, Backed, OfAuditor, Answering
<1> QED BY <1>2, <1>3, <1>5, Reads DEF OpenRead, Labels, Steps

LEMMA CreateThreadKeeps ==
    ASSUME IInv, NEW a \in Actors, CreateThread(a)
    PROVE  Orderly
<1>1. Roles("openAuditor", frame[a]) /\ Backed("openAuditor", frame[a])
  BY Here DEF CreateThread, At, Roles, Backed, OfAuditor, Opening, Answering, Consented
<1>2. RequestsNext
  BY <1>1, OneGoesOn DEF CreateThread, Labels, Steps
<1> QED BY <1>2, NoInvitation, Aside DEF CreateThread

LEMMA OpenToKeeps ==
    ASSUME IInv, NEW a \in Actors, OpenTo(a)
    PROVE  Orderly
<1>1. /\ frame[a].user \in Auditors \cup {Nobody} \/ At(a, "openReviewer")
      /\ frame[a].prev \in Reviewers \cup {Nobody}
      /\ At(a, "openAuditor") /\ frame[a].user \in Auditors => Consents(frame[a].user)
  BY Here DEF OpenTo, At, Roles, Backed, Opening, Consented
<1>2. CASE At(a, "openAuditor") /\ members' = members \cup ({User(a)} \ {Nobody})
           /\ Go(a, "openReviewer")
  <2>1. Roles("openReviewer", frame[a]) /\ Backed("openReviewer", frame[a])
    BY <1>1, <1>2, Here DEF At, Roles, Backed, OfAuditor, Opening, Answering, Consented
  <2>2. RequestsNext
    BY <1>2, <2>1, OneGoesOn DEF OpenTo, Labels, Steps
  <2>3. User(a) \in People \cup {Nobody} /\ (User(a) \in Auditors => Consents(User(a)))
    BY <1>1, <1>2 DEF At, User, People
  <2> QED BY <1>2, <2>2, <2>3, NoInvitation, OneJoins DEF OpenTo
<1>3. CASE At(a, "openReviewer") /\ members' = members \cup ({frame[a].prev} \ {Nobody})
           /\ Go(a, "done")
  <2>1. RequestsNext
    BY <1>3, NoInvitation, OneEnds DEF OpenTo
  <2>2. frame[a].prev \in People \cup {Nobody} /\ frame[a].prev \notin Auditors
    BY <1>1, PeopleDistinct DEF People
  <2> QED BY <1>3, <2>1, <2>2, NoInvitation, OneJoins DEF OpenTo
<1> QED BY <1>2, <1>3 DEF OpenTo

LEMMA FaultKeeps ==
    ASSUME IInv, NEW a \in Actors, Fault(a)
    PROVE  Orderly
<1>1. RequestsNext
  <2>1. CASE pc[a] \in {"join", "member"}
    BY <2>1, ThreadDone DEF Fault
  <2>2. CASE pc[a] \notin {"join", "member"}
    BY <2>2, NoInvitation, OneEnds DEF Fault
  <2> QED BY <2>1, <2>2
<1> QED BY <1>1, NoInvitation, Aside DEF Fault

LEMMA SurroundingsKeep ==
    ASSUME IInv, GetAssessmentScore \/ LockThread
    PROVE  Orderly
<1>1. CASE GetAssessmentScore
  <2>1. RequestsNext
    BY <1>1, NoInvitation, AllWait DEF GetAssessmentScore
  <2>2. assessment' \in Assessments /\ assessment'.auditor = assessment.auditor
    BY <1>1, Types DEF WorkTypes, Assessments, GetAssessmentScore
  <2> QED BY <1>1, <2>1, <2>2, NoInvitation, RowWritten DEF GetAssessmentScore
<1>2. CASE LockThread
  <2>1. RequestsNext
    BY <1>2, NoInvitation, AllWait DEF LockThread
  <2> QED BY <1>2, <2>1, NoInvitation, Aside DEF LockThread
<1> QED BY <1>1, <1>2

-----------------------------------------------------------------------------
(* The inductive invariant, and what follows from it *)

LEMMA InitIInv == Init => IInv
<1> SUFFICES ASSUME Init PROVE IInv
  OBVIOUS
<1>1. invitations \in Seq(Invitations) /\ DOMAIN invitations = {}
  BY EmptySeq DEF Init
<1>2. TypeOK
  BY <1>1, Blank DEF Init, TypeOK, Labels, Audits, NoAudit
<1>3. \A a \in Actors : Roles(pc[a], frame[a]) /\ Backed(pc[a], frame[a])
  BY DEF Init, Roles, Backed, OfAuditor, Opening, Answering, Consented
<1>4. \A u \in Auditors : ~Involved(u)
  BY PeopleDistinct DEF Init, Involved, People, NoAudit
<1> QED BY <1>2, <1>3, <1>4 DEF IInv

LEMMA NextOrderly ==
    ASSUME IInv, Next
    PROVE  Orderly
<1>1. ASSUME NEW a \in Actors, Start(a)
      PROVE  Orderly
  BY <1>1, InviteReadKeeps, ReadInvitationKeeps, UnassignReadKeeps, ReviewerReadKeeps,
     ReviewerUnassignReadKeeps, OpenReadKeeps DEF Start, Answering
<1>2. ASSUME NEW a \in Actors, Continue(a)
      PROVE  Orderly
  BY <1>2, CancelPendingKeeps, CreateInvitationKeeps, AcceptInvitationKeeps,
     DeclineInvitationKeeps, AssignReadKeeps, DropPreviousKeeps, AssignAuditorKeeps,
     ReopenDisclosureKeeps, AddAssignedAssessmentKeeps, FindThreadKeeps,
     AddParticipantKeeps, CreateAuditKeeps, DetachAuditorKeeps,
     RemoveAssignedAssessmentKeeps, AssignReviewerKeeps, ListReviewerKeeps,
     FlagReviewerKeeps, DetachReviewerKeeps, UnflagReviewerKeeps, CreateThreadKeeps,
     OpenToKeeps DEF Continue
<1> QED BY <1>1, <1>2, FaultKeeps, SurroundingsKeep DEF Next

LEMMA StutterKeeps ==
    ASSUME IInv, UNCHANGED vars
    PROVE  Orderly
BY NoInvitation, AllWait, Untouched DEF vars

THEOREM Inductive == Spec => []IInv
<1>1. Init => IInv
  BY InitIInv
<1>2. IInv /\ [Next]_vars => IInv'
  BY NextOrderly, StutterKeeps, OrderlyKeeps
<1> QED BY <1>1, <1>2, PTL DEF Spec

\* Every column and every local variable keeps its type: no request goes on with
\* a user of the wrong role or with nobody (createInvitation, acceptInvitation,
\* assignToAssessment, createThreadForAssuredAssessment).
THEOREM TypeCorrectness == Spec => []TypeOK
<1>1. IInv => TypeOK
  BY DEF IInv
<1> QED BY <1>1, Inductive, PTL

\* However many invitations, acceptances and assignments overlap, no auditor is
\* assigned, listed, audited or let into the chat without an answer of his own.
THEOREM NobodyIsDrafted == Spec => []ConsentGiven
<1>1. ASSUME IInv
      PROVE  ConsentGiven
  <2>1. \A u : Consents(u) => u \in Answered
    BY DEF Consents, Answered, Pending
  <2> QED BY <1>1, <2>1 DEF IInv, Involved, ConsentGiven
<1> QED BY <1>1, Inductive, PTL
=============================================================================
