------------------------ MODULE AssignmentHold_proofs ------------------------
(***************************************************************************)
(* An assignment takes hold: the proof that whoever ends up on the          *)
(* assessment has it in his list, is recorded for it and has a place in the *)
(* open thread, for any people and any number of overlapping requests.      *)
(***************************************************************************)
EXTENDS Assignment_proofs

-----------------------------------------------------------------------------
(* The inductive invariant *)

\* The steps at which an assignment has yet to overwrite the auditor, ...
Writers == {"drop", "write"}

\* ... and those at which it still owes the auditor his list entry, his place
\* in the thread and the audit record.
Listing == {"reopen", "list"}
Joining == Listing \cup {"join", "member"}
Recording == Joining \cup {"audit"}

\* The same for a reviewer.
ReviewerListing == {"reviewerList"}
Flagging == {"reviewerList", "flag"}
ReviewerJoining == Flagging \cup {"join", "member"}

Owes(l, f, p, steps) == l \in steps /\ f.user = p
Owed(p, steps) == \E a \in Actors : Owes(pc[a], frame[a], p, steps)

\* What user u has, or a request is bound to give him.
AuditorHeld(u) ==
    /\ lists[u] > 0 \/ Owed(u, Listing)
    /\ audit.made \/ Owed(u, Recording)
    /\ thread = "open" => u \in members \/ Owed(u, Joining)

ReviewerHeld(r) ==
    /\ lists[r] > 0 \/ Owed(r, ReviewerListing)
    /\ reviewerSet \/ Owed(r, Flagging)
    /\ thread = "open" => r \in members \/ Owed(r, ReviewerJoining)

\* Only requests of one kind open threads or take somebody off; an assignment
\* drops the entry of an auditor.
Kind(a, l, f) ==
    /\ l \in Opening => a \in Openers
    /\ l = "detach" => a \in Unassigns /\ f.prev \in Auditors \cup {Nobody}
    /\ l = "reviewerDetach" => a \in ReviewerUnassigns /\ f.prev \in Reviewers \cup {Nobody}
    /\ l = "unlist" => \/ a \in Unassigns /\ f.prev \in Auditors
                       \/ a \in ReviewerUnassigns /\ f.prev \in Reviewers
    /\ l = "unflag" => a \in ReviewerUnassigns
    /\ l = "drop" => f.prev \in Auditors

Calm == failures = 0 /\ NotBegun(Openers)
Overwriting == \E a \in Actors : pc[a] \in Writers

\* The auditor on the row has what he is due, unless another assignment is about
\* to overwrite him: it may have dropped his entry already.
AuditorClause ==
    Calm /\ NotBegun(Unassigns) /\ assessment.auditor # Nobody =>
        Overwriting \/ AuditorHeld(assessment.auditor)

ReviewerClause ==
    Calm /\ NotBegun(ReviewerUnassigns) /\ assessment.reviewer # Nobody =>
        ReviewerHeld(assessment.reviewer)

\* AssignmentTakesHold speaks of rest only, and says nothing while requests are
\* under way.
HoldInv ==
    /\ \A a \in Actors : Kind(a, pc[a], frame[a])
    /\ AuditorClause /\ ReviewerClause

-----------------------------------------------------------------------------
(* A step moves one request *)

Carries(a, l, f) ==
    /\ l \in Labels \ {"idle"} /\ f \in Frames
    /\ MoveTo(a, l, f)
    /\ Kind(a, l, f)
    /\ failures' = 0 => failures = 0

LEMMA Carried ==
    ASSUME TypeOK, NEW a \in Actors, NEW l, NEW f, Carries(a, l, f)
    PROVE  /\ pc'[a] = l /\ frame'[a] = f
           /\ \A b \in Actors : b # a => pc'[b] = pc[b] /\ frame'[b] = frame[b]
BY DEF TypeOK, Carries, MoveTo

\* A request that has begun does not go back to its beginning.
LEMMA BegunBefore ==
    ASSUME TypeOK, NEW a \in Actors, NEW l, NEW f, Carries(a, l, f),
           NEW Q \in SUBSET Actors, NotBegun(Q)'
    PROVE  NotBegun(Q) /\ a \notin Q
<1>1. l # "idle" /\ pc'[a] = l /\ \A b \in Actors : b # a => pc'[b] = pc[b]
  BY Carried DEF Carries
<1>2. \A b \in Q : b \in Actors /\ pc'[b] = "idle"
  BY DEF NotBegun
<1> QED BY <1>1, <1>2 DEF NotBegun

LEMMA CalmBefore ==
    ASSUME TypeOK, NEW a \in Actors, NEW l, NEW f, Carries(a, l, f), Calm'
    PROVE  Calm /\ a \notin Openers
<1>1. Openers \in SUBSET Actors
  BY DEF Actors
<1>2. NotBegun(Openers)'
  BY DEF Calm
<1> QED BY <1>1, <1>2, BegunBefore DEF Calm, Carries

LEMMA KindsKept ==
    ASSUME TypeOK, HoldInv, NEW a \in Actors, NEW l, NEW f, Carries(a, l, f)
    PROVE  \A b \in Actors : Kind(b, pc[b], frame[b])'
<1>1. ASSUME NEW b \in Actors
      PROVE  Kind(b, pc'[b], frame'[b])
  BY Carried DEF HoldInv, Carries
<1> QED BY <1>1 DEF Kind

\* What is owed stays owed, unless it was the moving request that owed it.
LEMMA OwedStays ==
    ASSUME TypeOK, NEW a \in Actors, NEW l, NEW f, Carries(a, l, f), NEW p, NEW steps,
           Owed(p, steps), Owes(pc[a], frame[a], p, steps) => Owes(l, f, p, steps)
    PROVE  Owed(p, steps)'
<1>1. PICK b \in Actors : Owes(pc[b], frame[b], p, steps)
  BY DEF Owed
<1>2. Owes(pc'[b], frame'[b], p, steps)
  BY <1>1, Carried
<1> QED BY <1>2 DEF Owed, Owes

LEMMA OwedBy ==
    ASSUME TypeOK, NEW a \in Actors, NEW l, NEW f, Carries(a, l, f), NEW p, NEW steps,
           Owes(l, f, p, steps)
    PROVE  Owed(p, steps)'
<1>1. Owes(pc'[a], frame'[a], p, steps)
  BY Carried
<1> QED BY <1>1 DEF Owed, Owes

-----------------------------------------------------------------------------
(* What a step must do for the two clauses to be kept *)

\* The moving request gives what it owed, or still owes it.
AuditorServed(a, l, f) ==
    /\ thread' = "open" => thread = "open"
    /\ members \subseteq members'
    /\ audit.made => audit'.made
    /\ \A u \in Auditors :
          /\ lists[u] > 0 => lists'[u] > 0
          /\ Owes(pc[a], frame[a], u, Listing) => lists'[u] > 0 \/ Owes(l, f, u, Listing)
          /\ Owes(pc[a], frame[a], u, Recording) => audit'.made \/ Owes(l, f, u, Recording)
          /\ Owes(pc[a], frame[a], u, Joining)
               => thread' # "open" \/ u \in members' \/ Owes(l, f, u, Joining)

ReviewerServed(a, l, f) ==
    /\ thread' = "open" => thread = "open"
    /\ members \subseteq members'
    /\ reviewerSet => reviewerSet'
    /\ \A r \in Reviewers :
          /\ lists[r] > 0 => lists'[r] > 0
          /\ Owes(pc[a], frame[a], r, ReviewerListing)
               => lists'[r] > 0 \/ Owes(l, f, r, ReviewerListing)
          /\ Owes(pc[a], frame[a], r, Flagging) => reviewerSet' \/ Owes(l, f, r, Flagging)
          /\ Owes(pc[a], frame[a], r, ReviewerJoining)
               => thread' # "open" \/ r \in members' \/ Owes(l, f, r, ReviewerJoining)

LEMMA AuditorHeldStays ==
    ASSUME TypeOK, NEW a \in Actors, NEW l, NEW f, Carries(a, l, f),
           AuditorServed(a, l, f), NEW u \in Auditors, AuditorHeld(u)
    PROVE  AuditorHeld(u)'
<1>1. lists'[u] > 0 \/ Owed(u, Listing)'
  BY OwedStays, OwedBy DEF AuditorServed, AuditorHeld
<1>2. audit'.made \/ Owed(u, Recording)'
  BY OwedStays, OwedBy DEF AuditorServed, AuditorHeld
<1>3. thread' = "open" => u \in members' \/ Owed(u, Joining)'
  BY OwedStays, OwedBy DEF AuditorServed, AuditorHeld
<1> QED BY <1>1, <1>2, <1>3 DEF AuditorHeld

LEMMA ReviewerHeldStays ==
    ASSUME TypeOK, NEW a \in Actors, NEW l, NEW f, Carries(a, l, f),
           ReviewerServed(a, l, f), NEW r \in Reviewers, ReviewerHeld(r)
    PROVE  ReviewerHeld(r)'
<1>1. lists'[r] > 0 \/ Owed(r, ReviewerListing)'
  BY OwedStays, OwedBy DEF ReviewerServed, ReviewerHeld
<1>2. reviewerSet' \/ Owed(r, Flagging)'
  BY OwedStays, OwedBy DEF ReviewerServed, ReviewerHeld
<1>3. thread' = "open" => r \in members' \/ Owed(r, ReviewerJoining)'
  BY OwedStays, OwedBy DEF ReviewerServed, ReviewerHeld
<1> QED BY <1>1, <1>2, <1>3 DEF ReviewerHeld

LEMMA OverwritingStays ==
    ASSUME TypeOK, NEW a \in Actors, NEW l, NEW f, Carries(a, l, f), Overwriting,
           pc[a] \in Writers => l \in Writers
    PROVE  Overwriting'
<1>1. PICK b \in Actors : pc[b] \in Writers
  BY DEF Overwriting
<1>2. pc'[b] \in Writers
  BY <1>1, Carried
<1> QED BY <1>2 DEF Overwriting

\* Requests that leave the auditor alone and do their part.
LEMMA AuditorClauseKept ==
    ASSUME TypeOK, AuditorClause, NEW a \in Actors, NEW l, NEW f, Carries(a, l, f),
           AuditorServed(a, l, f), pc[a] \in Writers => l \in Writers,
           assessment'.auditor = assessment.auditor
    PROVE  AuditorClause'
<1> SUFFICES ASSUME (Calm /\ NotBegun(Unassigns))', assessment'.auditor # Nobody
             PROVE  Overwriting' \/ AuditorHeld(assessment.auditor)'
  BY DEF AuditorClause
<1>1. Unassigns \in SUBSET Actors
  BY DEF Actors
<1>2. Calm /\ NotBegun(Unassigns)
  BY <1>1, CalmBefore, BegunBefore
<1>3. assessment.auditor \in Auditors
  BY DEF TypeOK, Assessments
<1>4. PICK u \in Auditors : u = assessment.auditor
  BY <1>3
<1>5. CASE Overwriting
  BY <1>5, OverwritingStays
<1>6. CASE AuditorHeld(u)
  <2>1. AuditorHeld(u)'
    BY <1>6, AuditorHeldStays
  <2> QED BY <1>4, <2>1 DEF AuditorHeld, Owed, Owes
<1> QED BY <1>2, <1>4, <1>5, <1>6 DEF AuditorClause

LEMMA ReviewerClauseKept ==
    ASSUME TypeOK, ReviewerClause, NEW a \in Actors, NEW l, NEW f, Carries(a, l, f),
           ReviewerServed(a, l, f), assessment'.reviewer = assessment.reviewer
    PROVE  ReviewerClause'
<1> SUFFICES ASSUME (Calm /\ NotBegun(ReviewerUnassigns))', assessment'.reviewer # Nobody
             PROVE  ReviewerHeld(assessment.reviewer)'
  BY DEF ReviewerClause
<1>1. ReviewerUnassigns \in SUBSET Actors
  BY DEF Actors
<1>2. Calm /\ NotBegun(ReviewerUnassigns)
  BY <1>1, CalmBefore, BegunBefore
<1>3. assessment.reviewer \in Reviewers
  BY DEF TypeOK, Assessments
<1>4. PICK r \in Reviewers : r = assessment.reviewer
  BY <1>3
<1>5. ReviewerHeld(r)
  BY <1>2, <1>4 DEF ReviewerClause
<1>6. ReviewerHeld(r)'
  BY <1>5, ReviewerHeldStays
<1> QED BY <1>4, <1>6 DEF ReviewerHeld, Owed, Owes

\* Requests that nothing is said about once they have begun.
LEMMA AuditorClauseSilent ==
    ASSUME TypeOK, NEW a \in Unassigns \cup Openers, NEW l, NEW f, Carries(a, l, f)
    PROVE  AuditorClause'
<1>1. a \in Actors /\ Unassigns \in SUBSET Actors
  BY DEF Actors
<1>2. ~(Calm /\ NotBegun(Unassigns))'
  BY <1>1, CalmBefore, BegunBefore
<1> QED BY <1>2 DEF AuditorClause

LEMMA ReviewerClauseSilent ==
    ASSUME TypeOK, NEW a \in ReviewerUnassigns \cup Openers, NEW l, NEW f, Carries(a, l, f)
    PROVE  ReviewerClause'
<1>1. a \in Actors /\ ReviewerUnassigns \in SUBSET Actors
  BY DEF Actors
<1>2. ~(Calm /\ NotBegun(ReviewerUnassigns))'
  BY <1>1, CalmBefore, BegunBefore
<1> QED BY <1>2 DEF ReviewerClause

LEMMA ClausesKept ==
    ASSUME TypeOK, HoldInv, NEW a \in Actors, NEW l, NEW f, Carries(a, l, f),
           AuditorClause', ReviewerClause'
    PROVE  HoldInv'
BY KindsKept DEF HoldInv

-----------------------------------------------------------------------------
(* Requests that owe nothing *)

Owing == Writers \cup Recording \cup ReviewerJoining

\* A step at which nothing is owed, and which takes nothing from anybody.
Passive(a, l, f) ==
    /\ Carries(a, l, f)
    /\ pc[a] \notin Owing
    /\ \A p \in People : lists[p] > 0 => lists'[p] > 0
    /\ UNCHANGED <<audit, reviewerSet, thread, members>>

LEMMA PassiveServes ==
    ASSUME NEW a \in Actors, NEW l, NEW f, Passive(a, l, f)
    PROVE  AuditorServed(a, l, f) /\ ReviewerServed(a, l, f)
BY DEF Passive, AuditorServed, ReviewerServed, Owes, Owing, Writers, Listing, Joining,
       Recording, ReviewerListing, Flagging, ReviewerJoining, People

LEMMA PassiveKeeps ==
    ASSUME TypeOK, HoldInv, NEW a \in Actors, NEW l, NEW f, Passive(a, l, f),
           assessment'.auditor = assessment.auditor,
           assessment'.reviewer = assessment.reviewer
    PROVE  HoldInv'
<1>1. pc[a] \notin Writers /\ Carries(a, l, f)
  BY DEF Passive, Owing
<1>2. AuditorClause' /\ ReviewerClause'
  BY <1>1, PassiveServes, AuditorClauseKept, ReviewerClauseKept DEF HoldInv
<1> QED BY <1>1, <1>2, ClausesKept

\* The forms in which the actions move.
LEMMA Goes ==
    ASSUME TypeOK, NEW a \in Actors, NEW l \in Labels \ {"idle"}, Go(a, l), UNCHANGED failures,
           l # "done" => Kind(a, l, frame[a])
    PROVE  \E f \in Frames : Carries(a, l, f) /\ (l # "done" => f = frame[a])
<1>1. frame[a] \in Frames /\ EmptyFrame \in Frames
  BY Blank DEF TypeOK
<1>2. Kind(a, "done", EmptyFrame)
  BY DEF Kind, Opening
<1> QED BY <1>1, <1>2 DEF Go, Carries

LEMMA GoesPassively ==
    ASSUME TypeOK, HoldInv, NEW a \in Actors, NEW l \in Labels \ {"idle"}, Go(a, l),
           l # "done" => Kind(a, l, frame[a]), pc[a] \notin Owing,
           assessment'.auditor = assessment.auditor,
           assessment'.reviewer = assessment.reviewer,
           UNCHANGED <<lists, audit, reviewerSet, thread, members, failures>>
    PROVE  HoldInv'
<1>1. PICK f \in Frames : Carries(a, l, f)
  BY Goes
<1>2. Passive(a, l, f)
  BY <1>1 DEF Passive
<1> QED BY <1>2, PassiveKeeps

LEMMA ReadsPassively ==
    ASSUME TypeOK, HoldInv, NEW a \in Actors, NEW l \in Labels \ {"idle"}, NEW f \in Frames,
           MoveTo(a, l, f), Kind(a, l, f), pc[a] \notin Owing,
           UNCHANGED <<assessment, lists, audit, reviewerSet, thread, members, failures>>
    PROVE  HoldInv'
<1>1. Passive(a, l, f)
  BY DEF Passive, Carries
<1> QED BY <1>1, PassiveKeeps

LEMMA InvitationsHold ==
    ASSUME TypeOK, HoldInv, NEW a \in Actors,
           \/ CancelPending(a) \/ CreateInvitation(a)
           \/ AcceptInvitation(a) \/ DeclineInvitation(a)
    PROVE  HoldInv'
<1>1. pc[a] \notin Owing
  BY DEF CancelPending, CreateInvitation, AcceptInvitation, DeclineInvitation, At, Owing,
         Writers, Listing, Joining, Recording, Flagging, ReviewerJoining
<1>2. PICK l \in {"invite", "done", "assign"} : Go(a, l)
  BY DEF CancelPending, CreateInvitation, AcceptInvitation, DeclineInvitation
<1>3. Kind(a, l, frame[a]) /\ l \in Labels \ {"idle"}
  BY <1>2 DEF Kind, Opening, Labels, Steps
<1>4. UNCHANGED <<assessment, lists, audit, reviewerSet, thread, members, failures>>
  BY DEF CancelPending, CreateInvitation, AcceptInvitation, DeclineInvitation
<1> QED BY <1>1, <1>2, <1>3, <1>4, GoesPassively

LEMMA ReadsHold ==
    ASSUME TypeOK, HoldInv, NEW a \in Actors,
           \/ InviteRead(a) \/ ReadInvitation(a, "accept") \/ ReadInvitation(a, "decline")
           \/ a \in Unassigns /\ UnassignRead(a)
           \/ ReviewerRead(a)
           \/ a \in ReviewerUnassigns /\ ReviewerUnassignRead(a)
           \/ a \in Openers /\ OpenRead(a)
    PROVE  HoldInv'
<1>1. pc[a] \notin Owing
  BY DEF InviteRead, ReadInvitation, UnassignRead, ReviewerRead, ReviewerUnassignRead,
         OpenRead, At, Owing, Writers, Listing, Joining, Recording, Flagging, ReviewerJoining
<1>2. UNCHANGED <<assessment, lists, audit, reviewerSet, thread, members, failures>>
  BY DEF InviteRead, ReadInvitation, UnassignRead, ReviewerRead, ReviewerUnassignRead, OpenRead
<1>3. /\ assessment.auditor \in Auditors \cup {Nobody}
      /\ assessment.reviewer \in Reviewers \cup {Nobody}
      /\ invitations \in [DOMAIN invitations -> Invitations] /\ DOMAIN invitations \subseteq Nat
  BY SeqDef, LenProperties DEF TypeOK, Assessments
<1>4. CASE InviteRead(a)
  <2>1. PICK u \in Auditors : MoveTo(a, "cancel", [EmptyFrame EXCEPT !.user = u])
    BY <1>4 DEF InviteRead
  <2>2. [EmptyFrame EXCEPT !.user = u] \in Frames
    BY Blank DEF Frames, People
  <2> QED BY <1>1, <1>2, <2>1, <2>2, ReadsPassively DEF Kind, Opening, Labels, Steps
<1>5. ASSUME NEW step \in {"accept", "decline"}, ReadInvitation(a, step)
      PROVE  HoldInv'
  <2>1. PICK i \in Pending :
           MoveTo(a, step, [EmptyFrame EXCEPT !.inv = i, !.user = invitations[i].user])
    BY <1>5 DEF ReadInvitation
  <2>2. i \in Nat /\ invitations[i].user \in Auditors
    BY <1>3 DEF Pending, Invitations
  <2>3. [EmptyFrame EXCEPT !.inv = i, !.user = invitations[i].user] \in Frames
    BY <2>2, Blank DEF Frames, People
  <2> QED BY <1>1, <1>2, <2>1, <2>3, ReadsPassively DEF Kind, Opening, Labels, Steps
<1>6. CASE a \in Unassigns /\ UnassignRead(a)
  <2> DEFINE f == [EmptyFrame EXCEPT !.prev = assessment.auditor]
  <2>1. f \in Frames /\ f.prev \in Auditors \cup {Nobody} /\ MoveTo(a, "detach", f)
    BY <1>3, <1>6, Blank DEF UnassignRead, Frames, People
  <2> HIDE DEF f
  <2> QED BY <1>1, <1>2, <1>6, <2>1, ReadsPassively DEF Kind, Opening, Labels, Steps
<1>7. CASE ReviewerRead(a)
  <2>1. PICK r \in Reviewers : MoveTo(a, "reviewerWrite", [EmptyFrame EXCEPT !.user = r])
    BY <1>7 DEF ReviewerRead
  <2>2. [EmptyFrame EXCEPT !.user = r] \in Frames
    BY Blank DEF Frames, People
  <2> QED BY <1>1, <1>2, <2>1, <2>2, ReadsPassively DEF Kind, Opening, Labels, Steps
<1>8. CASE a \in ReviewerUnassigns /\ ReviewerUnassignRead(a)
  <2> DEFINE f == [EmptyFrame EXCEPT !.prev = assessment.reviewer]
  <2>1. f \in Frames /\ f.prev \in Reviewers \cup {Nobody} /\ MoveTo(a, "reviewerDetach", f)
    BY <1>3, <1>8, Blank DEF ReviewerUnassignRead, Frames, People
  <2> HIDE DEF f
  <2> QED BY <1>1, <1>2, <1>8, <2>1, ReadsPassively DEF Kind, Opening, Labels, Steps
<1>9. CASE a \in Openers /\ OpenRead(a)
  <2> DEFINE f == [EmptyFrame EXCEPT !.user = assessment.auditor, !.prev = assessment.reviewer]
  <2>1. f \in Frames /\ MoveTo(a, "open", f)
    BY <1>3, <1>9, Blank DEF OpenRead, Frames, People
  <2> HIDE DEF f
  <2> QED BY <1>1, <1>2, <1>9, <2>1, ReadsPassively DEF Kind, Opening, Labels, Steps
<1> QED BY <1>4, <1>5, <1>6, <1>7, <1>8, <1>9

-----------------------------------------------------------------------------
(* The assignment of an auditor *)

LEMMA AssignReadHolds ==
    ASSUME TypeOK, HoldInv, NEW a \in Actors, AssignRead(a)
    PROVE  HoldInv'
<1> DEFINE f == [frame[a] EXCEPT !.prev = assessment.auditor, !.redo = Redoable]
<1>1. UNCHANGED <<assessment, lists, audit, reviewerSet, thread, members, failures>>
  BY DEF AssignRead
<1>2. pc[a] \notin Owing
  BY DEF AssignRead, At, Owing, Writers, Listing, Joining, Recording, Flagging, ReviewerJoining
<1>3. CASE Go(a, "done")
  BY <1>1, <1>2, <1>3, GoesPassively DEF Labels
<1>4. CASE MoveTo(a, IF assessment.auditor = Nobody THEN "write" ELSE "drop", f)
  <2>1. frame[a] \in Frames /\ assessment.auditor \in Auditors \cup {Nobody}
    BY DEF TypeOK, Assessments
  <2>2. f \in Frames /\ f.prev = assessment.auditor
    BY <2>1 DEF Frames, People, Redoable
  <2> HIDE DEF f
  <2>3. CASE assessment.auditor = Nobody
    <3>1. Kind(a, "write", f)
      BY DEF Kind, Opening
    <3> QED BY <1>1, <1>2, <1>4, <2>2, <2>3, <3>1, ReadsPassively DEF Labels, Steps
  <2>4. CASE assessment.auditor # Nobody
    <3>1. Kind(a, "drop", f)
      BY <2>1, <2>2, <2>4 DEF Kind, Opening
    <3> QED BY <1>1, <1>2, <1>4, <2>2, <2>4, <3>1, ReadsPassively DEF Labels, Steps
  <2> QED BY <2>3, <2>4
<1> QED BY <1>3, <1>4 DEF AssignRead

\* The previous auditor loses his entry, and is about to lose the assessment.
LEMMA DropPreviousHolds ==
    ASSUME TypeOK, HoldInv, NEW a \in Actors, DropPrevious(a)
    PROVE  HoldInv'
<1>1. Kind(a, "write", frame[a]) /\ "write" \in Labels \ {"idle"}
  BY DEF Kind, Opening, Labels, Steps
<1>2. PICK f \in Frames : Carries(a, "write", f) /\ f = frame[a]
  BY <1>1, Goes DEF DropPrevious
<1>3. pc[a] = "drop" /\ frame[a].prev \in Auditors
  BY DEF DropPrevious, At, HoldInv, Kind
<1>4. AuditorClause'
  <2>1. pc'[a] \in Writers
    BY <1>2, Carried DEF Writers
  <2> QED BY <2>1 DEF AuditorClause, Overwriting
<1>5. \A r \in Reviewers : lists'[r] = lists[r]
  BY <1>3, PeopleDistinct DEF TypeOK, DropPrevious, Unlist, People
<1>6. ReviewerServed(a, "write", f)
  BY <1>3, <1>5 DEF DropPrevious, ReviewerServed, Owes, ReviewerListing, Flagging, ReviewerJoining
<1>7. ReviewerClause'
  BY <1>2, <1>6, ReviewerClauseKept DEF HoldInv, DropPrevious
<1> QED BY <1>2, <1>4, <1>7, ClausesKept

\* The new auditor is owed everything by the request that has just written him.
LEMMA AssignAuditorHolds ==
    ASSUME IInv, HoldInv, NEW a \in Actors, AssignAuditor(a)
    PROVE  HoldInv'
<1>1. TypeOK /\ pc[a] = "write" /\ User(a) \in Auditors /\ User(a) = frame[a].user
  BY Here DEF IInv, AssignAuditor, At, Roles, OfAuditor, User
<1>2. PICK l \in Listing : Go(a, l)
  BY DEF AssignAuditor, Listing
<1>3. Kind(a, l, frame[a]) /\ l \in Labels \ {"idle"} /\ l # "done"
  BY <1>2 DEF Listing, Kind, Opening, Labels, Steps
<1>4. PICK f \in Frames : Carries(a, l, f) /\ f = frame[a]
  BY <1>1, <1>2, <1>3, Goes DEF AssignAuditor
<1>5. assessment'.auditor = User(a) /\ assessment'.reviewer = assessment.reviewer
  BY <1>1 DEF TypeOK, Assessments, AssignAuditor
<1>6. PICK u \in Auditors : u = User(a)
  BY <1>1
<1>7. Owed(u, Listing)' /\ Owed(u, Joining)' /\ Owed(u, Recording)'
  BY <1>1, <1>2, <1>4, <1>6, OwedBy DEF Owes, Joining, Recording
<1>8. AuditorClause'
  BY <1>5, <1>6, <1>7 DEF AuditorClause, AuditorHeld, Owed, Owes
<1>9. ReviewerServed(a, l, f)
  BY <1>1 DEF AssignAuditor, ReviewerServed, Owes, ReviewerListing, Flagging, ReviewerJoining
<1>10. ReviewerClause'
  BY <1>1, <1>4, <1>5, <1>9, ReviewerClauseKept DEF HoldInv
<1> QED BY <1>1, <1>4, <1>8, <1>10, ClausesKept

\* A request that owes somebody something, gives it or goes on to give it.
LEMMA Serves ==
    ASSUME TypeOK, HoldInv, NEW a \in Actors, NEW l, NEW f, Carries(a, l, f),
           AuditorServed(a, l, f), ReviewerServed(a, l, f), pc[a] \notin Writers,
           assessment'.auditor = assessment.auditor,
           assessment'.reviewer = assessment.reviewer
    PROVE  HoldInv'
BY AuditorClauseKept, ReviewerClauseKept, ClausesKept DEF HoldInv

LEMMA ReopenDisclosureHolds ==
    ASSUME TypeOK, HoldInv, NEW a \in Actors, ReopenDisclosure(a)
    PROVE  HoldInv'
<1>1. Kind(a, "list", frame[a]) /\ "list" \in Labels \ {"idle"} /\ pc[a] = "reopen"
  BY DEF Kind, Opening, Labels, Steps, ReopenDisclosure, At
<1>2. PICK f \in Frames : Carries(a, "list", f) /\ f = frame[a]
  BY <1>1, Goes DEF ReopenDisclosure
<1>3. /\ assessment'.auditor = assessment.auditor
      /\ assessment'.reviewer = assessment.reviewer
  BY DEF TypeOK, Assessments, ReopenDisclosure
<1>4. AuditorServed(a, "list", f) /\ ReviewerServed(a, "list", f) /\ pc[a] \notin Writers
  BY <1>1, <1>2 DEF ReopenDisclosure, AuditorServed, ReviewerServed, Owes, Writers, Listing,
     Joining, Recording, ReviewerListing, Flagging, ReviewerJoining
<1> QED BY <1>2, <1>3, <1>4, Serves

LEMMA ListsGrow ==
    ASSUME TypeOK, NEW p \in People, AddToList(p)
    PROVE  lists'[p] > 0 /\ \A q \in People : lists[q] > 0 => lists'[q] > 0
BY DEF TypeOK, AddToList

LEMMA AddAssignedAssessmentHolds ==
    ASSUME IInv, HoldInv, NEW a \in Actors, AddAssignedAssessment(a)
    PROVE  HoldInv'
<1>1. /\ TypeOK /\ User(a) \in People /\ User(a) = frame[a].user
      /\ Kind(a, "join", frame[a]) /\ "join" \in Labels \ {"idle"} /\ pc[a] = "list"
  BY Here DEF IInv, Kind, Opening, Labels, Steps, AddAssignedAssessment, At, Roles,
     OfAuditor, User, People
<1>2. PICK f \in Frames : Carries(a, "join", f) /\ f = frame[a]
  BY <1>1, Goes DEF AddAssignedAssessment
<1>3. lists'[User(a)] > 0 /\ \A q \in People : lists[q] > 0 => lists'[q] > 0
  BY <1>1, ListsGrow DEF AddAssignedAssessment
<1>4. AuditorServed(a, "join", f) /\ ReviewerServed(a, "join", f) /\ pc[a] \notin Writers
  BY <1>1, <1>2, <1>3 DEF AddAssignedAssessment, AuditorServed, ReviewerServed, Owes,
     Writers, Listing, Joining, Recording, ReviewerListing, Flagging, ReviewerJoining, People
<1> QED BY <1>1, <1>2, <1>4, Serves DEF AddAssignedAssessment

\* After the thread an auditor is owed no more than the record, a reviewer nothing.
LEMMA JoinDone ==
    ASSUME IInv, NEW a \in Actors, pc[a] \in {"join", "member"}, Go(a, AfterJoin(a)),
           UNCHANGED <<lists, audit, reviewerSet, thread, failures>>, members \subseteq members',
           thread = "open" => User(a) \in members'
    PROVE  \E l, f : /\ Carries(a, l, f) /\ AuditorServed(a, l, f)
                     /\ ReviewerServed(a, l, f) /\ pc[a] \notin Writers
<1>1. TypeOK /\ User(a) = frame[a].user
  BY DEF IInv, User
<1>2. CASE User(a) \in Auditors
  <2>1. Go(a, "audit") /\ Kind(a, "audit", frame[a]) /\ "audit" \in Labels \ {"idle", "done"}
    BY <1>2 DEF AfterJoin, Kind, Opening, Labels, Steps
  <2>2. PICK f \in Frames : Carries(a, "audit", f) /\ f = frame[a]
    BY <1>1, <2>1, Goes
  <2>3. AuditorServed(a, "audit", f) /\ ReviewerServed(a, "audit", f) /\ pc[a] \notin Writers
    BY <1>1, <2>2 DEF AuditorServed, ReviewerServed, Owes,
       Writers, Listing, Joining, Recording, ReviewerListing, Flagging, ReviewerJoining
  <2> QED BY <2>2, <2>3
<1>3. CASE User(a) \notin Auditors
  <2>1. Go(a, "done") /\ "done" \in Labels \ {"idle"}
    BY <1>3 DEF AfterJoin, Labels
  <2>2. PICK f \in Frames : Carries(a, "done", f)
    BY <1>1, <2>1, Goes
  <2>3. AuditorServed(a, "done", f) /\ ReviewerServed(a, "done", f) /\ pc[a] \notin Writers
    BY <1>1, <1>3 DEF AuditorServed, ReviewerServed, Owes,
       Writers, Listing, Joining, Recording, ReviewerListing, Flagging, ReviewerJoining
  <2> QED BY <2>2, <2>3
<1> QED BY <1>2, <1>3

LEMMA FindThreadHolds ==
    ASSUME IInv, HoldInv, NEW a \in Actors, FindThread(a)
    PROVE  HoldInv'
<1>1. /\ TypeOK /\ pc[a] = "join" /\ User(a) = frame[a].user
      /\ UNCHANGED <<assessment, lists, audit, reviewerSet, thread, members, failures>>
  BY DEF IInv, FindThread, At, User
<1>2. CASE thread = "open" /\ User(a) \notin members
  <2>1. Go(a, "member") /\ Kind(a, "member", frame[a]) /\ "member" \in Labels \ {"idle", "done"}
    BY <1>2 DEF FindThread, Kind, Opening, Labels, Steps
  <2>2. PICK f \in Frames : Carries(a, "member", f) /\ f = frame[a]
    BY <1>1, <2>1, Goes
  <2>3. AuditorServed(a, "member", f) /\ ReviewerServed(a, "member", f) /\ pc[a] \notin Writers
    BY <1>1, <2>2 DEF AuditorServed, ReviewerServed, Owes,
       Writers, Listing, Joining, Recording, ReviewerListing, Flagging, ReviewerJoining
  <2> QED BY <1>1, <2>2, <2>3, Serves
<1>3. CASE ~(thread = "open" /\ User(a) \notin members)
  <2>1. Go(a, AfterJoin(a))
    BY <1>3 DEF FindThread
  <2> QED BY <1>1, <1>3, <2>1, JoinDone, Serves
<1> QED BY <1>2, <1>3

LEMMA AddParticipantHolds ==
    ASSUME IInv, HoldInv, NEW a \in Actors, AddParticipant(a)
    PROVE  HoldInv'
<1>1. /\ TypeOK /\ pc[a] = "member" /\ Go(a, AfterJoin(a))
      /\ members \subseteq members' /\ User(a) \in members'
      /\ UNCHANGED <<assessment, lists, audit, reviewerSet, thread, failures>>
  BY DEF IInv, AddParticipant, At
<1> QED BY <1>1, JoinDone, Serves

LEMMA CreateAuditHolds ==
    ASSUME TypeOK, HoldInv, NEW a \in Actors, CreateAuditOnAssignment(a)
    PROVE  HoldInv'
<1>1. pc[a] = "audit" /\ audit'.made /\ "done" \in Labels \ {"idle"}
  BY DEF CreateAuditOnAssignment, At, Labels
<1>2. PICK f \in Frames : Carries(a, "done", f)
  BY <1>1, Goes DEF CreateAuditOnAssignment
<1>3. AuditorServed(a, "done", f) /\ ReviewerServed(a, "done", f) /\ pc[a] \notin Writers
  BY <1>1 DEF CreateAuditOnAssignment, AuditorServed, ReviewerServed, Owes,
     Writers, Listing, Joining, Recording, ReviewerListing, Flagging, ReviewerJoining
<1> QED BY <1>2, <1>3, Serves DEF CreateAuditOnAssignment

-----------------------------------------------------------------------------
(* Taking somebody off *)

\* To the list of the person who was taken off, to the flag, or to the end.
LEMMA TakesOff ==
    ASSUME TypeOK, HoldInv, NEW a \in Actors,
           DetachAuditor(a) \/ DetachReviewer(a) \/ RemoveAssignedAssessment(a)
           \/ UnflagReviewer(a)
    PROVE  /\ \E l, f : Carries(a, l, f)
           /\ pc[a] \notin Owing
<1>1. pc[a] \notin Owing
  BY DEF DetachAuditor, DetachReviewer, RemoveAssignedAssessment, UnflagReviewer, At, Owing,
         Writers, Listing, Joining, Recording, Flagging, ReviewerJoining
<1>2. PICK l \in {"unlist", "unflag", "done"} : Go(a, l) /\ (l # "done" => Kind(a, l, frame[a]))
  <2>1. frame[a].prev \in Auditors \cup Reviewers \cup {Nobody} /\ Kind(a, pc[a], frame[a])
    BY DEF TypeOK, Frames, People, HoldInv
  <2>2. CASE DetachAuditor(a)
    BY <2>1, <2>2 DEF DetachAuditor, At, Kind, Opening
  <2>3. CASE DetachReviewer(a)
    BY <2>1, <2>3 DEF DetachReviewer, At, Kind, Opening
  <2>4. CASE RemoveAssignedAssessment(a)
    BY <2>1, <2>4 DEF RemoveAssignedAssessment, At, Kind, Opening
  <2>5. CASE UnflagReviewer(a)
    BY <2>5 DEF UnflagReviewer
  <2> QED BY <2>2, <2>3, <2>4, <2>5
<1>3. l \in Labels \ {"idle"} /\ UNCHANGED failures
  BY <1>2 DEF Labels, Steps, DetachAuditor, DetachReviewer, RemoveAssignedAssessment,
     UnflagReviewer
<1>4. \E f \in Frames : Carries(a, l, f)
  BY <1>2, <1>3, Goes
<1> QED BY <1>1, <1>4

LEMMA AuditorTakenOff ==
    ASSUME TypeOK, HoldInv, NEW a \in Actors, a \in Unassigns,
           \/ DetachAuditor(a)
           \/ RemoveAssignedAssessment(a) /\ frame[a].prev \in Auditors
    PROVE  HoldInv'
<1>1. PICK l, f : Carries(a, l, f) /\ pc[a] \notin Owing
  BY TakesOff
<1>2. AuditorClause'
  BY <1>1, AuditorClauseSilent
<1>3. assessment'.reviewer = assessment.reviewer
  BY DEF TypeOK, Assessments, DetachAuditor, RemoveAssignedAssessment
<1>4. \A r \in Reviewers : lists'[r] = lists[r]
  BY PeopleDistinct DEF TypeOK, DetachAuditor, RemoveAssignedAssessment, Unlist, People
<1>5. ReviewerServed(a, l, f)
  BY <1>1, <1>4 DEF ReviewerServed, Owes, Owing, ReviewerListing, Flagging, ReviewerJoining,
     DetachAuditor, RemoveAssignedAssessment
<1>6. ReviewerClause'
  BY <1>1, <1>3, <1>5, ReviewerClauseKept DEF HoldInv
<1> QED BY <1>1, <1>2, <1>6, ClausesKept

LEMMA ReviewerTakenOff ==
    ASSUME TypeOK, HoldInv, NEW a \in Actors, a \in ReviewerUnassigns,
           \/ DetachReviewer(a) \/ UnflagReviewer(a)
           \/ RemoveAssignedAssessment(a) /\ frame[a].prev \in Reviewers
    PROVE  HoldInv'
<1>1. PICK l, f : Carries(a, l, f) /\ pc[a] \notin Owing
  BY TakesOff
<1>2. ReviewerClause'
  BY <1>1, ReviewerClauseSilent
<1>3. assessment'.auditor = assessment.auditor
  BY DEF TypeOK, Assessments, DetachReviewer, UnflagReviewer, RemoveAssignedAssessment
<1>4. \A u \in Auditors : lists'[u] = lists[u]
  BY PeopleDistinct
  DEF TypeOK, DetachReviewer, UnflagReviewer, RemoveAssignedAssessment, Unlist, People
<1>5. AuditorServed(a, l, f) /\ pc[a] \notin Writers
  BY <1>1, <1>4 DEF AuditorServed, Owes, Owing, Writers, Listing, Joining, Recording,
     DetachReviewer, UnflagReviewer, RemoveAssignedAssessment
<1>6. AuditorClause'
  BY <1>1, <1>3, <1>5, AuditorClauseKept DEF HoldInv
<1> QED BY <1>1, <1>2, <1>6, ClausesKept

\* Kind says whose list the entry is taken from, and by which request.
LEMMA TakingOffHolds ==
    ASSUME TypeOK, HoldInv, NEW a \in Actors,
           DetachAuditor(a) \/ DetachReviewer(a) \/ RemoveAssignedAssessment(a)
           \/ UnflagReviewer(a)
    PROVE  HoldInv'
<1>1. Kind(a, pc[a], frame[a])
  BY DEF HoldInv
<1>2. CASE DetachAuditor(a)
  BY <1>1, <1>2, AuditorTakenOff DEF Kind, DetachAuditor, At
<1>3. CASE DetachReviewer(a) \/ UnflagReviewer(a)
  BY <1>1, <1>3, ReviewerTakenOff DEF Kind, DetachReviewer, UnflagReviewer, At
<1>4. CASE RemoveAssignedAssessment(a)
  BY <1>1, <1>4, AuditorTakenOff, ReviewerTakenOff DEF Kind, RemoveAssignedAssessment, At
<1> QED BY <1>2, <1>3, <1>4

-----------------------------------------------------------------------------
(* The assignment of a reviewer *)

LEMMA AssignReviewerHolds ==
    ASSUME IInv, HoldInv, NEW a \in Actors, AssignReviewer(a)
    PROVE  HoldInv'
<1>1. /\ TypeOK /\ pc[a] = "reviewerWrite" /\ User(a) \in Reviewers /\ User(a) = frame[a].user
      /\ Kind(a, "reviewerList", frame[a]) /\ "reviewerList" \in Labels \ {"idle"}
  BY Here DEF IInv, AssignReviewer, At, Roles, User, Kind, Opening, Labels, Steps
<1>2. PICK f \in Frames : Carries(a, "reviewerList", f) /\ f = frame[a]
  BY <1>1, Goes DEF AssignReviewer
<1>3. assessment'.reviewer = User(a) /\ assessment'.auditor = assessment.auditor
  BY <1>1 DEF TypeOK, Assessments, AssignReviewer
<1>4. PICK r \in Reviewers : r = User(a)
  BY <1>1
<1>5. Owed(r, ReviewerListing)' /\ Owed(r, Flagging)' /\ Owed(r, ReviewerJoining)'
  BY <1>1, <1>2, <1>4, OwedBy DEF Owes, ReviewerListing, Flagging, ReviewerJoining
<1>6. ReviewerClause'
  BY <1>3, <1>4, <1>5 DEF ReviewerClause, ReviewerHeld, Owed, Owes
<1>7. AuditorServed(a, "reviewerList", f) /\ pc[a] \notin Writers
  BY <1>1 DEF AssignReviewer, AuditorServed, Owes, Writers, Listing, Joining, Recording
<1>8. AuditorClause'
  BY <1>1, <1>2, <1>3, <1>7, AuditorClauseKept DEF HoldInv
<1> QED BY <1>1, <1>2, <1>6, <1>8, ClausesKept

LEMMA ListReviewerHolds ==
    ASSUME IInv, HoldInv, NEW a \in Actors, ListReviewer(a)
    PROVE  HoldInv'
<1>1. /\ TypeOK /\ User(a) \in People /\ User(a) = frame[a].user
      /\ Kind(a, "flag", frame[a]) /\ "flag" \in Labels \ {"idle"} /\ pc[a] = "reviewerList"
  BY Here DEF IInv, Kind, Opening, Labels, Steps, ListReviewer, At, Roles, User, People
<1>2. PICK f \in Frames : Carries(a, "flag", f) /\ f = frame[a]
  BY <1>1, Goes DEF ListReviewer
<1>3. lists'[User(a)] > 0 /\ \A q \in People : lists[q] > 0 => lists'[q] > 0
  BY <1>1, ListsGrow DEF ListReviewer
<1>4. AuditorServed(a, "flag", f) /\ ReviewerServed(a, "flag", f) /\ pc[a] \notin Writers
  BY <1>1, <1>2, <1>3 DEF ListReviewer, AuditorServed, ReviewerServed, Owes,
     Writers, Listing, Joining, Recording, ReviewerListing, Flagging, ReviewerJoining, People
<1> QED BY <1>1, <1>2, <1>4, Serves DEF ListReviewer

LEMMA FlagReviewerHolds ==
    ASSUME TypeOK, HoldInv, NEW a \in Actors, FlagReviewer(a)
    PROVE  HoldInv'
<1>1. Kind(a, "join", frame[a]) /\ "join" \in Labels \ {"idle"} /\ pc[a] = "flag"
  BY DEF Kind, Opening, Labels, Steps, FlagReviewer, At
<1>2. PICK f \in Frames : Carries(a, "join", f) /\ f = frame[a]
  BY <1>1, Goes DEF FlagReviewer
<1>3. AuditorServed(a, "join", f) /\ ReviewerServed(a, "join", f) /\ pc[a] \notin Writers
  BY <1>1, <1>2 DEF FlagReviewer, AuditorServed, ReviewerServed, Owes,
     Writers, Listing, Joining, Recording, ReviewerListing, Flagging, ReviewerJoining
<1> QED BY <1>2, <1>3, Serves DEF FlagReviewer

-----------------------------------------------------------------------------
(* The thread and the surroundings *)

LEMMA OpeningHolds ==
    ASSUME TypeOK, HoldInv, NEW a \in Actors, CreateThread(a) \/ OpenTo(a)
    PROVE  HoldInv'
<1>1. a \in Openers
  BY DEF HoldInv, Kind, Opening, CreateThread, OpenTo, At
<1>2. PICK l \in {"openAuditor", "openReviewer", "done"} : Go(a, l)
  BY DEF CreateThread, OpenTo
<1>3. Kind(a, l, frame[a]) /\ l \in Labels \ {"idle"} /\ UNCHANGED failures
  BY <1>1, <1>2 DEF Kind, Opening, Labels, Steps, CreateThread, OpenTo
<1>4. PICK f \in Frames : Carries(a, l, f)
  BY <1>2, <1>3, Goes
<1> QED BY <1>1, <1>4, AuditorClauseSilent, ReviewerClauseSilent, ClausesKept

\* After a failure nothing is promised.
LEMMA FaultHolds ==
    ASSUME TypeOK, HoldInv, NEW a \in Actors, Fault(a)
    PROVE  HoldInv'
<1>1. failures' # 0
  BY DEF TypeOK, Fault
<1>2. PICK l \in {"audit", "done"} : Go(a, l)
  BY DEF Fault, AfterJoin
<1>3. l \in Labels \ {"idle"} /\ frame[a] \in Frames /\ EmptyFrame \in Frames
  BY <1>2, Blank DEF TypeOK, Labels, Steps
<1>4. PICK f \in Frames : MoveTo(a, l, f)
  BY <1>2, <1>3 DEF Go
<1>5. Kind(a, l, f)
  BY <1>2 DEF Kind, Opening
<1>6. Carries(a, l, f)
  BY <1>1, <1>3, <1>4, <1>5 DEF Carries
<1>7. AuditorClause' /\ ReviewerClause'
  BY <1>1 DEF AuditorClause, ReviewerClause, Calm
<1> QED BY <1>6, <1>7, ClausesKept

LEMMA SurroundingsHold ==
    ASSUME TypeOK, HoldInv, GetAssessmentScore \/ LockThread \/ UNCHANGED vars
    PROVE  HoldInv'
<1>1. /\ UNCHANGED <<lists, audit, reviewerSet, members, pc, frame, failures>>
      /\ thread' = "open" => thread = "open"
  BY DEF GetAssessmentScore, LockThread, vars
<1>2. assessment'.auditor = assessment.auditor /\ assessment'.reviewer = assessment.reviewer
  BY DEF TypeOK, Assessments, GetAssessmentScore, LockThread, vars
<1>3. \A a \in Actors : Kind(a, pc[a], frame[a])'
  BY <1>1 DEF HoldInv, Kind
<1>4. AuditorClause'
  BY <1>1, <1>2 DEF HoldInv, AuditorClause, AuditorHeld, Calm, NotBegun, Overwriting, Owed, Owes
<1>5. ReviewerClause'
  BY <1>1, <1>2 DEF HoldInv, ReviewerClause, ReviewerHeld, Calm, NotBegun, Owed, Owes
<1> QED BY <1>3, <1>4, <1>5 DEF HoldInv

-----------------------------------------------------------------------------
(* The theorem *)

LEMMA InitHolds == Init => HoldInv
BY DEF Init, HoldInv, Kind, Opening, AuditorClause, ReviewerClause

LEMMA NextHolds ==
    ASSUME IInv, HoldInv, [Next]_vars
    PROVE  HoldInv'
<1>1. TypeOK
  BY DEF IInv
<1>2. ASSUME NEW a \in Actors, Start(a)
      PROVE  HoldInv'
  BY <1>1, <1>2, ReadsHold DEF Start
<1>3. ASSUME NEW a \in Actors, Continue(a)
      PROVE  HoldInv'
  BY <1>1, <1>3, InvitationsHold, AssignReadHolds, DropPreviousHolds, AssignAuditorHolds,
     ReopenDisclosureHolds, AddAssignedAssessmentHolds, FindThreadHolds,
     AddParticipantHolds, CreateAuditHolds, TakingOffHolds, AssignReviewerHolds,
     ListReviewerHolds, FlagReviewerHolds, OpeningHolds DEF Continue
<1> QED BY <1>1, <1>2, <1>3, FaultHolds, SurroundingsHold DEF Next

\* At every moment the person on the assessment already has what assignToAssessment
\* of the auditor or the reviewer gives him (list entry, record, place in the
\* thread), or a call under way stands before the statement that will give it.
THEOREM AssignmentsAreHonoured == Spec => []HoldInv
<1>1. IInv /\ HoldInv /\ [Next]_vars => HoldInv'
  BY NextHolds
<1> QED BY <1>1, InitHolds, Inductive, PTL DEF Spec

LEMMA AtRest ==
    ASSUME HoldInv
    PROVE  AssignmentTakesHold
<1> SUFFICES ASSUME Quiet, failures = 0, NotBegun(Openers)
             PROVE  /\ NotBegun(Unassigns) /\ assessment.auditor # Nobody =>
                          AuditorHeld(assessment.auditor)
                    /\ NotBegun(ReviewerUnassigns) /\ assessment.reviewer # Nobody =>
                          ReviewerHeld(assessment.reviewer)
                    /\ \A p : /\ ~Owed(p, Recording) /\ ~Owed(p, Listing) /\ ~Owed(p, Joining)
                              /\ ~Owed(p, ReviewerListing) /\ ~Owed(p, Flagging)
                              /\ ~Owed(p, ReviewerJoining)
  BY DEF AssignmentTakesHold, AuditorHeld, ReviewerHeld
<1>1. ~Overwriting
  BY DEF Quiet, Overwriting, Writers
<1>2. \A p : /\ ~Owed(p, Recording) /\ ~Owed(p, Listing) /\ ~Owed(p, Joining)
             /\ ~Owed(p, ReviewerListing) /\ ~Owed(p, Flagging) /\ ~Owed(p, ReviewerJoining)
  BY DEF Quiet, Owed, Owes, Listing, Joining, Recording, ReviewerListing, Flagging,
         ReviewerJoining
<1> QED BY <1>1, <1>2 DEF HoldInv, AuditorClause, ReviewerClause, Calm

\* However many acceptances and assignments overlap, once all requests have ended
\* the auditor and the reviewer on the row have their list entries, their records
\* and their places in the open thread: the guard of assignToAssessment that two
\* acceptances pass together costs the one who is overwritten, never the other.
THEOREM AssignmentsTakeHold == Spec => []AssignmentTakesHold
<1>1. HoldInv => AssignmentTakesHold
  BY AtRest
<1> QED BY <1>1, AssignmentsAreHonoured, PTL
=============================================================================
