------------------------- MODULE AuditIssuance_proofs -------------------------
(***************************************************************************)
(* Proofs about the audit and the certificate of one assessment, for any   *)
(* sets of requests and any number of failures: type correctness, that     *)
(* decisions and archived audits are safe, that lifecycles are earned and  *)
(* certificates well-founded, and that the certificate's life is the one   *)
(* CertificateLifecycle promises.                                          *)
(***************************************************************************)
EXTENDS AuditIssuance, SequenceTheorems, TLAPS

-----------------------------------------------------------------------------
(* Rows, sequences and locals *)

LEMMA InitialRows ==
    /\ EmptyFrame \in Frames
    /\ NoCert \in CertRows
    /\ \A v \in Nat \ {0} : NewAudit(v) \in AuditRows
BY DEF EmptyFrame, Frames, NoRow, Decisions, CertStates, Writes, NoCert, CertRows,
       NewAudit, AuditRows, Stages

\* A sequence updated row by row is a sequence of the same length.
LEMMA RowByRow ==
    ASSUME NEW S, NEW s \in Seq(S), NEW t \in [DOMAIN s -> S]
    PROVE  t \in Seq(S) /\ DOMAIN t = DOMAIN s
<1>1. Len(s) \in Nat /\ DOMAIN s = 1..Len(s)
  BY LenProperties
<1>2. t \in [1..Len(s) -> S]
  BY <1>1
<1> QED BY <1>1, <1>2, SeqDef

LEMMA Appended ==
    ASSUME NEW S, NEW s \in Seq(S), NEW e \in S
    PROVE  /\ Append(s, e) \in Seq(S)
           /\ DOMAIN Append(s, e) = DOMAIN s \cup {Len(s) + 1}
           /\ Len(s) + 1 \notin DOMAIN s
           /\ Append(s, e)[Len(s) + 1] = e
           /\ \A i \in DOMAIN s : Append(s, e)[i] = s[i]
<1>1. Len(s) \in Nat /\ DOMAIN s = 1..Len(s)
  BY LenProperties
<1>2. /\ Append(s, e) \in Seq(S)
      /\ Len(Append(s, e)) = Len(s) + 1
      /\ \A i \in 1..Len(s) : Append(s, e)[i] = s[i]
      /\ Append(s, e)[Len(s) + 1] = e
  BY AppendProperties
<1>3. DOMAIN Append(s, e) = 1..(Len(s) + 1)
  BY <1>2, LenProperties
<1>4. 1..(Len(s) + 1) = 1..Len(s) \cup {Len(s) + 1} /\ Len(s) + 1 \notin 1..Len(s)
  BY <1>1
<1> QED BY <1>1, <1>2, <1>3, <1>4

\* What a SELECT of the active audit finds.
LEMMA CurrentRow ==
    ASSUME TypeOK
    PROVE  /\ Current \in Nat
           /\ Active # {} => Current \in Active
           /\ Active \subseteq DOMAIN audits
           /\ \A i \in DOMAIN audits : i \in Nat /\ audits[i] \in AuditRows
<1>1. Len(audits) \in Nat /\ DOMAIN audits = 1..Len(audits)
      /\ audits \in [1..Len(audits) -> AuditRows]
  BY LenProperties DEF TypeOK
<1>2. Active \subseteq DOMAIN audits
  BY DEF Active
<1>3. Active # {} => Current \in Active
  BY DEF Current
<1>4. Active = {} => Current = 0
  BY DEF Current, NoRow
<1> QED BY <1>1, <1>2, <1>3, <1>4

\* A step moves one request.
Moves(a) == \E l \in Labels, f \in Frames : MoveTo(a, l, f)

LEMMA MovesKeepTypes ==
    ASSUME TypeOK, NEW a \in Actors, Moves(a)
    PROVE  pc' \in [Actors -> Labels] /\ frame' \in [Actors -> Frames]
BY DEF TypeOK, Moves, MoveTo

LEMMA GoMoves ==
    ASSUME TypeOK, NEW a \in Actors, NEW l \in Labels, Go(a, l)
    PROVE  Moves(a)
BY InitialRows DEF TypeOK, Go, Moves

-----------------------------------------------------------------------------
(* What a step may do to the rows *)

\* The lifecycle shown on a row is earned: StageEarned, row by row.
EarnedRow(row, state) ==
    /\ row.stage = "auditor_submitted"  => row.status # "none"
    /\ row.stage = "reviewer_submitted" => row.review # "none"
    /\ row.stage = "completed"          => state # "none"

RowStep(old, new) ==
    /\ old.archived => new = old
    /\ new.status = "none" => old.status = "none"
    /\ new.review = "none" => old.review = "none"
    /\ new.stage = old.stage \/ EarnedRow(new, cert.state)

\* Rows change in place, and a row is added only when none is active.
AuditsStep ==
    /\ audits' \in Seq(AuditRows)
    /\ DOMAIN audits \subseteq DOMAIN audits'
    /\ \A i \in DOMAIN audits : RowStep(audits[i], audits'[i])
    /\ \A i \in DOMAIN audits' \ DOMAIN audits :
          Active = {} /\ i = Len(audits) + 1 /\ EarnedRow(audits'[i], cert.state)

ScoresStep == scores' \in Seq(ScoreRows) /\ DOMAIN scores \subseteq DOMAIN scores'

HasDecision(i) == i \in DOMAIN audits /\ audits[i].review # "none"

\* The certificate is issued on a decision and a score, and then only blocked.
CertStep ==
    \/ cert' = cert
    \/ cert.state # "none" /\ cert' = [cert EXCEPT !.state = "blocked"]
    \/ /\ cert.state = "none" /\ cert'.state = "valid" /\ cert' \in CertRows
       /\ HasDecision(cert'.audit) /\ cert'.score \in DOMAIN scores

\* Only a block or an admin sets the assessment's own flag.
BarStep(a) ==
    \/ barred' = barred
    \/ cert' = cert /\ a \in Admins /\ barred' \in BOOLEAN
    \/ cert' = cert /\ barred' = TRUE /\ cert.state # "none"

\* What a request has established when it gets to a step.
Claims == {"complete", "stage", "blocking", "checkScore", "issue"}
Justified(a) ==
    /\ pc[a] \in {"complete", "stage", "blocking"} => cert.state # "none"
    /\ pc[a] \in {"checkScore", "issue"} => HasDecision(frame[a].audit)
    /\ pc[a] = "issue" => frame[a].score \in DOMAIN scores

\* StageEarned and CertificateHasBasis are not inductive without Justified.
IInv ==
    /\ TypeOK /\ StageEarned /\ CertificateHasBasis
    /\ \A a \in Actors : Justified(a)

\* A step in order: one request moves, justified, and the rows change as above.
Orderly(a) ==
    /\ Moves(a) /\ Justified(a)'
    /\ AuditsStep /\ ScoresStep /\ CertStep /\ BarStep(a)
    /\ assigned' \in BOOLEAN /\ completed' \in BOOLEAN /\ failures' \in Nat

LEMMA RowsKept ==
    ASSUME TypeOK, UNCHANGED audits
    PROVE  AuditsStep
BY DEF TypeOK, AuditsStep, RowStep

LEMMA RowsUpdated ==
    ASSUME TypeOK, audits' \in [DOMAIN audits -> AuditRows],
           \A i \in DOMAIN audits : RowStep(audits[i], audits'[i])
    PROVE  AuditsStep
<1>1. audits' \in Seq(AuditRows) /\ DOMAIN audits' = DOMAIN audits
  BY RowByRow DEF TypeOK
<1> QED BY <1>1 DEF AuditsStep

LEMMA RowAdded ==
    ASSUME TypeOK, Active = {}, NEW row \in AuditRows, EarnedRow(row, cert.state),
           audits' = Append(audits, row)
    PROVE  AuditsStep
<1>1. /\ audits' \in Seq(AuditRows)
      /\ DOMAIN audits' = DOMAIN audits \cup {Len(audits) + 1}
      /\ audits'[Len(audits) + 1] = row
      /\ \A i \in DOMAIN audits : audits'[i] = audits[i]
  BY Appended DEF TypeOK
<1>2. \A i \in DOMAIN audits : RowStep(audits[i], audits'[i])
  BY <1>1 DEF RowStep
<1> QED BY <1>1, <1>2 DEF AuditsStep

\* Decisions only become decided, so what a request established stays true.
LEMMA BasisStays ==
    ASSUME TypeOK, AuditsStep, ScoresStep, CertStep
    PROVE  /\ \A i : HasDecision(i) => HasDecision(i)'
           /\ \A i : i \in DOMAIN scores => i \in DOMAIN scores'
           /\ cert.state # "none" => /\ cert'.state # "none"
                                     /\ cert'.audit = cert.audit
                                     /\ cert'.score = cert.score
<1>1. \A i : HasDecision(i) => HasDecision(i)'
  BY DEF HasDecision, AuditsStep, RowStep
<1>2. \A i : i \in DOMAIN scores => i \in DOMAIN scores'
  BY DEF ScoresStep
<1>3. cert.state # "none" => /\ cert'.state # "none"
                             /\ cert'.audit = cert.audit
                             /\ cert'.score = cert.score
  BY DEF CertStep, TypeOK, CertRows
<1> QED BY <1>1, <1>2, <1>3

LEMMA CertStepTyped ==
    ASSUME TypeOK, CertStep
    PROVE  cert' \in CertRows
BY DEF TypeOK, CertStep, CertRows, CertStates

LEMMA StageStaysEarned ==
    ASSUME IInv, AuditsStep, CertStep, ScoresStep
    PROVE  StageEarned'
<1>1. cert.state # "none" => cert'.state # "none"
  BY BasisStays DEF IInv
<1>2. \A i \in DOMAIN audits' : EarnedRow(audits'[i], cert'.state)
  <2> SUFFICES ASSUME NEW i \in DOMAIN audits' PROVE EarnedRow(audits'[i], cert'.state)
    OBVIOUS
  <2>1. CASE i \notin DOMAIN audits
    BY <1>1, <2>1 DEF AuditsStep, EarnedRow
  <2>2. CASE i \in DOMAIN audits
    <3>1. EarnedRow(audits[i], cert.state)
      BY <2>2 DEF IInv, StageEarned, EarnedRow
    <3>2. RowStep(audits[i], audits'[i])
      BY <2>2 DEF AuditsStep
    <3> QED BY <1>1, <3>1, <3>2 DEF RowStep, EarnedRow
  <2> QED BY <2>1, <2>2
<1>3. \A i, j \in Active' : i = j
  <2>1. \A i \in Active' : i \in Active \/ (Active = {} /\ i = Len(audits) + 1)
    BY DEF AuditsStep, RowStep, Active
  <2>2. \A i, j \in Active : i = j
    BY DEF IInv, StageEarned
  <2> QED BY <2>1, <2>2
<1> QED BY <1>2, <1>3 DEF StageEarned, EarnedRow

LEMMA OrderlyKeepsIInv ==
    ASSUME IInv, NEW a \in Actors, Orderly(a)
    PROVE  IInv'
<1>1. TypeOK'
  <2>1. pc' \in [Actors -> Labels] /\ frame' \in [Actors -> Frames]
    BY MovesKeepTypes DEF IInv, Orderly
  <2>2. cert' \in CertRows
    BY CertStepTyped DEF IInv, Orderly
  <2>3. barred' \in BOOLEAN
    BY DEF IInv, TypeOK, Orderly, BarStep
  <2> QED BY <2>1, <2>2, <2>3 DEF Orderly, AuditsStep, ScoresStep, TypeOK
<1>2. StageEarned'
  BY StageStaysEarned DEF Orderly
<1>3. /\ \A i : HasDecision(i) => HasDecision(i)'
      /\ \A i : i \in DOMAIN scores => i \in DOMAIN scores'
      /\ cert.state # "none" => /\ cert'.state # "none"
                                /\ cert'.audit = cert.audit
                                /\ cert'.score = cert.score
  BY BasisStays DEF IInv, Orderly
<1>4. CertificateHasBasis'
  <2>1. CASE cert.state # "none"
    BY <1>3, <2>1 DEF IInv, CertificateHasBasis, HasDecision
  <2>2. CASE cert.state = "none"
    BY <1>3, <2>2 DEF Orderly, CertStep, CertificateHasBasis, HasDecision
  <2> QED BY <2>1, <2>2
<1>5. \A b \in Actors : Justified(b)'
  <2> SUFFICES ASSUME NEW b \in Actors, b # a PROVE Justified(b)'
    BY DEF Orderly
  <2>1. pc'[b] = pc[b] /\ frame'[b] = frame[b]
    BY DEF Orderly, Moves, MoveTo, IInv, TypeOK
  <2>2. Justified(b)
    BY DEF IInv
  <2> QED BY <1>3, <2>1, <2>2 DEF Justified
<1> QED BY <1>1, <1>2, <1>4, <1>5 DEF IInv

-----------------------------------------------------------------------------
(* Every action is orderly *)

LEMMA Moved ==
    ASSUME TypeOK, NEW a \in Actors, NEW l \in Labels, NEW f \in Frames,
           MoveTo(a, l, f)
    PROVE  Moves(a) /\ pc'[a] = l /\ frame'[a] = f
BY DEF TypeOK, Moves, MoveTo

LEMMA Gone ==
    ASSUME TypeOK, NEW a \in Actors, NEW l \in Labels, Go(a, l)
    PROVE  Moves(a) /\ pc'[a] = l /\ (l # "done" => frame'[a] = frame[a])
<1>1. Moves(a)
  BY GoMoves
<1> QED BY <1>1 DEF TypeOK, Go, MoveTo

LEMMA Unclaimed ==
    ASSUME NEW a \in Actors, pc'[a] \notin Claims
    PROVE  Justified(a)'
BY DEF Claims, Justified

\* A request that leaves the rows alone has only its next step to justify.
LEMMA OnlyMoves ==
    ASSUME IInv, NEW a \in Actors, Moves(a), Justified(a)',
           UNCHANGED <<asmtRow, audits, scores, cert>>, failures' \in Nat
    PROVE  Orderly(a)
<1>1. AuditsStep
  BY RowsKept DEF IInv
<1>2. ScoresStep /\ CertStep /\ BarStep(a)
  BY DEF IInv, TypeOK, ScoresStep, CertStep, BarStep, asmtRow
<1>3. assigned' \in BOOLEAN /\ completed' \in BOOLEAN
  BY DEF IInv, TypeOK, asmtRow
<1> QED BY <1>1, <1>2, <1>3 DEF Orderly

\* And one that writes only audit rows, these and its next step.
LEMMA OnlyAudits ==
    ASSUME IInv, NEW a \in Actors, Moves(a), Justified(a)', AuditsStep,
           UNCHANGED <<asmtRow, scores, cert, failures>>
    PROVE  Orderly(a)
<1>1. ScoresStep /\ CertStep /\ BarStep(a)
  BY DEF IInv, TypeOK, ScoresStep, CertStep, BarStep, asmtRow
<1>2. assigned' \in BOOLEAN /\ completed' \in BOOLEAN /\ failures' \in Nat
  BY DEF IInv, TypeOK, asmtRow
<1> QED BY <1>1, <1>2 DEF Orderly

\* A request that ends, or goes on to a step that claims nothing.
LEMMA GoesOn ==
    ASSUME IInv, NEW a \in Actors, NEW l \in Labels \ Claims, Go(a, l)
    PROVE  Moves(a) /\ Justified(a)'
BY Gone, Unclaimed DEF IInv

LEMMA MovesOn ==
    ASSUME IInv, NEW a \in Actors, NEW l \in Labels \ Claims, NEW f \in Frames,
           MoveTo(a, l, f)
    PROVE  Moves(a) /\ Justified(a)'
BY Moved, Unclaimed DEF IInv

\* The fields of a request's locals.
LEMMA FrameFields ==
    ASSUME TypeOK, NEW a \in Actors
    PROVE  /\ frame[a] \in Frames
           /\ frame[a].audit \in Nat /\ frame[a].of \in Nat
           /\ frame[a].decision \in Decisions /\ frame[a].score \in Nat
           /\ frame[a].version \in Nat \ {0} /\ frame[a].todo \in SUBSET Writes
BY DEF TypeOK, Frames

LEMMA Updated ==
    ASSUME NEW f \in Frames
    PROVE  /\ \A d \in Decisions : [f EXCEPT !.decision = d] \in Frames
           /\ \A n \in Nat : /\ [f EXCEPT !.audit = n] \in Frames
                             /\ [f EXCEPT !.score = n] \in Frames
           /\ \A n \in Nat, d \in Decisions :
                 [f EXCEPT !.of = n, !.decision = d] \in Frames
           /\ \A c \in CertStates : [f EXCEPT !.found = c] \in Frames
           /\ \A v \in Nat \ {0} : [f EXCEPT !.version = v] \in Frames
           /\ \A t \in SUBSET Writes : [f EXCEPT !.todo = t] \in Frames
BY DEF Frames

LEMMA NamedSteps ==
    /\ {"done", "assign", "open", "saveAudit", "saveReview", "scoreRead", "score",
        "scoreWrite", "checkReview", "create", "findCert"} \subseteq Labels \ Claims
    /\ Claims \subseteq Labels
BY DEF Labels, Steps, Claims

LEMMA Assignment ==
    ASSUME IInv, NEW a \in Actors,
           Assign(a) \/ AssignAuditor(a) \/ CreateAuditOnAssignment(a) \/ Unassign(a)
    PROVE  Orderly(a)
<1>1. CASE Assign(a)
  <2>1. Moves(a) /\ Justified(a)'
    BY <1>1, GoesOn, NamedSteps DEF Assign
  <2> QED BY <1>1, <2>1, OnlyMoves DEF Assign, IInv, TypeOK
<1>2. CASE AssignAuditor(a) \/ Unassign(a)
  <2>1. Moves(a) /\ Justified(a)'
    BY <1>2, GoesOn, NamedSteps DEF AssignAuditor, Unassign
  <2>2. AuditsStep
    BY <1>2, RowsKept DEF AssignAuditor, Unassign, IInv
  <2>3. ScoresStep /\ CertStep /\ BarStep(a)
    BY <1>2 DEF AssignAuditor, Unassign, IInv, TypeOK, ScoresStep, CertStep, BarStep
  <2>4. assigned' \in BOOLEAN /\ completed' \in BOOLEAN /\ failures' \in Nat
    BY <1>2 DEF AssignAuditor, Unassign, IInv, TypeOK
  <2> QED BY <2>1, <2>2, <2>3, <2>4 DEF Orderly
<1>3. CASE CreateAuditOnAssignment(a)
  <2>1. Moves(a) /\ Justified(a)'
    BY <1>3, GoesOn, NamedSteps DEF CreateAuditOnAssignment
  <2>2. CASE Active = {}
    <3>1. NewAudit(1) \in AuditRows /\ EarnedRow(NewAudit(1), cert.state)
      BY InitialRows DEF NewAudit, EarnedRow
    <3>2. AuditsStep
      BY <1>3, <2>2, <3>1, RowAdded DEF CreateAuditOnAssignment, IInv
    <3> QED BY <1>3, <2>1, <3>2, OnlyAudits DEF CreateAuditOnAssignment
  <2>3. CASE Active # {}
    <3>1. AuditsStep
      BY <1>3, <2>3, RowsKept DEF CreateAuditOnAssignment, IInv
    <3> QED BY <1>3, <2>1, <3>1, OnlyAudits DEF CreateAuditOnAssignment
  <2> QED BY <2>2, <2>3
<1> QED BY <1>1, <1>2, <1>3

\* Neither a draft nor a decision unmakes what a row says.
LEMMA AuditedRow ==
    ASSUME NEW row \in AuditRows, ~row.archived, NEW d \in Decisions
    PROVE  /\ Audited(row, d) \in AuditRows /\ RowStep(row, Audited(row, d))
           /\ row.stage = "in_progress" => EarnedRow(Audited(row, d), cert.state)
<1>1. Audited(row, d) \in AuditRows
  BY DEF Audited, Coalesce, AuditRows, Stages, Decisions
<1>2. RowStep(row, Audited(row, d))
  BY DEF Audited, Coalesce, AuditRows, RowStep, EarnedRow
<1>3. row.stage = "in_progress" => EarnedRow(Audited(row, d), cert.state)
  BY DEF Audited, Coalesce, AuditRows, EarnedRow
<1> QED BY <1>1, <1>2, <1>3

LEMMA ReviewedRow ==
    ASSUME NEW row \in AuditRows, ~row.archived, NEW d \in Decisions
    PROVE  Reviewed(row, d) \in AuditRows /\ RowStep(row, Reviewed(row, d))
<1>1. Reviewed(row, d) \in AuditRows
  BY DEF Reviewed, Coalesce, AuditRows, Stages, Decisions
<1>2. RowStep(row, Reviewed(row, d))
  BY DEF Reviewed, Coalesce, AuditRows, RowStep, EarnedRow
<1> QED BY <1>1, <1>2

LEMMA SameRow == \A row : RowStep(row, row)
BY DEF RowStep

LEMMA Auditing ==
    ASSUME IInv, NEW a \in Actors, AuditorRead(a) \/ AuditorSave(a)
    PROVE  Orderly(a)
<1>1. CASE AuditorRead(a)
  <2>1. Moves(a) /\ Justified(a)'
    <3> PICK d \in Decisions :
               IF d # "none" /\ ~assigned
               THEN Go(a, "done")
               ELSE MoveTo(a, "saveAudit", [EmptyFrame EXCEPT !.decision = d])
      BY <1>1 DEF AuditorRead
    <3>1. [EmptyFrame EXCEPT !.decision = d] \in Frames
      BY InitialRows, Updated
    <3> QED BY <3>1, GoesOn, MovesOn, NamedSteps
  <2> QED BY <1>1, <2>1, OnlyMoves DEF AuditorRead, IInv, TypeOK
<1>2. CASE AuditorSave(a)
  <2> DEFINE d == frame[a].decision
  <2>1. Moves(a) /\ Justified(a)'
    BY <1>2, GoesOn, NamedSteps DEF AuditorSave
  <2>2. d \in Decisions
    BY FrameFields DEF IInv
  <2>3. AuditsStep
    <3>1. CASE Active = {}
      <4>1. NewAudit(1) \in AuditRows /\ ~NewAudit(1).archived
            /\ NewAudit(1).stage = "in_progress"
        BY InitialRows DEF NewAudit
      <4>2. Audited(NewAudit(1), d) \in AuditRows
            /\ EarnedRow(Audited(NewAudit(1), d), cert.state)
        BY <2>2, <4>1, AuditedRow
      <4>3. audits' = Append(audits, Audited(NewAudit(1), d))
        BY <1>2, <3>1 DEF AuditorSave
      <4> QED BY <3>1, <4>2, <4>3, RowAdded DEF IInv
    <3>2. CASE Active # {}
      <4>1. audits' = [i \in DOMAIN audits |->
                         IF audits[i].archived THEN audits[i] ELSE Audited(audits[i], d)]
        BY <1>2, <3>2 DEF AuditorSave
      <4>2. \A i \in DOMAIN audits : audits[i] \in AuditRows
        BY CurrentRow DEF IInv
      <4>3. \A i \in DOMAIN audits : audits'[i] \in AuditRows
                                     /\ RowStep(audits[i], audits'[i])
        BY <2>2, <4>1, <4>2, AuditedRow, SameRow
      <4> QED BY <4>1, <4>3, RowsUpdated DEF IInv
    <3> QED BY <3>1, <3>2
  <2> QED BY <1>2, <2>1, <2>3, OnlyAudits DEF AuditorSave
<1> QED BY <1>1, <1>2

LEMMA Reviewing ==
    ASSUME IInv, NEW a \in Actors, ReviewerRead(a) \/ ReviewerSave(a) \/ ScoreRead(a)
    PROVE  Orderly(a)
<1>1. CASE ReviewerRead(a)
  <2>1. Moves(a) /\ Justified(a)'
    <3>1. CASE Active = {}
      BY <1>1, <3>1, GoesOn, NamedSteps DEF ReviewerRead
    <3>2. CASE Active # {}
      <4> PICK d \in Decisions :
                 MoveTo(a, "saveReview", [EmptyFrame EXCEPT !.decision = d])
        BY <1>1, <3>2 DEF ReviewerRead
      <4>1. [EmptyFrame EXCEPT !.decision = d] \in Frames
        BY InitialRows, Updated
      <4> QED BY <4>1, MovesOn, NamedSteps
    <3> QED BY <3>1, <3>2
  <2> QED BY <1>1, <2>1, OnlyMoves DEF ReviewerRead, IInv, TypeOK
<1>2. CASE ReviewerSave(a)
  <2> DEFINE d == frame[a].decision
  <2>1. Moves(a) /\ Justified(a)'
    <3>1. [EmptyFrame EXCEPT !.audit = Current] \in Frames
      BY InitialRows, Updated, CurrentRow DEF IInv
    <3> QED BY <1>2, <3>1, GoesOn, MovesOn, NamedSteps DEF ReviewerSave
  <2>2. d \in Decisions
    BY FrameFields DEF IInv
  <2>3. AuditsStep
    <3>1. audits' = [i \in DOMAIN audits |->
                       IF audits[i].archived THEN audits[i] ELSE Reviewed(audits[i], d)]
      BY <1>2 DEF ReviewerSave
    <3>2. \A i \in DOMAIN audits : audits[i] \in AuditRows
      BY CurrentRow DEF IInv
    <3>3. \A i \in DOMAIN audits : audits'[i] \in AuditRows
                                   /\ RowStep(audits[i], audits'[i])
      BY <2>2, <3>1, <3>2, ReviewedRow, SameRow
    <3> QED BY <3>1, <3>3, RowsUpdated DEF IInv
  <2> QED BY <1>2, <2>1, <2>3, OnlyAudits DEF ReviewerSave
<1>3. CASE ScoreRead(a)
  <2>1. Moves(a) /\ Justified(a)'
    <3>1. CASE Active = {}
      BY <1>3, <3>1, GoesOn, NamedSteps DEF ScoreRead
    <3>2. CASE Active # {}
      <4>1. Current \in Nat /\ audits[Current].review \in Decisions
        BY <3>2, CurrentRow DEF IInv, AuditRows
      <4>2. [frame[a] EXCEPT !.of = Current, !.decision = audits[Current].review]
              \in Frames
        BY <4>1, FrameFields, Updated DEF IInv
      <4> QED BY <1>3, <3>2, <4>2, MovesOn, NamedSteps DEF ScoreRead
    <3> QED BY <3>1, <3>2
  <2> QED BY <1>3, <2>1, OnlyMoves DEF ScoreRead, IInv, TypeOK
<1> QED BY <1>1, <1>2, <1>3

\* The score is filed, and copied only while its audit is active.
LEMMA Scoring ==
    ASSUME IInv, NEW a \in Actors, CreateAiAuditScore(a) \/ UpdateAuditScores(a)
    PROVE  Orderly(a)
<1>1. CASE CreateAiAuditScore(a)
  <2>1. UNCHANGED <<asmtRow, audits, cert, failures>>
    BY <1>1 DEF CreateAiAuditScore
  <2>2. CASE Go(a, "done") /\ UNCHANGED scores
    <3>1. Moves(a) /\ Justified(a)'
      BY <2>2, GoesOn, NamedSteps
    <3> QED BY <2>1, <2>2, <3>1, OnlyMoves DEF IInv, TypeOK
  <2>3. CASE /\ scores' = Append(scores, [audit  |-> frame[a].audit,
                                          of     |-> frame[a].of,
                                          review |-> frame[a].decision])
             /\ MoveTo(a, "scoreWrite", [frame[a] EXCEPT !.score = Len(scores) + 1])
    <3>1. Len(scores) + 1 \in Nat
      BY LenProperties DEF IInv, TypeOK
    <3>2. [frame[a] EXCEPT !.score = Len(scores) + 1] \in Frames
      BY <3>1, FrameFields, Updated DEF IInv
    <3>3. Moves(a) /\ Justified(a)'
      BY <2>3, <3>2, MovesOn, NamedSteps
    <3>4. [audit |-> frame[a].audit, of |-> frame[a].of,
           review |-> frame[a].decision] \in ScoreRows
      BY FrameFields DEF IInv, ScoreRows
    <3>5. ScoresStep
      BY <2>3, <3>4, Appended DEF IInv, TypeOK, ScoresStep
    <3>6. AuditsStep
      BY <2>1, RowsKept DEF IInv
    <3>7. CertStep /\ BarStep(a)
      BY <2>1 DEF CertStep, BarStep, asmtRow
    <3>8. assigned' \in BOOLEAN /\ completed' \in BOOLEAN /\ failures' \in Nat
      BY <2>1 DEF IInv, TypeOK, asmtRow
    <3> QED BY <3>3, <3>5, <3>6, <3>7, <3>8 DEF Orderly
  <2> QED BY <1>1, <2>2, <2>3 DEF CreateAiAuditScore
<1>2. CASE UpdateAuditScores(a)
  <2>1. Moves(a) /\ Justified(a)'
    BY <1>2, GoesOn, NamedSteps DEF UpdateAuditScores
  <2>2. CASE frame[a].audit \in Active
    <3> DEFINE k == frame[a].audit
    <3>1. audits' = [audits EXCEPT ![k].score = frame[a].score]
      BY <1>2, <2>2 DEF UpdateAuditScores
    <3>2. frame[a].score \in Nat
      BY FrameFields DEF IInv
    <3>3. k \in DOMAIN audits /\ ~audits[k].archived
          /\ \A i \in DOMAIN audits : audits[i] \in AuditRows
      BY <2>2, CurrentRow DEF IInv, Active
    <3>4. audits' = [i \in DOMAIN audits |->
                       IF i = k THEN [audits[k] EXCEPT !.score = frame[a].score]
                                ELSE audits[i]]
      BY <3>1, <3>3
    <3>5. [audits[k] EXCEPT !.score = frame[a].score] \in AuditRows
          /\ RowStep(audits[k], [audits[k] EXCEPT !.score = frame[a].score])
      BY <3>2, <3>3 DEF AuditRows, RowStep
    <3>6. \A i \in DOMAIN audits : audits'[i] \in AuditRows
                                   /\ RowStep(audits[i], audits'[i])
      BY <3>3, <3>4, <3>5, SameRow
    <3>7. AuditsStep
      BY <3>4, <3>6, RowsUpdated DEF IInv
    <3> QED BY <1>2, <2>1, <3>7, OnlyAudits DEF UpdateAuditScores
  <2>3. CASE frame[a].audit \notin Active
    <3>1. AuditsStep
      BY <1>2, <2>3, RowsKept DEF UpdateAuditScores, IInv
    <3> QED BY <1>2, <2>1, <3>1, OnlyAudits DEF UpdateAuditScores
  <2> QED BY <2>2, <2>3
<1> QED BY <1>1, <1>2

\* Each check of an issuing request establishes what the next step relies on.
LEMMA Checking ==
    ASSUME IInv, NEW a \in Actors, IssueRead(a) \/ CheckReview(a) \/ CheckScore(a)
    PROVE  Orderly(a)
<1>1. CASE IssueRead(a)
  <2>1. [EmptyFrame EXCEPT !.found = cert.state] \in Frames
    BY InitialRows, Updated DEF IInv, TypeOK, CertRows
  <2>2. Moves(a) /\ Justified(a)'
    BY <1>1, <2>1, GoesOn, MovesOn, NamedSteps DEF IssueRead
  <2> QED BY <1>1, <2>2, OnlyMoves DEF IssueRead, IInv, TypeOK
<1>2. CASE CheckReview(a)
  <2>1. UNCHANGED <<asmtRow, audits, scores, cert, failures>>
    BY <1>2 DEF CheckReview
  <2>2. CASE Active # {} /\ audits[Current].review = "approved"
    <3> DEFINE f == [frame[a] EXCEPT !.audit = Current]
    <3>1. HasDecision(Current) /\ Current \in Nat
      BY <2>2, CurrentRow DEF IInv, HasDecision
    <3>2. f \in Frames /\ f.audit = Current
      BY <3>1, FrameFields, Updated DEF IInv, Frames
    <3>3. MoveTo(a, "checkScore", f)
      BY <1>2, <2>2 DEF CheckReview
    <3>4. Moves(a) /\ pc'[a] = "checkScore" /\ frame'[a].audit = Current
      <4> HIDE DEF f
      <4> QED BY <3>2, <3>3, Moved, NamedSteps DEF IInv, Claims
    <3>5. Justified(a)'
      BY <2>1, <3>1, <3>4 DEF Justified, HasDecision
    <3> QED BY <2>1, <3>4, <3>5, OnlyMoves DEF IInv, TypeOK
  <2>3. CASE ~(Active # {} /\ audits[Current].review = "approved")
    <3>1. Moves(a) /\ Justified(a)'
      BY <1>2, <2>3, GoesOn, NamedSteps DEF CheckReview
    <3> QED BY <2>1, <3>1, OnlyMoves DEF IInv, TypeOK
  <2> QED BY <2>2, <2>3
<1>3. CASE CheckScore(a)
  <2>1. UNCHANGED <<asmtRow, audits, scores, cert, failures>> /\ pc[a] = "checkScore"
    BY <1>3 DEF CheckScore, At
  <2>2. CASE scores = <<>>
    <3>1. Moves(a) /\ Justified(a)'
      BY <1>3, <2>2, GoesOn, NamedSteps DEF CheckScore
    <3> QED BY <2>1, <3>1, OnlyMoves DEF IInv, TypeOK
  <2>3. CASE scores # <<>>
    <3> DEFINE f == [frame[a] EXCEPT !.score = Len(scores)]
    <3>1. Len(scores) \in DOMAIN scores /\ Len(scores) \in Nat
      <4>1. Len(scores) \in Nat /\ DOMAIN scores = 1..Len(scores) /\ Len(scores) # 0
        BY <2>3, LenProperties, EmptySeq DEF IInv, TypeOK
      <4> QED BY <4>1
    <3>2. f \in Frames /\ f.score = Len(scores) /\ f.audit = frame[a].audit
      BY <3>1, FrameFields, Updated DEF IInv, Frames
    <3>3. MoveTo(a, "issue", f)
      BY <1>3, <2>3 DEF CheckScore
    <3>4. Moves(a) /\ pc'[a] = "issue" /\ frame'[a].score = Len(scores)
          /\ frame'[a].audit = frame[a].audit
      <4> HIDE DEF f
      <4> QED BY <3>2, <3>3, Moved, NamedSteps DEF IInv, Claims
    <3>5. HasDecision(frame[a].audit)
      BY <2>1 DEF IInv, Justified
    <3>6. Justified(a)'
      BY <2>1, <3>1, <3>4, <3>5 DEF Justified, HasDecision
    <3> QED BY <2>1, <3>4, <3>6, OnlyMoves DEF IInv, TypeOK
  <2> QED BY <2>2, <2>3
<1> QED BY <1>1, <1>2, <1>3

LEMMA Issuing ==
    ASSUME IInv, NEW a \in Actors,
           \/ CreateIssuedCertificate(a) \/ SetAssessmentCompleted(a)
           \/ SetAuditLifecycle(a)
    PROVE  Orderly(a)
<1>1. CASE CreateIssuedCertificate(a)
  <2>1. UNCHANGED <<asmtRow, audits, scores, failures>> /\ pc[a] = "issue"
    BY <1>1 DEF CreateIssuedCertificate, At
  <2>2. CASE cert.state = "none"
    <3> DEFINE c == [state |-> "valid", audit |-> frame[a].audit,
                     score |-> frame[a].score]
    <3>1. cert' = c /\ Go(a, "complete")
      BY <1>1, <2>2 DEF CreateIssuedCertificate
    <3>2. HasDecision(frame[a].audit) /\ frame[a].score \in DOMAIN scores
      BY <2>1 DEF IInv, Justified
    <3>3. c \in CertRows
      BY FrameFields DEF IInv, CertRows, CertStates
    <3>4. CertStep
      BY <2>2, <3>1, <3>2, <3>3 DEF CertStep
    <3>5. Moves(a) /\ pc'[a] = "complete"
      BY <3>1, Gone, NamedSteps DEF IInv, Claims
    <3>6. Justified(a)'
      BY <3>1, <3>5 DEF Justified
    <3>7. AuditsStep
      BY <2>1, RowsKept DEF IInv
    <3>8. ScoresStep /\ BarStep(a)
      BY <2>1 DEF IInv, TypeOK, ScoresStep, BarStep, asmtRow
    <3>9. assigned' \in BOOLEAN /\ completed' \in BOOLEAN /\ failures' \in Nat
      BY <2>1 DEF IInv, TypeOK, asmtRow
    <3> QED BY <3>4, <3>5, <3>6, <3>7, <3>8, <3>9 DEF Orderly
  <2>3. CASE cert.state # "none"
    <3>1. Moves(a) /\ Justified(a)'
      BY <1>1, <2>3, GoesOn, NamedSteps DEF CreateIssuedCertificate
    <3> QED BY <1>1, <2>1, <2>3, <3>1, OnlyMoves
            DEF CreateIssuedCertificate, IInv, TypeOK
  <2> QED BY <2>2, <2>3
<1>2. CASE SetAssessmentCompleted(a)
  <2>1. UNCHANGED <<assigned, barred, audits, scores, cert, failures>>
        /\ completed' = TRUE /\ pc[a] = "complete"
    BY <1>2 DEF SetAssessmentCompleted, At
  <2>2. Moves(a) /\ pc'[a] = "stage"
    BY <1>2, Gone, NamedSteps DEF SetAssessmentCompleted, IInv, Claims
  <2>3. Justified(a)'
    BY <2>1, <2>2 DEF IInv, Justified
  <2>4. AuditsStep
    BY <2>1, RowsKept DEF IInv
  <2>5. ScoresStep /\ CertStep /\ BarStep(a)
    BY <2>1 DEF IInv, TypeOK, ScoresStep, CertStep, BarStep
  <2>6. assigned' \in BOOLEAN /\ completed' \in BOOLEAN /\ failures' \in Nat
    BY <2>1 DEF IInv, TypeOK
  <2> QED BY <2>2, <2>3, <2>4, <2>5, <2>6 DEF Orderly
<1>3. CASE SetAuditLifecycle(a)
  <2>1. Moves(a) /\ Justified(a)'
    BY <1>3, GoesOn, NamedSteps DEF SetAuditLifecycle
  <2>2. cert.state # "none"
    BY <1>3 DEF SetAuditLifecycle, At, IInv, Justified
  <2>3. \A row \in AuditRows : ~row.archived =>
           [row EXCEPT !.stage = "completed"] \in AuditRows
           /\ RowStep(row, [row EXCEPT !.stage = "completed"])
    BY <2>2 DEF AuditRows, Stages, RowStep, EarnedRow
  <2>4. audits' = [i \in DOMAIN audits |->
                     IF audits[i].archived THEN audits[i]
                     ELSE [audits[i] EXCEPT !.stage = "completed"]]
    BY <1>3 DEF SetAuditLifecycle
  <2>5. \A i \in DOMAIN audits : audits[i] \in AuditRows
    BY CurrentRow DEF IInv
  <2>6. \A i \in DOMAIN audits : audits'[i] \in AuditRows
                                 /\ RowStep(audits[i], audits'[i])
    BY <2>3, <2>4, <2>5, SameRow
  <2>7. AuditsStep
    BY <2>4, <2>6, RowsUpdated DEF IInv
  <2> QED BY <1>3, <2>1, <2>7, OnlyAudits DEF SetAuditLifecycle
<1> QED BY <1>1, <1>2, <1>3

\* A request that is blocking goes on until both writes are over.
LEMMA BlockingGoesOn ==
    ASSUME IInv, NEW a \in Actors, NEW w, pc[a] = "blocking", WriteOver(a, w)
    PROVE  Moves(a) /\ pc'[a] \in {"done", "blocking"}
<1> DEFINE left == frame[a].todo \ {w}
           f == [frame[a] EXCEPT !.todo = left]
<1>1. f \in Frames
  BY FrameFields, Updated DEF IInv
<1>2. CASE left = {}
  <2>1. Go(a, "done")
    BY <1>2 DEF WriteOver
  <2> QED BY <2>1, Gone, NamedSteps DEF IInv
<1>3. CASE left # {}
  <2>1. MoveTo(a, "blocking", f)
    BY <1>3 DEF WriteOver
  <2> HIDE DEF f
  <2> QED BY <1>1, <2>1, Moved, NamedSteps DEF IInv, Claims
<1> QED BY <1>2, <1>3

\* A request starts to block only over a certificate.
LEMMA StartsBlocking ==
    ASSUME IInv, NEW a \in Actors, NEW f \in Frames, cert.state # "none",
           UNCHANGED cert, MoveTo(a, "blocking", f)
    PROVE  Moves(a) /\ Justified(a)'
<1>1. Moves(a) /\ pc'[a] = "blocking"
  BY Moved, NamedSteps DEF IInv, Claims
<1> QED BY <1>1 DEF Justified

LEMMA Blocking ==
    ASSUME IInv, NEW a \in Actors,
           \/ BlockRead(a) \/ BlockIssuedCertificate(a)
           \/ BlockAssessmentCertificate(a)
           \/ a \in Admins /\ SetCertificateBlockStatus(a)
    PROVE  Orderly(a)
<1>1. CASE BlockRead(a)
  <2>1. [EmptyFrame EXCEPT !.todo = Writes] \in Frames
    BY InitialRows, Updated
  <2>2. Moves(a) /\ Justified(a)'
    <3>1. CASE cert.state = "valid"
      BY <1>1, <2>1, <3>1, StartsBlocking DEF BlockRead
    <3>2. CASE cert.state # "valid"
      BY <1>1, <3>2, GoesOn, NamedSteps DEF BlockRead
    <3> QED BY <3>1, <3>2
  <2> QED BY <1>1, <2>2, OnlyMoves DEF BlockRead, IInv, TypeOK
<1>2. CASE BlockIssuedCertificate(a)
  <2>1. pc[a] = "blocking" /\ cert' = [cert EXCEPT !.state = "blocked"]
        /\ WriteOver(a, "cert") /\ UNCHANGED <<asmtRow, audits, scores, failures>>
    BY <1>2 DEF BlockIssuedCertificate, At
  <2>2. cert.state # "none" /\ cert'.state = "blocked"
    BY <2>1 DEF IInv, Justified, TypeOK, CertRows
  <2>3. Moves(a) /\ pc'[a] \in {"done", "blocking"}
    BY <2>1, BlockingGoesOn
  <2>4. Justified(a)'
    BY <2>2, <2>3 DEF Justified
  <2>5. AuditsStep
    BY <2>1, RowsKept DEF IInv
  <2>6. ScoresStep /\ CertStep /\ BarStep(a)
    BY <2>1, <2>2 DEF IInv, TypeOK, ScoresStep, CertStep, BarStep, asmtRow
  <2>7. assigned' \in BOOLEAN /\ completed' \in BOOLEAN /\ failures' \in Nat
    BY <2>1 DEF IInv, TypeOK, asmtRow
  <2> QED BY <2>3, <2>4, <2>5, <2>6, <2>7 DEF Orderly
<1>3. CASE BlockAssessmentCertificate(a)
  <2>1. pc[a] = "blocking" /\ barred' = TRUE /\ WriteOver(a, "bar")
        /\ UNCHANGED <<assigned, completed, audits, scores, cert, failures>>
    BY <1>3 DEF BlockAssessmentCertificate, At
  <2>2. cert.state # "none"
    BY <2>1 DEF IInv, Justified
  <2>3. Moves(a) /\ pc'[a] \in {"done", "blocking"}
    BY <2>1, BlockingGoesOn
  <2>4. Justified(a)'
    BY <2>1, <2>2, <2>3 DEF Justified
  <2>5. AuditsStep
    BY <2>1, RowsKept DEF IInv
  <2>6. ScoresStep /\ CertStep /\ BarStep(a)
    BY <2>1, <2>2 DEF IInv, TypeOK, ScoresStep, CertStep, BarStep
  <2>7. assigned' \in BOOLEAN /\ completed' \in BOOLEAN /\ failures' \in Nat
    BY <2>1 DEF IInv, TypeOK
  <2> QED BY <2>3, <2>4, <2>5, <2>6, <2>7 DEF Orderly
<1>4. CASE a \in Admins /\ SetCertificateBlockStatus(a)
  <2>1. barred' \in BOOLEAN
        /\ UNCHANGED <<assigned, completed, audits, scores, cert, failures>>
    BY <1>4 DEF SetCertificateBlockStatus
  <2>2. Moves(a) /\ Justified(a)'
    BY <1>4, GoesOn, NamedSteps DEF SetCertificateBlockStatus
  <2>3. AuditsStep
    BY <2>1, RowsKept DEF IInv
  <2>4. ScoresStep /\ CertStep /\ BarStep(a)
    BY <1>4, <2>1 DEF IInv, TypeOK, ScoresStep, CertStep, BarStep
  <2>5. assigned' \in BOOLEAN /\ completed' \in BOOLEAN /\ failures' \in Nat
    BY <2>1 DEF IInv, TypeOK
  <2> QED BY <2>2, <2>3, <2>4, <2>5 DEF Orderly
<1> QED BY <1>1, <1>2, <1>3, <1>4

LEMMA Reauditing ==
    ASSUME IInv, NEW a \in Actors,
           ArchiveCurrentAudit(a) \/ CreateAuditForReaudit(a) \/ ReauditFindCert(a)
    PROVE  Orderly(a)
<1>1. CASE ArchiveCurrentAudit(a)
  <2>1. NextVersion \in Nat \ {0}
    <3>1. CASE Active = {}
      BY <3>1 DEF NextVersion
    <3>2. CASE Active # {}
      <4>1. audits[Current].version \in Nat \ {0}
        BY <3>2, CurrentRow DEF IInv, AuditRows
      <4> QED BY <3>2, <4>1 DEF NextVersion
    <3> QED BY <3>1, <3>2
  <2>2. [EmptyFrame EXCEPT !.version = NextVersion] \in Frames
    BY <2>1, InitialRows, Updated
  <2>3. Moves(a) /\ Justified(a)'
    BY <1>1, <2>2, MovesOn, NamedSteps DEF ArchiveCurrentAudit
  <2>4. \A row \in AuditRows : [row EXCEPT !.archived = TRUE] \in AuditRows
                               /\ RowStep(row, [row EXCEPT !.archived = TRUE])
    BY DEF AuditRows, RowStep
  <2>5. audits' = [i \in DOMAIN audits |-> [audits[i] EXCEPT !.archived = TRUE]]
    BY <1>1 DEF ArchiveCurrentAudit
  <2>6. \A i \in DOMAIN audits : audits[i] \in AuditRows
    BY CurrentRow DEF IInv
  <2>7. \A i \in DOMAIN audits : audits'[i] \in AuditRows
                                 /\ RowStep(audits[i], audits'[i])
    BY <2>4, <2>5, <2>6
  <2>8. AuditsStep
    BY <2>5, <2>7, RowsUpdated DEF IInv
  <2> QED BY <1>1, <2>3, <2>8, OnlyAudits DEF ArchiveCurrentAudit
<1>2. CASE CreateAuditForReaudit(a)
  <2>1. Moves(a) /\ Justified(a)'
    BY <1>2, GoesOn, NamedSteps DEF CreateAuditForReaudit
  <2>2. AuditsStep
    <3>1. CASE Active = {}
      <4> DEFINE v == frame[a].version
      <4>1. NewAudit(v) \in AuditRows
        BY InitialRows, FrameFields DEF IInv
      <4>2. EarnedRow(NewAudit(v), cert.state)
        BY DEF NewAudit, EarnedRow
      <4>3. audits' = Append(audits, NewAudit(v))
        BY <1>2, <3>1 DEF CreateAuditForReaudit
      <4> QED BY <3>1, <4>1, <4>2, <4>3, RowAdded DEF IInv
    <3>2. CASE Active # {}
      BY <1>2, <3>2, RowsKept DEF CreateAuditForReaudit, IInv
    <3> QED BY <3>1, <3>2
  <2> QED BY <1>2, <2>1, <2>2, OnlyAudits DEF CreateAuditForReaudit
<1>3. CASE ReauditFindCert(a)
  <2>1. [frame[a] EXCEPT !.todo = Writes] \in Frames
    BY FrameFields, Updated DEF IInv
  <2>2. Moves(a) /\ Justified(a)'
    <3>1. CASE cert.state = "valid"
      BY <1>3, <2>1, <3>1, StartsBlocking DEF ReauditFindCert
    <3>2. CASE cert.state # "valid"
      BY <1>3, <3>2, GoesOn, NamedSteps DEF ReauditFindCert
    <3> QED BY <3>1, <3>2
  <2> QED BY <1>3, <2>2, OnlyMoves DEF ReauditFindCert, IInv, TypeOK
<1> QED BY <1>1, <1>2, <1>3

\* A failed call moves its request and changes no row.
LEMMA Failing ==
    ASSUME IInv, NEW a \in Actors, DbFault(a)
    PROVE  Orderly(a)
<1>1. UNCHANGED <<asmtRow, audits, scores, cert>> /\ failures' \in Nat
  BY DEF DbFault, IInv, TypeOK
<1>2. CASE Go(a, "done")
  BY <1>1, <1>2, GoesOn, NamedSteps, OnlyMoves
<1>3. CASE At(a, "complete") /\ Go(a, "stage")
  <2>1. Moves(a) /\ pc'[a] = "stage"
    BY <1>3, Gone, NamedSteps DEF IInv, Claims
  <2>2. Justified(a)'
    BY <1>1, <1>3, <2>1 DEF IInv, Justified, At
  <2> QED BY <1>1, <2>1, <2>2, OnlyMoves
<1>4. CASE At(a, "blocking") /\ \E w \in frame[a].todo : WriteOver(a, w)
  <2>1. Moves(a) /\ pc'[a] \in {"done", "blocking"}
    BY <1>4, BlockingGoesOn DEF At
  <2>2. Justified(a)'
    BY <1>1, <1>4, <2>1 DEF IInv, Justified, At
  <2> QED BY <1>1, <2>1, <2>2, OnlyMoves
<1> QED BY <1>2, <1>3, <1>4 DEF DbFault

LEMMA StepsAreOrderly ==
    ASSUME IInv, NEW a \in Actors, Start(a) \/ Continue(a) \/ DbFault(a)
    PROVE  Orderly(a)
<1>1. CASE Start(a)
  BY <1>1, Assignment, Auditing, Reviewing, Checking, Blocking, Reauditing DEF Start
<1>2. CASE Continue(a)
  BY <1>2, Assignment, Auditing, Reviewing, Scoring, Checking, Issuing, Blocking,
     Reauditing DEF Continue
<1>3. CASE DbFault(a)
  BY <1>3, Failing
<1> QED BY <1>1, <1>2, <1>3

-----------------------------------------------------------------------------
(* The theorems *)

LEMMA InitIsSound == Init => IInv
<1> SUFFICES ASSUME Init PROVE IInv
  OBVIOUS
<1>1. audits \in Seq(AuditRows) /\ scores \in Seq(ScoreRows) /\ DOMAIN audits = {}
  BY EmptySeq, LenProperties DEF Init
<1>2. "idle" \in Labels
  BY DEF Labels
<1>3. TypeOK
  BY <1>1, <1>2, InitialRows DEF Init, TypeOK
<1>4. StageEarned
  BY <1>1 DEF StageEarned, Active
<1>5. CertificateHasBasis
  BY DEF Init, NoCert, CertificateHasBasis
<1>6. \A a \in Actors : Justified(a)
  BY DEF Init, Justified
<1> QED BY <1>3, <1>4, <1>5, <1>6 DEF IInv

\* A restart forgets every request and leaves every row as it was.
LEMMA CrashKeepsIInv ==
    ASSUME IInv, Crash
    PROVE  IInv'
<1>1. UNCHANGED <<assigned, completed, barred, audits, scores, cert>>
      /\ failures' \in Nat
  BY DEF Crash, asmtRow, IInv, TypeOK
<1>2. pc' \in [Actors -> Labels] /\ frame' \in [Actors -> Frames]
      /\ \A a \in Actors : pc'[a] \in {"idle", "done"}
  BY InitialRows DEF Crash, Labels
<1>3. TypeOK'
  BY <1>1, <1>2 DEF IInv, TypeOK
<1>4. StageEarned' /\ CertificateHasBasis'
  BY <1>1 DEF IInv, StageEarned, CertificateHasBasis, Active
<1>5. \A a \in Actors : Justified(a)'
  BY <1>2 DEF Justified
<1> QED BY <1>3, <1>4, <1>5 DEF IInv

LEMMA NextKeepsIInv == IInv /\ [Next]_vars => IInv'
<1> SUFFICES ASSUME IInv, [Next]_vars PROVE IInv'
  OBVIOUS
<1>1. ASSUME NEW a \in Actors, Start(a) \/ Continue(a) \/ DbFault(a) PROVE IInv'
  BY <1>1, StepsAreOrderly, OrderlyKeepsIInv
<1>2. CASE Crash
  BY <1>2, CrashKeepsIInv
<1>3. CASE UNCHANGED vars
  BY <1>3 DEF vars, IInv, TypeOK, StageEarned, CertificateHasBasis, Justified,
              HasDecision, Active
<1> QED BY <1>1, <1>2, <1>3 DEF Next

LEMMA Sound == Spec => []IInv
<1> QED BY InitIsSound, NextKeepsIInv, PTL DEF Spec

\* Whatever the requests and the failures, every row, every local variable of
\* a request and every step it is at are of the kinds the model declares.
THEOREM TypeCorrectness == Spec => []TypeOK
<1>1. IInv => TypeOK
  BY DEF IInv
<1> QED BY <1>1, Sound, PTL

\* The lifecycle on an audit is earned by a decision or a certificate, and an
\* assessment never has two active audits, for any number of concurrent
\* requests (upsert, upsertReview, setAuditLifecycleStatus, reauditAssessment).
THEOREM LifecycleEarned == Spec => []StageEarned
<1>1. IInv => StageEarned
  BY DEF IInv
<1> QED BY <1>1, Sound, PTL

\* Every certificate rests on a decision and a score still on record, however
\* many requests save, score or archive while it is issued (issueCertificate).
THEOREM CertificateFounded == Spec => []CertificateHasBasis
<1>1. IInv => CertificateHasBasis
  BY DEF IInv
<1> QED BY <1>1, Sound, PTL

LEMMA NextKeepsRows == IInv /\ [Next]_vars => AuditsStep
<1> SUFFICES ASSUME IInv, [Next]_vars PROVE AuditsStep
  OBVIOUS
<1>1. ASSUME NEW a \in Actors, Start(a) \/ Continue(a) \/ DbFault(a) PROVE AuditsStep
  BY <1>1, StepsAreOrderly DEF Orderly
<1>2. CASE Crash \/ UNCHANGED vars
  BY <1>2, RowsKept DEF Crash, vars, IInv
<1> QED BY <1>1, <1>2 DEF Next

\* No request, late or repeated, unmakes a decision of the auditor or of the
\* reviewer (COALESCE in upsert and in upsertReview).
THEOREM DecisionsAreKept == Spec => DecisionsKept
<1>1. AuditsStep =>
        [\A i \in DOMAIN audits :
            /\ audits'[i].status = "none" => audits[i].status = "none"
            /\ audits'[i].review = "none" => audits[i].review = "none"]_vars
  BY DEF AuditsStep, RowStep
<1> QED BY <1>1, Sound, NextKeepsRows, PTL DEF Spec, DecisionsKept

\* Nothing writes on an archived audit, whatever was under way when it was
\* archived (WHERE ... AND is_archived = FALSE in every audit's UPDATE).
THEOREM ArchivedIsFrozen == Spec => ArchivedFrozen
<1>1. AuditsStep =>
        [\A i \in DOMAIN audits : audits[i].archived => audits'[i] = audits[i]]_vars
  BY DEF AuditsStep, RowStep
<1> QED BY <1>1, Sound, NextKeepsRows, PTL DEF Spec, ArchivedFrozen

\* The certificate's state, as CertificateLifecycle sees it.
LEMMA CertificateSteps ==
    ASSUME Admins = {}
    PROVE  IInv /\ [Next]_vars => [Lifecycle!Next]_(Lifecycle!vars)
<1> SUFFICES ASSUME IInv, [Next]_vars PROVE [Lifecycle!Next]_(Lifecycle!vars)
  OBVIOUS
<1>1. ASSUME NEW a \in Actors, CertStep, BarStep(a)
      PROVE  [Lifecycle!Next]_(Lifecycle!vars)
  <2>1. /\ cert.state \in CertStates /\ barred \in BOOLEAN
        /\ cert' = [cert EXCEPT !.state = "blocked"] => cert'.state = "blocked"
    BY DEF IInv, TypeOK, CertRows
  <2>2. CASE cert' = cert
    <3>1. barred' = barred \/ (barred' = TRUE /\ cert.state # "none")
      BY <1>1 DEF BarStep
    <3> QED BY <2>1, <2>2, <3>1
            DEF Lifecycle!Next, Lifecycle!Lock, Lifecycle!vars, CertStates
  <2>3. CASE cert' # cert
    <3>1. barred' = barred
      BY <1>1, <2>3 DEF BarStep
    <3>2. CASE cert.state = "none" /\ cert'.state = "valid"
      BY <3>1, <3>2 DEF Lifecycle!Next, Lifecycle!Issue
    <3>3. CASE cert.state # "none" /\ cert' = [cert EXCEPT !.state = "blocked"]
      BY <2>1, <3>1, <3>3
         DEF Lifecycle!Next, Lifecycle!Revoke, Lifecycle!vars, CertStates
    <3> QED BY <1>1, <2>3, <3>2, <3>3 DEF CertStep
  <2> QED BY <2>2, <2>3
<1>2. ASSUME NEW a \in Actors, Start(a) \/ Continue(a) \/ DbFault(a)
      PROVE  [Lifecycle!Next]_(Lifecycle!vars)
  BY <1>1, <1>2, StepsAreOrderly DEF Orderly
<1>3. CASE Crash \/ UNCHANGED vars
  BY <1>3 DEF Crash, vars, asmtRow, Lifecycle!vars
<1> QED BY <1>2, <1>3 DEF Next

\* The safety half of the promise made about certificates: when no admin sets
\* the assessment's flag by hand, issuing, blocking and re-auditing issue one
\* certificate at most, never unblock it and lock the assessment only over it.
THEOREM CertificateLifecycleKept ==
    ASSUME Admins = {}
    PROVE  Spec => Lifecycle!Init /\ [][Lifecycle!Next]_(Lifecycle!vars)
<1>1. Init => Lifecycle!Init
  BY DEF Init, NoCert, Lifecycle!Init
<1>2. IInv /\ [Next]_vars => [Lifecycle!Next]_(Lifecycle!vars)
  BY CertificateSteps
<1> QED BY <1>1, <1>2, Sound, PTL DEF Spec
=============================================================================
