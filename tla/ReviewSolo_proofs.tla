--------------------------- MODULE ReviewSolo_proofs ---------------------------
(***************************************************************************)
(* One submission and its automatic retries: the proof that the owner gets *)
(* what SubmissionLifecycle promises (its safety half), and that a review  *)
(* which completes leaves the two rows telling of one and the same review. *)
(***************************************************************************)
EXTENDS AiReviewPipeline_proofs

\* One submission and no admin request; any number of polls, sweeps, database
\* failures and crashes.  Only a failure between the writes of an outcome is
\* left out: it sends a completed assessment to the failure handler.
Solo ==
    /\ \A s, t \in Submits : s = t
    /\ Retries = {} /\ Resets = {}
    /\ FaultAt \cap OutcomeSteps = {}

-----------------------------------------------------------------------------
(* The inductive invariant *)

\* A call that is not working on the review; a failed run that still has its
\* notification to send has left it to the retry job.
Resting == {"idle", "done", "notifyFailure"}
Busy(a) == pc[a] \notin Resting

\* The steps of a first submission that has written nothing yet, and those it
\* cannot get to.
Before == {"idle", "readReview", "precheck", "submit"}
Unreached == {"cleanup", "refetch", "dropFailed", "fallbackDelete"} \cup PollSteps

\* What each outcome has written when it gets to a step.
Written == [
    graded   |-> [reviewDone  |-> {},
                  asmtDone    |-> {"reviewDone"},
                  reviewScore |-> {"reviewDone", "asmtDone"},
                  asmtScore   |-> {"reviewDone", "asmtDone", "reviewScore"},
                  badge       |-> {"reviewDone", "asmtDone", "reviewScore", "asmtScore"}],
    empty    |-> [reviewScore |-> {},
                  asmtScore   |-> {"reviewScore"},
                  reviewDone  |-> {"reviewScore", "asmtScore"},
                  asmtDone    |-> {"reviewScore", "asmtScore", "reviewDone"}],
    fallback |-> [reviewScore |-> {},
                  asmtScore   |-> {"reviewScore"},
                  badge       |-> {"reviewScore", "asmtScore"},
                  reviewDone  |-> {"reviewScore", "asmtScore"},
                  asmtDone    |-> {"reviewScore", "asmtScore", "reviewDone"}]]

\* The rows m and r hold what a run with the locals f writes at the steps W.
Hold(W, f, m, r) ==
    LET grade == IF f.path = "empty" THEN Zero ELSE f.rid
    IN  /\ "reviewDone" \in W => r.status = "completed"
        /\ "asmtDone" \in W => m.status = "completed"
        /\ "reviewScore" \in W => r.score = grade
        /\ "asmtScore" \in W => m.score = grade
        /\ m.badge = NoBadge \/ (f.path # "empty" /\ m.badge = f.rid)

\* A revert is followed by nothing, or by the failure mark of the run's review.
ReturnOK(f) == f.ret = "done" \/ (f.ret = "markFailed" /\ f.rid # NoId)

\* What the rows m and r are while a call is at step l with the locals f.
Position(a, l, f, m, r) ==
    /\ l \notin Unreached /\ ReturnOK(f)
    /\ a \in Submits /\ l \in Before => m = NewAssessment /\ r = NoReview
    /\ a \in Sweeps => l \notin Before \ {"idle"}
    /\ l = "readReview" => ~f.snap.submitted
    /\ l \in TriggerSteps \cup {"details", "load", "analyze", "responses"} =>
          m.status = "ai_reviewing" /\ m.submitted
    /\ l = "delete" => r.id = f.seen
    /\ l \in {"clearBadge", "clearScore", "create"} => r = NoReview
    /\ l = "start" => r.status = "pending"
    /\ l \in {"load", "analyze", "responses"} => r.status = "in_progress"
    /\ l \in {"start", "load", "analyze", "responses"} \cup OutcomeSteps =>
          r.id = f.rid /\ r.id # NoId
    /\ l \in {"markFailed", "markAgain"} => f.rid # NoId
    /\ l = "responses" => f.path = "graded"
    /\ l \in OutcomeSteps => /\ f.path = "empty" => l # "badge"
                             /\ Hold(Written[f.path][l], f, m, r)
    /\ r.status = "failed" =>
          l \in Resting \/ (a \in Sweeps /\ l \in {"record", "resubmit", "find", "delete"})

\* The rows, a run or a poll say that the review is ending well ...
RowsSign(m, r) ==
    \/ m.status = "completed" \/ m.badge # NoBadge
    \/ r.status = "completed" \/ r.score # NoScore
Writing == \E a \in Runners : pc[a] \in OutcomeSteps
Signs ==
    \/ RowsSign(asmt, review) \/ Writing
    \/ \E g \in Polls : pc[g] = "heal" \/ frame[g].snap.badge # NoBadge

\* ... and then nobody will undo it.
Concluded(m, r) ==
    /\ m.submitted /\ m.status # "in_progress"
    /\ r.id # NoId /\ r.status \in {"in_progress", "completed"}

\* The two rows tell of one review.
Agreed(m, r) ==
    /\ r.status = "completed" /\ m.status = "completed"
    /\ m.score = r.score /\ m.badge \in {NoBadge, m.score}

\* One call at a time works on the review, at a step that fits the rows; while
\* the submission has written nothing the retry job has nothing to do; and once
\* an outcome is being written no call reverts or replaces it.
SoloInv ==
    /\ \A a, b \in Runners : Busy(a) /\ Busy(b) => a = b
    /\ \A a \in Runners : Position(a, pc[a], frame[a], asmt, review)
    /\ \A s \in Submits : pc[s] \in Before => \A w \in Sweeps : pc[w] = "idle"
    /\ review.id = NoId => review = NoReview
    /\ Signs => /\ Concluded(asmt, review)
                /\ \A a \in Runners : pc[a] \in OutcomeSteps \cup Resting
                /\ crashes = 0 => Writing \/ Agreed(asmt, review)

-----------------------------------------------------------------------------
(* What keeps it *)

\* All others rest, and no first submission is still to come.
Alone(a) ==
    \A b \in Runners : b # a => pc[b] \in Resting /\ (b \in Submits => pc[b] # "idle")

\* A step of the one call at work: it leaves no sign of an outcome, or the
\* review is concluded and the call goes on writing it or is through.
Advances(a, l, f) ==
    /\ MoveTo(a, l, f)
    /\ Position(a, l, f, asmt', review')
    /\ review'.id = NoId => review' = NoReview
    /\ a \in Submits /\ l \in Before => pc[a] \in Before
    /\ \/ ~Signs /\ ~RowsSign(asmt', review') /\ l \notin OutcomeSteps
       \/ /\ Concluded(asmt', review')
          /\ l \in OutcomeSteps \/ (l \in Resting /\ Agreed(asmt', review'))

LEMMA SoloRunners ==
    ASSUME Solo
    PROVE  /\ Runners = Submits \cup Sweeps /\ Submits \cap Sweeps = {}
           /\ Runners \subseteq Actors /\ Runners \cap Polls = {}
           /\ Actors = Runners \cup Polls
BY ActorsAssumption DEF Solo, Runners, Actors

LEMMA MovedTo ==
    ASSUME TypeInv, NEW a \in Actors, NEW l, NEW f, MoveTo(a, l, f)
    PROVE  \A b \in Actors : /\ pc'[b] = IF b = a THEN l ELSE pc[b]
                             /\ frame'[b] = IF b = a THEN f ELSE frame[b]
BY DEF TypeInv, TypeOK, MoveTo

LEMMA StepNames ==
    /\ OutcomeSteps \cap Resting = {} /\ Before \cap Resting = {"idle"}
    /\ OutcomeSteps \cap Before = {} /\ "heal" \notin OutcomeSteps
BY DEF OutcomeSteps, Resting, Before

\* A call at rest fits any rows, unless it is a submission still to come.
LEMMA RestFits ==
    ASSUME NEW a \in Runners, NEW l \in Resting, NEW f, NEW m, NEW r,
           ReturnOK(f),
           a \in Submits /\ l = "idle" => m = NewAssessment /\ r = NoReview
    PROVE  Position(a, l, f, m, r)
BY DEF Position, Resting, Unreached, PollSteps, Before, TriggerSteps, OutcomeSteps

LEMMA BusyIsAlone ==
    ASSUME Solo, SoloInv, NEW a \in Runners, Busy(a)
    PROVE  Alone(a)
<1>1. ASSUME NEW b \in Runners, b # a
      PROVE  pc[b] \in Resting /\ (b \in Submits => pc[b] # "idle")
  <2>1. pc[b] \in Resting
    BY <1>1 DEF SoloInv, Busy
  <2>2. ASSUME b \in Submits, pc[b] = "idle"
        PROVE  FALSE
    <3>1. a \in Sweeps
      BY <1>1, <2>2, SoloRunners DEF Solo
    <3>2. pc[a] = "idle"
      BY <2>2, <3>1 DEF SoloInv, Before
    <3> QED BY <3>2 DEF Busy, Resting
  <2> QED BY <2>1, <2>2
<1> QED BY <1>1 DEF Alone

LEMMA AdvanceKeeps ==
    ASSUME Solo, TypeInv, SoloInv, crashes' = crashes,
           NEW a \in Runners, Alone(a), NEW l, NEW f, Advances(a, l, f)
    PROVE  SoloInv'
<1>1. \A b \in Actors : /\ pc'[b] = IF b = a THEN l ELSE pc[b]
                        /\ frame'[b] = IF b = a THEN f ELSE frame[b]
  BY MovedTo, SoloRunners DEF Advances
<1>2. \A b \in Runners : b # a => /\ pc[b] \in Resting /\ (b \in Submits => pc[b] # "idle")
                                  /\ pc'[b] = pc[b] /\ frame'[b] = frame[b]
  BY <1>1, SoloRunners DEF Alone
<1>3. pc'[a] = l /\ frame'[a] = f
  BY <1>1, SoloRunners
<1>4. \A b, c \in Runners : Busy(b)' /\ Busy(c)' => b = c
  BY <1>2 DEF Busy
<1>5. ASSUME NEW b \in Runners
      PROVE  Position(b, pc'[b], frame'[b], asmt', review')
  <2>1. CASE b = a
    BY <1>3, <2>1 DEF Advances
  <2>2. CASE b # a
    <3>1. ReturnOK(frame[b])
      BY DEF SoloInv, Position
    <3> QED BY <1>2, <2>2, <3>1, RestFits
  <2> QED BY <2>1, <2>2
<1>6. ASSUME NEW s \in Submits, pc'[s] \in Before, NEW w \in Sweeps
      PROVE  pc'[w] = "idle"
  <2>1. s = a
    BY <1>2, <1>6, SoloRunners, StepNames
  <2>2. pc[a] \in Before /\ w # a
    BY <1>3, <1>6, <2>1, SoloRunners DEF Advances
  <2> QED BY <1>2, <1>6, <2>1, <2>2, SoloRunners DEF SoloInv
<1>7. \A g \in Polls : pc'[g] = pc[g] /\ frame'[g] = frame[g]
  BY <1>1, SoloRunners
<1>8. ASSUME Signs'
      PROVE  /\ Concluded(asmt', review')
             /\ \A b \in Runners : pc'[b] \in OutcomeSteps \cup Resting
             /\ Writing' \/ Agreed(asmt', review')
  <2>1. CASE ~Signs /\ ~RowsSign(asmt', review') /\ l \notin OutcomeSteps
    <3>1. ~Writing'
      BY <1>2, <1>3, <2>1, StepNames DEF Writing
    <3>2. ~RowsSign(asmt, review)'
      BY <2>1 DEF RowsSign
    <3> QED BY <1>7, <1>8, <2>1, <3>1, <3>2 DEF Signs
  <2>2. CASE /\ Concluded(asmt', review')
             /\ l \in OutcomeSteps \/ (l \in Resting /\ Agreed(asmt', review'))
    BY <1>2, <1>3, <2>2 DEF Writing
  <2> QED BY <2>1, <2>2 DEF Advances
<1>9. review'.id = NoId => review' = NoReview
  BY DEF Advances
<1> QED BY <1>4, <1>5, <1>6, <1>8, <1>9 DEF SoloInv, Position, Concluded, Agreed

\* A call that ends, or a submission that is refused.
LEMMA RestKeeps ==
    ASSUME Solo, TypeInv, SoloInv, UNCHANGED <<asmt, review, crashes>>,
           NEW a \in Runners, pc[a] \in Resting, NEW l \in {"idle", "done"},
           MoveTo(a, l, EmptyFrame), a \in Submits => l = "done",
           a \in Sweeps => pc[a] # "idle"
    PROVE  SoloInv'
<1>1. \A b \in Actors : /\ pc'[b] = IF b = a THEN l ELSE pc[b]
                        /\ frame'[b] = IF b = a THEN EmptyFrame ELSE frame[b]
  BY MovedTo, SoloRunners
<1>2. l \in Resting /\ l \notin OutcomeSteps /\ pc[a] \notin OutcomeSteps
  BY StepNames DEF Resting
<1>3. \A b \in Runners : /\ Busy(b)' <=> Busy(b)
                         /\ b # a => pc'[b] = pc[b] /\ frame'[b] = frame[b]
                         /\ pc'[b] \in OutcomeSteps <=> pc[b] \in OutcomeSteps
                         /\ pc[b] \in Resting => pc'[b] \in Resting
  BY <1>1, <1>2, SoloRunners DEF Busy
<1>4. \A b \in Runners : Position(b, pc'[b], frame'[b], asmt', review')
  <2>1. Position(a, l, EmptyFrame, asmt', review')
    BY <1>2, RestFits, SoloRunners DEF EmptyFrame, ReturnOK
  <2> QED BY <1>1, <1>3, <2>1, SoloRunners DEF SoloInv
<1>5. \A s \in Submits : pc'[s] \in Before => \A w \in Sweeps : pc'[w] = "idle"
  <2>1. \A s \in Submits : pc'[s] \in Before => s # a /\ pc[s] \in Before
    BY <1>1, SoloRunners DEF Before
  <2>2. \A s \in Submits : pc'[s] \in Before => a \in Sweeps
    BY <2>1, SoloRunners DEF Solo
  <2>3. \A s \in Submits : pc'[s] \in Before => pc[a] = "idle"
    BY <2>1, <2>2 DEF SoloInv
  <2> QED BY <2>2, <2>3
<1>6. Writing' <=> Writing
  BY <1>3 DEF Writing
<1>7. \A g \in Polls : pc'[g] = pc[g] /\ frame'[g] = frame[g]
  BY <1>1, SoloRunners
<1>8. Signs' => Signs
  BY <1>6, <1>7 DEF Signs, RowsSign
<1>9. Signs' => \A b \in Runners : pc'[b] \in OutcomeSteps \cup Resting
  BY <1>3, <1>8 DEF SoloInv
<1>10. Signs' => Concluded(asmt', review') /\ (crashes' = 0 => Writing' \/ Agreed(asmt', review'))
  BY <1>6, <1>8 DEF SoloInv
<1>11. \A b, c \in Runners : Busy(b)' /\ Busy(c)' => b = c
  BY <1>3 DEF SoloInv
<1>12. review'.id = NoId => review' = NoReview
  BY DEF SoloInv
<1> QED BY <1>4, <1>5, <1>9, <1>10, <1>11, <1>12 DEF SoloInv, Position, Concluded, Agreed

\* A poll sees a sign before it heals the status.
PollMoves(g) ==
    \E l, f : /\ MoveTo(g, l, f)
              /\ l = "heal" \/ f.snap.badge # NoBadge => Signs

LEMMA PollKeeps ==
    ASSUME Solo, TypeInv, SoloInv, UNCHANGED <<review, crashes>>,
           NEW g \in Polls, PollMoves(g),
           asmt' = asmt \/ (Signs /\ asmt' = [asmt EXCEPT !.status = "completed"])
    PROVE  SoloInv'
<1>1. PICK l, f : /\ MoveTo(g, l, f)
                  /\ l = "heal" \/ f.snap.badge # NoBadge => Signs
  BY DEF PollMoves
<1>2. \A b \in Actors : /\ pc'[b] = IF b = g THEN l ELSE pc[b]
                        /\ frame'[b] = IF b = g THEN f ELSE frame[b]
  BY <1>1, MovedTo, SoloRunners
<1>3. \A b \in Runners : pc'[b] = pc[b] /\ frame'[b] = frame[b]
  BY <1>2, SoloRunners
<1>4. Signs' => Signs
  <2>1. CASE asmt' = asmt
    <3>1. RowsSign(asmt, review)' => RowsSign(asmt, review)
      BY <2>1 DEF RowsSign
    <3>2. Writing' => Writing
      BY <1>3 DEF Writing
    <3>3. ASSUME NEW h \in Polls, pc'[h] = "heal" \/ frame'[h].snap.badge # NoBadge
          PROVE  Signs
      BY <1>1, <1>2, <3>3, SoloRunners DEF Signs
    <3> QED BY <3>1, <3>2, <3>3 DEF Signs
  <2> QED BY <2>1
<1>5. asmt' = asmt \/ (Signs /\ asmt' = [asmt EXCEPT !.status = "completed"])
  OBVIOUS
<1>6. Signs => Concluded(asmt', review')
  BY <1>5 DEF SoloInv, Concluded, TypeInv, TypeOK, AssessmentRows
<1>7. Agreed(asmt, review) => Agreed(asmt', review')
  BY <1>5 DEF Agreed, TypeInv, TypeOK, AssessmentRows
<1>8. \A b \in Runners : Position(b, pc'[b], frame'[b], asmt', review')
  <2>1. CASE asmt' = asmt
    BY <1>3, <2>1 DEF SoloInv
  <2>2. CASE Signs /\ asmt' = [asmt EXCEPT !.status = "completed"]
    <3>1. asmt'.status = "completed" /\ asmt'.score = asmt.score /\ asmt'.badge = asmt.badge
      BY <2>2 DEF TypeInv, TypeOK, AssessmentRows
    <3>2. ASSUME NEW b \in Runners
          PROVE  Position(b, pc[b], frame[b], asmt', review')
      <4>1. Position(b, pc[b], frame[b], asmt, review)
        BY DEF SoloInv
      <4>2. pc[b] \in OutcomeSteps \cup Resting /\ review.id # NoId
        BY <2>2 DEF SoloInv, Concluded
      <4>3. CASE pc[b] \in Resting
        <5>1. ReturnOK(frame[b])
              /\ ~(b \in Submits /\ pc[b] = "idle")
          BY <4>1, <4>2 DEF Position, Before, NoReview
        <5> QED BY <4>3, <5>1, RestFits
      <4>4. CASE pc[b] \in OutcomeSteps
        <5>1. Hold(Written[frame[b].path][pc[b]], frame[b], asmt, review)
              => Hold(Written[frame[b].path][pc[b]], frame[b], asmt', review)
          BY <3>1 DEF Hold
        <5>2. pc[b] \notin TriggerSteps \cup {"details", "load", "analyze", "responses"}
              /\ pc[b] \notin Before
          BY <4>4 DEF OutcomeSteps, TriggerSteps, Before
        <5> QED BY <4>1, <4>4, <5>1, <5>2 DEF Position
      <4> QED BY <4>2, <4>3, <4>4
    <3> QED BY <1>3, <3>2
  <2> QED BY <1>5, <2>1, <2>2
<1>9. Writing' <=> Writing
  BY <1>3 DEF Writing
<1>10. Signs' => /\ Concluded(asmt', review')
                 /\ \A b \in Runners : pc'[b] \in OutcomeSteps \cup Resting
                 /\ crashes' = 0 => Writing' \/ Agreed(asmt', review')
  BY <1>3, <1>4, <1>6, <1>7, <1>9 DEF SoloInv
<1>11. \A b, c \in Runners : Busy(b)' /\ Busy(c)' => b = c
  BY <1>3 DEF SoloInv, Busy
<1>12. \A s \in Submits : pc'[s] \in Before => \A w \in Sweeps : pc'[w] = "idle"
  BY <1>3, SoloRunners DEF SoloInv
<1>13. review'.id = NoId => review' = NoReview
  BY DEF SoloInv
<1> QED BY <1>8, <1>10, <1>11, <1>12, <1>13 DEF SoloInv, Position, Concluded, Agreed

LEMMA CrashKeeps ==
    ASSUME Solo, TypeInv, SoloInv, Crash
    PROVE  SoloInv'
<1>1. UNCHANGED <<asmt, review>> /\ crashes' = crashes + 1 /\ crashes \in Nat
  BY DEF Crash, rows, TypeInv, TypeOK
<1>2. \A b \in Actors : /\ pc'[b] = IF b \in Sweeps \cup Polls \/ pc[b] = "idle"
                                    THEN "idle" ELSE "done"
                        /\ frame'[b] = EmptyFrame
  BY DEF Crash
<1>3. \A b \in Runners : /\ pc'[b] \in {"idle", "done"} /\ frame'[b] = EmptyFrame
                         /\ b \in Submits /\ pc'[b] = "idle" => pc[b] = "idle"
                         /\ b \in Sweeps => pc'[b] = "idle"
  BY <1>2, SoloRunners
<1>4. \A b \in Runners : Position(b, pc'[b], frame'[b], asmt', review')
  <2>1. \A b \in Runners : b \in Submits /\ pc'[b] = "idle" =>
                              asmt = NewAssessment /\ review = NoReview
    BY <1>3 DEF SoloInv, Position, Before
  <2> QED BY <1>1, <1>3, <2>1, RestFits DEF EmptyFrame, ReturnOK, Resting
<1>5. ~Writing'
  BY <1>3 DEF Writing, OutcomeSteps
<1>6. Signs' => Signs
  <2>1. \A g \in Polls : pc'[g] # "heal" /\ frame'[g].snap.badge = NoBadge
    BY <1>2, SoloRunners DEF EmptyFrame, NewAssessment
  <2> QED BY <1>1, <1>5, <2>1 DEF Signs, RowsSign
<1>7. Signs' => /\ Concluded(asmt', review')
                /\ \A b \in Runners : pc'[b] \in OutcomeSteps \cup Resting
                /\ crashes' # 0
  BY <1>1, <1>3, <1>6 DEF SoloInv, Resting
<1>8. /\ \A b, c \in Runners : Busy(b)' /\ Busy(c)' => b = c
      /\ \A s \in Submits : pc'[s] \in Before => \A w \in Sweeps : pc'[w] = "idle"
      /\ review'.id = NoId => review' = NoReview
  BY <1>1, <1>3, SoloRunners DEF SoloInv, Busy, Resting
<1> QED BY <1>4, <1>7, <1>8 DEF SoloInv, Position, Concluded

-----------------------------------------------------------------------------
(* The submission *)

LEMMA NoSignYet ==
    ASSUME SoloInv, NEW a \in Runners, pc[a] \notin OutcomeSteps \cup Resting
    PROVE  ~Signs /\ ~RowsSign(asmt, review)
BY DEF SoloInv, Signs

\* A call at work that does not get to writing an outcome.
LEMMA OpenAdvances ==
    ASSUME SoloInv, NEW a \in Runners, pc[a] \notin OutcomeSteps \cup Resting,
           NEW l, NEW f, MoveTo(a, l, f), l \notin OutcomeSteps,
           a \in Submits /\ l \in Before => pc[a] \in Before,
           Position(a, l, f, asmt', review'), ~RowsSign(asmt', review'),
           review'.id = NoId => review' = NoReview
    PROVE  Advances(a, l, f)
BY NoSignYet DEF Advances

\* It ends: its locals go out of scope.
LEMMA EndAdvances ==
    ASSUME SoloInv, NEW a \in Runners, pc[a] \notin OutcomeSteps \cup Resting,
           Go(a, "done"), UNCHANGED <<asmt, review>>
    PROVE  Advances(a, "done", EmptyFrame)
<1>1. MoveTo(a, "done", EmptyFrame)
  BY DEF Go
<1>2. "done" \notin OutcomeSteps \cup Before /\ "done" \in Resting
  BY DEF OutcomeSteps, Before, Resting
<1>3. Position(a, "done", EmptyFrame, asmt', review')
  BY <1>2, RestFits DEF EmptyFrame, ReturnOK
<1>4. ~RowsSign(asmt', review') /\ (review'.id = NoId => review' = NoReview)
  BY NoSignYet DEF SoloInv
<1> QED BY <1>1, <1>2, <1>3, <1>4, OpenAdvances

\* The rows as the submission finds them.
LEMMA FreshRows ==
    ASSUME SoloInv, NEW a \in Submits, a \in Runners, pc[a] \in Before
    PROVE  /\ asmt = NewAssessment /\ review = NoReview /\ ~Signs
           /\ ~RowsSign(asmt, review)
<1>1. asmt = NewAssessment /\ review = NoReview
  BY DEF SoloInv, Position
<1>2. ~Signs
  BY <1>1 DEF SoloInv, Concluded, NewAssessment
<1> QED BY <1>1, <1>2 DEF Signs

LEMMA SubmitReadKeeps ==
    ASSUME Solo, TypeInv, SoloInv, NEW a \in Submits, SubmitRead(a)
    PROVE  SoloInv'
<1>1. a \in Runners /\ pc[a] = "idle" /\ UNCHANGED <<asmt, review, crashes>>
  BY SoloRunners DEF SubmitRead, At, rows, env
<1>2. CASE Go(a, "done")
  BY <1>1, <1>2, RestKeeps, SoloRunners DEF Go, Resting
<1>3. CASE MoveTo(a, "readReview", [frame[a] EXCEPT !.snap = asmt])
  <2> DEFINE f == [frame[a] EXCEPT !.snap = asmt]
  <2>1. asmt = NewAssessment /\ review = NoReview /\ ~Signs /\ ~RowsSign(asmt, review)
    BY <1>1, FreshRows DEF Before
  <2>2. Alone(a)
    <3>1. \A w \in Sweeps : pc[w] = "idle"
      BY <1>1 DEF SoloInv, Before
    <3> QED BY <3>1, SoloRunners DEF Alone, Solo, Resting
  <2>3. f.snap = asmt /\ ReturnOK(f)
    BY <1>1, SoloRunners DEF SoloInv, Position, TypeInv, TypeOK, Frames, ReturnOK
  <2>4. Position(a, "readReview", f, asmt', review')
    BY <1>1, <2>1, <2>3, SoloRunners
    DEF Position, Unreached, PollSteps, Before, TriggerSteps, OutcomeSteps, NewAssessment, NoReview
  <2>5. "readReview" \notin OutcomeSteps /\ pc[a] \in Before
    BY <1>1 DEF OutcomeSteps, Before
  <2> HIDE DEF f
  <2>6. Advances(a, "readReview", f)
    BY <1>1, <1>3, <2>1, <2>4, <2>5 DEF Advances, f
  <2> QED BY <1>1, <2>2, <2>6, AdvanceKeeps
<1> QED BY <1>2, <1>3 DEF SubmitRead

LEMMA SubmitAdvances ==
    ASSUME Solo, TypeInv, SoloInv, NEW a \in Submits, SubmitStep(a)
    PROVE  Busy(a) /\ crashes' = crashes /\ \E l, f : Advances(a, l, f)
<1>1. a \in Runners /\ a \notin Sweeps /\ frame[a] \in Frames
  BY SoloRunners DEF TypeInv, TypeOK
<1>2. /\ pc[a] \in {"readReview", "precheck", "submit", "details", "catch"}
      /\ crashes' = crashes
  <2>1. pc[a] \notin Unreached
    BY <1>1 DEF SoloInv, Position
  <2> QED BY <2>1 DEF SubmitStep, SubmitReadReview, SubmitCleanup, SubmitRefetch,
             SubmitPrecheck, SubmitDropFailed, SubmitSetStatus, SubmitDetails, SubmitCatch,
             At, env, Unreached
<1>3. pc[a] \notin OutcomeSteps \cup Resting /\ Busy(a)
  BY <1>2 DEF OutcomeSteps, Resting, Busy
<1>4. Position(a, pc[a], frame[a], asmt, review) /\ ReturnOK(frame[a])
  BY <1>1 DEF SoloInv, Position
<1>5. ~RowsSign(asmt, review) /\ (review.id = NoId => review = NoReview)
  BY <1>1, <1>3, NoSignYet DEF SoloInv
<1>6. ASSUME Go(a, "done"), UNCHANGED <<asmt, review>>
      PROVE  \E l, f : Advances(a, l, f)
  BY <1>1, <1>3, <1>6, EndAdvances
<1>7. pc[a] \in Before => asmt = NewAssessment /\ review = NoReview
  BY <1>1, FreshRows
<1>8. CASE SubmitReadReview(a)
  <2>1. /\ pc[a] = "readReview" /\ ~frame[a].snap.submitted /\ ~Exists
        /\ UNCHANGED <<asmt, review>> /\ pc[a] \in Before
    BY <1>4, <1>7, <1>8 DEF SubmitReadReview, At, Position, Before, Exists, NoReview, rows
  <2> DEFINE f == [EmptyFrame EXCEPT !.seen = review.id]
  <2>2. MoveTo(a, "precheck", f) /\ ReturnOK(f)
    BY <1>8, <2>1 DEF SubmitReadReview, EmptyFrame, ReturnOK
  <2>3. Position(a, "precheck", f, asmt', review')
    BY <1>1, <1>7, <2>1, <2>2
    DEF Position, Unreached, PollSteps, Before, TriggerSteps, OutcomeSteps, NoReview
  <2>4. "precheck" \notin OutcomeSteps
    BY DEF OutcomeSteps
  <2> HIDE DEF f
  <2>5. Advances(a, "precheck", f)
    BY <1>1, <1>3, <1>5, <2>1, <2>2, <2>3, <2>4, OpenAdvances
  <2> QED BY <1>2, <1>3, <2>5
<1>9. CASE SubmitPrecheck(a)
  <2>1. UNCHANGED <<asmt, review>> /\ pc[a] \in Before /\ review.status # "failed"
    BY <1>7, <1>9 DEF SubmitPrecheck, At, rows, Before, NoReview
  <2>2. CASE Go(a, "submit")
    <3>1. MoveTo(a, "submit", frame[a]) /\ "submit" \notin OutcomeSteps
      BY <2>2 DEF Go, OutcomeSteps
    <3>2. Position(a, "submit", frame[a], asmt', review')
      BY <1>1, <1>4, <1>7, <2>1
      DEF Position, Unreached, PollSteps, Before, TriggerSteps, OutcomeSteps
    <3>3. Advances(a, "submit", frame[a])
      BY <1>1, <1>3, <1>5, <2>1, <3>1, <3>2, OpenAdvances
    <3> QED BY <1>2, <1>3, <3>3
  <2> QED BY <1>2, <1>3, <1>6, <1>9, <2>1, <2>2 DEF SubmitPrecheck
<1>10. CASE SubmitSetStatus(a)
  <2>1. /\ MoveTo(a, "details", frame[a]) /\ "details" \notin OutcomeSteps \cup Before
        /\ pc[a] \in Before /\ UNCHANGED review
    BY <1>10 DEF SubmitSetStatus, Go, OutcomeSteps, Before, At
  <2>2. asmt' = [NewAssessment EXCEPT !.submitted = TRUE, !.status = "ai_reviewing"]
        /\ review = NoReview
    BY <1>7, <1>10, <2>1 DEF SubmitSetStatus, SubmitRow
  <2>3. asmt'.submitted /\ asmt'.status = "ai_reviewing" /\ asmt'.badge = NoBadge
    BY <2>2 DEF NewAssessment
  <2>4. Position(a, "details", frame[a], asmt', review')
    BY <1>1, <1>4, <2>1, <2>2, <2>3
    DEF Position, Unreached, PollSteps, Before, TriggerSteps, OutcomeSteps, NoReview
  <2>5. ~RowsSign(asmt', review')
    BY <2>1, <2>2, <2>3 DEF RowsSign, NoReview
  <2>6. Advances(a, "details", frame[a])
    BY <1>1, <1>3, <1>5, <2>1, <2>4, <2>5, OpenAdvances
  <2> QED BY <1>2, <1>3, <2>6
<1>11. CASE SubmitDetails(a)
  <2>1. /\ MoveTo(a, "find", frame[a]) /\ "find" \notin OutcomeSteps \cup Before
        /\ pc[a] = "details" /\ UNCHANGED <<asmt, review>>
    BY <1>11 DEF SubmitDetails, Go, OutcomeSteps, Before, At, rows
  <2>2. Position(a, "find", frame[a], asmt', review')
    BY <1>1, <1>4, <2>1 DEF Position, Unreached, PollSteps, Before, TriggerSteps, OutcomeSteps, Resting
  <2>3. Advances(a, "find", frame[a])
    BY <1>1, <1>3, <1>5, <2>1, <2>2, OpenAdvances
  <2> QED BY <1>2, <1>3, <2>3
<1>12. CASE SubmitCatch(a)
  <2>1. /\ MoveTo(a, "rvFind", EmptyFrame) /\ "rvFind" \notin OutcomeSteps \cup Before
        /\ pc[a] = "catch" /\ UNCHANGED <<asmt, review>>
    BY <1>5, <1>12 DEF SubmitCatch, RowsSign, OutcomeSteps, Before, At, rows
  <2>2. Position(a, "rvFind", EmptyFrame, asmt', review')
    BY <1>1, <1>4, <2>1
    DEF Position, Unreached, PollSteps, Before, TriggerSteps, OutcomeSteps, Resting, EmptyFrame, ReturnOK
  <2>3. Advances(a, "rvFind", EmptyFrame)
    BY <1>1, <1>3, <1>5, <2>1, <2>2, OpenAdvances
  <2> QED BY <1>2, <1>3, <2>3
<1> QED BY <1>2, <1>3, <1>8, <1>9, <1>10, <1>11, <1>12
        DEF SubmitStep, SubmitCleanup, SubmitRefetch, SubmitDropFailed, At

-----------------------------------------------------------------------------
(* Reverts, and the retry job around a run *)

\* The steps of the failure handlers ask nothing of the rows but that the review
\* is not yet given over to the retry job.
Loose == RevertSteps \cup {"markFailed", "markAgain", "catch"}

LEMMA LooseSteps ==
    /\ Loose \cap (OutcomeSteps \cup Resting \cup Before) = {}
    /\ {"rvFind", "rvDelete", "rvRevert", "rvForce", "markFailed", "markAgain", "catch"} \subseteq Loose
BY DEF Loose, RevertSteps, OutcomeSteps, Resting, Before

LEMMA LooseAdvances ==
    ASSUME SoloInv, NEW a \in Runners, pc[a] \notin OutcomeSteps \cup Resting,
           NEW l \in Loose, NEW f, MoveTo(a, l, f), ReturnOK(f),
           l \in {"markFailed", "markAgain"} => f.rid # NoId,
           review'.status # "failed", review'.id = NoId => review' = NoReview,
           ~RowsSign(asmt', review')
    PROVE  Advances(a, l, f)
<1>1. Position(a, l, f, asmt', review')
  BY DEF Position, Loose, RevertSteps, Unreached, PollSteps, Before, TriggerSteps, OutcomeSteps
<1> QED BY <1>1, LooseSteps, OpenAdvances

LEMMA RestAdvances ==
    ASSUME SoloInv, NEW a \in Runners, pc[a] \notin OutcomeSteps \cup Resting,
           NEW l \in {"done", "notifyFailure"}, NEW f, MoveTo(a, l, f),
           ReturnOK(f),
           review'.id = NoId => review' = NoReview, ~RowsSign(asmt', review')
    PROVE  Advances(a, l, f)
<1>1. l \notin OutcomeSteps \cup Before /\ l \in Resting
  BY DEF OutcomeSteps, Before, Resting
<1>2. Position(a, l, f, asmt', review')
  BY <1>1, RestFits, StepNames DEF Before
<1> QED BY <1>1, <1>2, OpenAdvances

LEMMA RevertAdvances ==
    ASSUME Solo, TypeInv, SoloInv, NEW a \in Runners, RevertStep(a)
    PROVE  Busy(a) /\ crashes' = crashes /\ \E l, f : Advances(a, l, f)
<1>1. frame[a] \in Frames /\ ReturnOK(frame[a])
      /\ Position(a, pc[a], frame[a], asmt, review)
  BY SoloRunners DEF TypeInv, TypeOK, SoloInv, Position
<1>2. pc[a] \in RevertSteps /\ crashes' = crashes
  BY DEF RevertStep, RevertFind, RevertDelete, RevertWrite, At, env, RevertSteps
<1>3. pc[a] \notin OutcomeSteps \cup Resting /\ Busy(a) /\ review.status # "failed"
  BY <1>1, <1>2, LooseSteps DEF Loose, Busy, Position, RevertSteps
<1>4. ~RowsSign(asmt, review) /\ (review.id = NoId => review = NoReview)
  BY <1>3, NoSignYet DEF SoloInv
<1>5. CASE RevertFind(a)
  <2> DEFINE f == [frame[a] EXCEPT !.seen = review.id]
  <2>1. ReturnOK(f)
    BY <1>1 DEF Frames, ReturnOK
  <2>2. PICK l \in {"rvDelete", "rvRevert"} : MoveTo(a, l, f) /\ l \in Loose
    BY <1>5, LooseSteps DEF RevertFind
  <2>3. UNCHANGED <<asmt, review>>
    BY <1>5 DEF RevertFind, rows
  <2> HIDE DEF f
  <2>4. Advances(a, l, f)
    BY <1>1, <1>3, <1>4, <2>1, <2>2, <2>3, LooseAdvances
  <2> QED BY <1>2, <1>3, <2>4
<1>6. CASE RevertDelete(a)
  <2> DEFINE f == [frame[a] EXCEPT !.seen = NoId]
  <2>1. ReturnOK(f)
    BY <1>1 DEF Frames, ReturnOK
  <2>2. MoveTo(a, "rvRevert", f) /\ "rvRevert" \in Loose /\ UNCHANGED asmt
    BY <1>6, LooseSteps DEF RevertDelete, DeleteSeen
  <2>3. review' = review \/ review' = NoReview
    BY <1>6 DEF RevertDelete, DeleteSeen, DeleteReview
  <2>4. review'.status # "failed" /\ ~RowsSign(asmt', review')
        /\ (review'.id = NoId => review' = NoReview)
    BY <1>3, <1>4, <2>2, <2>3 DEF RowsSign, NoReview
  <2> HIDE DEF f
  <2>5. Advances(a, "rvRevert", f)
    BY <1>1, <1>3, <2>1, <2>2, <2>4, LooseAdvances
  <2> QED BY <1>2, <1>3, <2>5
<1>7. CASE RevertWrite(a)
  <2>1. asmt'.status = "in_progress" /\ asmt'.badge = asmt.badge /\ UNCHANGED review
    BY <1>7 DEF RevertWrite, RevertRow, TypeInv, TypeOK, AssessmentRows
  <2>2. ~RowsSign(asmt', review')
    BY <1>4, <2>1 DEF RowsSign
  <2>3. CASE frame[a].ret = "markFailed"
    <3>1. MoveTo(a, "markFailed", frame[a]) /\ "markFailed" \in Loose
      BY <1>7, <2>3, LooseSteps DEF RevertWrite, Go
    <3>2. Advances(a, "markFailed", frame[a])
      BY <1>1, <1>3, <1>4, <2>1, <2>2, <2>3, <3>1, LooseAdvances DEF ReturnOK
    <3> QED BY <1>2, <1>3, <3>2
  <2>4. CASE frame[a].ret = "done"
    <3>1. MoveTo(a, "done", EmptyFrame) /\ ReturnOK(EmptyFrame)
      BY <1>7, <2>4 DEF RevertWrite, Go, EmptyFrame, ReturnOK
    <3>2. Advances(a, "done", EmptyFrame)
      BY <1>3, <1>4, <2>1, <2>2, <3>1, RestAdvances
    <3> QED BY <1>2, <1>3, <3>2
  <2> QED BY <1>1, <2>3, <2>4 DEF ReturnOK
<1> QED BY <1>5, <1>6, <1>7 DEF RevertStep

LEMMA SoloSweepFind ==
    ASSUME Solo, TypeInv, RetryInv, SoloInv, NEW a \in Sweeps, SweepFind(a)
    PROVE  SoloInv'
<1>1. /\ a \in Runners /\ a \notin Submits /\ pc[a] = "idle" /\ ~running
      /\ review.status = "failed" /\ UNCHANGED <<asmt, review, crashes>>
      /\ MoveTo(a, "record", frame[a])
  BY SoloRunners DEF SweepFind, At, rows, Go
<1>2. Alone(a)
  <2>1. \A w \in Sweeps : pc[w] = "idle"
    BY <1>1 DEF RetryInv
  <2>2. \A s \in Submits : pc[s] \in Resting /\ pc[s] # "idle"
    BY <1>1, SoloRunners DEF SoloInv, Position, Before, NoReview
  <2> QED BY <2>1, <2>2, SoloRunners DEF Alone, Resting
<1>3. ~Signs /\ ~RowsSign(asmt, review)
  BY <1>1 DEF SoloInv, Concluded, Signs
<1>4. Position(a, "record", frame[a], asmt', review')
  <2>1. ReturnOK(frame[a])
    BY <1>1 DEF SoloInv, Position
  <2> QED BY <1>1, <2>1
          DEF Position, Unreached, PollSteps, Before, TriggerSteps, OutcomeSteps
<1>5. "record" \notin OutcomeSteps
  BY DEF OutcomeSteps
<1>6. Advances(a, "record", frame[a])
  BY <1>1, <1>3, <1>4, <1>5 DEF Advances, SoloInv
<1> QED BY <1>1, <1>2, <1>6, AdvanceKeeps

LEMMA SweepAdvances ==
    ASSUME Solo, TypeInv, SoloInv, NEW a \in Sweeps,
           RecordRetryAttempt(a) \/ SweepResubmit(a)
    PROVE  Busy(a) /\ crashes' = crashes /\ \E l, f : Advances(a, l, f)
<1>1. /\ a \in Runners /\ a \notin Submits /\ ReturnOK(frame[a])
      /\ pc[a] \in {"record", "resubmit"} /\ crashes' = crashes /\ UNCHANGED review
  BY SoloRunners DEF RecordRetryAttempt, SweepResubmit, At, env, SoloInv, Position
<1>2. pc[a] \notin OutcomeSteps \cup Resting /\ Busy(a)
  BY <1>1 DEF OutcomeSteps, Resting, Busy
<1>3. ~RowsSign(asmt, review) /\ (review.id = NoId => review = NoReview)
  BY <1>1, <1>2, NoSignYet DEF SoloInv
<1>4. CASE RecordRetryAttempt(a)
  <2>1. MoveTo(a, "resubmit", frame[a]) /\ UNCHANGED asmt /\ "resubmit" \notin OutcomeSteps
    BY <1>4 DEF RecordRetryAttempt, Go, OutcomeSteps
  <2>2. Position(a, "resubmit", frame[a], asmt', review')
    BY <1>1 DEF Position, Unreached, PollSteps, Before, TriggerSteps, OutcomeSteps
  <2>3. Advances(a, "resubmit", frame[a])
    BY <1>1, <1>2, <1>3, <2>1, <2>2, OpenAdvances
  <2> QED BY <1>1, <1>2, <2>3
<1>5. CASE SweepResubmit(a)
  <2>1. MoveTo(a, "find", frame[a]) /\ "find" \notin OutcomeSteps
    BY <1>5 DEF SweepResubmit, Go, OutcomeSteps
  <2>2. asmt'.submitted /\ asmt'.status = "ai_reviewing" /\ asmt'.badge = asmt.badge
    BY <1>5 DEF SweepResubmit, SubmitRow, TypeInv, TypeOK, AssessmentRows
  <2>3. Position(a, "find", frame[a], asmt', review')
    BY <1>1, <2>2 DEF Position, Unreached, PollSteps, Before, TriggerSteps, OutcomeSteps
  <2>4. ~RowsSign(asmt', review')
    BY <1>1, <1>3, <2>2 DEF RowsSign
  <2>5. Advances(a, "find", frame[a])
    BY <1>1, <1>2, <1>3, <2>1, <2>3, <2>4, OpenAdvances
  <2> QED BY <1>1, <1>2, <2>5
<1> QED BY <1>4, <1>5

-----------------------------------------------------------------------------
(* The trigger *)

LEMMA TriggerAdvances ==
    ASSUME Solo, TypeInv, SoloInv, NEW a \in Runners, TriggerStep(a)
    PROVE  Busy(a) /\ crashes' = crashes /\ \E l, f : Advances(a, l, f)
<1>1. /\ frame[a] \in Frames /\ ReturnOK(frame[a])
      /\ Position(a, pc[a], frame[a], asmt, review)
      /\ asmt \in AssessmentRows /\ review \in ReviewRows /\ nextId \in Nat \ {0}
  BY SoloRunners DEF TypeInv, TypeOK, SoloInv, Position
<1>2. /\ pc[a] \in TriggerSteps /\ crashes' = crashes
      /\ asmt.status = "ai_reviewing" /\ asmt.submitted
  BY <1>1 DEF TriggerStep, TriggerFind, TriggerDelete, TriggerClearBadge,
         TriggerClearScore, CreateAiReview, TriggerStart, At, env, TriggerSteps, Position
<1>3. pc[a] \notin OutcomeSteps \cup Resting /\ Busy(a)
  BY <1>2 DEF TriggerSteps, OutcomeSteps, Resting, Busy
<1>4. ~RowsSign(asmt, review) /\ (review.id = NoId => review = NoReview)
  BY <1>3, NoSignYet DEF SoloInv
<1>5. \A l \in TriggerSteps \cup {"load"} : l \notin OutcomeSteps \cup Before
  BY DEF TriggerSteps, OutcomeSteps, Before
<1>6. CASE TriggerFind(a)
  <2> DEFINE f == [frame[a] EXCEPT !.seen = review.id]
  <2>1. PICK l \in {"delete", "create"} : MoveTo(a, l, f) /\ (l = "create" => ~Exists)
    BY <1>6 DEF TriggerFind
  <2>2. UNCHANGED <<asmt, review>> /\ pc[a] = "find"
    BY <1>6 DEF TriggerFind, At, rows
  <2>3. ReturnOK(f) /\ f.seen = review.id
    BY <1>1 DEF Frames, ReturnOK
  <2> HIDE DEF f
  <2>4. l = "create" => review = NoReview
    BY <1>4, <2>1 DEF Exists
  <2>5. Position(a, l, f, asmt', review')
    BY <1>1, <1>2, <2>1, <2>2, <2>3, <2>4
    DEF Position, Unreached, PollSteps, Before, OutcomeSteps, Resting, NoReview
  <2>6. Advances(a, l, f)
    BY <1>3, <1>4, <1>5, <2>1, <2>2, <2>5, OpenAdvances DEF TriggerSteps
  <2> QED BY <1>2, <1>3, <2>6
<1>7. CASE TriggerDelete(a)
  <2> DEFINE f == [frame[a] EXCEPT !.seen = NoId]
  <2>1. MoveTo(a, "clearBadge", f) /\ UNCHANGED asmt /\ pc[a] = "delete"
        /\ DeleteReview(frame[a].seen)
    BY <1>7 DEF TriggerDelete, DeleteSeen, At
  <2>2. review' = NoReview
    BY <1>1, <2>1 DEF DeleteReview, Position
  <2>3. ReturnOK(f)
    BY <1>1 DEF Frames, ReturnOK
  <2> HIDE DEF f
  <2>4. Position(a, "clearBadge", f, asmt', review')
    BY <1>1, <1>2, <2>1, <2>2, <2>3
    DEF Position, Unreached, PollSteps, Before, OutcomeSteps, NoReview
  <2>5. ~RowsSign(asmt', review')
    BY <1>4, <2>1, <2>2 DEF RowsSign, NoReview
  <2>6. Advances(a, "clearBadge", f)
    BY <1>3, <1>5, <2>1, <2>2, <2>4, <2>5, OpenAdvances DEF TriggerSteps
  <2> QED BY <1>2, <1>3, <2>6
<1>8. CASE TriggerClearBadge(a) \/ TriggerClearScore(a)
  <2>1. PICK l \in {"clearScore", "create"} : MoveTo(a, l, frame[a])
    BY <1>8 DEF TriggerClearBadge, TriggerClearScore, Go
  <2>2. UNCHANGED review /\ pc[a] \in {"clearBadge", "clearScore"}
    BY <1>8 DEF TriggerClearBadge, TriggerClearScore, At
  <2>3. /\ asmt'.status = asmt.status /\ asmt'.submitted = asmt.submitted
        /\ asmt'.badge \in {asmt.badge, NoBadge}
    BY <1>1, <1>8 DEF TriggerClearBadge, TriggerClearScore, AssessmentRows
  <2>4. review = NoReview
    BY <1>1, <2>2 DEF Position
  <2>5. Position(a, l, frame[a], asmt', review')
    BY <1>1, <1>2, <2>1, <2>2, <2>3, <2>4
    DEF Position, Unreached, PollSteps, Before, OutcomeSteps, NoReview
  <2>6. ~RowsSign(asmt', review')
    BY <1>4, <2>2, <2>3 DEF RowsSign
  <2>7. Advances(a, l, frame[a])
    BY <1>3, <1>4, <1>5, <2>1, <2>2, <2>5, <2>6, OpenAdvances DEF TriggerSteps
  <2> QED BY <1>2, <1>3, <2>7
<1>9. CASE CreateAiReview(a)
  <2> DEFINE f == [frame[a] EXCEPT !.rid = nextId]
  <2>1. pc[a] = "create" /\ UNCHANGED asmt /\ ~Exists
    BY <1>1, <1>9 DEF CreateAiReview, At, Position, Exists, NoReview
  <2>2. /\ review' = [id |-> nextId, status |-> "pending", score |-> NoScore]
        /\ MoveTo(a, "start", f)
    BY <1>9, <2>1 DEF CreateAiReview
  <2>3. ReturnOK(f) /\ f.rid = nextId
    BY <1>1 DEF Frames, ReturnOK, NoId
  <2> HIDE DEF f
  <2>4. review'.id = f.rid /\ review'.id # NoId
    BY <1>1, <2>2, <2>3 DEF NoId
  <2>5. Position(a, "start", f, asmt', review')
    BY <1>1, <1>2, <2>1, <2>2, <2>3, <2>4
    DEF Position, Unreached, PollSteps, Before, OutcomeSteps
  <2>6. ~RowsSign(asmt', review')
    BY <1>4, <2>1, <2>2 DEF RowsSign
  <2>7. Advances(a, "start", f)
    BY <1>3, <1>5, <2>2, <2>4, <2>5, <2>6, OpenAdvances DEF TriggerSteps
  <2> QED BY <1>2, <1>3, <2>7
<1>10. CASE TriggerStart(a)
  <2>1. pc[a] = "start" /\ UNCHANGED asmt /\ MoveTo(a, "load", frame[a])
    BY <1>10 DEF TriggerStart, At, Go
  <2>2. review' = [review EXCEPT !.status = "in_progress"] /\ review.id # NoId
        /\ review.id = frame[a].rid
    BY <1>1, <1>10, <2>1 DEF TriggerStart, ReviewStatusTo, Position
  <2>3. /\ review'.id = review.id /\ review'.status = "in_progress"
        /\ review'.score = review.score
    BY <1>1, <2>2 DEF ReviewRows
  <2>4. Position(a, "load", frame[a], asmt', review')
    BY <1>1, <1>2, <2>1, <2>2, <2>3
    DEF Position, Unreached, PollSteps, Before, OutcomeSteps
  <2>5. ~RowsSign(asmt', review')
    BY <1>4, <2>1, <2>3 DEF RowsSign
  <2>6. Advances(a, "load", frame[a])
    BY <1>3, <1>5, <2>1, <2>2, <2>3, <2>4, <2>5, OpenAdvances
  <2> QED BY <1>2, <1>3, <2>6
<1> QED BY <1>6, <1>7, <1>8, <1>9, <1>10 DEF TriggerStep

-----------------------------------------------------------------------------
(* The run *)

LEMMA FailingAdvances ==
    ASSUME Solo, TypeInv, SoloInv, NEW a \in Runners, NEW p, FailRun(a, p),
           pc[a] \notin OutcomeSteps \cup Resting, review.status # "failed", frame[a].rid # NoId,
           UNCHANGED <<asmt, review>>
    PROVE  \E l, f : Advances(a, l, f)
<1> DEFINE f == [frame[a] EXCEPT !.path = p, !.ret = "markFailed"]
<1>1. MoveTo(a, "rvFind", f) /\ "rvFind" \in Loose
  BY LooseSteps DEF FailRun
<1>2. ReturnOK(f)
  BY SoloRunners DEF TypeInv, TypeOK, Frames, ReturnOK
<1>3. ~RowsSign(asmt, review) /\ (review.id = NoId => review = NoReview)
  BY NoSignYet DEF SoloInv
<1> HIDE DEF f
<1>4. Advances(a, "rvFind", f)
  BY <1>1, <1>2, <1>3, LooseAdvances
<1> QED BY <1>4

LEMMA DecisionAdvances ==
    ASSUME Solo, TypeInv, SoloInv, NEW a \in Runners,
           LoadAnswers(a) \/ Analyze(a) \/ StoreResponses(a)
    PROVE  Busy(a) /\ crashes' = crashes /\ \E l, f : Advances(a, l, f)
<1>1. /\ frame[a] \in Frames /\ ReturnOK(frame[a])
      /\ Position(a, pc[a], frame[a], asmt, review)
  BY SoloRunners DEF TypeInv, TypeOK, SoloInv, Position
<1>2. /\ pc[a] \in {"load", "analyze", "responses"} /\ crashes' = crashes
      /\ UNCHANGED <<asmt, review>>
  BY DEF LoadAnswers, Analyze, StoreResponses, At, rows, env
<1>3. pc[a] \notin OutcomeSteps \cup Resting /\ Busy(a)
  BY <1>2 DEF OutcomeSteps, Resting, Busy
<1>4. ~RowsSign(asmt, review) /\ (review.id = NoId => review = NoReview)
  BY <1>3, NoSignYet DEF SoloInv
<1>5. /\ asmt.status = "ai_reviewing" /\ asmt.submitted /\ review.status = "in_progress"
      /\ review.id = frame[a].rid /\ review.id # NoId /\ asmt.badge = NoBadge
  BY <1>1, <1>2, <1>4 DEF Position, RowsSign
<1>6. ASSUME NEW l \in {"analyze", "responses"}, NEW f, MoveTo(a, l, f),
             ReturnOK(f), f.rid = frame[a].rid,
             l = "responses" => f.path = "graded"
      PROVE  \E k, g : Advances(a, k, g)
  <2>1. Position(a, l, f, asmt', review') /\ l \notin OutcomeSteps \cup Before
    BY <1>1, <1>2, <1>5, <1>6
    DEF Position, Unreached, PollSteps, Before, TriggerSteps, OutcomeSteps
  <2>2. Advances(a, l, f)
    BY <1>2, <1>3, <1>4, <1>6, <2>1, OpenAdvances
  <2> QED BY <2>2
\* Nothing is written yet when an outcome begins.
<1>7. ASSUME NEW l \in OutcomeSteps, NEW f, MoveTo(a, l, f),
             ReturnOK(f), f.rid = frame[a].rid, l # "badge",
             Written[f.path][l] = {}
      PROVE  \E k, g : Advances(a, k, g)
  <2>1. l \notin TriggerSteps /\ l \notin {"details", "load", "analyze", "responses"}
        /\ l \notin Unreached /\ l \notin Before
    BY DEF TriggerSteps, Unreached, PollSteps, Before, OutcomeSteps
  <2>2. Hold(Written[f.path][l], f, asmt', review')
    BY <1>2, <1>5, <1>7 DEF Hold
  <2>3. Position(a, l, f, asmt', review')
    BY <1>1, <1>2, <1>5, <1>7, <2>1, <2>2 DEF Position, Before, TriggerSteps
  <2>4. Concluded(asmt', review')
    BY <1>2, <1>5 DEF Concluded
  <2>5. Advances(a, l, f)
    BY <1>2, <1>4, <1>7, <2>1, <2>3, <2>4 DEF Advances
  <2> QED BY <2>5
<1>8. \A p \in Paths : LET f == [frame[a] EXCEPT !.path = p]
                       IN  f.path = p /\ ReturnOK(f) /\ f.rid = frame[a].rid
  BY <1>1 DEF Frames, ReturnOK
<1>9. /\ Written["graded"]["reviewDone"] = {} /\ Written["empty"]["reviewScore"] = {}
      /\ Written["fallback"]["reviewScore"] = {}
      /\ {"reviewDone", "reviewScore"} \subseteq OutcomeSteps
  BY DEF Written, OutcomeSteps
<1>10. CASE LoadAnswers(a)
  <2>1. CASE Go(a, "analyze")
    BY <1>1, <1>2, <1>3, <1>6, <2>1 DEF Go
  <2>2. CASE WriteOutcome(a, "empty", "reviewScore")
    BY <1>2, <1>3, <1>7, <1>8, <1>9, <2>2 DEF WriteOutcome, Paths
  <2>3. CASE FailRun(a, "failed")
    BY <1>2, <1>3, <1>5, <2>3, FailingAdvances
  <2> QED BY <1>10, <2>1, <2>2, <2>3 DEF LoadAnswers
<1>11. CASE Analyze(a)
  <2>1. CASE WriteOutcome(a, "graded", "responses")
    BY <1>2, <1>3, <1>6, <1>8, <2>1 DEF WriteOutcome, Paths
  <2>2. CASE WriteOutcome(a, "graded", "reviewDone")
    BY <1>2, <1>3, <1>7, <1>8, <1>9, <2>2 DEF WriteOutcome, Paths
  <2>3. CASE WriteOutcome(a, "fallback", "reviewScore")
    BY <1>2, <1>3, <1>7, <1>8, <1>9, <2>3 DEF WriteOutcome, Paths
  <2>4. CASE FailRun(a, "upload") \/ FailRun(a, "failed")
    BY <1>2, <1>3, <1>5, <2>4, FailingAdvances
  <2> QED BY <1>11, <2>1, <2>2, <2>3, <2>4 DEF Analyze
<1>12. CASE StoreResponses(a)
  <2>1. frame[a].path = "graded" /\ MoveTo(a, "reviewDone", frame[a])
    BY <1>1, <1>5, <1>12 DEF StoreResponses, At, Position, Go
  <2> QED BY <1>1, <1>2, <1>3, <1>7, <1>9, <2>1
<1> QED BY <1>10, <1>11, <1>12

\* The order in which each outcome is written, and what it has written by then.
LEMMA OutcomeOrder ==
    ASSUME NEW p \in DOMAIN After, NEW l \in OutcomeSteps, p = "empty" => l # "badge"
    PROVE  LET k == After[p][l]
               W == Written[p][l] \cup {l}
           IN  /\ k \in OutcomeSteps \cup {"done"}
               /\ k # "done" => Written[p][k] \subseteq W /\ (p = "empty" => k # "badge")
               /\ k = "done" => {"reviewDone", "asmtDone", "reviewScore", "asmtScore"} \subseteq W
<1>1. p \in {"graded", "empty", "fallback"}
  BY DEF After
<1>2. l \in {"reviewDone", "asmtDone", "reviewScore", "asmtScore", "badge"}
  BY DEF OutcomeSteps
<1>3. CASE p = "graded"
  BY <1>2, <1>3 DEF After, Written, OutcomeSteps
<1>4. CASE p = "empty"
  BY <1>2, <1>4 DEF After, Written, OutcomeSteps
<1>5. CASE p = "fallback"
  BY <1>2, <1>5 DEF After, Written, OutcomeSteps
<1> QED BY <1>1, <1>3, <1>4, <1>5

\* A step of an outcome adds what it writes to what the rows hold.
LEMMA OutcomeAdvances ==
    ASSUME Solo, TypeInv, SoloInv, NEW a \in Runners, NEW l \in OutcomeSteps, Outcome(a, l),
           frame[a].path = "empty" => l # "badge",
           Hold(Written[frame[a].path][l] \cup {l}, frame[a], asmt', review'),
           review'.id = review.id, Concluded(asmt', review')
    PROVE  \E k, f : Advances(a, k, f)
<1> DEFINE p == frame[a].path
           k == After[p][l]
           W == Written[p][l] \cup {l}
           f == IF k = "done" THEN EmptyFrame ELSE frame[a]
<1>1. /\ pc[a] = l /\ p \in DOMAIN After /\ ReturnOK(frame[a])
      /\ review.id = frame[a].rid /\ review.id # NoId /\ Go(a, k)
  BY SoloRunners DEF Outcome, At, TypeInv, PathOK, SoloInv, Position
<1>2. /\ k \in OutcomeSteps \cup {"done"}
      /\ k # "done" => Written[p][k] \subseteq W /\ (p = "empty" => k # "badge")
      /\ k = "done" => {"reviewDone", "asmtDone", "reviewScore", "asmtScore"} \subseteq W
  BY <1>1, OutcomeOrder
<1>3. Hold(W, frame[a], asmt', review')
  OBVIOUS
<1> HIDE DEF k, W, p
<1>4. MoveTo(a, k, f) /\ k \notin Before /\ k \notin Unreached
  BY <1>1, <1>2 DEF Go, OutcomeSteps, Before, Unreached, PollSteps
<1>5. CASE k = "done"
  <2>1. MoveTo(a, "done", EmptyFrame) /\ "done" \in Resting
    BY <1>4, <1>5 DEF Resting
  <2>2. Position(a, "done", EmptyFrame, asmt', review')
    BY <2>1, RestFits DEF EmptyFrame, ReturnOK
  <2>3. Agreed(asmt', review')
    BY <1>2, <1>3, <1>5 DEF Hold, Agreed
  <2>4. Advances(a, "done", EmptyFrame)
    BY <1>1, <1>4, <1>5, <2>1, <2>2, <2>3 DEF Advances
  <2> QED BY <2>4
<1>6. CASE k # "done"
  <2>1. MoveTo(a, k, frame[a]) /\ k \in OutcomeSteps
    BY <1>2, <1>4, <1>6
  <2>2. Hold(Written[p][k], frame[a], asmt', review')
    BY <1>2, <1>3, <1>6 DEF Hold
  <2>3. k \notin TriggerSteps \cup {"details", "load", "analyze", "responses"}
    BY <2>1 DEF OutcomeSteps, TriggerSteps
  <2>4. review'.status # "failed"
    BY DEF Concluded
  <2>5. Position(a, k, frame[a], asmt', review')
    BY <1>1, <1>2, <1>4, <1>6, <2>2, <2>3, <2>4 DEF Position, p, Before, TriggerSteps
  <2>6. Advances(a, k, frame[a])
    BY <1>1, <1>4, <2>1, <2>5 DEF Advances
  <2> QED BY <2>6
<1> QED BY <1>5, <1>6

LEMMA WritingAdvances ==
    ASSUME Solo, TypeInv, SoloInv, NEW a \in Runners,
           \/ CompleteReview(a) \/ CompleteAssessment(a)
           \/ ScoreReview(a) \/ ScoreAssessment(a) \/ AssignBadge(a)
    PROVE  Busy(a) /\ crashes' = crashes /\ \E l, f : Advances(a, l, f)
<1>1. OutcomeSteps = {"reviewDone", "asmtDone", "reviewScore", "asmtScore", "badge"}
  BY DEF OutcomeSteps
<1>2. PICK l \in OutcomeSteps : Outcome(a, l) /\ pc[a] = l
  BY <1>1 DEF CompleteReview, CompleteAssessment, ScoreReview, ScoreAssessment,
         AssignBadge, Outcome, At
<1>3. /\ Position(a, l, frame[a], asmt, review) /\ Concluded(asmt, review)
      /\ asmt \in AssessmentRows /\ review \in ReviewRows
  <2>1. Signs
    BY <1>2 DEF Signs, Writing
  <2> QED BY <1>2, <2>1 DEF SoloInv, TypeInv, TypeOK
<1> DEFINE f == frame[a]
           W == Written[f.path][l]
<1>4. /\ Hold(W, f, asmt, review) /\ review.id = f.rid
      /\ f.path = "empty" => l # "badge"
  BY <1>3 DEF Position
<1>5. Grade(a) = IF f.path = "empty" THEN Zero ELSE f.rid
  BY DEF Grade
<1>6. Busy(a) /\ crashes' = crashes
  BY <1>2, StepNames DEF Busy, CompleteReview, CompleteAssessment, ScoreReview,
     ScoreAssessment, AssignBadge, env
<1>7. SUFFICES /\ Hold(W \cup {l}, f, asmt', review')
               /\ review'.id = review.id /\ Concluded(asmt', review')
  BY <1>2, <1>4, <1>6, OutcomeAdvances
<1> HIDE DEF f, W
<1>8. CASE CompleteReview(a)
  <2>1. l = "reviewDone" /\ UNCHANGED asmt /\ review' = [review EXCEPT !.status = "completed"]
    BY <1>2, <1>4, <1>8 DEF CompleteReview, Outcome, At, ReviewStatusTo, f
  <2>2. /\ review'.id = review.id /\ review'.status = "completed"
        /\ review'.score = review.score
    BY <1>3, <2>1 DEF ReviewRows
  <2> QED BY <1>3, <1>4, <2>1, <2>2 DEF Hold, Concluded
<1>9. CASE CompleteAssessment(a)
  <2>1. l = "asmtDone" /\ UNCHANGED review
    BY <1>2, <1>9 DEF CompleteAssessment, Outcome, At
  <2>2. /\ asmt'.status = "completed" /\ asmt'.score = asmt.score
        /\ asmt'.badge = asmt.badge /\ asmt'.submitted = asmt.submitted
    BY <1>3, <1>9 DEF CompleteAssessment, AssessmentRows
  <2> QED BY <1>3, <1>4, <2>1, <2>2 DEF Hold, Concluded
<1>10. CASE ScoreReview(a)
  <2>1. l = "reviewScore" /\ UNCHANGED asmt /\ review' = [review EXCEPT !.score = Grade(a)]
    BY <1>2, <1>4, <1>10 DEF ScoreReview, Outcome, At, ReviewScoreTo, f
  <2>2. /\ review'.id = review.id /\ review'.status = review.status
        /\ review'.score = Grade(a)
    BY <1>3, <2>1 DEF ReviewRows
  <2> QED BY <1>3, <1>4, <1>5, <2>1, <2>2 DEF Hold, Concluded
<1>11. CASE ScoreAssessment(a)
  <2>1. l = "asmtScore" /\ UNCHANGED review
    BY <1>2, <1>11 DEF ScoreAssessment, Outcome, At
  <2>2. /\ asmt'.status = asmt.status /\ asmt'.score = Grade(a)
        /\ asmt'.badge = asmt.badge /\ asmt'.submitted = asmt.submitted
    BY <1>3, <1>11 DEF ScoreAssessment, AssessmentRows
  <2> QED BY <1>3, <1>4, <1>5, <2>1, <2>2 DEF Hold, Concluded
<1>12. CASE AssignBadge(a)
  <2>1. l = "badge" /\ UNCHANGED review
    BY <1>2, <1>12 DEF AssignBadge, Outcome, At
  <2>2. /\ asmt'.status = asmt.status /\ asmt'.score = asmt.score
        /\ asmt'.badge \in {NoBadge, f.rid} /\ asmt'.submitted = asmt.submitted
    BY <1>3, <1>12 DEF AssignBadge, AssessmentRows, f
  <2> QED BY <1>3, <1>4, <2>1, <2>2 DEF Hold, Concluded
<1> QED BY <1>8, <1>9, <1>10, <1>11, <1>12

LEMMA MarkingAdvances ==
    ASSUME Solo, TypeInv, SoloInv, NEW a \in Runners, MarkFailed(a)
    PROVE  Busy(a) /\ crashes' = crashes /\ \E l, f : Advances(a, l, f)
<1>1. /\ pc[a] \in {"markFailed", "markAgain"} /\ crashes' = crashes /\ UNCHANGED asmt
      /\ MoveTo(a, "notifyFailure", frame[a]) /\ ReturnOK(frame[a])
      /\ frame[a].rid # NoId
  BY DEF MarkFailed, env, Go, SoloInv, Position
<1>2. pc[a] \notin OutcomeSteps \cup Resting /\ Busy(a)
  BY <1>1 DEF OutcomeSteps, Resting, Busy
<1>3. ~RowsSign(asmt, review) /\ (review.id = NoId => review = NoReview)
  BY <1>2, NoSignYet DEF SoloInv
<1>4. CASE review' = review
  <2>1. Advances(a, "notifyFailure", frame[a])
    BY <1>1, <1>2, <1>3, <1>4, RestAdvances
  <2> QED BY <1>1, <1>2, <2>1
<1>5. CASE review' # review
  <2>1. review.id = frame[a].rid /\ review' = [review EXCEPT !.status = "failed"]
    BY <1>5 DEF MarkFailed, ReviewStatusTo
  <2>2. /\ review'.id = review.id /\ review'.status = "failed"
        /\ review'.score = review.score
    BY <2>1 DEF TypeInv, TypeOK, ReviewRows
  <2>3. ~RowsSign(asmt', review')
    BY <1>1, <1>3, <2>2 DEF RowsSign
  <2>4. Advances(a, "notifyFailure", frame[a])
    BY <1>1, <1>2, <2>1, <2>2, <2>3, RestAdvances
  <2> QED BY <1>1, <1>2, <2>4
<1> QED BY <1>4, <1>5

-----------------------------------------------------------------------------
(* Failures, and the invariant *)

LEMMA FaultAdvances ==
    ASSUME Solo, TypeInv, SoloInv, NEW a \in Runners, DbFault(a)
    PROVE  Busy(a) /\ crashes' = crashes /\ \E l, f : Advances(a, l, f)
<1>1. pc[a] \in FaultAt /\ UNCHANGED <<asmt, review, crashes>>
  BY DEF DbFault, FaultInRequest, FaultInPoll, FaultInTrigger, FaultInRun,
         FaultInFallback, FaultInRevert, FaultInMarking, FaultInHandler, Throw, rows
<1>2. /\ Position(a, pc[a], frame[a], asmt, review) /\ ReturnOK(frame[a])
      /\ pc[a] \notin Unreached /\ pc[a] \notin OutcomeSteps
  BY <1>1 DEF SoloInv, Position, Solo
<1>3. pc[a] \notin Resting
  BY DEF DbFault, FaultInRequest, FaultInPoll, FaultInTrigger, FaultInRun,
         FaultInFallback, FaultInRevert, FaultInMarking, FaultInHandler, InFallback, At,
         Resting, SubmitSteps, SweepSteps, PollSteps, TriggerSteps, RunSteps, OutcomeSteps,
         RevertSteps
<1>4. Busy(a)
  BY <1>3 DEF Busy
<1>5. ~RowsSign(asmt, review) /\ (review.id = NoId => review = NoReview)
  BY <1>2, <1>3, NoSignYet DEF SoloInv
<1>6. CASE Go(a, "done")
  BY <1>1, <1>2, <1>3, <1>4, <1>6, EndAdvances
<1>7. ASSUME NEW l \in Loose, Go(a, l), review.status # "failed",
             l \in {"markFailed", "markAgain"} => frame[a].rid # NoId
      PROVE  \E k, f : Advances(a, k, f)
  <2>1. MoveTo(a, l, frame[a])
    BY <1>7, LooseSteps DEF Go, Resting
  <2>2. Advances(a, l, frame[a])
    BY <1>1, <1>2, <1>3, <1>5, <1>7, <2>1, LooseAdvances
  <2> QED BY <2>2
<1>8. CASE FaultInRequest(a) \/ FaultInHandler(a)
  BY <1>6, <1>8 DEF FaultInRequest, FaultInHandler
<1>9. CASE FaultInTrigger(a)
  <2>1. CASE a \in Submits
    <3>1. pc[a] \in TriggerSteps /\ Go(a, "catch")
      BY <1>9, <2>1 DEF FaultInTrigger, Rejected
    <3>2. review.status # "failed"
      BY <1>2, <2>1, <3>1, SoloRunners DEF Position, TriggerSteps, Resting
    <3> QED BY <1>1, <1>4, <1>7, <3>1, <3>2, LooseSteps
  <2> QED BY <1>6, <1>9, <2>1 DEF FaultInTrigger, Rejected
<1>10. CASE FaultInRun(a)
  <2>1. pc[a] \in {"load", "analyze", "responses"} /\ FailRun(a, "failed")
    BY <1>2, <1>10 DEF FaultInRun, RunSteps
  <2>2. review.status # "failed" /\ frame[a].rid # NoId
    BY <1>2, <2>1 DEF Position
  <2> QED BY <1>1, <1>2, <1>3, <1>4, <2>1, <2>2, FailingAdvances
<1>11. CASE FaultInRevert(a)
  <2>1. pc[a] \in RevertSteps
    BY <1>11 DEF FaultInRevert
  <2>2. review.status # "failed"
    BY <1>2, <2>1 DEF Position, RevertSteps, Resting
  <2>3. CASE Go(a, "rvForce")
    BY <1>1, <1>4, <1>7, <2>2, <2>3, LooseSteps
  <2>4. CASE Go(a, RevertRejected(a))
    <3>1. CASE frame[a].ret # "markFailed"
      <4>1. RevertRejected(a) = "done"
        BY <3>1 DEF RevertRejected
      <4>2. Go(a, "done")
        BY <2>4, <4>1
      <4> QED BY <1>6, <4>2
    <3>2. CASE frame[a].ret = "markFailed"
      <4>1. PICK l \in {"markFailed", "markAgain"} : Go(a, l)
        BY <2>4, <3>2 DEF RevertRejected
      <4>2. frame[a].rid # NoId
        BY <1>2, <3>2 DEF ReturnOK
      <4> QED BY <1>1, <1>4, <1>7, <2>2, <4>1, <4>2, LooseSteps
    <3> QED BY <3>1, <3>2
  <2> QED BY <1>11, <2>3, <2>4 DEF FaultInRevert
<1>12. CASE FaultInMarking(a)
  <2>1. pc[a] \in {"markFailed", "markAgain"}
    BY <1>12 DEF FaultInMarking, At
  <2>2. review.status # "failed" /\ frame[a].rid # NoId
    BY <1>2, <2>1 DEF Position, Resting
  <2>3. CASE FailRun(a, "failed")
    BY <1>1, <1>2, <1>3, <1>4, <2>2, <2>3, FailingAdvances
  <2>4. CASE Go(a, "catch") \/ Go(a, "markAgain")
    BY <1>1, <1>4, <1>7, <2>2, <2>4, LooseSteps
  <2> QED BY <1>6, <1>12, <2>3, <2>4 DEF FaultInMarking, Rejected
<1> QED BY <1>2, <1>8, <1>9, <1>10, <1>11, <1>12
        DEF DbFault, FaultInPoll, FaultInFallback, InFallback, Unreached

LEMMA PollsKeep ==
    ASSUME Solo, TypeInv, SoloInv, NEW g \in Polls,
           PollRead(g) \/ PollStep(g) \/ DbFault(g)
    PROVE  SoloInv'
<1>1. frame[g] \in Frames /\ g \in Actors /\ EmptyFrame.snap.badge = NoBadge
      /\ (frame[g].snap.badge # NoBadge => Signs)
  BY SoloRunners DEF TypeInv, TypeOK, EmptyFrame, NewAssessment, Signs
<1> DEFINE Sees(l, f) == l = "heal" \/ f.snap.badge # NoBadge => Signs
<1>6. ASSUME NEW l, NEW f, MoveTo(g, l, f), Sees(l, f)
      PROVE  PollMoves(g)
  BY <1>6 DEF PollMoves
<1>2. CASE PollRead(g)
  <2>1. MoveTo(g, "pollReview", [frame[g] EXCEPT !.snap = asmt])
        /\ UNCHANGED <<asmt, review, crashes>>
    BY <1>2 DEF PollRead, rows, env
  <2>2. Sees("pollReview", [frame[g] EXCEPT !.snap = asmt])
    BY <1>1 DEF Frames, Signs, RowsSign
  <2>3. PollMoves(g)
    BY <1>6, <2>1, <2>2
  <2> QED BY <2>1, <2>3, PollKeeps
<1>3. CASE PollReview(g)
  <2>1. UNCHANGED <<asmt, review, crashes>>
    BY <1>3 DEF PollReview, rows, env
  <2>2. CASE MoveTo(g, "idle", EmptyFrame)
    BY <1>1, <2>1, <2>2, PollKeeps DEF PollMoves
  <2>3. CASE MoveTo(g, "heal", EmptyFrame) /\ FinalizedScoreSignals(frame[g].snap)
    <3>1. Signs
      BY <1>1, <2>3 DEF FinalizedScoreSignals, Signs, RowsSign
    <3> QED BY <2>1, <2>3, <3>1, PollKeeps DEF PollMoves
  <2> QED BY <1>3, <2>2, <2>3 DEF PollReview, Go
<1>4. CASE PollHeal(g)
  <2>1. Signs /\ asmt' = [asmt EXCEPT !.status = "completed"]
        /\ UNCHANGED <<review, crashes>> /\ MoveTo(g, "idle", EmptyFrame)
    BY <1>4 DEF PollHeal, Signs, At, env, Go
  <2> QED BY <2>1, PollKeeps DEF PollMoves
<1>5. CASE DbFault(g)
  <2>1. UNCHANGED <<asmt, review, crashes>>
    BY <1>5 DEF DbFault, FaultInRequest, FaultInPoll, FaultInTrigger, FaultInRun,
           FaultInFallback, FaultInRevert, FaultInMarking, FaultInHandler, Throw, rows
  <2>2. CASE \E l : l # "heal" /\ Go(g, l)
    BY <1>1, <2>1, <2>2, PollKeeps DEF PollMoves, Go
  <2>3. CASE FailRun(g, "failed")
    <3>1. Sees("rvFind", [frame[g] EXCEPT !.path = "failed", !.ret = "markFailed"])
      BY <1>1 DEF Frames
    <3>2. PollMoves(g)
      BY <1>6, <2>3, <3>1 DEF FailRun
    <3> QED BY <2>1, <3>2, PollKeeps
  <2>4. CASE MoveTo(g, "rvFind", [frame[g] EXCEPT !.ret = "fallbackDelete"])
    <3>1. Sees("rvFind", [frame[g] EXCEPT !.ret = "fallbackDelete"])
      BY <1>1 DEF Frames
    <3>2. PollMoves(g)
      BY <1>6, <2>4, <3>1
    <3> QED BY <2>1, <3>2, PollKeeps
  <2> QED BY <1>5, <2>2, <2>3, <2>4
          DEF DbFault, FaultInRequest, FaultInPoll, FaultInTrigger, FaultInRun,
              FaultInFallback, FaultInRevert, FaultInMarking, FaultInHandler, Rejected,
              RevertRejected
<1> QED BY <1>2, <1>3, <1>4, <1>5 DEF PollStep

LEMMA SoloInvInductive ==
    ASSUME Solo, TypeInv, RetryInv, SoloInv, [Next]_vars
    PROVE  SoloInv'
<1>1. ASSUME NEW a \in Runners, Busy(a), crashes' = crashes, \E l, f : Advances(a, l, f)
      PROVE  SoloInv'
  BY <1>1, BusyIsAlone, AdvanceKeeps
<1>2. ASSUME NEW a \in Actors, Start(a)
      PROVE  SoloInv'
  BY <1>2, SubmitReadKeeps, PollsKeep, SoloSweepFind DEF Start, Solo
<1>3. ASSUME NEW a \in Runners, NotifyFailure(a) \/ (a \in Sweeps /\ SweepEnd(a))
      PROVE  SoloInv'
  <2>1. PICK l \in {"idle", "done"} : /\ MoveTo(a, l, EmptyFrame)
                                      /\ a \in Submits => l = "done"
    BY <1>3, SoloRunners DEF NotifyFailure, SweepEnd, Go
  <2>2. pc[a] \in Resting /\ pc[a] # "idle" /\ UNCHANGED <<asmt, review, crashes>>
    BY <1>3 DEF NotifyFailure, SweepEnd, At, rows, env, Resting
  <2> QED BY <2>1, <2>2, RestKeeps
<1>4. ASSUME NEW a \in Runners, TriggerStep(a) \/ RunStep(a)
      PROVE  SoloInv'
  <2>1. ~FallbackDelete(a)
    BY DEF FallbackDelete, At, SoloInv, Position, Unreached
  <2> QED BY <1>1, <1>3, <1>4, <2>1, TriggerAdvances, DecisionAdvances, WritingAdvances,
          MarkingAdvances DEF RunStep
<1>5. ASSUME NEW a \in Actors, Continue(a)
      PROVE  SoloInv'
  BY <1>1, <1>3, <1>4, <1>5, SoloRunners, SubmitAdvances, RevertAdvances, PollsKeep,
     SweepAdvances DEF Continue, SweepStep, Solo
<1>6. ASSUME NEW a \in Actors, DbFault(a)
      PROVE  SoloInv'
  BY <1>1, <1>6, SoloRunners, FaultAdvances, PollsKeep
<1>7. CASE UNCHANGED vars
  BY <1>7 DEF vars, SoloInv, Signs, Writing, Busy, RowsSign, Concluded, Agreed, Position
<1> QED BY <1>2, <1>5, <1>6, <1>7, CrashKeeps DEF Next

LEMMA SoloInvInitially ==
    ASSUME Solo, Init
    PROVE  SoloInv
<1>1. \A a \in Runners : pc[a] = "idle" /\ frame[a] = EmptyFrame
  BY SoloRunners DEF Init
<1>2. \A a \in Runners : Position(a, pc[a], frame[a], asmt, review)
  BY <1>1, RestFits DEF Init, EmptyFrame, ReturnOK, Resting
<1>3. ~Signs
  <2>1. ~RowsSign(asmt, review)
    BY DEF Init, RowsSign, NewAssessment, NoReview
  <2>2. ~Writing
    BY <1>1 DEF Writing, OutcomeSteps
  <2>3. \A g \in Polls : pc[g] = "idle" /\ frame[g].snap.badge = NoBadge
    BY SoloRunners DEF Init, EmptyFrame, NewAssessment
  <2> QED BY <2>1, <2>2, <2>3 DEF Signs
<1> QED BY <1>1, <1>2, <1>3, SoloRunners DEF SoloInv, Init, Busy, Resting

\* The inductive invariant behind the two results below: with one submission and
\* no admin request, submitAssessment, triggerAiReview, the revert and the retry
\* job hand the review over to each other, one at a time, and never take back an
\* outcome that is being written, whatever fails outside the outcome's writes.
THEOREM SoloHolds ==
    ASSUME Solo
    PROVE  Spec => [](TypeInv /\ RetryInv /\ SoloInv)
<1>1. Init => RetryInv
  BY BoundsAssumption DEF Init, RetryInv, RetryCap, Actors
<1>2. Init => SoloInv
  BY SoloInvInitially
<1>3. TypeInv /\ RetryInv /\ SoloInv /\ [Next]_vars => TypeInv' /\ RetryInv' /\ SoloInv'
  BY TypeInvInductive, RetryInvInductive, SoloInvInductive
<1> QED BY <1>1, <1>2, <1>3, TypeInvInitially, PTL DEF Spec

-----------------------------------------------------------------------------
(* What the owner sees *)

\* The status moves on as the owner was promised, or stays.
StatusServed ==
    \/ asmt'.status = asmt.status
    \/ asmt.status # "completed" /\ asmt'.status \in {"ai_reviewing", "in_progress"}
    \/ asmt.status = "ai_reviewing" /\ asmt'.status = "completed"

\* While a sign of an outcome is there, completing the assessment closes it.
LEMMA CompletingServes ==
    ASSUME TypeInv, SoloInv, Signs, asmt' = [asmt EXCEPT !.status = "completed"]
    PROVE  StatusServed
<1>1. asmt.status \in {"ai_reviewing", "completed"}
  BY DEF SoloInv, Concluded, TypeInv, TypeOK, AssessmentRows, AsmtStatuses
<1>2. asmt'.status = "completed"
  BY DEF TypeInv, TypeOK, AssessmentRows
<1> QED BY <1>1, <1>2 DEF StatusServed

\* Before that, handing the assessment in or back leaves no completed one.
LEMMA HandingServes ==
    ASSUME TypeInv, SoloInv, NEW a \in Runners, pc[a] \notin OutcomeSteps \cup Resting,
           SubmitRow \/ RevertRow
    PROVE  StatusServed
<1>1. asmt.status # "completed"
  BY NoSignYet DEF RowsSign
<1>2. asmt'.status \in {"ai_reviewing", "in_progress"}
  BY DEF SubmitRow, RevertRow, TypeInv, TypeOK, AssessmentRows
<1> QED BY <1>1, <1>2 DEF StatusServed

LEMMA SubmitServes ==
    ASSUME TypeInv, SoloInv, NEW s \in Submits, SubmitRead(s) \/ SubmitStep(s)
    PROVE  StatusServed
<1>1. CASE SubmitSetStatus(s)
  <2>1. pc[s] \notin OutcomeSteps \cup Resting /\ SubmitRow
    BY <1>1 DEF SubmitSetStatus, At, OutcomeSteps, Resting
  <2> QED BY <2>1, HandingServes DEF Runners
<1>2. CASE ~SubmitSetStatus(s)
  BY <1>2 DEF StatusServed, SubmitRead, SubmitStep, SubmitReadReview, SubmitCleanup,
     SubmitRefetch, SubmitPrecheck, SubmitDropFailed, SubmitDetails, SubmitCatch, rows
<1> QED BY <1>1, <1>2

LEMMA RevertServes ==
    ASSUME TypeInv, SoloInv, NEW a \in Runners, RevertStep(a)
    PROVE  StatusServed
<1>1. CASE RevertWrite(a)
  <2>1. pc[a] \notin OutcomeSteps \cup Resting /\ RevertRow
    BY <1>1 DEF RevertWrite, OutcomeSteps, Resting
  <2> QED BY <2>1, HandingServes
<1>2. CASE RevertFind(a) \/ RevertDelete(a)
  BY <1>2 DEF StatusServed, RevertFind, RevertDelete, rows
<1> QED BY <1>1, <1>2 DEF RevertStep

LEMMA SweepServes ==
    ASSUME TypeInv, SoloInv, NEW w \in Sweeps, SweepFind(w) \/ SweepStep(w)
    PROVE  StatusServed
<1>1. CASE SweepResubmit(w)
  <2>1. pc[w] \notin OutcomeSteps \cup Resting /\ SubmitRow
    BY <1>1 DEF SweepResubmit, At, OutcomeSteps, Resting
  <2> QED BY <2>1, HandingServes DEF Runners
<1>2. CASE SweepFind(w) \/ RecordRetryAttempt(w) \/ SweepEnd(w)
  BY <1>2 DEF StatusServed, SweepFind, RecordRetryAttempt, SweepEnd, rows
<1> QED BY <1>1, <1>2 DEF SweepStep

LEMMA RunServes ==
    ASSUME TypeInv, SoloInv, NEW a \in Runners, TriggerStep(a) \/ RunStep(a)
    PROVE  StatusServed
<1>1. CASE CompleteAssessment(a)
  <2>1. Signs /\ asmt' = [asmt EXCEPT !.status = "completed"]
    BY <1>1 DEF CompleteAssessment, Outcome, At, OutcomeSteps, Signs, Writing
  <2> QED BY <2>1, CompletingServes
<1>2. ASSUME TriggerClearBadge(a) \/ TriggerClearScore(a) \/ ScoreAssessment(a)
             \/ AssignBadge(a)
      PROVE  asmt'.status = asmt.status
  BY <1>2 DEF TriggerClearBadge, TriggerClearScore, ScoreAssessment, AssignBadge,
     TypeInv, TypeOK, AssessmentRows
<1>3. ASSUME UNCHANGED asmt
      PROVE  asmt'.status = asmt.status
  BY <1>3
<1>4. CASE ~CompleteAssessment(a)
  BY <1>2, <1>3, <1>4 DEF StatusServed, TriggerStep, TriggerFind, TriggerDelete,
     CreateAiReview, TriggerStart, RunStep, LoadAnswers, Analyze, StoreResponses,
     CompleteReview, ScoreReview, MarkFailed, NotifyFailure, FallbackDelete, rows
<1> QED BY <1>1, <1>4

LEMMA PollServes ==
    ASSUME TypeInv, SoloInv, NEW g \in Polls, PollRead(g) \/ PollStep(g)
    PROVE  StatusServed
<1>1. CASE PollHeal(g)
  <2>1. Signs /\ asmt' = [asmt EXCEPT !.status = "completed"]
    BY <1>1 DEF PollHeal, At, Signs
  <2> QED BY <2>1, CompletingServes
<1>2. CASE PollRead(g) \/ PollReview(g)
  BY <1>2 DEF StatusServed, PollRead, PollReview, rows
<1> QED BY <1>1, <1>2 DEF PollStep

LEMMA StepsServe ==
    ASSUME Solo, TypeInv, SoloInv, [Next]_vars
    PROVE  StatusServed
<1>1. ASSUME NEW a \in Actors, Start(a) \/ Continue(a)
      PROVE  StatusServed
  BY <1>1, SoloRunners, SubmitServes, RevertServes, SweepServes, RunServes, PollServes
     DEF Solo, Start, Continue
<1>2. ASSUME NEW a \in Actors, DbFault(a)
      PROVE  StatusServed
  BY <1>2 DEF StatusServed, DbFault, FaultInRequest, FaultInPoll, FaultInTrigger,
     FaultInRun, FaultInFallback, FaultInRevert, FaultInMarking, FaultInHandler, Throw, rows
<1>3. CASE Crash \/ UNCHANGED vars
  BY <1>3 DEF StatusServed, Crash, vars, rows
<1> QED BY <1>1, <1>2, <1>3 DEF Next

LEMMA ServedIsPromised ==
    ASSUME asmt.status \in AsmtStatuses, asmt'.status \in AsmtStatuses, StatusServed
    PROVE  [Lifecycle!Next]_(Lifecycle!vars)
BY DEF StatusServed, AsmtStatuses, Lifecycle!Next, Lifecycle!HandIn, Lifecycle!HandBack,
   Lifecycle!Close, Lifecycle!vars

\* The safety half of the promise made to the owner of an assessment that is
\* submitted once: submitAssessment hands it in, a failed review hands it back,
\* the retry job hands it in again, and once a review or a healing read has
\* closed it nothing reopens it, through failures, timeouts and restarts.
THEOREM OwnerIsServed ==
    ASSUME Solo
    PROVE  Spec => Lifecycle!Init /\ [][Lifecycle!Next]_(Lifecycle!vars)
<1>1. Init => Lifecycle!Init
  BY DEF Init, NewAssessment, Lifecycle!Init
<1>2. TypeInv => asmt.status \in AsmtStatuses
  BY DEF TypeInv, TypeOK, AssessmentRows
<1>3. TypeInv /\ TypeInv' /\ SoloInv /\ [Next]_vars => [Lifecycle!Next]_(Lifecycle!vars)
  <2>1. TypeInv' => asmt'.status \in AsmtStatuses
    BY DEF TypeInv, TypeOK, AssessmentRows
  <2> QED BY <1>2, <2>1, StepsServe, ServedIsPromised
<1> QED BY <1>1, <1>3, SoloHolds, PTL DEF Spec

\* Whatever the provider, the database and the retry job do, and however many
\* reads heal the status meanwhile: once all calls have ended, a completed
\* assessment and its review row tell of one and the same review (processAiReview,
\* handleNetworkTimeoutFallback), as long as the process has not died between the
\* writes of an outcome.
THEOREM CompletedReviewsAgree ==
    ASSUME Solo
    PROVE  Spec => [](crashes = 0 => CompletedAgrees)
<1>1. SoloInv /\ crashes = 0 => CompletedAgrees
  <2> SUFFICES ASSUME SoloInv, crashes = 0, Settled, asmt.status = "completed"
               PROVE  asmt.submitted /\ Agreed(asmt, review)
    BY DEF CompletedAgrees, Agreed
  <2>1. Signs
    BY DEF Signs, RowsSign
  <2>2. ~Writing
    BY SoloRunners, StepNames DEF Settled, Writing, OutcomeSteps
  <2> QED BY <2>1, <2>2 DEF SoloInv, Concluded
<1> QED BY <1>1, SoloHolds, PTL
=============================================================================
