-------------------------- MODULE ReviewDriver_proofs --------------------------
(***************************************************************************)
(* An assessment under AI review has somebody who will end the review: the *)
(* proof that no interleaving of submissions, admin requests, polls and    *)
(* sweeps, and no database failure that the code handles, leaves           *)
(* ai_reviewing behind.                                                    *)
(***************************************************************************)
EXTENDS AiReviewPipeline_proofs

\* A call in flight is lost with the process, and some database errors reach a
\* caller that does nothing about them: the read of the details after the
\* submission, the first read and the second attempt of a revert, the read in
\* the background trigger's catch, and a trigger the retry job has started.
\* Everywhere else a handler takes over.
Handled ==
    /\ MaxCrashes = 0
    /\ FaultAt \cap {"details", "catch", "rvFind", "rvForce"} = {}
    /\ Sweeps = {} \/ FaultAt \cap TriggerSteps = {}

-----------------------------------------------------------------------------
(* The inductive invariant *)

\* Actor a drives the review from step l with the locals f.  A debug retry that
\* fails to start the run it has created just ends: it is counted on from there
\* only where it may have cut off the retry job.
DrivesFrom(a, l, f) ==
    \/ l \in {"details", "load", "analyze", "responses",
              "reviewDone", "asmtDone", "catch"} \cup RevertSteps
    \/ f.path \in {"empty", "fallback"} /\ l \in OutcomeSteps
    \/ a \in Submits \cup Sweeps /\ l \in TriggerSteps
    \/ l = "start" /\ Sweeps # {}
Drives(a) == DrivesFrom(a, pc[a], frame[a])

\* Between its look for a review and the creation of its own, a trigger may be
\* overtaken by another: its createAiReview will be rejected.
OvertakenAt(l, f, r) ==
    /\ r.id # NoId
    /\ \/ l = "delete" /\ r.id # f.seen
       \/ l \in {"clearBadge", "clearScore", "create"}
Overtaken(w) == OvertakenAt(pc[w], frame[w], review)

\* ReviewingHasDriver is not inductive: the retry job gives up when it is
\* rejected, so whoever overtook it must drive the review; and no badge is
\* assigned when there was nothing to grade.
DriverInv ==
    /\ asmt.status = "ai_reviewing" => \E a \in Actors : Drives(a)
    /\ \A w \in Sweeps : asmt.status = "ai_reviewing" /\ Overtaken(w) =>
            \E a \in Actors \ Sweeps : Drives(a)
    /\ \A a \in Actors : pc[a] = "badge" => frame[a].path # "empty"

LEMMA DriversDrive ==
    ASSUME NEW a \in Actors, Drives(a)
    PROVE  Driving(a)
BY DEF Driving, Drives, DrivesFrom, TriggerSteps

-----------------------------------------------------------------------------
(* A step hands the review on *)

\* No new review, no new reviewing; and the actor keeps driving unless it has
\* ended the review.
Quietly(a, l, f) ==
    /\ review'.id \in {review.id, NoId}
    /\ asmt'.status = "ai_reviewing" =>
          asmt.status = "ai_reviewing" /\ (Drives(a) => DrivesFrom(a, l, f))
    /\ a \in Sweeps /\ OvertakenAt(l, f, review') => Overtaken(a)

HandsOn(a) ==
    \E l, f : /\ MoveTo(a, l, f)
              /\ l = "badge" => f.path # "empty"
              /\ Quietly(a, l, f)

LEMMA MovedTo ==
    ASSUME TypeInv, NEW a \in Actors, NEW l, NEW f, MoveTo(a, l, f)
    PROVE  \A b \in Actors : /\ pc'[b] = IF b = a THEN l ELSE pc[b]
                             /\ frame'[b] = IF b = a THEN f ELSE frame[b]
BY DEF TypeInv, TypeOK, MoveTo

LEMMA HandingOnKeeps ==
    ASSUME TypeInv, DriverInv, NEW a \in Actors, HandsOn(a)
    PROVE  DriverInv'
<1>1. PICK l, f : /\ MoveTo(a, l, f)
                  /\ l = "badge" => f.path # "empty"
                  /\ Quietly(a, l, f)
  BY DEF HandsOn
<1>2. \A b \in Actors : /\ pc'[b] = IF b = a THEN l ELSE pc[b]
                        /\ frame'[b] = IF b = a THEN f ELSE frame[b]
  BY <1>1, MovedTo
<1>3. \A b \in Actors : pc'[b] = "badge" => frame'[b].path # "empty"
  BY <1>1, <1>2 DEF DriverInv
<1>4. SUFFICES ASSUME asmt'.status = "ai_reviewing"
               PROVE  /\ \E b \in Actors : Drives(b)'
                      /\ \A w \in Sweeps : Overtaken(w)' =>
                            \E b \in Actors \ Sweeps : Drives(b)'
  BY <1>3 DEF DriverInv
<1>5. asmt.status = "ai_reviewing"
  BY <1>1, <1>4 DEF Quietly
<1>6. \A b \in Actors : Drives(b) => Drives(b)'
  <2>1. Drives(a) => Drives(a)'
    BY <1>1, <1>2, <1>4 DEF Quietly, DrivesFrom, Drives
  <2>2. ASSUME NEW b \in Actors, b # a PROVE Drives(b) => Drives(b)'
    BY <1>2, <2>2 DEF Drives, DrivesFrom
  <2> QED BY <2>1, <2>2
<1>7. \A w \in Sweeps : Overtaken(w)' => Overtaken(w)
  <2>1. a \in Sweeps /\ Overtaken(a)' => Overtaken(a)
    BY <1>1, <1>2 DEF Quietly, OvertakenAt, Overtaken, Exists
  <2>2. ASSUME NEW w \in Sweeps, w # a PROVE Overtaken(w)' => Overtaken(w)
    BY <1>1, <1>2, <2>2 DEF Quietly, OvertakenAt, Overtaken, Exists, Actors, NoId
  <2> QED BY <2>1, <2>2
<1>8. \E b \in Actors : Drives(b)
  BY <1>5 DEF DriverInv
<1>9. \A w \in Sweeps : Overtaken(w) => \E b \in Actors \ Sweeps : Drives(b)
  BY <1>5 DEF DriverInv
<1> QED BY <1>6, <1>7, <1>8, <1>9

\* The steps at which nothing is overtaken, and those that are not driving.
Plain == Labels \ {"delete", "clearBadge", "clearScore", "create", "badge"}
Undriven == {"idle", "done"} \cup (SubmitSteps \ {"details"})
            \cup (FailureSteps \ {"catch"}) \cup PollSteps \cup SweepSteps

LEMMA PlainSteps ==
    /\ SubmitSteps \cup RevertSteps \cup FailureSteps \cup PollSteps \cup SweepSteps
          \cup Returns \cup {"idle", "done", "find", "start", "load", "analyze", "responses",
                             "reviewDone", "asmtDone", "reviewScore", "asmtScore"}
          \subseteq Plain
    /\ {"delete", "clearBadge", "clearScore", "create", "badge"} \cap Plain = {}
BY DEF Plain, Labels, SubmitSteps, TriggerSteps, OutcomeSteps, RunSteps, RevertSteps,
       FailureSteps, PollSteps, SweepSteps, Returns

LEMMA UndrivenSteps ==
    ASSUME NEW a \in Actors, pc[a] \in Undriven
    PROVE  ~Drives(a)
BY DEF Undriven, Drives, DrivesFrom, SubmitSteps, FailureSteps, PollSteps, SweepSteps, RevertSteps,
       OutcomeSteps, TriggerSteps

\* What a step may do to the review row without starting another review.
LEMMA RowUpdatesKeep ==
    ASSUME TypeInv, NEW i \in Nat
    PROVE  /\ UNCHANGED review => review'.id \in {review.id, NoId}
           /\ DeleteReview(i) => review'.id \in {review.id, NoId}
           /\ \A s \in ReviewStatuses : ReviewStatusTo(i, s) => review'.id \in {review.id, NoId}
           /\ \A n \in Scores : ReviewScoreTo(i, n) => review'.id \in {review.id, NoId}
BY DEF TypeInv, TypeOK, ReviewRows, DeleteReview, ReviewStatusTo, ReviewScoreTo, NoReview

LEMMA PlainHandsOn ==
    ASSUME TypeInv, NEW a \in Actors, NEW l \in Plain, NEW f, MoveTo(a, l, f),
           review'.id \in {review.id, NoId},
           asmt'.status = "ai_reviewing" =>
               asmt.status = "ai_reviewing" /\ (Drives(a) => DrivesFrom(a, l, f))
    PROVE  HandsOn(a)
BY PlainSteps DEF HandsOn, Quietly, OvertakenAt

\* A step that was not driving, leaves the assessment alone and starts no review.
LEMMA UndrivenHandsOn ==
    ASSUME TypeInv, NEW a \in Actors, pc[a] \in Undriven, NEW l \in Plain, NEW f,
           MoveTo(a, l, f), review'.id \in {review.id, NoId}, UNCHANGED asmt
    PROVE  HandsOn(a)
BY UndrivenSteps, PlainHandsOn

LEMMA SubmitHandsOn ==
    ASSUME TypeInv, NEW a \in Submits,
           SubmitRead(a) \/ (SubmitStep(a) /\ ~SubmitSetStatus(a))
    PROVE  HandsOn(a)
<1>1. a \in Actors /\ frame[a] \in Frames /\ frame[a].seen \in Nat
  BY DEF TypeInv, TypeOK, Actors, Frames
<1>2. /\ {"idle", "readReview", "cleanup", "refetch", "precheck", "dropFailed"} \subseteq Undriven
      /\ {"done", "readReview", "rvFind", "cleanup", "precheck", "submit", "dropFailed", "find"}
            \subseteq Plain
  BY PlainSteps DEF Undriven, SubmitSteps, RevertSteps
<1>3. CASE SubmitRead(a)
  BY <1>1, <1>2, <1>3, UndrivenHandsOn, RowUpdatesKeep DEF SubmitRead, At, rows, Go
<1>4. CASE SubmitReadReview(a)
  BY <1>1, <1>2, <1>4, UndrivenHandsOn, RowUpdatesKeep DEF SubmitReadReview, At, rows, Go
<1>5. CASE SubmitCleanup(a)
  BY <1>1, <1>2, <1>5, UndrivenHandsOn, RowUpdatesKeep DEF SubmitCleanup, At, DeleteSeen
<1>6. CASE SubmitRefetch(a)
  BY <1>1, <1>2, <1>6, UndrivenHandsOn, RowUpdatesKeep DEF SubmitRefetch, At, rows, Go
<1>7. CASE SubmitPrecheck(a)
  BY <1>1, <1>2, <1>7, UndrivenHandsOn, RowUpdatesKeep DEF SubmitPrecheck, At, rows, Go
<1>8. CASE SubmitDropFailed(a)
  BY <1>1, <1>2, <1>8, UndrivenHandsOn, RowUpdatesKeep DEF SubmitDropFailed, At, DeleteSeen
<1>9. CASE SubmitDetails(a)
  <2>1. MoveTo(a, "find", frame[a]) /\ UNCHANGED <<asmt, review>>
    BY <1>9 DEF SubmitDetails, Go, rows
  <2>2. DrivesFrom(a, "find", frame[a])
    BY DEF DrivesFrom, TriggerSteps
  <2> QED BY <1>1, <1>2, <2>1, <2>2, PlainHandsOn
<1>10. CASE SubmitCatch(a)
  <2>1. UNCHANGED <<asmt, review>>
    BY <1>10 DEF SubmitCatch, rows
  <2>2. CASE asmt.status = "completed"
    BY <1>1, <1>2, <1>10, <2>1, <2>2, PlainHandsOn DEF SubmitCatch, Go
  <2>3. CASE asmt.status # "completed"
    <3>1. MoveTo(a, "rvFind", EmptyFrame)
      BY <1>10, <2>3 DEF SubmitCatch
    <3>2. DrivesFrom(a, "rvFind", EmptyFrame)
      BY DEF DrivesFrom, RevertSteps
    <3> QED BY <1>1, <1>2, <2>1, <3>1, <3>2, PlainHandsOn
  <2> QED BY <2>2, <2>3
<1> QED BY <1>3, <1>4, <1>5, <1>6, <1>7, <1>8, <1>9, <1>10 DEF SubmitStep

LEMMA RevertHandsOn ==
    ASSUME TypeInv, NEW a \in Actors, RevertStep(a)
    PROVE  HandsOn(a)
<1>1. frame[a] \in Frames /\ frame[a].seen \in Nat /\ frame[a].ret \in Returns
  BY DEF TypeInv, TypeOK, Frames
<1>2. /\ \A l \in RevertSteps : \A f : DrivesFrom(a, l, f)
      /\ RevertSteps \cup Returns \subseteq Plain
      /\ {"rvDelete", "rvRevert"} \subseteq RevertSteps
  BY PlainSteps DEF DrivesFrom, RevertSteps
<1>3. CASE RevertFind(a)
  BY <1>1, <1>2, <1>3, PlainHandsOn DEF RevertFind, rows
<1>4. CASE RevertDelete(a)
  BY <1>1, <1>2, <1>4, PlainHandsOn, RowUpdatesKeep DEF RevertDelete, DeleteSeen
<1>5. CASE RevertWrite(a)
  <2>1. asmt'.status # "ai_reviewing"
    BY <1>5 DEF RevertWrite, RevertRow, TypeInv, TypeOK, AssessmentRows
  <2> QED BY <1>1, <1>2, <1>5, <2>1, PlainHandsOn DEF RevertWrite, Go
<1> QED BY <1>3, <1>4, <1>5 DEF RevertStep

LEMMA PollHandsOn ==
    ASSUME TypeInv, NEW a \in Polls, PollRead(a) \/ PollStep(a)
    PROVE  HandsOn(a)
<1>1. a \in Actors
  BY DEF Actors
<1>2. {"idle", "pollReview", "heal"} \subseteq Plain \cap Undriven
  BY PlainSteps DEF Undriven, PollSteps
<1>3. CASE PollRead(a)
  BY <1>1, <1>2, <1>3, UndrivenHandsOn DEF PollRead, At, rows
<1>4. CASE PollReview(a)
  BY <1>1, <1>2, <1>4, UndrivenHandsOn DEF PollReview, At, rows, Go
<1>5. CASE PollHeal(a)
  <2>1. asmt'.status # "ai_reviewing"
    BY <1>5 DEF PollHeal, TypeInv, TypeOK, AssessmentRows
  <2> QED BY <1>1, <1>2, <1>5, <2>1, PlainHandsOn DEF PollHeal, Go
<1> QED BY <1>3, <1>4, <1>5 DEF PollStep

LEMMA AdminHandsOn ==
    ASSUME TypeInv, NEW a \in Actors, DebugRetry(a) \/ ForceReset(a)
    PROVE  HandsOn(a)
<1>1. "idle" \in Undriven /\ {"find", "rvFind"} \subseteq Plain
  BY PlainSteps DEF Undriven, RevertSteps
<1> QED BY <1>1, UndrivenHandsOn DEF DebugRetry, ForceReset, At, rows, Go

\* The retry job before and after it runs a review.
LEMMA SweepHandsOn ==
    ASSUME TypeInv, NEW a \in Sweeps,
           SweepFind(a) \/ RecordRetryAttempt(a) \/ SweepEnd(a)
    PROVE  HandsOn(a)
<1>1. {"idle", "done", "record"} \subseteq Undriven /\ {"record", "resubmit", "idle"} \subseteq Plain
      /\ a \in Actors
  BY PlainSteps DEF Undriven, SweepSteps, Actors
<1> QED BY <1>1, UndrivenHandsOn DEF SweepFind, RecordRetryAttempt, SweepEnd, At, rows, Go

-----------------------------------------------------------------------------
(* The trigger *)

LEMMA TriggerHandsOn ==
    ASSUME TypeInv, DriverInv, NEW a \in Runners, TriggerStep(a), ~CreateAiReview(a)
    PROVE  HandsOn(a)
<1>1. /\ a \in Actors /\ frame[a] \in Frames /\ frame[a].seen \in Nat /\ frame[a].rid \in Nat
      /\ review.id \in Nat
  BY DEF TypeInv, TypeOK, Actors, Runners, Frames, ReviewRows
<1>2. /\ \A l \in TriggerSteps : \A f :
            pc[a] \in TriggerSteps \ {"start"} /\ Drives(a) => DrivesFrom(a, l, f)
      /\ TriggerSteps = {"find", "delete", "clearBadge", "clearScore", "create", "start"}
      /\ \A f : DrivesFrom(a, "load", f)
  <2>1. a \in Submits \cup Sweeps => \A l \in TriggerSteps : \A f : DrivesFrom(a, l, f)
    BY DEF DrivesFrom
  <2> QED BY <2>1 DEF DrivesFrom, Drives, TriggerSteps, RevertSteps, OutcomeSteps
<1>3. CASE TriggerFind(a)
  <2>1. PICK l \in {"delete", "create"} :
            /\ MoveTo(a, l, [frame[a] EXCEPT !.seen = review.id])
            /\ l = "create" => ~Exists
    BY <1>3 DEF TriggerFind
  <2>2. UNCHANGED <<asmt, review>> /\ pc[a] = "find"
    BY <1>3 DEF TriggerFind, At, rows
  <2>3. [frame[a] EXCEPT !.seen = review.id].seen = review.id
    BY <1>1 DEF Frames
  <2>4. ~OvertakenAt(l, [frame[a] EXCEPT !.seen = review.id], review')
    BY <2>1, <2>2, <2>3 DEF OvertakenAt, Exists
  <2> QED BY <1>2, <2>1, <2>2, <2>4 DEF HandsOn, Quietly
<1>4. CASE TriggerDelete(a)
  <2>1. MoveTo(a, "clearBadge", [frame[a] EXCEPT !.seen = NoId])
    BY <1>4 DEF TriggerDelete, DeleteSeen
  <2>2. UNCHANGED asmt /\ pc[a] = "delete" /\ DeleteReview(frame[a].seen)
    BY <1>4 DEF TriggerDelete, DeleteSeen, At
  <2>3. review'.id \in {review.id, NoId}
    BY <1>1, <2>2, RowUpdatesKeep
  <2>4. Exists' => Overtaken(a)
    BY <2>2 DEF Exists, Overtaken, OvertakenAt, DeleteReview, NoReview
  <2> QED BY <1>2, <2>1, <2>2, <2>3, <2>4 DEF HandsOn, Quietly, OvertakenAt, Exists
<1>5. CASE TriggerClearBadge(a)
  <2>1. MoveTo(a, "clearScore", frame[a]) /\ pc[a] = "clearBadge" /\ UNCHANGED review
    BY <1>5 DEF TriggerClearBadge, At, Go
  <2>2. asmt'.status = asmt.status
    BY <1>5 DEF TriggerClearBadge, TypeInv, TypeOK, AssessmentRows
  <2>3. OvertakenAt("clearScore", frame[a], review') => Overtaken(a)
    BY <2>1 DEF OvertakenAt, Overtaken, Exists
  <2>4. Drives(a) => DrivesFrom(a, "clearScore", frame[a])
    BY <1>2, <2>1
  <2> QED BY <2>1, <2>2, <2>3, <2>4 DEF HandsOn, Quietly
<1>6. CASE TriggerClearScore(a)
  <2>1. MoveTo(a, "create", frame[a]) /\ pc[a] = "clearScore" /\ UNCHANGED review
    BY <1>6 DEF TriggerClearScore, At, Go
  <2>2. asmt'.status = asmt.status
    BY <1>6 DEF TriggerClearScore, TypeInv, TypeOK, AssessmentRows
  <2>3. OvertakenAt("create", frame[a], review') => Overtaken(a)
    BY <2>1 DEF OvertakenAt, Overtaken, Exists
  <2>4. Drives(a) => DrivesFrom(a, "create", frame[a])
    BY <1>2, <2>1
  <2> QED BY <2>1, <2>2, <2>3, <2>4 DEF HandsOn, Quietly
<1>7. CASE TriggerStart(a)
  <2>1. MoveTo(a, "load", frame[a]) /\ UNCHANGED asmt /\ "load" \in Plain
    BY <1>7, PlainSteps DEF TriggerStart, Go
  <2>2. review'.id \in {review.id, NoId}
    BY <1>1, <1>7, RowUpdatesKeep DEF TriggerStart, ReviewStatuses
  <2> QED BY <1>1, <1>2, <2>1, <2>2, PlainHandsOn
<1> QED BY <1>3, <1>4, <1>5, <1>6, <1>7 DEF TriggerStep

\* The unique index decides between two triggers: the one that creates the review
\* drives it from there.
LEMMA CreateKeepsDriver ==
    ASSUME TypeInv, RetryInv, DriverInv, NEW a \in Runners, CreateAiReview(a)
    PROVE  DriverInv'
<1>1. a \in Actors /\ pc[a] = "create" /\ UNCHANGED asmt
  BY DEF Actors, Runners, CreateAiReview, At
<1>2. CASE ~Exists
  <2>1. PICK f : MoveTo(a, "start", f)
    BY <1>2 DEF CreateAiReview
  <2>2. \A b \in Actors : /\ pc'[b] = IF b = a THEN "start" ELSE pc[b]
                          /\ frame'[b] = IF b = a THEN f ELSE frame[b]
    BY <1>1, <2>1, MovedTo
  <2>3. a \in Submits \/ Sweeps # {} => Drives(a)'
    BY <1>1, <2>2 DEF Drives, DrivesFrom, TriggerSteps
  <2>4. ASSUME NEW w \in Sweeps, Overtaken(w)'
        PROVE  \E b \in Actors \ Sweeps : Drives(b)'
    <3>1. w # a /\ pc[w] # "idle"
      BY <2>2, <2>4 DEF Overtaken, OvertakenAt, Actors
    <3>2. a \notin Sweeps
      BY <1>1, <3>1 DEF RetryInv
    <3> QED BY <1>1, <2>3, <3>2
  <2>5. asmt.status = "ai_reviewing" => \E b \in Actors : Drives(b)'
    <3>1. CASE a \in Submits \/ Sweeps # {}
      BY <1>1, <2>3, <3>1
    <3>2. CASE a \notin Submits /\ Sweeps = {}
      <4>1. ~Drives(a)
        BY <1>1, <3>2 DEF Drives, DrivesFrom, RevertSteps, OutcomeSteps
      <4>2. \A b \in Actors : b # a /\ Drives(b) => Drives(b)'
        BY <2>2 DEF Drives
      <4> QED BY <4>1, <4>2 DEF DriverInv
    <3> QED BY <3>1, <3>2
  <2>6. \A b \in Actors : pc'[b] = "badge" => frame'[b].path # "empty"
    BY <2>2 DEF DriverInv
  <2> QED BY <1>1, <2>4, <2>5, <2>6 DEF DriverInv
<1>3. CASE Exists
  <2>1. Go(a, Rejected(a)) /\ UNCHANGED review
    BY <1>3 DEF CreateAiReview
  <2>2. CASE a \in Submits
    <3>1. MoveTo(a, "catch", frame[a]) /\ "catch" \in Plain
      BY <2>1, <2>2, PlainSteps DEF Rejected, Go, FailureSteps
    <3>2. DrivesFrom(a, "catch", frame[a])
      BY DEF DrivesFrom
    <3> QED BY <1>1, <2>1, <3>1, <3>2, PlainHandsOn, HandingOnKeeps
  <2>3. CASE a \in Retries
    <3>1. MoveTo(a, "done", EmptyFrame) /\ "done" \in Plain
      BY <2>1, <2>3, PlainSteps, ActorsAssumption DEF Rejected, Go
    <3>2. ~Drives(a)
      BY <1>1, <2>3, ActorsAssumption DEF Drives, DrivesFrom, RevertSteps, OutcomeSteps
    <3> QED BY <1>1, <2>1, <3>1, <3>2, PlainHandsOn, HandingOnKeeps
  <2>4. CASE a \in Sweeps
    <3>1. MoveTo(a, "done", EmptyFrame)
      BY <2>1, <2>4, ActorsAssumption DEF Rejected, Go
    <3>2. \A b \in Actors : /\ pc'[b] = IF b = a THEN "done" ELSE pc[b]
                            /\ frame'[b] = IF b = a THEN EmptyFrame ELSE frame[b]
      BY <1>1, <3>1, MovedTo
    <3>3. Overtaken(a)
      BY <1>1, <1>3 DEF Overtaken, OvertakenAt, Exists
    <3>4. asmt.status = "ai_reviewing" => \E b \in Actors \ Sweeps : Drives(b)
      BY <2>4, <3>3 DEF DriverInv
    <3>5. \A b \in Actors \ Sweeps : Drives(b) => Drives(b)'
      BY <2>4, <3>2 DEF Drives, DrivesFrom
    <3>6. \A b \in Actors : pc'[b] = "badge" => frame'[b].path # "empty"
      BY <3>2 DEF DriverInv
    <3> QED BY <1>1, <3>4, <3>5, <3>6 DEF DriverInv
  <2> QED BY <2>2, <2>3, <2>4 DEF Runners
<1> QED BY <1>2, <1>3

\* A submission, and the retry job re-submitting, start the reviewing and trigger
\* the review themselves.
LEMMA SubmissionDrives ==
    ASSUME TypeInv, RetryInv, DriverInv, NEW a \in Actors,
           \/ a \in Submits /\ SubmitSetStatus(a)
           \/ a \in Sweeps /\ SweepResubmit(a)
    PROVE  DriverInv'
<1>1. PICK l \in {"details", "find"} : /\ MoveTo(a, l, frame[a])
                                       /\ l = "find" => a \in Sweeps
                                       /\ a \in Sweeps => pc[a] # "idle"
  BY ActorsAssumption DEF SubmitSetStatus, SweepResubmit, Go, At
<1>2. \A b \in Actors : /\ pc'[b] = IF b = a THEN l ELSE pc[b]
                        /\ frame'[b] = IF b = a THEN frame[a] ELSE frame[b]
  BY <1>1, MovedTo
<1>3. Drives(a)'
  BY <1>1, <1>2 DEF Drives, DrivesFrom, TriggerSteps
<1>4. ASSUME NEW w \in Sweeps, Overtaken(w)'
      PROVE  \E b \in Actors \ Sweeps : Drives(b)'
  <2>1. w # a /\ pc[w] # "idle"
    BY <1>1, <1>2, <1>4 DEF Overtaken, OvertakenAt, Actors
  <2>2. a \notin Sweeps
    BY <1>1, <2>1 DEF RetryInv
  <2> QED BY <1>3, <2>2
<1>5. \A b \in Actors : pc'[b] = "badge" => frame'[b].path # "empty"
  BY <1>1, <1>2 DEF DriverInv
<1> QED BY <1>3, <1>4, <1>5 DEF DriverInv

-----------------------------------------------------------------------------
(* The run *)

LEMMA FailingHandsOn ==
    ASSUME TypeInv, NEW a \in Actors, NEW p, FailRun(a, p),
           UNCHANGED <<asmt, review>>
    PROVE  HandsOn(a)
<1>1. PICK f : MoveTo(a, "rvFind", f)
  BY DEF FailRun
<1>2. "rvFind" \in Plain /\ DrivesFrom(a, "rvFind", f)
  BY PlainSteps DEF DrivesFrom, RevertSteps
<1> QED BY <1>1, <1>2, PlainHandsOn

LEMMA DecidingHandsOn ==
    ASSUME TypeInv, NEW a \in Runners, LoadAnswers(a) \/ Analyze(a) \/ StoreResponses(a)
    PROVE  HandsOn(a)
<1>1. a \in Actors /\ frame[a] \in Frames
  BY DEF TypeInv, TypeOK, Actors, Runners
<1>2. UNCHANGED <<asmt, review>>
  BY DEF LoadAnswers, Analyze, StoreResponses, rows
<1>3. /\ {"analyze", "responses", "reviewDone", "reviewScore"} \subseteq Plain
      /\ \A f : \A l \in {"analyze", "responses", "reviewDone"} : DrivesFrom(a, l, f)
      /\ \A q \in {"empty", "fallback"} :
            DrivesFrom(a, "reviewScore", [frame[a] EXCEPT !.path = q])
  BY <1>1, PlainSteps DEF DrivesFrom, OutcomeSteps, Frames
<1>4. CASE \E q \in {"empty", "fallback"} : WriteOutcome(a, q, "reviewScore")
  BY <1>1, <1>2, <1>3, <1>4, PlainHandsOn DEF WriteOutcome
<1>5. CASE \E l \in {"responses", "reviewDone"} : WriteOutcome(a, "graded", l)
  BY <1>1, <1>2, <1>3, <1>5, PlainHandsOn DEF WriteOutcome
<1>6. CASE \E l \in {"analyze", "reviewDone"} : Go(a, l)
  BY <1>1, <1>2, <1>3, <1>6, PlainHandsOn DEF Go
<1>7. CASE \E q : FailRun(a, q)
  BY <1>1, <1>2, <1>7, FailingHandsOn
<1> QED BY <1>4, <1>5, <1>6, <1>7 DEF LoadAnswers, Analyze, StoreResponses

\* Each outcome reaches asmtDone, and stops driving no earlier.
LEMMA OutcomeDrives ==
    ASSUME TypeInv, DriverInv, NEW a \in Actors, NEW l \in OutcomeSteps, At(a, l)
    PROVE  LET k == After[frame[a].path][l]
           IN  /\ k \in OutcomeSteps \cup {"done"}
               /\ k = "badge" => frame[a].path # "empty"
               /\ l # "asmtDone" /\ Drives(a) => DrivesFrom(a, k, frame[a])
<1>1. frame[a].path \in DOMAIN After /\ pc[a] = l /\ (l = "badge" => frame[a].path # "empty")
  BY DEF TypeInv, PathOK, At, DriverInv
<1>2. frame[a].path \in {"graded", "empty", "fallback"}
  BY <1>1 DEF After
<1>3. CASE frame[a].path = "graded"
  BY <1>1, <1>3 DEF After, Drives, DrivesFrom, OutcomeSteps, TriggerSteps, RevertSteps
<1>4. CASE frame[a].path = "empty"
  BY <1>1, <1>4 DEF After, DrivesFrom, OutcomeSteps
<1>5. CASE frame[a].path = "fallback"
  BY <1>1, <1>5 DEF After, DrivesFrom, OutcomeSteps
<1> QED BY <1>2, <1>3, <1>4, <1>5

LEMMA OutcomeHandsOn ==
    ASSUME TypeInv, DriverInv, NEW a \in Actors, NEW l \in OutcomeSteps, Outcome(a, l),
           review'.id \in {review.id, NoId},
           asmt'.status = IF l = "asmtDone" THEN "completed" ELSE asmt.status
    PROVE  HandsOn(a)
<1> DEFINE k == After[frame[a].path][l]
           f == IF k = "done" THEN EmptyFrame ELSE frame[a]
<1>1. At(a, l) /\ Go(a, k)
  BY DEF Outcome
<1>2. /\ k \in OutcomeSteps \cup {"done"}
      /\ k = "badge" => frame[a].path # "empty"
      /\ l # "asmtDone" /\ Drives(a) => DrivesFrom(a, k, frame[a])
  BY <1>1, OutcomeDrives
<1> HIDE DEF k
<1>3. k # "idle" /\ MoveTo(a, k, f)
  BY <1>1, <1>2 DEF Go, OutcomeSteps
<1>4. k = "badge" => f.path # "empty"
  BY <1>2
<1>5. l # "asmtDone" /\ Drives(a) => DrivesFrom(a, k, f)
  BY <1>2 DEF DrivesFrom, RevertSteps, OutcomeSteps, TriggerSteps
<1>6. ~OvertakenAt(k, f, review')
  BY <1>2 DEF OvertakenAt, OutcomeSteps
<1>7. Quietly(a, k, f)
  BY <1>5, <1>6 DEF Quietly
<1> HIDE DEF f
<1> QED BY <1>3, <1>4, <1>7 DEF HandsOn

LEMMA WritingHandsOn ==
    ASSUME TypeInv, DriverInv, NEW a \in Runners,
           \/ CompleteReview(a) \/ CompleteAssessment(a)
           \/ ScoreReview(a) \/ ScoreAssessment(a) \/ AssignBadge(a)
    PROVE  HandsOn(a)
<1>1. a \in Actors /\ frame[a].rid \in Nat /\ Grade(a) \in Scores
  BY DEF TypeInv, TypeOK, Actors, Runners, Frames, Grade, Zero, Scores
<1>2. OutcomeSteps = {"reviewDone", "asmtDone", "reviewScore", "asmtScore", "badge"}
  BY DEF OutcomeSteps
<1>3. CASE CompleteReview(a)
  BY <1>1, <1>2, <1>3, OutcomeHandsOn, RowUpdatesKeep DEF CompleteReview, ReviewStatuses
<1>4. CASE CompleteAssessment(a)
  <2>1. asmt'.status = "completed"
    BY <1>4 DEF CompleteAssessment, TypeInv, TypeOK, AssessmentRows
  <2> QED BY <1>1, <1>2, <1>4, <2>1, OutcomeHandsOn DEF CompleteAssessment
<1>5. CASE ScoreReview(a)
  BY <1>1, <1>2, <1>5, OutcomeHandsOn, RowUpdatesKeep DEF ScoreReview
<1>6. CASE ScoreAssessment(a)
  <2>1. asmt'.status = asmt.status
    BY <1>6 DEF ScoreAssessment, TypeInv, TypeOK, AssessmentRows
  <2> QED BY <1>1, <1>2, <1>6, <2>1, OutcomeHandsOn DEF ScoreAssessment
<1>7. CASE AssignBadge(a)
  <2>1. asmt'.status = asmt.status
    BY <1>7 DEF AssignBadge, TypeInv, TypeOK, AssessmentRows
  <2> QED BY <1>1, <1>2, <1>7, <2>1, OutcomeHandsOn DEF AssignBadge
<1> QED BY <1>3, <1>4, <1>5, <1>6, <1>7

\* The failure handler, after its revert.
LEMMA MarkingHandsOn ==
    ASSUME TypeInv, NEW a \in Runners, MarkFailed(a) \/ NotifyFailure(a) \/ FallbackDelete(a)
    PROVE  HandsOn(a)
<1>1. a \in Actors /\ frame[a].rid \in Nat
  BY DEF TypeInv, TypeOK, Actors, Runners, Frames
<1>2. /\ {"markFailed", "markAgain", "notifyFailure", "fallbackDelete"} \subseteq Undriven
      /\ {"notifyFailure", "done"} \subseteq Plain
  BY PlainSteps DEF Undriven, FailureSteps
<1>3. pc[a] \in Undriven
  BY <1>2 DEF MarkFailed, NotifyFailure, FallbackDelete, At
<1>4. review'.id \in {review.id, NoId} /\ UNCHANGED asmt
  BY <1>1, RowUpdatesKeep DEF MarkFailed, NotifyFailure, FallbackDelete, ReviewStatuses, rows
<1>5. \E l \in Plain : Go(a, l)
  BY <1>2 DEF MarkFailed, NotifyFailure, FallbackDelete
<1> QED BY <1>1, <1>3, <1>4, <1>5, UndrivenHandsOn DEF Go

-----------------------------------------------------------------------------
(* Failures *)

\* Where the code has a handler, the failure is handed on with the review.
LEMMA FaultHandsOn ==
    ASSUME Handled, TypeInv, NEW a \in Actors, DbFault(a)
    PROVE  HandsOn(a)
<1>1. pc[a] \in FaultAt /\ UNCHANGED <<asmt, review>>
  BY DEF DbFault, FaultInRequest, FaultInPoll, FaultInTrigger, FaultInRun,
         FaultInFallback, FaultInRevert, FaultInMarking, FaultInHandler, Throw, rows
<1>2. /\ pc[a] \notin {"details", "catch", "rvFind", "rvForce"}
      /\ a \in Sweeps => pc[a] \notin TriggerSteps
  BY <1>1 DEF Handled
<1>3. ASSUME NEW l \in Plain, Go(a, l), pc[a] \in Undriven \/ DrivesFrom(a, l, frame[a]),
             l # "done" \/ pc[a] \in Undriven
      PROVE  HandsOn(a)
  BY <1>1, <1>3, UndrivenHandsOn, PlainHandsOn DEF Go, DrivesFrom, RevertSteps,
     OutcomeSteps, TriggerSteps
<1>4. /\ {"done", "idle", "catch", "rvFind", "rvForce", "markFailed", "markAgain"} \subseteq Plain
      /\ DrivesFrom(a, "catch", frame[a]) /\ DrivesFrom(a, "rvForce", frame[a])
      /\ \A f : DrivesFrom(a, "rvFind", f)
  BY PlainSteps DEF DrivesFrom, RevertSteps, FailureSteps
<1>5. CASE FaultInRequest(a)
  <2>1. pc[a] \in Undriven
    BY <1>2, <1>5 DEF FaultInRequest, Undriven
  <2> QED BY <1>3, <1>4, <1>5, <2>1 DEF FaultInRequest
<1>6. CASE FaultInPoll(a)
  <2>1. pc[a] \in Undriven
    BY <1>6 DEF FaultInPoll, Undriven
  <2> QED BY <1>3, <1>4, <1>6, <2>1 DEF FaultInPoll
<1>7. CASE FaultInTrigger(a)
  <2>1. CASE a \in Submits
    BY <1>3, <1>4, <1>7, <2>1 DEF FaultInTrigger, Rejected
  <2>2. CASE a \notin Submits
    <3>1. Go(a, "done") /\ pc[a] \in TriggerSteps /\ a \notin Sweeps
      BY <1>2, <1>7, <2>2 DEF FaultInTrigger, Rejected
    <3>2. ~Drives(a)
      BY <1>1, <2>2, <3>1 DEF Handled, Drives, DrivesFrom, TriggerSteps, RevertSteps, OutcomeSteps
    <3> QED BY <1>1, <1>4, <3>1, <3>2, PlainHandsOn DEF Go
  <2> QED BY <2>1, <2>2
<1>8. CASE FaultInRun(a)
  BY <1>1, <1>8, FailingHandsOn DEF FaultInRun
<1>9. CASE FaultInFallback(a)
  BY <1>1, <1>4, <1>9, PlainHandsOn DEF FaultInFallback
<1>10. CASE FaultInRevert(a)
  BY <1>2, <1>3, <1>4, <1>10 DEF FaultInRevert
<1>11. CASE FaultInMarking(a)
  <2>1. {"markAgain", "markFailed"} \subseteq Undriven
    BY DEF Undriven, FailureSteps
  <2>2. pc[a] \in Undriven
    BY <1>11, <2>1 DEF FaultInMarking, At
  <2>3. CASE FailRun(a, "failed")
    BY <1>1, <2>3, FailingHandsOn
  <2>4. CASE \E l \in {"done", "catch", "markAgain"} : Go(a, l)
    BY <1>3, <1>4, <2>2, <2>4
  <2> QED BY <1>11, <2>3, <2>4 DEF FaultInMarking, Rejected
<1>12. CASE FaultInHandler(a)
  <2>1. pc[a] \in Undriven
    BY <1>2, <1>12 DEF FaultInHandler, Undriven, FailureSteps
  <2> QED BY <1>3, <1>4, <1>12, <2>1 DEF FaultInHandler
<1> QED BY <1>5, <1>6, <1>7, <1>8, <1>9, <1>10, <1>11, <1>12 DEF DbFault

-----------------------------------------------------------------------------
(* The theorem *)

LEMMA DriverInvInductive ==
    ASSUME Handled, TypeInv, RetryInv, DriverInv, [Next]_vars
    PROVE  DriverInv'
<1>1. ASSUME NEW a \in Actors, Start(a)
      PROVE  DriverInv'
  BY <1>1, SubmitHandsOn, AdminHandsOn, PollHandsOn, SweepHandsOn, HandingOnKeeps DEF Start
<1>2. ASSUME NEW a \in Runners, TriggerStep(a) \/ RunStep(a)
      PROVE  DriverInv'
  <2>1. a \in Actors
    BY DEF Actors, Runners
  <2> QED BY <1>2, <2>1, TriggerHandsOn, CreateKeepsDriver, DecidingHandsOn, WritingHandsOn,
          MarkingHandsOn, HandingOnKeeps DEF RunStep
<1>3. ASSUME NEW a \in Actors, Continue(a)
      PROVE  DriverInv'
  BY <1>2, <1>3, SubmitHandsOn, SubmissionDrives, RevertHandsOn, PollHandsOn, SweepHandsOn,
     HandingOnKeeps DEF Continue, SweepStep, SubmitStep
<1>4. ASSUME NEW a \in Actors, DbFault(a)
      PROVE  DriverInv'
  BY <1>4, FaultHandsOn, HandingOnKeeps
<1>5. ~Crash
  BY BoundsAssumption DEF Handled, Crash, TypeInv, TypeOK
<1>6. CASE UNCHANGED vars
  BY <1>6 DEF vars, DriverInv, Drives, DrivesFrom, Overtaken
<1> QED BY <1>1, <1>3, <1>4, <1>5, <1>6 DEF Next

\* However many submissions, debug retries, resets, polls and sweeps overlap, and
\* whichever of the database calls that have a handler fail, an assessment shown
\* as under AI review has a call in flight that will complete or revert it.
THEOREM ReviewsAreDriven ==
    ASSUME Handled
    PROVE  Spec => []ReviewingHasDriver
<1>1. Init => RetryInv /\ DriverInv
  <2>1. Init => RetryInv
    BY BoundsAssumption DEF Init, RetryInv, RetryCap, Actors
  <2>2. Init => DriverInv
    BY DEF Init, DriverInv, NewAssessment
  <2> QED BY <2>1, <2>2
<1>2. TypeInv /\ RetryInv /\ DriverInv /\ [Next]_vars => TypeInv' /\ RetryInv' /\ DriverInv'
  BY TypeInvInductive, RetryInvInductive, DriverInvInductive
<1>3. DriverInv => ReviewingHasDriver
  BY DriversDrive DEF DriverInv, ReviewingHasDriver
<1> QED BY <1>1, <1>2, <1>3, TypeInvInitially, PTL DEF Spec
=============================================================================
