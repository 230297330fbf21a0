--------------------------- MODULE AiReviewPipeline ---------------------------
(***************************************************************************)
(* The AI review of one assessment: submission, the background review run, *)
(* the retry job, the admins' debug-retry and force-reset, and the polling *)
(* read that heals a stale status.  Every actor is an asynchronous call of *)
(* the NestJS process; an action is what it does between two awaited       *)
(* database calls, so the calls of different actors interleave freely.     *)
(*                                                                         *)
(* Other assessments share nothing with this one except the retry job,     *)
(* whose loop over them only delays it.                                    *)
(***************************************************************************)
EXTENDS Naturals, Integers

CONSTANTS
    Submits,      \* POST assessments/:id/submit requests
    Retries,      \* POST ai-reviews/:id/debug-retry requests
    Resets,       \* POST assessments/:id/force-reset requests
    Polls,        \* clients that keep reading the score
    Sweeps,       \* overlapping ticks of the retry job in the server process
    MaxAttempts,  \* AiReviewRetryService.MAX_ATTEMPTS
    MaxFaults,    \* how many database calls may fail
    FaultAt,      \* the steps at which one may fail
    MaxCrashes    \* how often the process may die and restart

Actors == Submits \cup Retries \cup Resets \cup Polls \cup Sweeps

\* The actors that run a review to its end: triggerAiReview's callers.
Runners == Submits \cup Retries \cup Sweeps

ASSUME ActorsAssumption ==
    /\ Submits \cap (Retries \cup Resets \cup Polls \cup Sweeps) = {}
    /\ Retries \cap (Resets \cup Polls \cup Sweeps) = {}
    /\ Resets \cap (Polls \cup Sweeps) = {}
    /\ Polls \cap Sweeps = {}

ASSUME BoundsAssumption ==
    MaxAttempts \in Nat /\ MaxFaults \in Nat /\ MaxCrashes \in Nat

VARIABLES
    asmt,       \* the certificate_assessments row
    attempts,   \* its ai_review_attempts column
    review,     \* the ai_reviews row: the unique index allows one at most
    nextId,     \* the next review id the database hands out
    pc,         \* the step each actor is at
    frame,      \* its local variables, gone when its call ends
    running,    \* AiReviewRetryService.running
    faults, crashes,  \* how many of the bounded failures happened
    sweepRuns         \* history: review runs the retry job started

vars == <<asmt, attempts, review, nextId, pc, frame,
          running, faults, crashes, sweepRuns>>
rows == <<asmt, attempts, review, nextId>>
env == <<running, faults, crashes, sweepRuns>>

-----------------------------------------------------------------------------
(* Rows.  A grade is known by the review whose run computed it: NoScore is *)
(* NULL, Zero the number 0, any other n the grade of review n.  A badge is *)
(* known by the grade it was assigned from.                                *)

NoId == 0
NoScore == -1
Zero == 0
Scores == Nat \cup {NoScore}
NoBadge == 0

AsmtStatuses == {"in_progress", "ai_reviewing", "completed"}
ReviewStatuses == {"none", "pending", "in_progress", "completed", "failed"}

AssessmentRows == [status: AsmtStatuses, submitted: BOOLEAN, score: Scores,
                   badge: Nat]
ReviewRows == [id: Nat, status: ReviewStatuses, score: Scores]

NoReview == [id |-> NoId, status |-> "none", score |-> NoScore]
Exists == review.id # NoId

\* UPDATE ai_reviews ... WHERE id = i touches no row once i is deleted.
ReviewStatusTo(i, s) ==
    review' = IF review.id = i THEN [review EXCEPT !.status = s] ELSE review
ReviewScoreByAssessment(i, n) ==   \* a variant: WHERE certificate_assessment_id
    review' = IF Exists THEN [review EXCEPT !.score = n] ELSE review
ReviewScoreTo(i, n) ==
    review' = IF review.id = i THEN [review EXCEPT !.score = n] ELSE review

\* deleteAiReview(i)
DeleteReview(i) == review' = IF review.id = i THEN NoReview ELSE review

SubmitRowPlain ==   \* a variant: the older submitAssessment(id)
    asmt' = [asmt EXCEPT !.submitted = TRUE, !.status = "submitted"]

\* submitAndSetStatus(id, 'ai_reviewing')
SubmitRow == asmt' = [asmt EXCEPT !.submitted = TRUE, !.status = "ai_reviewing"]

RevertFlagOnly ==   \* a variant: the status is left alone
    asmt' = [asmt EXCEPT !.submitted = FALSE]

\* The repository's revertAssessmentSubmission(id)
RevertRow == asmt' = [asmt EXCEPT !.submitted = FALSE, !.status = "in_progress"]

SubmitSteps == {"readReview", "cleanup", "refetch", "precheck", "dropFailed",
                "submit", "details"}
TriggerSteps == {"find", "delete", "clearBadge", "clearScore", "create", "start"}
OutcomeSteps == {"reviewDone", "asmtDone", "reviewScore", "asmtScore", "badge"}
RunSteps == {"load", "analyze", "responses"} \cup OutcomeSteps
RevertSteps == {"rvFind", "rvDelete", "rvRevert", "rvForce"}
FailureSteps == {"markFailed", "markAgain", "notifyFailure", "fallbackDelete",
                 "catch"}
PollSteps == {"pollReview", "heal"}
SweepSteps == {"record", "resubmit"}
Labels == {"idle", "done"} \cup SubmitSteps \cup TriggerSteps \cup RunSteps
          \cup RevertSteps \cup FailureSteps \cup PollSteps \cup SweepSteps

Paths == {"graded", "empty", "fallback", "upload", "failed"}
Returns == {"done", "refetch", "markFailed", "fallbackDelete"}
Frames == [snap: AssessmentRows, seen: Nat, rid: Nat, path: Paths, ret: Returns]

\* The order in which each outcome reaches the two rows.
After == [
    graded   |-> [reviewDone  |-> "asmtDone",   asmtDone   |-> "reviewScore",
                  reviewScore |-> "asmtScore",  asmtScore  |-> "badge",
                  badge       |-> "done"],
    empty    |-> [reviewScore |-> "asmtScore",  asmtScore  |-> "reviewDone",
                  reviewDone  |-> "asmtDone",   asmtDone   |-> "done",
                  badge       |-> "done"],
    fallback |-> [reviewScore |-> "asmtScore",  asmtScore  |-> "badge",
                  badge       |-> "reviewDone", reviewDone |-> "asmtDone",
                  asmtDone    |-> "done"]]

NewAssessment == [status |-> "in_progress", submitted |-> FALSE,
                  score |-> NoScore, badge |-> NoBadge]

\* A call's local variables: the assessment row and the review id it read, the
\* review its run created, the outcome that run is writing, and the step that
\* follows revertAssessmentSubmission.
EmptyFrame == [snap |-> NewAssessment, seen |-> NoId, rid |-> NoId,
               path |-> "graded", ret |-> "done"]

At(a, l) == pc[a] = l

\* Actor a moves on to step l with the locals f.
MoveTo(a, l, f) ==
    /\ pc' = [pc EXCEPT ![a] = l]
    /\ frame' = [frame EXCEPT ![a] = f]

\* Move on as it is; the locals go out of scope when the call ends.
Go(a, l) == MoveTo(a, l, IF l \in {"idle", "done"} THEN EmptyFrame ELSE frame[a])

\* The review id read is deleted and not looked at again.
DeleteSeen(a, l) ==
    /\ DeleteReview(frame[a].seen)
    /\ MoveTo(a, l, [frame[a] EXCEPT !.seen = NoId])

\* The grade this run computed: 0 when there was nothing to grade.
Grade(a) == IF frame[a].path = "empty" THEN Zero ELSE frame[a].rid

-----------------------------------------------------------------------------
(* submitAssessment *)

SubmitRead(s) ==
    /\ At(s, "idle")
    /\ \/ /\ MoveTo(s, "readReview", [frame[s] EXCEPT !.snap = asmt])
       \/ Go(s, "done")              \* 403: the certificate is blocked
    /\ UNCHANGED <<rows, env>>

SubmitReadReview(s) ==
    /\ At(s, "readReview")
    /\ \/ /\ frame[s].snap.submitted /\ Exists    \* 400: already submitted
          /\ Go(s, "done")
       \/ /\ frame[s].snap.submitted /\ ~Exists
          /\ MoveTo(s, "rvFind", [EmptyFrame EXCEPT !.ret = "refetch"])
       \/ /\ ~frame[s].snap.submitted
          /\ MoveTo(s, IF Exists THEN "cleanup" ELSE "precheck",
                    [EmptyFrame EXCEPT !.seen = review.id])
    /\ UNCHANGED <<rows, env>>

SubmitCleanup(s) ==
    /\ At(s, "cleanup")
    /\ DeleteSeen(s, "precheck")
    /\ UNCHANGED <<asmt, attempts, nextId, env>>

SubmitRefetch(s) ==
    /\ At(s, "refetch")
    /\ Go(s, IF asmt.submitted THEN "done" ELSE "precheck")
    /\ UNCHANGED <<rows, env>>

\* Access, compulsory questions and the API key may each refuse the request.
SubmitPrecheck(s) ==
    /\ At(s, "precheck")
    /\ \/ Go(s, "done")
       \/ review.status # "failed" /\ Go(s, "submit")
       \/ /\ review.status = "failed"
          /\ MoveTo(s, "dropFailed", [frame[s] EXCEPT !.seen = review.id])
    /\ UNCHANGED <<rows, env>>

\* The API key is looked at after the failed review is gone.
SubmitDropFailed(s) ==
    /\ At(s, "dropFailed")
    /\ \E l \in {"submit", "done"} : DeleteSeen(s, l)
    /\ UNCHANGED <<asmt, attempts, nextId, env>>

SubmitSetStatus(s) ==
    /\ At(s, "submit")
    /\ SubmitRow
    /\ Go(s, "details")
    /\ UNCHANGED <<attempts, review, nextId, env>>

\* The response is sent; setImmediate starts the review in the background.
SubmitDetails(s) ==
    /\ At(s, "details")
    /\ Go(s, "find")
    /\ UNCHANGED <<rows, env>>

\* The .catch of the background trigger.
SubmitCatch(s) ==
    /\ At(s, "catch")
    /\ IF asmt.status = "completed"
       THEN Go(s, "done")
       ELSE MoveTo(s, "rvFind", EmptyFrame)
    /\ UNCHANGED <<rows, env>>

SubmitStep(s) ==
    \/ SubmitReadReview(s) \/ SubmitCleanup(s) \/ SubmitRefetch(s)
    \/ SubmitPrecheck(s) \/ SubmitDropFailed(s) \/ SubmitSetStatus(s)
    \/ SubmitDetails(s) \/ SubmitCatch(s)

-----------------------------------------------------------------------------
(* revertAssessmentSubmission of the service, called from four places *)

RevertFind(a) ==
    /\ At(a, "rvFind")
    /\ MoveTo(a, IF Exists THEN "rvDelete" ELSE "rvRevert",
              [frame[a] EXCEPT !.seen = review.id])
    /\ UNCHANGED <<rows, env>>

RevertDelete(a) ==
    /\ At(a, "rvDelete")
    /\ DeleteSeen(a, "rvRevert")
    /\ UNCHANGED <<asmt, attempts, nextId, env>>

\* rvForce is the second attempt, after any step of the first one threw.
RevertWrite(a) ==
    /\ pc[a] \in {"rvRevert", "rvForce"}
    /\ RevertRow
    /\ Go(a, frame[a].ret)
    /\ UNCHANGED <<attempts, review, nextId, env>>

RevertStep(a) == RevertFind(a) \/ RevertDelete(a) \/ RevertWrite(a)

-----------------------------------------------------------------------------
(* triggerAiReview *)

\* Where an error of triggerAiReview surfaces: only submitAssessment reacts.
Rejected(a) == IF a \in Submits THEN "catch" ELSE "done"

TriggerFind(a) ==
    /\ At(a, "find")
    /\ MoveTo(a, IF Exists THEN "delete" ELSE "create",
              [frame[a] EXCEPT !.seen = review.id])
    /\ UNCHANGED <<rows, env>>

TriggerDelete(a) ==
    /\ At(a, "delete")
    /\ DeleteSeen(a, "clearBadge")
    /\ UNCHANGED <<asmt, attempts, nextId, env>>

TriggerClearBadge(a) ==
    /\ At(a, "clearBadge")
    /\ asmt' = [asmt EXCEPT !.badge = NoBadge]
    /\ Go(a, "clearScore")
    /\ UNCHANGED <<attempts, review, nextId, env>>

TriggerClearScore(a) ==
    /\ At(a, "clearScore")
    /\ asmt' = [asmt EXCEPT !.score = Zero]
    /\ Go(a, "create")
    /\ UNCHANGED <<attempts, review, nextId, env>>

\* idx_ai_reviews_assessment_unique rejects a second row.
CreateAiReview(a) ==
    /\ At(a, "create")
    /\ \/ Exists /\ Go(a, Rejected(a)) /\ UNCHANGED <<review, nextId>>
       \/ /\ ~Exists
          /\ review' = [id |-> nextId, status |-> "pending", score |-> NoScore]
          /\ nextId' = nextId + 1
          /\ MoveTo(a, "start", [frame[a] EXCEPT !.rid = nextId])
    /\ UNCHANGED <<asmt, attempts, env>>

TriggerStart(a) ==
    /\ At(a, "start")
    /\ ReviewStatusTo(frame[a].rid, "in_progress")
    /\ Go(a, "load")
    /\ UNCHANGED <<asmt, attempts, nextId, env>>

TriggerStep(a) ==
    \/ TriggerFind(a) \/ TriggerDelete(a) \/ TriggerClearBadge(a)
    \/ TriggerClearScore(a) \/ CreateAiReview(a) \/ TriggerStart(a)

-----------------------------------------------------------------------------
(* processAiReview *)

FailRunUnreverted(a, p) ==   \* a variant: mark the review without the revert
    MoveTo(a, "markFailed", [frame[a] EXCEPT !.path = p, !.ret = "markFailed"])

\* An error inside processAiReview: revert first, then mark the review.
FailRun(a, p) ==
    MoveTo(a, "rvFind", [frame[a] EXCEPT !.path = p, !.ret = "markFailed"])

\* Start writing an outcome of kind p at step l.
WriteOutcome(a, p, l) ==
    MoveTo(a, l, [frame[a] EXCEPT !.path = p])

\* The questions and answers are read; there may be nothing to grade, and the
\* downloads may fail.
LoadAnswers(a) ==
    /\ At(a, "load")
    /\ \/ Go(a, "analyze")
       \/ WriteOutcome(a, "empty", "reviewScore")
       \/ FailRun(a, "failed")
    /\ UNCHANGED <<rows, env>>

\* The provider answers, times out, cannot upload a document, or fails.  An
\* answer that matches no stored answer yields no ai_responses row.
Analyze(a) ==
    /\ At(a, "analyze")
    /\ \/ WriteOutcome(a, "graded", "responses")
       \/ WriteOutcome(a, "graded", "reviewDone")
       \/ WriteOutcome(a, "fallback", "reviewScore")
       \/ FailRun(a, "upload")
       \/ FailRun(a, "failed")
    /\ UNCHANGED <<rows, env>>

\* createAiResponsesBatch: the foreign key needs the review row.
StoreResponses(a) ==
    /\ At(a, "responses")
    /\ IF review.id = frame[a].rid THEN Go(a, "reviewDone") ELSE FailRun(a, "failed")
    /\ UNCHANGED <<rows, env>>

Outcome(a, l) == At(a, l) /\ Go(a, After[frame[a].path][l])

CompleteReview(a) ==
    /\ Outcome(a, "reviewDone")
    /\ ReviewStatusTo(frame[a].rid, "completed")
    /\ UNCHANGED <<asmt, attempts, nextId, env>>

CompleteAssessment(a) ==
    /\ Outcome(a, "asmtDone")
    /\ asmt' = [asmt EXCEPT !.status = "completed"]
    /\ UNCHANGED <<attempts, review, nextId, env>>

ScoreReview(a) ==
    /\ Outcome(a, "reviewScore")
    /\ ReviewScoreTo(frame[a].rid, Grade(a))
    /\ UNCHANGED <<asmt, attempts, nextId, env>>

ScoreAssessmentOnce(a) ==   \* a variant: only a NULL score is written
    /\ Outcome(a, "asmtScore")
    /\ asmt' = [asmt EXCEPT !.score = IF @ = NoScore THEN Grade(a) ELSE @]
    /\ UNCHANGED <<attempts, review, nextId, env>>

ScoreAssessment(a) ==
    /\ Outcome(a, "asmtScore")
    /\ asmt' = [asmt EXCEPT !.score = Grade(a)]
    /\ UNCHANGED <<attempts, review, nextId, env>>

\* assignBadge may find no tier for the grade.
AssignBadge(a) ==
    /\ Outcome(a, "badge")
    /\ \E b \in {NoBadge, frame[a].rid} : asmt' = [asmt EXCEPT !.badge = b]
    /\ UNCHANGED <<attempts, review, nextId, env>>

\* updateAiReviewStatus(reviewId, 'failed') after the revert.
MarkFailed(a) ==
    /\ pc[a] \in {"markFailed", "markAgain"}
    /\ ReviewStatusTo(frame[a].rid, "failed")
    /\ Go(a, "notifyFailure")
    /\ UNCHANGED <<asmt, attempts, nextId, env>>

NotifyFailure(a) ==
    /\ At(a, "notifyFailure")
    /\ Go(a, "done")
    /\ UNCHANGED <<rows, env>>

\* The last resort of handleNetworkTimeoutFallback, after its revert.
FallbackDelete(a) ==
    /\ At(a, "fallbackDelete")
    /\ DeleteReview(frame[a].rid)
    /\ Go(a, "done")
    /\ UNCHANGED <<asmt, attempts, nextId, env>>

RunStep(a) ==
    \/ LoadAnswers(a) \/ Analyze(a) \/ StoreResponses(a)
    \/ CompleteReview(a) \/ CompleteAssessment(a)
    \/ ScoreReview(a) \/ ScoreAssessment(a) \/ AssignBadge(a)
    \/ MarkFailed(a) \/ NotifyFailure(a) \/ FallbackDelete(a)

-----------------------------------------------------------------------------
(* getAssessmentScore: a read that completes a stale assessment *)

PollRead(g) ==
    /\ At(g, "idle")
    /\ asmt.score = NoScore \/ asmt.status = "ai_reviewing"
    /\ MoveTo(g, "pollReview", [frame[g] EXCEPT !.snap = asmt])
    /\ UNCHANGED <<rows, env>>

AnyScoreSignals(old) ==   \* a variant: a score is enough
    old.score # NoScore \/ review.score # NoScore

FinalizedScoreSignals(old) ==
    /\ old.score # NoScore \/ review.score # NoScore
    /\ \/ review.status = "completed"
       \/ /\ old.status = "ai_reviewing"
          /\ old.badge # NoBadge
          /\ review.score # NoScore

PollReview(g) ==
    /\ At(g, "pollReview")
    /\ IF /\ Exists
          /\ frame[g].snap.status # "completed"
          /\ FinalizedScoreSignals(frame[g].snap)
       THEN MoveTo(g, "heal", EmptyFrame)
       ELSE Go(g, "idle")
    /\ UNCHANGED <<rows, env>>

PollHeal(g) ==
    /\ At(g, "heal")
    /\ asmt' = [asmt EXCEPT !.status = "completed"]
    /\ Go(g, "idle")
    /\ UNCHANGED <<attempts, review, nextId, env>>

PollStep(g) == PollReview(g) \/ PollHeal(g)

-----------------------------------------------------------------------------
(* AiReviewRetryService.runSweep.  The cooldown is a matter of time: a     *)
(* failed review becomes eligible at some later tick.                      *)

SweepFindOverlapping(w) ==   \* a variant: no running flag
    /\ At(w, "idle")
    /\ review.status = "failed" /\ attempts < MaxAttempts
    /\ running' = TRUE
    /\ Go(w, "record")
    /\ UNCHANGED <<rows, faults, crashes, sweepRuns>>

SweepFind(w) ==
    /\ At(w, "idle")
    /\ ~running
    /\ review.status = "failed" /\ attempts < MaxAttempts
    /\ running' = TRUE
    /\ Go(w, "record")
    /\ UNCHANGED <<rows, faults, crashes, sweepRuns>>

RecordRetryAttempt(w) ==
    /\ At(w, "record")
    /\ attempts' = attempts + 1
    /\ Go(w, "resubmit")
    /\ UNCHANGED <<asmt, review, nextId, env>>

SweepResubmit(w) ==
    /\ At(w, "resubmit")
    /\ SubmitRow
    /\ sweepRuns' = sweepRuns + 1
    /\ Go(w, "find")
    /\ UNCHANGED <<attempts, review, nextId, running, faults, crashes>>

SweepEndHeld(w) ==   \* a variant: the flag is not released
    /\ At(w, "done")
    /\ Go(w, "idle")
    /\ UNCHANGED <<rows, env>>

\* retryAssessment swallows every error, so the sweep always releases the flag.
SweepEnd(w) ==
    /\ At(w, "done")
    /\ running' = FALSE
    /\ Go(w, "idle")
    /\ UNCHANGED <<rows, faults, crashes, sweepRuns>>

SweepStep(w) == RecordRetryAttempt(w) \/ SweepResubmit(w) \/ SweepEnd(w)

-----------------------------------------------------------------------------
(* The admins' requests *)

DebugRetry(d) ==
    /\ At(d, "idle")
    /\ Go(d, "find")
    /\ UNCHANGED <<rows, env>>

ForceReset(x) ==
    /\ At(x, "idle")
    /\ Go(x, "rvFind")
    /\ UNCHANGED <<rows, env>>

-----------------------------------------------------------------------------
(* Failures.  A failing database call changes nothing and throws.          *)

Throw(a) ==
    /\ faults < MaxFaults /\ pc[a] \in FaultAt
    /\ faults' = faults + 1
    /\ UNCHANGED <<rows, running, crashes, sweepRuns>>

\* Nothing catches it but the caller: a 500, or the end of this retry.
FaultInRequest(a) ==
    /\ pc[a] \in SubmitSteps \cup SweepSteps
    /\ Throw(a)
    /\ Go(a, "done")

FaultInPoll(g) ==
    /\ pc[g] \in PollSteps
    /\ Throw(g)
    /\ Go(g, "idle")

FaultInTrigger(a) ==
    /\ pc[a] \in TriggerSteps
    /\ Throw(a)
    /\ Go(a, Rejected(a))

\* A fault of the fallback has a handler of its own.
InFallback(a) == frame[a].path = "fallback" /\ pc[a] \in OutcomeSteps

FaultInRun(a) ==
    /\ pc[a] \in RunSteps /\ ~InFallback(a)
    /\ Throw(a)
    /\ FailRun(a, "failed")

FaultInFallback(a) ==
    /\ InFallback(a)
    /\ Throw(a)
    /\ MoveTo(a, "rvFind", [frame[a] EXCEPT !.ret = "fallbackDelete"])

\* What the caller does when the revert throws: a failed run still marks its
\* review, every other caller ends.
RevertRejected(a) ==
    IF frame[a].ret # "markFailed" THEN "done"
    ELSE IF frame[a].path = "upload" THEN "markFailed" ELSE "markAgain"

\* The first read is outside the try block that forces the revert.
FaultInRevert(a) ==
    /\ pc[a] \in RevertSteps
    /\ Throw(a)
    /\ \/ pc[a] # "rvForce" /\ Go(a, "rvForce")
       \/ pc[a] \in {"rvFind", "rvForce"} /\ Go(a, RevertRejected(a))

\* The upload branch leaves its error to the outer handler, which reverts
\* once more; the general branch tries the update a second time.
FaultInMarking(a) ==
    /\ Throw(a)
    /\ \/ At(a, "markAgain") /\ Go(a, Rejected(a))
       \/ /\ At(a, "markFailed")
          /\ IF frame[a].path = "upload" THEN FailRun(a, "failed") ELSE Go(a, "markAgain")

FaultInHandler(a) ==
    /\ pc[a] \in {"fallbackDelete", "catch"}
    /\ Throw(a)
    /\ Go(a, "done")

DbFault(a) ==
    \/ FaultInRequest(a) \/ FaultInPoll(a) \/ FaultInTrigger(a) \/ FaultInRun(a)
    \/ FaultInFallback(a) \/ FaultInRevert(a) \/ FaultInMarking(a)
    \/ FaultInHandler(a)

\* The process dies and restarts: every call in flight is lost, rows persist.
Crash ==
    /\ crashes < MaxCrashes
    /\ crashes' = crashes + 1
    /\ pc' = [a \in Actors |->
                IF a \in Sweeps \cup Polls \/ pc[a] = "idle" THEN "idle" ELSE "done"]
    /\ frame' = [a \in Actors |-> EmptyFrame]
    /\ running' = FALSE
    /\ UNCHANGED <<rows, faults, sweepRuns>>

-----------------------------------------------------------------------------
Init ==
    /\ asmt = NewAssessment
    /\ attempts = 0
    /\ review = NoReview
    /\ nextId = 1
    /\ pc = [a \in Actors |-> "idle"]
    /\ frame = [a \in Actors |-> EmptyFrame]
    /\ running = FALSE
    /\ faults = 0 /\ crashes = 0 /\ sweepRuns = 0

\* A call that was started and whose awaited database call returned.
Continue(a) ==
    \/ a \in Submits /\ SubmitStep(a)
    \/ a \in Submits \cup Retries \cup Resets \cup Sweeps /\ RevertStep(a)
    \/ a \in Runners /\ (TriggerStep(a) \/ RunStep(a))
    \/ a \in Polls /\ PollStep(a)
    \/ a \in Sweeps /\ SweepStep(a)

Start(a) ==
    \/ a \in Submits /\ SubmitRead(a)
    \/ a \in Retries /\ DebugRetry(a)
    \/ a \in Resets /\ ForceReset(a)
    \/ a \in Polls /\ PollRead(a)
    \/ a \in Sweeps /\ SweepFind(a)

Next == (\E a \in Actors : Start(a) \/ Continue(a) \/ DbFault(a)) \/ Crash

Spec == Init /\ [][Next]_vars

\* The event loop resumes every call, every database call returns and the
\* provider race is cut off by its timer; the cron job keeps ticking.  Nobody
\* has to send a request.
Fairness ==
    /\ \A a \in Actors : WF_vars(Continue(a))
    /\ \A w \in Sweeps : WF_vars(SweepFind(w))

FairSpec == Spec /\ Fairness

-----------------------------------------------------------------------------
(* Properties *)

TypeOK ==
    /\ asmt \in AssessmentRows
    /\ attempts \in Nat
    /\ review \in ReviewRows
    /\ nextId \in Nat \ {0}
    /\ pc \in [Actors -> Labels]
    /\ frame \in [Actors -> Frames]
    /\ running \in BOOLEAN
    /\ faults \in Nat /\ crashes \in Nat /\ sweepRuns \in Nat

\* The retry job never re-drives an assessment more than MAX_ATTEMPTS times, and
\* never starts a run it has not counted first, whatever fails, crashes or
\* overlaps with it (recordRetryAttempt before submitAndSetStatus, the running
\* flag around the sweep).
RetryCap == sweepRuns <= attempts /\ attempts <= MaxAttempts

\* A review row carries no grade but the one its own run computed: a run that
\* was overtaken updates by review id, so its late result never lands on the
\* row of the run that replaced it (updateScoreSummary, updateAiReviewStatus).
ReviewKeepsItsOwnGrade ==
    /\ review.score \in {NoScore, Zero, review.id}
    /\ review.status = "completed" =>
          ~\E a \in Runners : frame[a].rid = review.id /\ pc[a] \in {"start", "load", "analyze"}

\* Some call in flight is bound to write the assessment's status: it runs the
\* review towards its outcome, reverts the submission, or is about to trigger.
Driving(a) ==
    \/ pc[a] \in {"details", "start", "load", "analyze", "responses",
                  "reviewDone", "asmtDone", "catch"} \cup RevertSteps
    \/ frame[a].path \in {"empty", "fallback"} /\ pc[a] \in OutcomeSteps
    \/ a \in Submits \cup Sweeps /\ pc[a] \in TriggerSteps

\* An assessment shown as under AI review is being worked on: no interleaving
\* of submissions, debug retries, resets and sweeps leaves it in ai_reviewing
\* with nobody left to complete or revert it.
ReviewingHasDriver ==
    asmt.status = "ai_reviewing" => \E a \in Actors : Driving(a)

Settled == \A a \in Actors \ Polls : pc[a] \in {"idle", "done"}

\* Once all calls have ended, a completed assessment is submitted, and its
\* score, its badge and its review row tell of one and the same review.
CompletedAgrees ==
    Settled /\ asmt.status = "completed" =>
        /\ asmt.submitted
        /\ review.status = "completed"
        /\ asmt.score = review.score
        /\ asmt.badge \in {NoBadge, asmt.score}

\* The owner is never left waiting: a review under way comes to an end.
ReviewingEnds == asmt.status = "ai_reviewing" ~> asmt.status # "ai_reviewing"

\* A review kept as failed is re-run by the retry job (or replaced by a
\* submission) until its attempts are used up.
FailedIsRetried ==
    review.status = "failed" ~> (review.status # "failed" \/ attempts = MaxAttempts)

Lifecycle == INSTANCE SubmissionLifecycle WITH
    phase <- CASE asmt.status = "in_progress"  -> "open"
               [] asmt.status = "ai_reviewing" -> "reviewing"
               [] asmt.status = "completed"    -> "closed"

\* One submission and its automatic retries keep the promise to the owner.
KeepsLifecycle == Lifecycle!Spec
=============================================================================
