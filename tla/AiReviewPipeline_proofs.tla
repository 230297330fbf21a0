----------------------- MODULE AiReviewPipeline_proofs -----------------------
(***************************************************************************)
(* Proofs about the review pipeline, for any sets of requests and any      *)
(* bounds on failures: type correctness, the retry cap, and that no run    *)
(* ever writes its grade on the review row of another run.                 *)
(***************************************************************************)
EXTENDS AiReviewPipeline, TLAPS

\* The outcome steps look After up by the path, so it must be one of the three
\* that reach the rows.
PathOK ==
    \A a \in Actors : pc[a] \in OutcomeSteps \cup {"responses"} =>
        frame[a].path \in DOMAIN After

\* TypeOK is not inductive without PathOK.
TypeInv == TypeOK /\ PathOK

LEMMA InitialRows ==
    /\ NewAssessment \in AssessmentRows
    /\ EmptyFrame \in Frames
    /\ NoReview \in ReviewRows
BY DEF NewAssessment, AssessmentRows, AsmtStatuses, Scores, NoScore, NoBadge,
       EmptyFrame, Frames, NoId, Paths, Returns, NoReview, ReviewRows, ReviewStatuses

\* Every outcome table entry is an outcome step or the end.
LEMMA AfterIsALabel ==
    ASSUME NEW p \in DOMAIN After, NEW l \in OutcomeSteps
    PROVE  After[p][l] \in OutcomeSteps \cup {"done"}
BY DEF After, OutcomeSteps

\* A step moves one actor, and knows the outcome when it gets to writing it.
Moves(a) ==
    \E l \in Labels, f \in Frames :
        /\ MoveTo(a, l, f)
        /\ l \in OutcomeSteps \cup {"responses"} => f.path \in DOMAIN After

RowsTyped ==
    /\ asmt \in AssessmentRows /\ attempts \in Nat
    /\ review \in ReviewRows /\ nextId \in Nat \ {0}
EnvTyped == running \in BOOLEAN /\ faults \in Nat /\ crashes \in Nat /\ sweepRuns \in Nat

LEMMA MovesKeepTypes ==
    ASSUME TypeInv, NEW a \in Actors, Moves(a), RowsTyped', EnvTyped'
    PROVE  TypeInv'
BY DEF TypeInv, TypeOK, PathOK, Moves, MoveTo, RowsTyped, EnvTyped

LEMMA RowUpdatesAreTyped ==
    ASSUME TypeOK, NEW i \in Nat
    PROVE  /\ \A s \in ReviewStatuses : ReviewStatusTo(i, s) => review' \in ReviewRows
           /\ \A n \in Scores : ReviewScoreTo(i, n) => review' \in ReviewRows
           /\ DeleteReview(i) => review' \in ReviewRows
           /\ SubmitRow \/ RevertRow => asmt' \in AssessmentRows
BY InitialRows DEF TypeOK, ReviewStatusTo, ReviewScoreTo, DeleteReview, ReviewRows,
       SubmitRow, RevertRow, AssessmentRows, AsmtStatuses, Scores, NoReview

LEMMA LocalsAreTyped ==
    ASSUME TypeOK, NEW a \in Actors
    PROVE  /\ frame[a] \in Frames /\ EmptyFrame \in Frames
           /\ [frame[a] EXCEPT !.snap = asmt] \in Frames
           /\ [frame[a] EXCEPT !.seen = review.id] \in Frames
           /\ [frame[a] EXCEPT !.seen = NoId] \in Frames
           /\ [frame[a] EXCEPT !.rid = nextId] \in Frames
           /\ [frame[a] EXCEPT !.ret = "fallbackDelete"] \in Frames
           /\ [EmptyFrame EXCEPT !.seen = review.id] \in Frames
           /\ [EmptyFrame EXCEPT !.ret = "refetch"] \in Frames
           /\ \A p \in Paths :
                 /\ [frame[a] EXCEPT !.path = p] \in Frames
                 /\ [frame[a] EXCEPT !.path = p].path = p
                 /\ [frame[a] EXCEPT !.path = p, !.ret = "markFailed"] \in Frames
BY InitialRows DEF TypeOK, Frames, ReviewRows, NoId, Returns

\* Every step but those that write an outcome.
Early == Labels \ (OutcomeSteps \cup {"responses"})

LEMMA EarlySteps ==
    /\ SubmitSteps \cup TriggerSteps \cup RevertSteps \cup FailureSteps \cup PollSteps
          \cup SweepSteps \cup Returns \cup {"idle", "done", "load", "analyze"} \subseteq Early
    /\ Early \subseteq Labels
    /\ OutcomeSteps \cup {"responses"} \subseteq Labels
BY DEF Early, Labels, SubmitSteps, TriggerSteps, OutcomeSteps, RunSteps, RevertSteps,
       FailureSteps, PollSteps, SweepSteps, Returns

\* A move to an early step, whatever it does to the actor's locals, and a move
\* that keeps the locals.
LEMMA EarlyMoves ==
    ASSUME TypeOK, NEW a \in Actors, NEW l \in Early
    PROVE  /\ Go(a, l) => Moves(a)
           /\ \A f \in Frames : MoveTo(a, l, f) => Moves(a)
BY LocalsAreTyped DEF Early, Go, Moves

\* The steps of the run's outcome: the path names a row of After.
LEMMA OutcomeMoves ==
    ASSUME TypeInv, NEW a \in Actors, NEW l \in OutcomeSteps, Outcome(a, l)
    PROVE  Moves(a)
<1>1. At(a, l) /\ Go(a, After[frame[a].path][l])
  BY DEF Outcome
<1>2. frame[a] \in Frames /\ frame[a].path \in DOMAIN After
  BY <1>1 DEF TypeInv, TypeOK, PathOK, At
<1>3. After[frame[a].path][l] \in OutcomeSteps \cup {"done"}
  BY <1>2, AfterIsALabel
<1>4. CASE After[frame[a].path][l] = "done"
  BY <1>1, <1>4, EarlySteps, EarlyMoves DEF TypeInv
<1>5. CASE After[frame[a].path][l] \in OutcomeSteps
  BY <1>1, <1>2, <1>5, EarlySteps DEF Go, Moves, OutcomeSteps
<1> QED BY <1>3, <1>4, <1>5

\* A run decides on its outcome, or gives up.
LEMMA DecisionMoves ==
    ASSUME TypeInv, NEW a \in Actors
    PROVE  /\ \A q \in DOMAIN After, l \in OutcomeSteps \cup {"responses"} :
                 WriteOutcome(a, q, l) => Moves(a)
           /\ \A q \in Paths : FailRun(a, q) => Moves(a)
<1>1. DOMAIN After \subseteq Paths
  BY DEF After, Paths
<1>2. ASSUME NEW q \in DOMAIN After, NEW l \in OutcomeSteps \cup {"responses"},
             WriteOutcome(a, q, l)
      PROVE  Moves(a)
  BY <1>1, <1>2, LocalsAreTyped, EarlySteps DEF TypeInv, WriteOutcome, Moves
<1>3. ASSUME NEW q \in Paths, FailRun(a, q)
      PROVE  Moves(a)
  BY <1>3, LocalsAreTyped, EarlySteps, EarlyMoves DEF TypeInv, FailRun, RevertSteps
<1> QED BY <1>2, <1>3

LEMMA SubmitTypes ==
    ASSUME TypeInv, NEW a \in Submits, SubmitRead(a) \/ SubmitStep(a)
    PROVE  RowsTyped' /\ EnvTyped' /\ Moves(a)
<1>1. /\ TypeOK /\ a \in Actors /\ frame[a] \in Frames
      /\ frame[a].seen \in Nat /\ frame[a].rid \in Nat /\ frame[a].ret \in Returns
  BY DEF TypeInv, TypeOK, Actors, Runners, Frames
<1>2. CASE SubmitRead(a)
  <2>1. RowsTyped' /\ EnvTyped'
    BY <1>1, <1>2, RowUpdatesAreTyped
    DEF SubmitRead, TypeOK, RowsTyped, EnvTyped, rows, env
  <2>2. Moves(a)
    BY <1>1, <1>2, EarlySteps, EarlyMoves, LocalsAreTyped
    DEF SubmitRead, SubmitSteps
  <2> QED BY <2>1, <2>2
<1>3. CASE SubmitReadReview(a)
  <2>1. RowsTyped' /\ EnvTyped'
    BY <1>1, <1>3, RowUpdatesAreTyped
    DEF SubmitReadReview, TypeOK, RowsTyped, EnvTyped, rows, env
  <2>2. Moves(a)
    BY <1>1, <1>3, EarlySteps, EarlyMoves, LocalsAreTyped
    DEF SubmitReadReview, SubmitSteps, RevertSteps,
        FailureSteps
  <2> QED BY <2>1, <2>2
<1>4. CASE SubmitCleanup(a)
  <2>1. RowsTyped' /\ EnvTyped'
    BY <1>1, <1>4, RowUpdatesAreTyped
    DEF SubmitCleanup, TypeOK, RowsTyped, EnvTyped, rows, env, DeleteSeen
  <2>2. Moves(a)
    BY <1>1, <1>4, EarlySteps, EarlyMoves, LocalsAreTyped
    DEF SubmitCleanup, DeleteSeen, SubmitSteps
  <2> QED BY <2>1, <2>2
<1>5. CASE SubmitRefetch(a)
  <2>1. RowsTyped' /\ EnvTyped'
    BY <1>1, <1>5, RowUpdatesAreTyped
    DEF SubmitRefetch, TypeOK, RowsTyped, EnvTyped, rows, env
  <2>2. Moves(a)
    BY <1>1, <1>5, EarlySteps, EarlyMoves, LocalsAreTyped
    DEF SubmitRefetch, SubmitSteps
  <2> QED BY <2>1, <2>2
<1>6. CASE SubmitPrecheck(a)
  <2>1. RowsTyped' /\ EnvTyped'
    BY <1>1, <1>6, RowUpdatesAreTyped
    DEF SubmitPrecheck, TypeOK, RowsTyped, EnvTyped, rows, env
  <2>2. Moves(a)
    BY <1>1, <1>6, EarlySteps, EarlyMoves, LocalsAreTyped
    DEF SubmitPrecheck, SubmitSteps
  <2> QED BY <2>1, <2>2
<1>7. CASE SubmitDropFailed(a)
  <2>1. RowsTyped' /\ EnvTyped'
    BY <1>1, <1>7, RowUpdatesAreTyped
    DEF SubmitDropFailed, TypeOK, RowsTyped, EnvTyped, rows, env, DeleteSeen
  <2>2. Moves(a)
    BY <1>1, <1>7, EarlySteps, EarlyMoves, LocalsAreTyped
    DEF SubmitDropFailed, DeleteSeen, SubmitSteps
  <2> QED BY <2>1, <2>2
<1>8. CASE SubmitSetStatus(a)
  <2>1. RowsTyped' /\ EnvTyped'
    BY <1>1, <1>8, RowUpdatesAreTyped
    DEF SubmitSetStatus, TypeOK, RowsTyped, EnvTyped, rows, env
  <2>2. Moves(a)
    BY <1>1, <1>8, EarlySteps, EarlyMoves, LocalsAreTyped
    DEF SubmitSetStatus, SubmitSteps
  <2> QED BY <2>1, <2>2
<1>9. CASE SubmitDetails(a)
  <2>1. RowsTyped' /\ EnvTyped'
    BY <1>1, <1>9, RowUpdatesAreTyped
    DEF SubmitDetails, TypeOK, RowsTyped, EnvTyped, rows, env
  <2>2. Moves(a)
    BY <1>1, <1>9, EarlySteps, EarlyMoves, LocalsAreTyped
    DEF SubmitDetails, SubmitSteps, TriggerSteps
  <2> QED BY <2>1, <2>2
<1>10. CASE SubmitCatch(a)
  <2>1. RowsTyped' /\ EnvTyped'
    BY <1>1, <1>10, RowUpdatesAreTyped
    DEF SubmitCatch, TypeOK, RowsTyped, EnvTyped, rows, env
  <2>2. Moves(a)
    BY <1>1, <1>10, EarlySteps, EarlyMoves, LocalsAreTyped
    DEF SubmitCatch, SubmitSteps, RevertSteps, FailureSteps
  <2> QED BY <2>1, <2>2
<1> QED BY <1>1, <1>2, <1>3, <1>4, <1>5, <1>6, <1>7, <1>8, <1>9, <1>10 DEF SubmitStep

LEMMA RevertTypes ==
    ASSUME TypeInv, NEW a \in Actors, RevertStep(a)
    PROVE  RowsTyped' /\ EnvTyped' /\ Moves(a)
<1>1. /\ TypeOK /\ a \in Actors /\ frame[a] \in Frames
      /\ frame[a].seen \in Nat /\ frame[a].rid \in Nat /\ frame[a].ret \in Returns
  BY DEF TypeInv, TypeOK, Actors, Runners, Frames
<1>2. CASE RevertFind(a)
  <2>1. RowsTyped' /\ EnvTyped'
    BY <1>1, <1>2, RowUpdatesAreTyped
    DEF RevertFind, TypeOK, RowsTyped, EnvTyped, rows, env
  <2>2. Moves(a)
    BY <1>1, <1>2, EarlySteps, EarlyMoves, LocalsAreTyped
    DEF RevertFind, RevertSteps, FailureSteps
  <2> QED BY <2>1, <2>2
<1>3. CASE RevertDelete(a)
  <2>1. RowsTyped' /\ EnvTyped'
    BY <1>1, <1>3, RowUpdatesAreTyped
    DEF RevertDelete, DeleteSeen, TypeOK, RowsTyped, EnvTyped, rows, env
  <2>2. Moves(a)
    BY <1>1, <1>3, EarlySteps, EarlyMoves, LocalsAreTyped
    DEF RevertDelete, RevertSteps, FailureSteps, DeleteSeen
  <2> QED BY <2>1, <2>2
<1>4. CASE RevertWrite(a)
  <2>1. RowsTyped' /\ EnvTyped'
    BY <1>1, <1>4, RowUpdatesAreTyped
    DEF RevertWrite, TypeOK, RowsTyped, EnvTyped, rows, env
  <2>2. Moves(a)
    BY <1>1, <1>4, EarlySteps, EarlyMoves, LocalsAreTyped
    DEF RevertWrite, RevertSteps, FailureSteps
  <2> QED BY <2>1, <2>2
<1> QED BY <1>1, <1>2, <1>3, <1>4 DEF RevertStep

LEMMA TriggerTypes ==
    ASSUME TypeInv, NEW a \in Runners, TriggerStep(a)
    PROVE  RowsTyped' /\ EnvTyped' /\ Moves(a)
<1>1. /\ TypeOK /\ a \in Actors /\ frame[a] \in Frames
      /\ frame[a].seen \in Nat /\ frame[a].rid \in Nat /\ frame[a].ret \in Returns
  BY DEF TypeInv, TypeOK, Actors, Runners, Frames
<1>2. CASE TriggerFind(a)
  <2>1. RowsTyped' /\ EnvTyped'
    BY <1>1, <1>2, RowUpdatesAreTyped
    DEF TriggerFind, TypeOK, RowsTyped, EnvTyped, rows, env
  <2>2. Moves(a)
    BY <1>1, <1>2, EarlySteps, EarlyMoves, LocalsAreTyped DEF TriggerFind, TriggerSteps
  <2> QED BY <2>1, <2>2
<1>3. CASE TriggerDelete(a)
  <2>1. RowsTyped' /\ EnvTyped'
    BY <1>1, <1>3, RowUpdatesAreTyped
    DEF TriggerDelete, DeleteSeen, TypeOK, RowsTyped, EnvTyped, rows, env
  <2>2. Moves(a)
    BY <1>1, <1>3, EarlySteps, EarlyMoves, LocalsAreTyped
    DEF TriggerDelete, DeleteSeen, TriggerSteps
  <2> QED BY <2>1, <2>2
<1>4. CASE TriggerClearBadge(a)
  <2>1. RowsTyped' /\ EnvTyped'
    BY <1>1, <1>4, RowUpdatesAreTyped
    DEF TriggerClearBadge, AssessmentRows, NoBadge, TypeOK, RowsTyped, EnvTyped, rows,
        env
  <2>2. Moves(a)
    BY <1>1, <1>4, EarlySteps, EarlyMoves, LocalsAreTyped
    DEF TriggerClearBadge, TriggerSteps
  <2> QED BY <2>1, <2>2
<1>5. CASE TriggerClearScore(a)
  <2>1. RowsTyped' /\ EnvTyped'
    BY <1>1, <1>5, RowUpdatesAreTyped
    DEF TriggerClearScore, AssessmentRows, Scores, Zero, TypeOK, RowsTyped, EnvTyped,
        rows, env
  <2>2. Moves(a)
    BY <1>1, <1>5, EarlySteps, EarlyMoves, LocalsAreTyped
    DEF TriggerClearScore, TriggerSteps
  <2> QED BY <2>1, <2>2
<1>6. CASE CreateAiReview(a)
  <2>1. RowsTyped' /\ EnvTyped'
    BY <1>1, <1>6, RowUpdatesAreTyped
    DEF CreateAiReview, ReviewRows, ReviewStatuses, Scores, NoScore, TypeOK, RowsTyped,
        EnvTyped, rows, env
  <2>2. Moves(a)
    BY <1>1, <1>6, EarlySteps, EarlyMoves, LocalsAreTyped
    DEF CreateAiReview, Rejected, TriggerSteps, FailureSteps
  <2> QED BY <2>1, <2>2
<1>7. CASE TriggerStart(a)
  <2>1. RowsTyped' /\ EnvTyped'
    BY <1>1, <1>7, RowUpdatesAreTyped
    DEF TriggerStart, ReviewStatuses, TypeOK, RowsTyped, EnvTyped, rows, env
  <2>2. Moves(a)
    BY <1>1, <1>7, EarlySteps, EarlyMoves, LocalsAreTyped DEF TriggerStart, TriggerSteps
  <2> QED BY <2>1, <2>2
<1> QED BY <1>1, <1>2, <1>3, <1>4, <1>5, <1>6, <1>7 DEF TriggerStep

LEMMA RunTypes ==
    ASSUME TypeInv, NEW a \in Runners, RunStep(a)
    PROVE  RowsTyped' /\ EnvTyped' /\ Moves(a)
<1>1. /\ TypeOK /\ a \in Actors /\ frame[a] \in Frames
      /\ frame[a].seen \in Nat /\ frame[a].rid \in Nat /\ frame[a].ret \in Returns
  BY DEF TypeInv, TypeOK, Actors, Runners, Frames
<1>2. CASE LoadAnswers(a)
  <2>1. RowsTyped' /\ EnvTyped'
    BY <1>1, <1>2, RowUpdatesAreTyped
    DEF LoadAnswers, TypeOK, RowsTyped, EnvTyped, rows, env
  <2>2. Moves(a)
    BY <1>1, <1>2, EarlySteps, EarlyMoves, DecisionMoves
    DEF LoadAnswers, OutcomeSteps, After, Paths
  <2> QED BY <2>1, <2>2
<1>3. CASE Analyze(a)
  <2>1. RowsTyped' /\ EnvTyped'
    BY <1>1, <1>3, RowUpdatesAreTyped DEF Analyze, TypeOK, RowsTyped, EnvTyped, rows, env
  <2>2. Moves(a)
    BY <1>1, <1>3, DecisionMoves DEF Analyze, OutcomeSteps, After, Paths
  <2> QED BY <2>1, <2>2
<1>4. CASE StoreResponses(a)
  <2>1. RowsTyped' /\ EnvTyped'
    BY <1>1, <1>4, RowUpdatesAreTyped
    DEF StoreResponses, TypeOK, RowsTyped, EnvTyped, rows, env
  <2>2. Moves(a)
    <3>1. frame[a].path \in DOMAIN After
      BY <1>1, <1>4 DEF StoreResponses, At, TypeInv, PathOK
    <3>2. CASE Go(a, "reviewDone")
      <4>1. "reviewDone" \in Labels
        BY DEF Labels, RunSteps, OutcomeSteps
      <4>2. MoveTo(a, "reviewDone", frame[a])
        BY <3>2 DEF Go
      <4> QED BY <1>1, <3>1, <4>1, <4>2 DEF Moves
    <3>3. CASE FailRun(a, "failed")
      BY <1>1, <3>3, DecisionMoves DEF Paths
    <3> QED BY <1>4, <3>2, <3>3 DEF StoreResponses
  <2> QED BY <2>1, <2>2
<1>5. CASE CompleteReview(a)
  <2>1. RowsTyped' /\ EnvTyped'
    BY <1>1, <1>5, RowUpdatesAreTyped
    DEF CompleteReview, ReviewStatuses, TypeOK, RowsTyped, EnvTyped, rows, env
  <2>2. Moves(a)
    BY <1>1, <1>5, OutcomeMoves DEF CompleteReview, OutcomeSteps
  <2> QED BY <2>1, <2>2
<1>6. CASE CompleteAssessment(a)
  <2>1. RowsTyped' /\ EnvTyped'
    BY <1>1, <1>6, RowUpdatesAreTyped
    DEF CompleteAssessment, AssessmentRows, AsmtStatuses, TypeOK, RowsTyped, EnvTyped,
        rows, env
  <2>2. Moves(a)
    BY <1>1, <1>6, OutcomeMoves DEF CompleteAssessment, OutcomeSteps
  <2> QED BY <2>1, <2>2
<1>7. CASE ScoreReview(a)
  <2>1. RowsTyped' /\ EnvTyped'
    BY <1>1, <1>7, RowUpdatesAreTyped
    DEF ScoreReview, Grade, Scores, Zero, TypeOK, RowsTyped, EnvTyped, rows, env
  <2>2. Moves(a)
    BY <1>1, <1>7, OutcomeMoves DEF ScoreReview, OutcomeSteps
  <2> QED BY <2>1, <2>2
<1>8. CASE ScoreAssessment(a)
  <2>1. RowsTyped' /\ EnvTyped'
    BY <1>1, <1>8, RowUpdatesAreTyped
    DEF ScoreAssessment, Grade, Scores, Zero, AssessmentRows, TypeOK, RowsTyped,
        EnvTyped, rows, env
  <2>2. Moves(a)
    BY <1>1, <1>8, OutcomeMoves DEF ScoreAssessment, OutcomeSteps
  <2> QED BY <2>1, <2>2
<1>9. CASE AssignBadge(a)
  <2>1. RowsTyped' /\ EnvTyped'
    BY <1>1, <1>9, RowUpdatesAreTyped
    DEF AssignBadge, NoBadge, AssessmentRows, TypeOK, RowsTyped, EnvTyped, rows, env
  <2>2. Moves(a)
    BY <1>1, <1>9, OutcomeMoves DEF AssignBadge, OutcomeSteps
  <2> QED BY <2>1, <2>2
<1>10. CASE MarkFailed(a)
  <2>1. RowsTyped' /\ EnvTyped'
    BY <1>1, <1>10, RowUpdatesAreTyped
    DEF MarkFailed, ReviewStatuses, TypeOK, RowsTyped, EnvTyped, rows, env
  <2>2. Moves(a)
    BY <1>1, <1>10, EarlySteps, EarlyMoves, LocalsAreTyped DEF MarkFailed, FailureSteps
  <2> QED BY <2>1, <2>2
<1>11. CASE NotifyFailure(a)
  <2>1. RowsTyped' /\ EnvTyped'
    BY <1>1, <1>11, RowUpdatesAreTyped
    DEF NotifyFailure, TypeOK, RowsTyped, EnvTyped, rows, env
  <2>2. Moves(a)
    BY <1>1, <1>11, EarlySteps, EarlyMoves, LocalsAreTyped DEF NotifyFailure, FailureSteps
  <2> QED BY <2>1, <2>2
<1>12. CASE FallbackDelete(a)
  <2>1. RowsTyped' /\ EnvTyped'
    BY <1>1, <1>12, RowUpdatesAreTyped
    DEF FallbackDelete, TypeOK, RowsTyped, EnvTyped, rows, env
  <2>2. Moves(a)
    BY <1>1, <1>12, EarlySteps, EarlyMoves, LocalsAreTyped
    DEF FallbackDelete, FailureSteps
  <2> QED BY <2>1, <2>2
<1> QED BY <1>1, <1>2, <1>3, <1>4, <1>5, <1>6, <1>7, <1>8, <1>9, <1>10, <1>11, <1>12
        DEF RunStep

LEMMA PollTypes ==
    ASSUME TypeInv, NEW a \in Polls, PollRead(a) \/ PollStep(a)
    PROVE  RowsTyped' /\ EnvTyped' /\ Moves(a)
<1>1. /\ TypeOK /\ a \in Actors /\ frame[a] \in Frames
      /\ frame[a].seen \in Nat /\ frame[a].rid \in Nat /\ frame[a].ret \in Returns
  BY DEF TypeInv, TypeOK, Actors, Runners, Frames
<1>2. CASE PollRead(a)
  <2>1. RowsTyped' /\ EnvTyped'
    BY <1>1, <1>2, RowUpdatesAreTyped DEF PollRead, TypeOK, RowsTyped, EnvTyped, rows, env
  <2>2. Moves(a)
    BY <1>1, <1>2, EarlySteps, EarlyMoves, LocalsAreTyped DEF PollRead, PollSteps
  <2> QED BY <2>1, <2>2
<1>3. CASE PollReview(a)
  <2>1. RowsTyped' /\ EnvTyped'
    BY <1>1, <1>3, RowUpdatesAreTyped
    DEF PollReview, TypeOK, RowsTyped, EnvTyped, rows, env
  <2>2. Moves(a)
    BY <1>1, <1>3, EarlySteps, EarlyMoves, LocalsAreTyped DEF PollReview, PollSteps
  <2> QED BY <2>1, <2>2
<1>4. CASE PollHeal(a)
  <2>1. RowsTyped' /\ EnvTyped'
    BY <1>1, <1>4, RowUpdatesAreTyped
    DEF PollHeal, AssessmentRows, AsmtStatuses, TypeOK, RowsTyped, EnvTyped, rows, env
  <2>2. Moves(a)
    BY <1>1, <1>4, EarlySteps, EarlyMoves, LocalsAreTyped DEF PollHeal, PollSteps
  <2> QED BY <2>1, <2>2
<1> QED BY <1>1, <1>2, <1>3, <1>4 DEF PollStep

LEMMA SweepTypes ==
    ASSUME TypeInv, NEW a \in Sweeps, SweepFind(a) \/ SweepStep(a)
    PROVE  RowsTyped' /\ EnvTyped' /\ Moves(a)
<1>1. /\ TypeOK /\ a \in Actors /\ frame[a] \in Frames
      /\ frame[a].seen \in Nat /\ frame[a].rid \in Nat /\ frame[a].ret \in Returns
  BY DEF TypeInv, TypeOK, Actors, Runners, Frames
<1>2. CASE SweepFind(a)
  <2>1. RowsTyped' /\ EnvTyped'
    BY <1>1, <1>2, RowUpdatesAreTyped
    DEF SweepFind, TypeOK, RowsTyped, EnvTyped, rows, env
  <2>2. Moves(a)
    BY <1>1, <1>2, EarlySteps, EarlyMoves, LocalsAreTyped DEF SweepFind, SweepSteps
  <2> QED BY <2>1, <2>2
<1>3. CASE RecordRetryAttempt(a)
  <2>1. RowsTyped' /\ EnvTyped'
    BY <1>1, <1>3, RowUpdatesAreTyped
    DEF RecordRetryAttempt, TypeOK, RowsTyped, EnvTyped, rows, env
  <2>2. Moves(a)
    BY <1>1, <1>3, EarlySteps, EarlyMoves, LocalsAreTyped
    DEF RecordRetryAttempt, SweepSteps
  <2> QED BY <2>1, <2>2
<1>4. CASE SweepResubmit(a)
  <2>1. RowsTyped' /\ EnvTyped'
    BY <1>1, <1>4, RowUpdatesAreTyped
    DEF SweepResubmit, TypeOK, RowsTyped, EnvTyped, rows, env
  <2>2. Moves(a)
    BY <1>1, <1>4, EarlySteps, EarlyMoves, LocalsAreTyped DEF SweepResubmit, TriggerSteps
  <2> QED BY <2>1, <2>2
<1>5. CASE SweepEnd(a)
  <2>1. RowsTyped' /\ EnvTyped'
    BY <1>1, <1>5, RowUpdatesAreTyped DEF SweepEnd, TypeOK, RowsTyped, EnvTyped, rows, env
  <2>2. Moves(a)
    BY <1>1, <1>5, EarlySteps, EarlyMoves, LocalsAreTyped DEF SweepEnd, SweepSteps
  <2> QED BY <2>1, <2>2
<1> QED BY <1>1, <1>2, <1>3, <1>4, <1>5 DEF SweepStep

LEMMA AdminTypes ==
    ASSUME TypeInv, NEW a \in Actors, DebugRetry(a) \/ ForceReset(a)
    PROVE  RowsTyped' /\ EnvTyped' /\ Moves(a)
<1>1. /\ TypeOK /\ a \in Actors /\ frame[a] \in Frames
      /\ frame[a].seen \in Nat /\ frame[a].rid \in Nat /\ frame[a].ret \in Returns
  BY DEF TypeInv, TypeOK, Actors, Runners, Frames
<1>2. CASE DebugRetry(a)
  <2>1. RowsTyped' /\ EnvTyped'
    BY <1>1, <1>2, RowUpdatesAreTyped
    DEF DebugRetry, TypeOK, RowsTyped, EnvTyped, rows, env
  <2>2. Moves(a)
    BY <1>1, <1>2, EarlySteps, EarlyMoves, LocalsAreTyped DEF DebugRetry, TriggerSteps
  <2> QED BY <2>1, <2>2
<1>3. CASE ForceReset(a)
  <2>1. RowsTyped' /\ EnvTyped'
    BY <1>1, <1>3, RowUpdatesAreTyped
    DEF ForceReset, TypeOK, RowsTyped, EnvTyped, rows, env
  <2>2. Moves(a)
    BY <1>1, <1>3, EarlySteps, EarlyMoves, LocalsAreTyped DEF ForceReset, RevertSteps
  <2> QED BY <2>1, <2>2
<1> QED BY <1>1, <1>2, <1>3

LEMMA FaultTypes ==
    ASSUME TypeInv, NEW a \in Actors, DbFault(a)
    PROVE  RowsTyped' /\ EnvTyped' /\ Moves(a)
<1>1. /\ TypeOK /\ a \in Actors /\ frame[a] \in Frames
      /\ frame[a].seen \in Nat /\ frame[a].rid \in Nat /\ frame[a].ret \in Returns
  BY DEF TypeInv, TypeOK, Actors, Runners, Frames
<1>2. CASE FaultInRequest(a)
  <2>1. RowsTyped' /\ EnvTyped'
    BY <1>1, <1>2, RowUpdatesAreTyped
    DEF FaultInRequest, Throw, TypeOK, RowsTyped, EnvTyped, rows, env
  <2>2. Moves(a)
    BY <1>1, <1>2, EarlySteps, EarlyMoves, LocalsAreTyped
    DEF FaultInRequest, FailureSteps, RevertSteps
  <2> QED BY <2>1, <2>2
<1>3. CASE FaultInPoll(a)
  <2>1. RowsTyped' /\ EnvTyped'
    BY <1>1, <1>3, RowUpdatesAreTyped
    DEF FaultInPoll, Throw, TypeOK, RowsTyped, EnvTyped, rows, env
  <2>2. Moves(a)
    BY <1>1, <1>3, EarlySteps, EarlyMoves, LocalsAreTyped
    DEF FaultInPoll, FailureSteps, RevertSteps
  <2> QED BY <2>1, <2>2
<1>4. CASE FaultInTrigger(a)
  <2>1. RowsTyped' /\ EnvTyped'
    BY <1>1, <1>4, RowUpdatesAreTyped
    DEF FaultInTrigger, Throw, TypeOK, RowsTyped, EnvTyped, rows, env
  <2>2. Moves(a)
    BY <1>1, <1>4, EarlySteps, EarlyMoves, LocalsAreTyped
    DEF FaultInTrigger, Rejected, FailureSteps
  <2> QED BY <2>1, <2>2
<1>5. CASE FaultInRun(a)
  <2>1. RowsTyped' /\ EnvTyped'
    BY <1>1, <1>5, RowUpdatesAreTyped
    DEF FaultInRun, Throw, TypeOK, RowsTyped, EnvTyped, rows, env
  <2>2. Moves(a)
    BY <1>1, <1>5, DecisionMoves DEF FaultInRun, Paths
  <2> QED BY <2>1, <2>2
<1>6. CASE FaultInFallback(a)
  <2>1. RowsTyped' /\ EnvTyped'
    BY <1>1, <1>6, RowUpdatesAreTyped
    DEF FaultInFallback, Throw, TypeOK, RowsTyped, EnvTyped, rows, env
  <2>2. Moves(a)
    BY <1>1, <1>6, EarlySteps, EarlyMoves, LocalsAreTyped
    DEF FaultInFallback, FailureSteps, RevertSteps
  <2> QED BY <2>1, <2>2
<1>7. CASE FaultInRevert(a)
  <2>1. RowsTyped' /\ EnvTyped'
    BY <1>1, <1>7, RowUpdatesAreTyped
    DEF FaultInRevert, Throw, TypeOK, RowsTyped, EnvTyped, rows, env
  <2>2. Moves(a)
    BY <1>1, <1>7, EarlySteps, EarlyMoves, LocalsAreTyped
    DEF FaultInRevert, RevertRejected, RevertSteps, FailureSteps
  <2> QED BY <2>1, <2>2
<1>8. CASE FaultInMarking(a)
  <2>1. RowsTyped' /\ EnvTyped'
    BY <1>1, <1>8, RowUpdatesAreTyped
    DEF FaultInMarking, Throw, TypeOK, RowsTyped, EnvTyped, rows, env
  <2>2. Moves(a)
    BY <1>1, <1>8, EarlySteps, EarlyMoves, DecisionMoves
    DEF FaultInMarking, Paths, Rejected, FailureSteps
  <2> QED BY <2>1, <2>2
<1>9. CASE FaultInHandler(a)
  <2>1. RowsTyped' /\ EnvTyped'
    BY <1>1, <1>9, RowUpdatesAreTyped
    DEF FaultInHandler, Throw, TypeOK, RowsTyped, EnvTyped, rows, env
  <2>2. Moves(a)
    BY <1>1, <1>9, EarlySteps, EarlyMoves, LocalsAreTyped
    DEF FaultInHandler, FailureSteps, RevertSteps
  <2> QED BY <2>1, <2>2
<1> QED BY <1>1, <1>2, <1>3, <1>4, <1>5, <1>6, <1>7, <1>8, <1>9 DEF DbFault

LEMMA CrashTypes ==
    ASSUME TypeInv, Crash
    PROVE  TypeInv'
<1>1. {"idle", "done"} \subseteq Early
  BY EarlySteps
<1>2. \A a \in Actors : pc'[a] \in Early
  BY <1>1 DEF Crash
<1>3. pc' \in [Actors -> Labels]
  BY <1>1, EarlySteps DEF Crash
<1>4. frame' \in [Actors -> Frames]
  BY InitialRows DEF Crash
<1>5. PathOK'
  BY <1>2 DEF PathOK, Early
<1>6. TypeOK'
  <2>1. RowsTyped'
    BY DEF TypeInv, TypeOK, Crash, rows, RowsTyped
  <2>2. running' \in BOOLEAN
    BY Zenon DEF Crash
  <2>3. faults' \in Nat /\ crashes' \in Nat /\ sweepRuns' \in Nat
    BY DEF TypeInv, TypeOK, Crash
  <2> QED BY <1>3, <1>4, <2>1, <2>2, <2>3, Zenon DEF TypeOK, RowsTyped
<1> QED BY <1>5, <1>6 DEF TypeInv

LEMMA TypeInvInductive ==
    ASSUME TypeInv, [Next]_vars
    PROVE  TypeInv'
<1>1. ASSUME NEW a \in Actors, Start(a)
      PROVE  TypeInv'
  BY <1>1, SubmitTypes, AdminTypes, PollTypes, SweepTypes, MovesKeepTypes
  DEF Start, Actors
<1>2. ASSUME NEW a \in Actors, Continue(a)
      PROVE  TypeInv'
  BY <1>2, SubmitTypes, RevertTypes, TriggerTypes, RunTypes, PollTypes, SweepTypes,
     MovesKeepTypes DEF Continue, Actors
<1>3. ASSUME NEW a \in Actors, DbFault(a)
      PROVE  TypeInv'
  BY <1>3, FaultTypes, MovesKeepTypes
<1>4. CASE UNCHANGED vars
  BY <1>4 DEF vars, TypeInv, TypeOK, PathOK
<1> QED BY <1>1, <1>2, <1>3, <1>4, CrashTypes DEF Next

LEMMA TypeInvInitially == Init => TypeInv
<1>1. "idle" \in Labels /\ "idle" \notin OutcomeSteps \cup {"responses"}
  BY DEF Labels, OutcomeSteps
<1>2. Init => pc \in [Actors -> Labels] /\ frame \in [Actors -> Frames] /\ PathOK
  BY <1>1, InitialRows DEF Init, PathOK
<1>3. Init => RowsTyped
  BY InitialRows DEF Init, RowsTyped
<1>4. Init => running \in BOOLEAN
  BY Zenon DEF Init
<1>5. Init => faults \in Nat /\ crashes \in Nat /\ sweepRuns \in Nat
  BY DEF Init
<1> QED BY <1>2, <1>3, <1>4, <1>5, Zenon DEF TypeInv, TypeOK, RowsTyped

\* Every reachable state of the pipeline is one the tables and the service's
\* locals can hold, and an outcome is only written by a run that decided on one.
THEOREM TypeCorrect == Spec => [](TypeOK /\ PathOK)
<1>1. TypeInv /\ [Next]_vars => TypeInv'
  BY TypeInvInductive
<1> QED BY <1>1, TypeInvInitially, PTL DEF Spec, TypeInv

\* The steps that neither run a review nor belong to the retry job's bookkeeping.
OutsideSteps == Labels \ ({"start"} \cup RunSteps \cup SweepSteps)

MovesOutside(a) ==
    \E l \in OutsideSteps, f \in Frames :
        MoveTo(a, l, f) /\ f.rid \in {NoId, frame[a].rid}

ReviewDropped ==
    \/ review' = review
    \/ review' = NoReview
    \/ review' = [review EXCEPT !.status = "failed"]

\* A step of actor a that does not touch what the two invariants below are about:
\* it may delete a review or mark it failed, and may drop the actor's own review.
Outside(a) ==
    /\ UNCHANGED <<attempts, sweepRuns, running, nextId>>
    /\ a \in Sweeps => pc[a] # "idle"
    /\ ReviewDropped
    /\ MovesOutside(a)

LEMMA OutsideStepNames ==
    /\ {"idle", "done", "find", "delete", "clearBadge", "clearScore", "create"}
          \subseteq OutsideSteps
    /\ SubmitSteps \cup RevertSteps \cup FailureSteps \cup PollSteps \cup Returns
          \subseteq OutsideSteps
BY DEF OutsideSteps, Labels, SubmitSteps, TriggerSteps, OutcomeSteps, RunSteps,
       RevertSteps, FailureSteps, PollSteps, SweepSteps, Returns

\* What the moves do to the id of the review the actor runs.
LEMMA OwnRid ==
    ASSUME TypeOK, NEW a \in Actors
    PROVE  /\ EmptyFrame.rid = NoId
           /\ [frame[a] EXCEPT !.snap = asmt].rid = frame[a].rid
           /\ [frame[a] EXCEPT !.seen = review.id].rid = frame[a].rid
           /\ [frame[a] EXCEPT !.seen = NoId].rid = frame[a].rid
           /\ [frame[a] EXCEPT !.ret = "fallbackDelete"].rid = frame[a].rid
           /\ [EmptyFrame EXCEPT !.seen = review.id].rid = NoId
           /\ [EmptyFrame EXCEPT !.ret = "refetch"].rid = NoId
           /\ \A p \in Paths :
                 [frame[a] EXCEPT !.path = p, !.ret = "markFailed"].rid = frame[a].rid
<1>1. EmptyFrame \in Frames /\ EmptyFrame.rid = NoId
  BY InitialRows DEF EmptyFrame
<1>2. frame[a] \in Frames
  BY DEF TypeOK
<1> QED BY <1>1, <1>2 DEF Frames

LEMMA OutsideMoves ==
    ASSUME TypeOK, NEW a \in Actors, NEW l \in OutsideSteps
    PROVE  /\ Go(a, l) => MovesOutside(a)
           /\ \A f \in Frames :
                 MoveTo(a, l, f) /\ f.rid \in {NoId, frame[a].rid} => MovesOutside(a)
<1>1. frame[a] \in Frames /\ EmptyFrame \in Frames /\ EmptyFrame.rid = NoId
  BY OwnRid, LocalsAreTyped
<1> QED BY <1>1 DEF Go, MovesOutside

LEMMA RejectionsAreOutside ==
    ASSUME TypeOK, NEW a \in Actors, NEW p \in Paths, FailRun(a, p)
    PROVE  MovesOutside(a)
<1>1. "rvFind" \in OutsideSteps
  BY OutsideStepNames DEF RevertSteps
<1> DEFINE f == [frame[a] EXCEPT !.path = p, !.ret = "markFailed"]
<1>2. f \in Frames /\ f.rid = frame[a].rid /\ MoveTo(a, "rvFind", f)
  BY LocalsAreTyped, OwnRid DEF FailRun
<1> HIDE DEF f
<1> QED BY <1>1, <1>2 DEF MovesOutside

LEMMA SubmitOutside ==
    ASSUME TypeInv, NEW a \in Submits, SubmitRead(a) \/ SubmitStep(a)
    PROVE  Outside(a)
<1>1. /\ TypeOK /\ a \in Actors /\ frame[a].ret \in Returns
  BY DEF TypeInv, TypeOK, Actors, Runners, Frames
<1>2. CASE SubmitRead(a)
  <2>1. /\ UNCHANGED <<attempts, sweepRuns, running, nextId>>
        /\ a \in Sweeps => pc[a] # "idle"
    BY <1>1, <1>2, ActorsAssumption DEF SubmitRead, rows, env, At, Actors, Runners
  <2>2. ReviewDropped
    BY <1>1, <1>2 DEF ReviewDropped, SubmitRead, rows
  <2>3. MovesOutside(a)
    BY <1>1, <1>2, OutsideStepNames, OutsideMoves, LocalsAreTyped, OwnRid
    DEF SubmitRead, SubmitSteps, RevertSteps, FailureSteps, PollSteps
  <2> QED BY <2>1, <2>2, <2>3 DEF Outside
<1>3. CASE SubmitReadReview(a)
  <2>1. /\ UNCHANGED <<attempts, sweepRuns, running, nextId>>
        /\ a \in Sweeps => pc[a] # "idle"
    BY <1>1, <1>3, ActorsAssumption DEF SubmitReadReview, rows, env, At, Actors, Runners
  <2>2. ReviewDropped
    BY <1>1, <1>3 DEF ReviewDropped, SubmitReadReview, rows
  <2>3. MovesOutside(a)
    BY <1>1, <1>3, OutsideStepNames, OutsideMoves, LocalsAreTyped, OwnRid
    DEF SubmitReadReview, SubmitSteps, RevertSteps, FailureSteps, PollSteps
  <2> QED BY <2>1, <2>2, <2>3 DEF Outside
<1>4. CASE SubmitCleanup(a)
  <2>1. /\ UNCHANGED <<attempts, sweepRuns, running, nextId>>
        /\ a \in Sweeps => pc[a] # "idle"
    BY <1>1, <1>4, ActorsAssumption
    DEF SubmitCleanup, DeleteSeen, rows, env, At, Actors, Runners
  <2>2. ReviewDropped
    BY <1>1, <1>4 DEF ReviewDropped, SubmitCleanup, DeleteSeen, DeleteReview, rows
  <2>3. MovesOutside(a)
    BY <1>1, <1>4, OutsideStepNames, OutsideMoves, LocalsAreTyped, OwnRid
    DEF SubmitCleanup, DeleteSeen, SubmitSteps, RevertSteps, FailureSteps, PollSteps
  <2> QED BY <2>1, <2>2, <2>3 DEF Outside
<1>5. CASE SubmitRefetch(a)
  <2>1. /\ UNCHANGED <<attempts, sweepRuns, running, nextId>>
        /\ a \in Sweeps => pc[a] # "idle"
    BY <1>1, <1>5, ActorsAssumption DEF SubmitRefetch, rows, env, At, Actors, Runners
  <2>2. ReviewDropped
    BY <1>1, <1>5 DEF ReviewDropped, SubmitRefetch, rows
  <2>3. MovesOutside(a)
    BY <1>1, <1>5, OutsideStepNames, OutsideMoves, LocalsAreTyped, OwnRid
    DEF SubmitRefetch, SubmitSteps, RevertSteps, FailureSteps, PollSteps
  <2> QED BY <2>1, <2>2, <2>3 DEF Outside
<1>6. CASE SubmitPrecheck(a)
  <2>1. /\ UNCHANGED <<attempts, sweepRuns, running, nextId>>
        /\ a \in Sweeps => pc[a] # "idle"
    BY <1>1, <1>6, ActorsAssumption DEF SubmitPrecheck, rows, env, At, Actors, Runners
  <2>2. ReviewDropped
    BY <1>1, <1>6 DEF ReviewDropped, SubmitPrecheck, rows
  <2>3. MovesOutside(a)
    BY <1>1, <1>6, OutsideStepNames, OutsideMoves, LocalsAreTyped, OwnRid
    DEF SubmitPrecheck, SubmitSteps, RevertSteps, FailureSteps, PollSteps
  <2> QED BY <2>1, <2>2, <2>3 DEF Outside
<1>7. CASE SubmitDropFailed(a)
  <2>1. /\ UNCHANGED <<attempts, sweepRuns, running, nextId>>
        /\ a \in Sweeps => pc[a] # "idle"
    BY <1>1, <1>7, ActorsAssumption
    DEF SubmitDropFailed, DeleteSeen, rows, env, At, Actors, Runners
  <2>2. ReviewDropped
    BY <1>1, <1>7 DEF ReviewDropped, SubmitDropFailed, DeleteSeen, DeleteReview, rows
  <2>3. MovesOutside(a)
    BY <1>1, <1>7, OutsideStepNames, OutsideMoves, LocalsAreTyped, OwnRid
    DEF SubmitDropFailed, DeleteSeen, SubmitSteps, RevertSteps, FailureSteps, PollSteps
  <2> QED BY <2>1, <2>2, <2>3 DEF Outside
<1>8. CASE SubmitSetStatus(a)
  <2>1. /\ UNCHANGED <<attempts, sweepRuns, running, nextId>>
        /\ a \in Sweeps => pc[a] # "idle"
    BY <1>1, <1>8, ActorsAssumption DEF SubmitSetStatus, rows, env, At, Actors, Runners
  <2>2. ReviewDropped
    BY <1>1, <1>8 DEF ReviewDropped, SubmitSetStatus, rows
  <2>3. MovesOutside(a)
    BY <1>1, <1>8, OutsideStepNames, OutsideMoves, LocalsAreTyped, OwnRid
    DEF SubmitSetStatus, SubmitSteps, RevertSteps, FailureSteps, PollSteps
  <2> QED BY <2>1, <2>2, <2>3 DEF Outside
<1>9. CASE SubmitDetails(a)
  <2>1. /\ UNCHANGED <<attempts, sweepRuns, running, nextId>>
        /\ a \in Sweeps => pc[a] # "idle"
    BY <1>1, <1>9, ActorsAssumption DEF SubmitDetails, rows, env, At, Actors, Runners
  <2>2. ReviewDropped
    BY <1>1, <1>9 DEF ReviewDropped, SubmitDetails, rows
  <2>3. MovesOutside(a)
    BY <1>1, <1>9, OutsideStepNames, OutsideMoves, LocalsAreTyped, OwnRid
    DEF SubmitDetails, SubmitSteps, RevertSteps, FailureSteps, PollSteps
  <2> QED BY <2>1, <2>2, <2>3 DEF Outside
<1>10. CASE SubmitCatch(a)
  <2>1. /\ UNCHANGED <<attempts, sweepRuns, running, nextId>>
        /\ a \in Sweeps => pc[a] # "idle"
    BY <1>1, <1>10, ActorsAssumption DEF SubmitCatch, rows, env, At, Actors, Runners
  <2>2. ReviewDropped
    BY <1>1, <1>10 DEF ReviewDropped, SubmitCatch, rows
  <2>3. MovesOutside(a)
    BY <1>1, <1>10, OutsideStepNames, OutsideMoves, LocalsAreTyped, OwnRid
    DEF SubmitCatch, SubmitSteps, RevertSteps, FailureSteps, PollSteps
  <2> QED BY <2>1, <2>2, <2>3 DEF Outside
<1> QED BY <1>1, <1>2, <1>3, <1>4, <1>5, <1>6, <1>7, <1>8, <1>9, <1>10 DEF SubmitStep

LEMMA RevertOutside ==
    ASSUME TypeInv, NEW a \in Actors, RevertStep(a)
    PROVE  Outside(a)
<1>1. /\ TypeOK /\ a \in Actors /\ frame[a].ret \in Returns
  BY DEF TypeInv, TypeOK, Actors, Runners, Frames
<1>2. CASE RevertFind(a)
  <2>1. /\ UNCHANGED <<attempts, sweepRuns, running, nextId>>
        /\ a \in Sweeps => pc[a] # "idle"
    BY <1>1, <1>2, ActorsAssumption DEF RevertFind, rows, env, At, Actors, Runners
  <2>2. ReviewDropped
    BY <1>1, <1>2 DEF ReviewDropped, RevertFind, rows
  <2>3. MovesOutside(a)
    BY <1>1, <1>2, OutsideStepNames, OutsideMoves, LocalsAreTyped, OwnRid
    DEF RevertFind, SubmitSteps, RevertSteps, FailureSteps, PollSteps
  <2> QED BY <2>1, <2>2, <2>3 DEF Outside
<1>3. CASE RevertDelete(a)
  <2>1. /\ UNCHANGED <<attempts, sweepRuns, running, nextId>>
        /\ a \in Sweeps => pc[a] # "idle"
    BY <1>1, <1>3, ActorsAssumption
    DEF RevertDelete, DeleteSeen, rows, env, At, Actors, Runners
  <2>2. ReviewDropped
    BY <1>1, <1>3 DEF ReviewDropped, RevertDelete, DeleteSeen, DeleteReview, rows
  <2>3. MovesOutside(a)
    BY <1>1, <1>3, OutsideStepNames, OutsideMoves, LocalsAreTyped, OwnRid
    DEF RevertDelete, DeleteSeen, SubmitSteps, RevertSteps, FailureSteps, PollSteps
  <2> QED BY <2>1, <2>2, <2>3 DEF Outside
<1>4. CASE RevertWrite(a)
  <2>1. /\ UNCHANGED <<attempts, sweepRuns, running, nextId>>
        /\ a \in Sweeps => pc[a] # "idle"
    BY <1>1, <1>4, ActorsAssumption
    DEF RevertWrite, RevertSteps, rows, env, At, Actors, Runners
  <2>2. ReviewDropped
    BY <1>1, <1>4 DEF ReviewDropped, RevertWrite, rows
  <2>3. MovesOutside(a)
    BY <1>1, <1>4, OutsideStepNames, OutsideMoves, LocalsAreTyped, OwnRid
    DEF RevertWrite, SubmitSteps, RevertSteps, FailureSteps, PollSteps
  <2> QED BY <2>1, <2>2, <2>3 DEF Outside
<1> QED BY <1>1, <1>2, <1>3, <1>4 DEF RevertStep

LEMMA TriggerOutside ==
    ASSUME TypeInv, NEW a \in Runners, TriggerFind(a) \/ TriggerDelete(a)
                               \/ TriggerClearBadge(a) \/ TriggerClearScore(a)
    PROVE  Outside(a)
<1>1. /\ TypeOK /\ a \in Actors /\ frame[a].ret \in Returns
  BY DEF TypeInv, TypeOK, Actors, Runners, Frames
<1>2. CASE TriggerFind(a)
  <2>1. /\ UNCHANGED <<attempts, sweepRuns, running, nextId>>
        /\ a \in Sweeps => pc[a] # "idle"
    BY <1>1, <1>2, ActorsAssumption DEF TriggerFind, rows, env, At, Actors, Runners
  <2>2. ReviewDropped
    BY <1>1, <1>2 DEF ReviewDropped, TriggerFind, rows
  <2>3. MovesOutside(a)
    BY <1>1, <1>2, OutsideStepNames, OutsideMoves, LocalsAreTyped, OwnRid
    DEF TriggerFind, SubmitSteps, RevertSteps, FailureSteps, PollSteps
  <2> QED BY <2>1, <2>2, <2>3 DEF Outside
<1>3. CASE TriggerDelete(a)
  <2>1. /\ UNCHANGED <<attempts, sweepRuns, running, nextId>>
        /\ a \in Sweeps => pc[a] # "idle"
    BY <1>1, <1>3, ActorsAssumption
    DEF TriggerDelete, DeleteSeen, rows, env, At, Actors, Runners
  <2>2. ReviewDropped
    BY <1>1, <1>3 DEF ReviewDropped, TriggerDelete, DeleteSeen, DeleteReview, rows
  <2>3. MovesOutside(a)
    BY <1>1, <1>3, OutsideStepNames, OutsideMoves, LocalsAreTyped, OwnRid
    DEF TriggerDelete, DeleteSeen, SubmitSteps, RevertSteps, FailureSteps, PollSteps
  <2> QED BY <2>1, <2>2, <2>3 DEF Outside
<1>4. CASE TriggerClearBadge(a)
  <2>1. /\ UNCHANGED <<attempts, sweepRuns, running, nextId>>
        /\ a \in Sweeps => pc[a] # "idle"
    BY <1>1, <1>4, ActorsAssumption DEF TriggerClearBadge, rows, env, At, Actors, Runners
  <2>2. ReviewDropped
    BY <1>1, <1>4 DEF ReviewDropped, TriggerClearBadge, rows
  <2>3. MovesOutside(a)
    BY <1>1, <1>4, OutsideStepNames, OutsideMoves, LocalsAreTyped, OwnRid
    DEF TriggerClearBadge, SubmitSteps, RevertSteps, FailureSteps, PollSteps
  <2> QED BY <2>1, <2>2, <2>3 DEF Outside
<1>5. CASE TriggerClearScore(a)
  <2>1. /\ UNCHANGED <<attempts, sweepRuns, running, nextId>>
        /\ a \in Sweeps => pc[a] # "idle"
    BY <1>1, <1>5, ActorsAssumption DEF TriggerClearScore, rows, env, At, Actors, Runners
  <2>2. ReviewDropped
    BY <1>1, <1>5 DEF ReviewDropped, TriggerClearScore, rows
  <2>3. MovesOutside(a)
    BY <1>1, <1>5, OutsideStepNames, OutsideMoves, LocalsAreTyped, OwnRid
    DEF TriggerClearScore, SubmitSteps, RevertSteps, FailureSteps, PollSteps
  <2> QED BY <2>1, <2>2, <2>3 DEF Outside
<1> QED BY <1>1, <1>2, <1>3, <1>4, <1>5

LEMMA FailureOutside ==
    ASSUME TypeInv, NEW a \in Runners, MarkFailed(a) \/ NotifyFailure(a) \/ FallbackDelete(a)
    PROVE  Outside(a)
<1>1. /\ TypeOK /\ a \in Actors /\ frame[a].ret \in Returns
  BY DEF TypeInv, TypeOK, Actors, Runners, Frames
<1>2. CASE MarkFailed(a)
  <2>1. /\ UNCHANGED <<attempts, sweepRuns, running, nextId>>
        /\ a \in Sweeps => pc[a] # "idle"
    BY <1>1, <1>2, ActorsAssumption DEF MarkFailed, rows, env, At, Actors, Runners
  <2>2. ReviewDropped
    BY <1>1, <1>2 DEF ReviewDropped, MarkFailed, ReviewStatusTo, rows
  <2>3. MovesOutside(a)
    BY <1>1, <1>2, OutsideStepNames, OutsideMoves, LocalsAreTyped, OwnRid
    DEF MarkFailed, SubmitSteps, RevertSteps, FailureSteps, PollSteps
  <2> QED BY <2>1, <2>2, <2>3 DEF Outside
<1>3. CASE NotifyFailure(a)
  <2>1. /\ UNCHANGED <<attempts, sweepRuns, running, nextId>>
        /\ a \in Sweeps => pc[a] # "idle"
    BY <1>1, <1>3, ActorsAssumption DEF NotifyFailure, rows, env, At, Actors, Runners
  <2>2. ReviewDropped
    BY <1>1, <1>3 DEF ReviewDropped, NotifyFailure, rows
  <2>3. MovesOutside(a)
    BY <1>1, <1>3, OutsideStepNames, OutsideMoves, LocalsAreTyped, OwnRid
    DEF NotifyFailure, SubmitSteps, RevertSteps, FailureSteps, PollSteps
  <2> QED BY <2>1, <2>2, <2>3 DEF Outside
<1>4. CASE FallbackDelete(a)
  <2>1. /\ UNCHANGED <<attempts, sweepRuns, running, nextId>>
        /\ a \in Sweeps => pc[a] # "idle"
    BY <1>1, <1>4, ActorsAssumption DEF FallbackDelete, rows, env, At, Actors, Runners
  <2>2. ReviewDropped
    BY <1>1, <1>4 DEF ReviewDropped, FallbackDelete, DeleteReview, rows
  <2>3. MovesOutside(a)
    BY <1>1, <1>4, OutsideStepNames, OutsideMoves, LocalsAreTyped, OwnRid
    DEF FallbackDelete, SubmitSteps, RevertSteps, FailureSteps, PollSteps
  <2> QED BY <2>1, <2>2, <2>3 DEF Outside
<1> QED BY <1>1, <1>2, <1>3, <1>4

LEMMA PollOutside ==
    ASSUME TypeInv, NEW a \in Polls, PollRead(a) \/ PollStep(a)
    PROVE  Outside(a)
<1>1. /\ TypeOK /\ a \in Actors /\ frame[a].ret \in Returns
  BY DEF TypeInv, TypeOK, Actors, Runners, Frames
<1>2. CASE PollRead(a)
  <2>1. /\ UNCHANGED <<attempts, sweepRuns, running, nextId>>
        /\ a \in Sweeps => pc[a] # "idle"
    BY <1>1, <1>2, ActorsAssumption DEF PollRead, rows, env, At, Actors, Runners
  <2>2. ReviewDropped
    BY <1>1, <1>2 DEF ReviewDropped, PollRead, rows
  <2>3. MovesOutside(a)
    BY <1>1, <1>2, OutsideStepNames, OutsideMoves, LocalsAreTyped, OwnRid
    DEF PollRead, SubmitSteps, RevertSteps, FailureSteps, PollSteps
  <2> QED BY <2>1, <2>2, <2>3 DEF Outside
<1>3. CASE PollReview(a)
  <2>1. /\ UNCHANGED <<attempts, sweepRuns, running, nextId>>
        /\ a \in Sweeps => pc[a] # "idle"
    BY <1>1, <1>3, ActorsAssumption DEF PollReview, rows, env, At, Actors, Runners
  <2>2. ReviewDropped
    BY <1>1, <1>3 DEF ReviewDropped, PollReview, rows
  <2>3. MovesOutside(a)
    BY <1>1, <1>3, OutsideStepNames, OutsideMoves, LocalsAreTyped, OwnRid
    DEF PollReview, SubmitSteps, RevertSteps, FailureSteps, PollSteps
  <2> QED BY <2>1, <2>2, <2>3 DEF Outside
<1>4. CASE PollHeal(a)
  <2>1. /\ UNCHANGED <<attempts, sweepRuns, running, nextId>>
        /\ a \in Sweeps => pc[a] # "idle"
    BY <1>1, <1>4, ActorsAssumption DEF PollHeal, rows, env, At, Actors, Runners
  <2>2. ReviewDropped
    BY <1>1, <1>4 DEF ReviewDropped, PollHeal, rows
  <2>3. MovesOutside(a)
    BY <1>1, <1>4, OutsideStepNames, OutsideMoves, LocalsAreTyped, OwnRid
    DEF PollHeal, SubmitSteps, RevertSteps, FailureSteps, PollSteps
  <2> QED BY <2>1, <2>2, <2>3 DEF Outside
<1> QED BY <1>1, <1>2, <1>3, <1>4 DEF PollStep

LEMMA AdminOutside ==
    ASSUME TypeInv, NEW a \in Retries \cup Resets, DebugRetry(a) \/ ForceReset(a)
    PROVE  Outside(a)
<1>1. /\ TypeOK /\ a \in Actors /\ frame[a].ret \in Returns
  BY DEF TypeInv, TypeOK, Actors, Runners, Frames
<1>2. CASE DebugRetry(a)
  <2>1. /\ UNCHANGED <<attempts, sweepRuns, running, nextId>>
        /\ a \in Sweeps => pc[a] # "idle"
    BY <1>1, <1>2, ActorsAssumption DEF DebugRetry, rows, env, At, Actors, Runners
  <2>2. ReviewDropped
    BY <1>1, <1>2 DEF ReviewDropped, DebugRetry, rows
  <2>3. MovesOutside(a)
    BY <1>1, <1>2, OutsideStepNames, OutsideMoves, LocalsAreTyped, OwnRid
    DEF DebugRetry, SubmitSteps, RevertSteps, FailureSteps, PollSteps
  <2> QED BY <2>1, <2>2, <2>3 DEF Outside
<1>3. CASE ForceReset(a)
  <2>1. /\ UNCHANGED <<attempts, sweepRuns, running, nextId>>
        /\ a \in Sweeps => pc[a] # "idle"
    BY <1>1, <1>3, ActorsAssumption DEF ForceReset, rows, env, At, Actors, Runners
  <2>2. ReviewDropped
    BY <1>1, <1>3 DEF ReviewDropped, ForceReset, rows
  <2>3. MovesOutside(a)
    BY <1>1, <1>3, OutsideStepNames, OutsideMoves, LocalsAreTyped, OwnRid
    DEF ForceReset, SubmitSteps, RevertSteps, FailureSteps, PollSteps
  <2> QED BY <2>1, <2>2, <2>3 DEF Outside
<1> QED BY <1>1, <1>2, <1>3

LEMMA FaultOutside ==
    ASSUME TypeInv, NEW a \in Actors, DbFault(a)
    PROVE  Outside(a)
<1>1. /\ TypeOK /\ a \in Actors /\ frame[a].ret \in Returns
  BY DEF TypeInv, TypeOK, Actors, Runners, Frames
<1>2. CASE FaultInRequest(a)
  <2>1. /\ UNCHANGED <<attempts, sweepRuns, running, nextId>>
        /\ a \in Sweeps => pc[a] # "idle"
    BY <1>1, <1>2, ActorsAssumption
    DEF FaultInRequest, Throw, SubmitSteps, SweepSteps, PollSteps, TriggerSteps,
        RunSteps, OutcomeSteps, RevertSteps, InFallback, rows, env, At, Actors, Runners
  <2>2. ReviewDropped
    BY <1>1, <1>2 DEF ReviewDropped, FaultInRequest, Throw, rows
  <2>3. MovesOutside(a)
    BY <1>1, <1>2, OutsideStepNames, OutsideMoves, LocalsAreTyped, OwnRid
    DEF FaultInRequest, SubmitSteps, RevertSteps, FailureSteps, PollSteps
  <2> QED BY <2>1, <2>2, <2>3 DEF Outside
<1>3. CASE FaultInPoll(a)
  <2>1. /\ UNCHANGED <<attempts, sweepRuns, running, nextId>>
        /\ a \in Sweeps => pc[a] # "idle"
    BY <1>1, <1>3, ActorsAssumption
    DEF FaultInPoll, Throw, SubmitSteps, SweepSteps, PollSteps, TriggerSteps, RunSteps,
        OutcomeSteps, RevertSteps, InFallback, rows, env, At, Actors, Runners
  <2>2. ReviewDropped
    BY <1>1, <1>3 DEF ReviewDropped, FaultInPoll, Throw, rows
  <2>3. MovesOutside(a)
    BY <1>1, <1>3, OutsideStepNames, OutsideMoves, LocalsAreTyped, OwnRid
    DEF FaultInPoll, SubmitSteps, RevertSteps, FailureSteps, PollSteps
  <2> QED BY <2>1, <2>2, <2>3 DEF Outside
<1>4. CASE FaultInTrigger(a)
  <2>1. /\ UNCHANGED <<attempts, sweepRuns, running, nextId>>
        /\ a \in Sweeps => pc[a] # "idle"
    BY <1>1, <1>4, ActorsAssumption
    DEF FaultInTrigger, Throw, SubmitSteps, SweepSteps, PollSteps, TriggerSteps,
        RunSteps, OutcomeSteps, RevertSteps, InFallback, rows, env, At, Actors, Runners
  <2>2. ReviewDropped
    BY <1>1, <1>4 DEF ReviewDropped, FaultInTrigger, Throw, rows
  <2>3. MovesOutside(a)
    BY <1>1, <1>4, OutsideStepNames, OutsideMoves, LocalsAreTyped, OwnRid
    DEF FaultInTrigger, Rejected, FailureSteps
  <2> QED BY <2>1, <2>2, <2>3 DEF Outside
<1>5. CASE FaultInRun(a)
  <2>1. /\ UNCHANGED <<attempts, sweepRuns, running, nextId>>
        /\ a \in Sweeps => pc[a] # "idle"
    BY <1>1, <1>5, ActorsAssumption
    DEF FaultInRun, Throw, SubmitSteps, SweepSteps, PollSteps, TriggerSteps, RunSteps,
        OutcomeSteps, RevertSteps, InFallback, rows, env, At, Actors, Runners
  <2>2. ReviewDropped
    BY <1>1, <1>5 DEF ReviewDropped, FaultInRun, Throw, rows
  <2>3. MovesOutside(a)
    BY <1>1, <1>5, RejectionsAreOutside DEF FaultInRun, Paths
  <2> QED BY <2>1, <2>2, <2>3 DEF Outside
<1>6. CASE FaultInFallback(a)
  <2>1. /\ UNCHANGED <<attempts, sweepRuns, running, nextId>>
        /\ a \in Sweeps => pc[a] # "idle"
    BY <1>1, <1>6, ActorsAssumption
    DEF FaultInFallback, Throw, SubmitSteps, SweepSteps, PollSteps, TriggerSteps,
        RunSteps, OutcomeSteps, RevertSteps, InFallback, rows, env, At, Actors, Runners
  <2>2. ReviewDropped
    BY <1>1, <1>6 DEF ReviewDropped, FaultInFallback, Throw, rows
  <2>3. MovesOutside(a)
    BY <1>1, <1>6, OutsideStepNames, OutsideMoves, LocalsAreTyped, OwnRid
    DEF FaultInFallback, SubmitSteps, RevertSteps, FailureSteps, PollSteps
  <2> QED BY <2>1, <2>2, <2>3 DEF Outside
<1>7. CASE FaultInRevert(a)
  <2>1. /\ UNCHANGED <<attempts, sweepRuns, running, nextId>>
        /\ a \in Sweeps => pc[a] # "idle"
    BY <1>1, <1>7, ActorsAssumption
    DEF FaultInRevert, Throw, SubmitSteps, SweepSteps, PollSteps, TriggerSteps,
        RunSteps, OutcomeSteps, RevertSteps, InFallback, rows, env, At, Actors, Runners
  <2>2. ReviewDropped
    BY <1>1, <1>7 DEF ReviewDropped, FaultInRevert, Throw, rows
  <2>3. MovesOutside(a)
    BY <1>1, <1>7, OutsideStepNames, OutsideMoves, LocalsAreTyped, OwnRid
    DEF FaultInRevert, RevertRejected, SubmitSteps, RevertSteps, FailureSteps, PollSteps
  <2> QED BY <2>1, <2>2, <2>3 DEF Outside
<1>8. CASE FaultInMarking(a)
  <2>1. /\ UNCHANGED <<attempts, sweepRuns, running, nextId>>
        /\ a \in Sweeps => pc[a] # "idle"
    BY <1>1, <1>8, ActorsAssumption
    DEF FaultInMarking, Throw, SubmitSteps, SweepSteps, PollSteps, TriggerSteps,
        RunSteps, OutcomeSteps, RevertSteps, InFallback, rows, env, At, Actors, Runners
  <2>2. ReviewDropped
    BY <1>1, <1>8 DEF ReviewDropped, FaultInMarking, Throw, rows
  <2>3. MovesOutside(a)
    BY <1>1, <1>8, RejectionsAreOutside, OutsideStepNames, OutsideMoves
    DEF FaultInMarking, Paths, Rejected, FailureSteps
  <2> QED BY <2>1, <2>2, <2>3 DEF Outside
<1>9. CASE FaultInHandler(a)
  <2>1. /\ UNCHANGED <<attempts, sweepRuns, running, nextId>>
        /\ a \in Sweeps => pc[a] # "idle"
    BY <1>1, <1>9, ActorsAssumption
    DEF FaultInHandler, Throw, SubmitSteps, SweepSteps, PollSteps, TriggerSteps,
        RunSteps, OutcomeSteps, RevertSteps, InFallback, rows, env, At, Actors, Runners
  <2>2. ReviewDropped
    BY <1>1, <1>9 DEF ReviewDropped, FaultInHandler, Throw, rows
  <2>3. MovesOutside(a)
    BY <1>1, <1>9, OutsideStepNames, OutsideMoves, LocalsAreTyped, OwnRid
    DEF FaultInHandler, SubmitSteps, RevertSteps, FailureSteps, PollSteps
  <2> QED BY <2>1, <2>2, <2>3 DEF Outside
<1> QED BY <1>1, <1>2, <1>3, <1>4, <1>5, <1>6, <1>7, <1>8, <1>9 DEF DbFault


-----------------------------------------------------------------------------
(* The retry cap *)

\* At most one sweep is under way, and it counts an attempt before it starts a
\* run: RetryCap is not inductive without what the sweep has already checked.
RetryInv ==
    /\ RetryCap
    /\ \A w \in Sweeps : pc[w] # "idle" => running
    /\ \A v, w \in Sweeps : pc[v] # "idle" /\ pc[w] # "idle" => v = w
    /\ \A w \in Sweeps : pc[w] = "record" => attempts < MaxAttempts
    /\ \A w \in Sweeps : pc[w] = "resubmit" => sweepRuns < attempts

\* Only the retry job's own steps matter to the cap.
Bystander(a) ==
    /\ UNCHANGED <<attempts, sweepRuns, running>>
    /\ a \in Sweeps => pc[a] # "idle"
    /\ \E l \in Labels \ SweepSteps : pc' = [pc EXCEPT ![a] = l]

LEMMA BystandersKeepRetryInv ==
    ASSUME TypeInv, RetryInv, NEW a \in Actors, Bystander(a)
    PROVE  RetryInv'
<1>1. PICK l \in Labels \ SweepSteps : pc' = [pc EXCEPT ![a] = l]
  BY DEF Bystander
<1>2. \A b \in Actors : pc'[b] = IF b = a THEN l ELSE pc[b]
  BY <1>1 DEF TypeInv, TypeOK
<1>3. l # "record" /\ l # "resubmit"
  BY <1>1 DEF SweepSteps
<1>4. \A w \in Sweeps : w \in Actors /\ (pc'[w] # "idle" => pc[w] # "idle")
                        /\ pc'[w] \in {pc[w], l}
  BY <1>2 DEF Actors, Bystander
<1>5. UNCHANGED <<attempts, sweepRuns, running>>
  BY DEF Bystander
<1>6. /\ RetryCap'
      /\ \A w \in Sweeps : pc'[w] = "record" => attempts' < MaxAttempts
      /\ \A w \in Sweeps : pc'[w] = "resubmit" => sweepRuns' < attempts'
  BY <1>3, <1>4, <1>5 DEF RetryInv, RetryCap
<1>7. /\ \A w \in Sweeps : pc'[w] # "idle" => running'
      /\ \A v, w \in Sweeps : pc'[v] # "idle" /\ pc'[w] # "idle" => v = w
  BY <1>4, <1>5 DEF RetryInv
<1> QED BY <1>6, <1>7 DEF RetryInv

LEMMA OutsideIsBystander ==
    ASSUME NEW a \in Actors, Outside(a)
    PROVE  Bystander(a)
BY DEF Outside, MovesOutside, Bystander, OutsideSteps, MoveTo

LEMMA RunLabels ==
    /\ {"start", "load", "done", "catch", "rvFind"} \subseteq Labels \ SweepSteps
    /\ RunSteps \subseteq Labels \ SweepSteps
BY DEF Labels, RunSteps, OutcomeSteps, SweepSteps, TriggerSteps, FailureSteps, RevertSteps

LEMMA OutcomeBystands ==
    ASSUME TypeInv, NEW a \in Actors, NEW l \in OutcomeSteps, Outcome(a, l)
    PROVE  \E k \in Labels \ SweepSteps : pc' = [pc EXCEPT ![a] = k]
<1>1. frame[a].path \in DOMAIN After
  BY DEF TypeInv, PathOK, Outcome, At
<1>2. After[frame[a].path][l] \in Labels \ SweepSteps
  BY <1>1, AfterIsALabel, RunLabels DEF RunSteps
<1> QED BY <1>2 DEF Outcome, Go, MoveTo

LEMMA RunBystands ==
    ASSUME TypeInv, NEW a \in Runners,
           \/ CreateAiReview(a) \/ TriggerStart(a)
           \/ RunStep(a) /\ ~(MarkFailed(a) \/ NotifyFailure(a) \/ FallbackDelete(a))
    PROVE  Bystander(a)
<1>1. TypeOK /\ a \in Actors
  BY DEF TypeInv, Actors, Runners
<1>2. CASE CreateAiReview(a)
  <2>1. /\ UNCHANGED <<attempts, sweepRuns, running>>
        /\ a \in Sweeps => pc[a] # "idle"
    BY <1>1, <1>2 DEF CreateAiReview, rows, env, At
  <2>2. \E l \in Labels \ SweepSteps : pc' = [pc EXCEPT ![a] = l]
    BY <1>1, <1>2, RunLabels DEF CreateAiReview, Rejected, Go, MoveTo
  <2> QED BY <2>1, <2>2 DEF Bystander
<1>3. CASE TriggerStart(a)
  <2>1. /\ UNCHANGED <<attempts, sweepRuns, running>>
        /\ a \in Sweeps => pc[a] # "idle"
    BY <1>1, <1>3 DEF TriggerStart, rows, env, At
  <2>2. \E l \in Labels \ SweepSteps : pc' = [pc EXCEPT ![a] = l]
    BY <1>1, <1>3, RunLabels DEF TriggerStart, Go, MoveTo
  <2> QED BY <2>1, <2>2 DEF Bystander
<1>4. CASE LoadAnswers(a)
  <2>1. /\ UNCHANGED <<attempts, sweepRuns, running>>
        /\ a \in Sweeps => pc[a] # "idle"
    BY <1>1, <1>4 DEF LoadAnswers, rows, env, At
  <2>2. \E l \in Labels \ SweepSteps : pc' = [pc EXCEPT ![a] = l]
    BY <1>1, <1>4, RunLabels
    DEF LoadAnswers, Go, MoveTo, WriteOutcome, FailRun, RunSteps, OutcomeSteps
  <2> QED BY <2>1, <2>2 DEF Bystander
<1>5. CASE Analyze(a)
  <2>1. /\ UNCHANGED <<attempts, sweepRuns, running>>
        /\ a \in Sweeps => pc[a] # "idle"
    BY <1>1, <1>5 DEF Analyze, rows, env, At
  <2>2. \E l \in Labels \ SweepSteps : pc' = [pc EXCEPT ![a] = l]
    BY <1>1, <1>5, RunLabels
    DEF Analyze, Go, MoveTo, WriteOutcome, FailRun, RunSteps, OutcomeSteps
  <2> QED BY <2>1, <2>2 DEF Bystander
<1>6. CASE StoreResponses(a)
  <2>1. /\ UNCHANGED <<attempts, sweepRuns, running>>
        /\ a \in Sweeps => pc[a] # "idle"
    BY <1>1, <1>6 DEF StoreResponses, rows, env, At
  <2>2. \E l \in Labels \ SweepSteps : pc' = [pc EXCEPT ![a] = l]
    BY <1>1, <1>6, RunLabels
    DEF StoreResponses, Go, MoveTo, WriteOutcome, FailRun, RunSteps, OutcomeSteps
  <2> QED BY <2>1, <2>2 DEF Bystander
<1>7. CASE CompleteReview(a)
  <2>1. /\ UNCHANGED <<attempts, sweepRuns, running>>
        /\ a \in Sweeps => pc[a] # "idle"
    BY <1>1, <1>7 DEF CompleteReview, Outcome, rows, env, At
  <2>2. \E l \in Labels \ SweepSteps : pc' = [pc EXCEPT ![a] = l]
    BY <1>1, <1>7, OutcomeBystands DEF CompleteReview, OutcomeSteps
  <2> QED BY <2>1, <2>2 DEF Bystander
<1>8. CASE CompleteAssessment(a)
  <2>1. /\ UNCHANGED <<attempts, sweepRuns, running>>
        /\ a \in Sweeps => pc[a] # "idle"
    BY <1>1, <1>8 DEF CompleteAssessment, Outcome, rows, env, At
  <2>2. \E l \in Labels \ SweepSteps : pc' = [pc EXCEPT ![a] = l]
    BY <1>1, <1>8, OutcomeBystands DEF CompleteAssessment, OutcomeSteps
  <2> QED BY <2>1, <2>2 DEF Bystander
<1>9. CASE ScoreReview(a)
  <2>1. /\ UNCHANGED <<attempts, sweepRuns, running>>
        /\ a \in Sweeps => pc[a] # "idle"
    BY <1>1, <1>9 DEF ScoreReview, Outcome, rows, env, At
  <2>2. \E l \in Labels \ SweepSteps : pc' = [pc EXCEPT ![a] = l]
    BY <1>1, <1>9, OutcomeBystands DEF ScoreReview, OutcomeSteps
  <2> QED BY <2>1, <2>2 DEF Bystander
<1>10. CASE ScoreAssessment(a)
  <2>1. /\ UNCHANGED <<attempts, sweepRuns, running>>
        /\ a \in Sweeps => pc[a] # "idle"
    BY <1>1, <1>10 DEF ScoreAssessment, Outcome, rows, env, At
  <2>2. \E l \in Labels \ SweepSteps : pc' = [pc EXCEPT ![a] = l]
    BY <1>1, <1>10, OutcomeBystands DEF ScoreAssessment, OutcomeSteps
  <2> QED BY <2>1, <2>2 DEF Bystander
<1>11. CASE AssignBadge(a)
  <2>1. /\ UNCHANGED <<attempts, sweepRuns, running>>
        /\ a \in Sweeps => pc[a] # "idle"
    BY <1>1, <1>11 DEF AssignBadge, Outcome, rows, env, At
  <2>2. \E l \in Labels \ SweepSteps : pc' = [pc EXCEPT ![a] = l]
    BY <1>1, <1>11, OutcomeBystands DEF AssignBadge, OutcomeSteps
  <2> QED BY <2>1, <2>2 DEF Bystander
<1> QED BY <1>1, <1>2, <1>3, <1>4, <1>5, <1>6, <1>7, <1>8, <1>9, <1>10, <1>11 DEF RunStep

\* Any step of an actor but those of the retry job itself.
LEMMA SweepFindKeeps ==
    ASSUME TypeInv, RetryInv, NEW w \in Sweeps, SweepFind(w)
    PROVE  RetryInv'
<1>1. \A v \in Sweeps : v \in Actors /\ pc'[v] = IF v = w THEN "record" ELSE pc[v]
  BY DEF TypeInv, TypeOK, SweepFind, Go, MoveTo, Actors
<1>2. \A v \in Sweeps : pc[v] = "idle"
  BY DEF SweepFind, RetryInv
<1>3. attempts' = attempts /\ sweepRuns' = sweepRuns /\ attempts < MaxAttempts
  BY DEF SweepFind, rows
<1>4. running'
  BY DEF SweepFind
<1> QED BY <1>1, <1>2, <1>3, <1>4 DEF RetryInv, RetryCap

LEMMA RecordRetryAttemptKeeps ==
    ASSUME TypeInv, RetryInv, NEW w \in Sweeps, RecordRetryAttempt(w)
    PROVE  RetryInv'
<1>1. \A v \in Sweeps : v \in Actors /\ pc'[v] = IF v = w THEN "resubmit" ELSE pc[v]
  BY DEF TypeInv, TypeOK, RecordRetryAttempt, Go, MoveTo, Actors
<1>2. pc[w] = "record" /\ attempts < MaxAttempts
  BY DEF RecordRetryAttempt, At, RetryInv
<1>3. \A v \in Sweeps : pc[v] # "idle" => v = w
  BY <1>2 DEF RetryInv
<1>4. attempts' = attempts + 1 /\ sweepRuns' = sweepRuns /\ running' = running
  BY DEF RecordRetryAttempt, env
<1>5. attempts \in Nat /\ sweepRuns \in Nat
  BY DEF TypeInv, TypeOK
<1>6. RetryCap'
  BY <1>2, <1>4, <1>5, BoundsAssumption DEF RetryInv, RetryCap
<1>7. \A v \in Sweeps : pc'[v] # "idle" => v = w /\ running'
  BY <1>1, <1>2, <1>3, <1>4 DEF RetryInv
<1>8. sweepRuns' < attempts'
  BY <1>4, <1>5 DEF RetryInv, RetryCap
<1> QED BY <1>1, <1>6, <1>7, <1>8 DEF RetryInv

LEMMA SweepResubmitKeeps ==
    ASSUME TypeInv, RetryInv, NEW w \in Sweeps, SweepResubmit(w)
    PROVE  RetryInv'
<1>1. \A v \in Sweeps : v \in Actors /\ pc'[v] = IF v = w THEN "find" ELSE pc[v]
  BY DEF TypeInv, TypeOK, SweepResubmit, Go, MoveTo, Actors
<1>2. pc[w] = "resubmit" /\ sweepRuns < attempts
  BY DEF SweepResubmit, At, RetryInv
<1>3. \A v \in Sweeps : pc[v] # "idle" => v = w
  BY <1>2 DEF RetryInv
<1>4. sweepRuns' = sweepRuns + 1 /\ attempts' = attempts /\ running' = running
  BY DEF SweepResubmit
<1>5. RetryCap'
  BY <1>2, <1>4 DEF RetryInv, RetryCap, TypeInv, TypeOK
<1>6. \A v \in Sweeps : pc'[v] # "idle" => v = w /\ running'
  BY <1>1, <1>2, <1>3, <1>4 DEF RetryInv
<1>7. \A v \in Sweeps : pc'[v] # "record" /\ pc'[v] # "resubmit"
  BY <1>1, <1>3
<1> QED BY <1>5, <1>6, <1>7 DEF RetryInv

LEMMA SweepEndKeeps ==
    ASSUME TypeInv, RetryInv, NEW w \in Sweeps, SweepEnd(w)
    PROVE  RetryInv'
<1>1. \A v \in Sweeps : v \in Actors /\ pc'[v] = IF v = w THEN "idle" ELSE pc[v]
  BY DEF TypeInv, TypeOK, SweepEnd, Go, MoveTo, Actors
<1>2. \A v \in Sweeps : pc[v] # "idle" => v = w
  BY DEF SweepEnd, At, RetryInv
<1>3. \A v \in Sweeps : pc'[v] = "idle"
  BY <1>1, <1>2
<1>4. RetryCap'
  BY DEF SweepEnd, rows, RetryInv, RetryCap
<1> QED BY <1>3, <1>4 DEF RetryInv

LEMMA CrashKeepsRetryInv ==
    ASSUME RetryInv, Crash
    PROVE  RetryInv'
<1>1. \A v \in Sweeps : pc'[v] = "idle"
  BY DEF Crash, Actors
<1>2. RetryCap'
  BY DEF Crash, rows, RetryInv, RetryCap
<1> QED BY <1>1, <1>2 DEF RetryInv

LEMMA RetryInvInductive ==
    ASSUME TypeInv, RetryInv, [Next]_vars
    PROVE  RetryInv'
<1>1. ASSUME NEW a \in Actors, Outside(a)
      PROVE  RetryInv'
  BY <1>1, OutsideIsBystander, BystandersKeepRetryInv
<1>2. ASSUME NEW w \in Sweeps, SweepFind(w) \/ SweepStep(w)
      PROVE  RetryInv'
  BY <1>2, SweepFindKeeps, RecordRetryAttemptKeeps, SweepResubmitKeeps, SweepEndKeeps
     DEF SweepStep
<1>3. ASSUME NEW a \in Actors, Start(a)
      PROVE  RetryInv'
  BY <1>1, <1>2, <1>3, SubmitOutside, AdminOutside, PollOutside DEF Start
<1>4. ASSUME NEW a \in Runners, TriggerStep(a) \/ RunStep(a)
      PROVE  RetryInv'
  BY <1>1, <1>4, TriggerOutside, FailureOutside, RunBystands, BystandersKeepRetryInv
     DEF TriggerStep, Runners, Actors
<1>5. ASSUME NEW a \in Actors, Continue(a)
      PROVE  RetryInv'
  BY <1>1, <1>2, <1>4, <1>5, SubmitOutside, RevertOutside, PollOutside DEF Continue
<1>6. ASSUME NEW a \in Actors, DbFault(a)
      PROVE  RetryInv'
  BY <1>1, <1>6, FaultOutside
<1>7. CASE UNCHANGED vars
  BY <1>7 DEF vars, RetryInv, RetryCap
<1> QED BY <1>3, <1>5, <1>6, <1>7, CrashKeepsRetryInv DEF Next

\* However many sweeps, submissions and admin retries overlap, whatever database
\* call fails and however often the process restarts, the retry job has never
\* started more runs than it counted, nor more than MAX_ATTEMPTS.
THEOREM RetryCapHolds == Spec => []RetryCap
<1>1. Init => RetryInv
  BY BoundsAssumption DEF Init, RetryInv, RetryCap, Actors
<1>2. TypeInv /\ RetryInv /\ [Next]_vars => TypeInv' /\ RetryInv'
  BY TypeInvInductive, RetryInvInductive
<1>3. RetryInv => RetryCap
  BY DEF RetryInv
<1> QED BY <1>1, <1>2, <1>3, TypeInvInitially, PTL DEF Spec

-----------------------------------------------------------------------------
(* No run writes its grade on another run's review *)

\* The steps at which a run's review cannot be complete yet.
EarlyRun == {"start", "load", "analyze"}
OwnsReview == {"start"} \cup RunSteps

\* Review ids are never handed out twice, so a run that knows a review's id is
\* the one that created it.
OwnInv ==
    /\ review.id < nextId
    /\ review.score \in {NoScore, Zero, review.id}
    /\ \A a \in Actors : frame[a].rid < nextId
    /\ \A a, b \in Actors : frame[a].rid = frame[b].rid /\ frame[a].rid # NoId => a = b
    /\ \A a \in Actors : pc[a] \in OwnsReview => frame[a].rid # NoId
    /\ \A a \in Actors : pc[a] \in EarlyRun /\ frame[a].rid = review.id =>
          review.status # "completed"

\* A step that keeps or drops the actor's own review id, and claims no review.
KeepsId(a) ==
    \E l \in Labels, f \in Frames :
        /\ MoveTo(a, l, f)
        /\ f.rid \in {NoId, frame[a].rid}
        /\ l \in OwnsReview => f.rid # NoId
        /\ l \in EarlyRun => pc[a] \in EarlyRun

\* What KeepsId leaves of OwnInv, whatever happens to the review row.
LEMMA KeepsIdKeeps ==
    ASSUME TypeInv, OwnInv, NEW a \in Actors, KeepsId(a), nextId' = nextId
    PROVE  /\ \A b \in Actors : frame'[b].rid < nextId'
           /\ \A b, c \in Actors :
                 frame'[b].rid = frame'[c].rid /\ frame'[b].rid # NoId => b = c
           /\ \A b \in Actors : pc'[b] \in OwnsReview => frame'[b].rid # NoId
           /\ \A b \in Actors : pc'[b] \in EarlyRun =>
                 pc[b] \in EarlyRun /\ frame'[b].rid = frame[b].rid
<1>1. PICK l \in Labels, f \in Frames :
          /\ MoveTo(a, l, f)
          /\ f.rid \in {NoId, frame[a].rid}
          /\ l \in OwnsReview => f.rid # NoId
          /\ l \in EarlyRun => pc[a] \in EarlyRun
  BY DEF KeepsId
<1>2. \A b \in Actors : /\ pc'[b] = IF b = a THEN l ELSE pc[b]
                        /\ frame'[b] = IF b = a THEN f ELSE frame[b]
  BY <1>1 DEF MoveTo, TypeInv, TypeOK
<1>3. \A b \in Actors : /\ frame'[b].rid \in {NoId, frame[b].rid}
                        /\ b # a => frame'[b].rid = frame[b].rid
  BY <1>1, <1>2
<1>4. NoId < nextId
  BY DEF NoId, TypeInv, TypeOK
<1>5. EarlyRun \subseteq OwnsReview
  BY DEF EarlyRun, OwnsReview, RunSteps
<1>6. \A b \in Actors : pc'[b] \in OwnsReview => frame'[b].rid # NoId
  BY <1>1, <1>2 DEF OwnInv
<1>7. \A b \in Actors : frame'[b].rid < nextId'
  BY <1>3, <1>4 DEF OwnInv
<1>8. \A b, c \in Actors :
         frame'[b].rid = frame'[c].rid /\ frame'[b].rid # NoId => b = c
  BY <1>3 DEF OwnInv
<1>9. \A b \in Actors : pc'[b] \in EarlyRun => pc[b] \in EarlyRun
  BY <1>1, <1>2
<1> QED BY <1>3, <1>5, <1>6, <1>7, <1>8, <1>9

\* The steps that do not write a grade or complete a review.
Orderly(a) ==
    /\ nextId' = nextId
    /\ \/ review' = review
       \/ review' = NoReview
       \/ review' = [review EXCEPT !.status = "failed"]
       \/ review' = [review EXCEPT !.status = "in_progress"]
    /\ KeepsId(a)

LEMMA OrderlyKeepsOwnInv ==
    ASSUME TypeInv, OwnInv, NEW a \in Actors, Orderly(a)
    PROVE  OwnInv'
<1>1. nextId' = nextId /\ KeepsId(a)
  BY DEF Orderly
<1>2. review \in ReviewRows /\ nextId \in Nat \ {0}
  BY DEF TypeInv, TypeOK
<1>3. NoReview.id = NoId /\ NoReview.score = NoScore /\ NoReview.status # "completed"
  BY DEF NoReview
<1>4. /\ review'.id < nextId'
      /\ review'.score \in {NoScore, Zero, review'.id}
  BY <1>1, <1>2, <1>3 DEF Orderly, OwnInv, ReviewRows, NoId
<1>5. review'.status = "completed" => review' = review
  BY <1>2, <1>3 DEF Orderly, ReviewRows
<1>6. \A b \in Actors : pc'[b] \in EarlyRun /\ frame'[b].rid = review'.id =>
          review'.status # "completed"
  BY <1>1, <1>5, KeepsIdKeeps DEF OwnInv
<1> QED BY <1>1, <1>4, <1>6, KeepsIdKeeps DEF OwnInv

LEMMA OutsideIsOrderly ==
    ASSUME NEW a \in Actors, Outside(a)
    PROVE  Orderly(a)
<1>1. \A l \in OutsideSteps : l \in Labels /\ l \notin OwnsReview /\ l \notin EarlyRun
  BY DEF OutsideSteps, OwnsReview, EarlyRun, RunSteps
<1>2. KeepsId(a)
  BY <1>1 DEF Outside, MovesOutside, KeepsId
<1> QED BY <1>2 DEF Outside, ReviewDropped, Orderly

\* Moves of a run that go on with the review it owns.
LEMMA GoKeepsId ==
    ASSUME TypeInv, OwnInv, NEW a \in Actors, pc[a] \in OwnsReview, NEW l \in Labels,
           l \in EarlyRun => pc[a] \in EarlyRun
    PROVE  /\ Go(a, l) => KeepsId(a)
           /\ \A p \in Paths : MoveTo(a, l, [frame[a] EXCEPT !.path = p]) => KeepsId(a)
           /\ \A p \in Paths : FailRun(a, p) => KeepsId(a)
<1>1. /\ frame[a] \in Frames /\ EmptyFrame \in Frames /\ EmptyFrame.rid = NoId
      /\ frame[a].rid # NoId
  BY LocalsAreTyped, OwnRid DEF TypeInv, OwnInv
<1>2. ASSUME Go(a, l) PROVE KeepsId(a)
  <2>1. CASE l \in {"idle", "done"}
    <3>1. MoveTo(a, l, EmptyFrame)
      BY <1>2, <2>1 DEF Go
    <3>2. l \notin OwnsReview
      BY <2>1 DEF OwnsReview, RunSteps, OutcomeSteps
    <3> QED BY <1>1, <3>1, <3>2 DEF KeepsId
  <2>2. CASE l \notin {"idle", "done"}
    <3>1. MoveTo(a, l, frame[a])
      BY <1>2, <2>2 DEF Go
    <3> QED BY <1>1, <3>1 DEF KeepsId
  <2> QED BY <2>1, <2>2
<1>3. ASSUME NEW p \in Paths, MoveTo(a, l, [frame[a] EXCEPT !.path = p])
      PROVE  KeepsId(a)
  <2>1. /\ [frame[a] EXCEPT !.path = p] \in Frames
        /\ [frame[a] EXCEPT !.path = p].rid = frame[a].rid
    BY <1>1 DEF Frames
  <2> QED BY <1>1, <1>3, <2>1 DEF KeepsId
<1>4. ASSUME NEW p \in Paths, FailRun(a, p)
      PROVE  KeepsId(a)
  <2>1. PICK k \in OutsideSteps, f \in Frames :
           MoveTo(a, k, f) /\ f.rid \in {NoId, frame[a].rid}
    BY <1>4, RejectionsAreOutside DEF TypeInv, MovesOutside
  <2>2. k \in Labels /\ k \notin OwnsReview /\ k \notin EarlyRun
    BY DEF OutsideSteps, OwnsReview, EarlyRun, RunSteps
  <2> QED BY <2>1, <2>2 DEF KeepsId
<1> QED BY <1>2, <1>3, <1>4

LEMMA OutcomeKeepsId ==
    ASSUME TypeInv, OwnInv, NEW a \in Actors, NEW l \in OutcomeSteps, Outcome(a, l)
    PROVE  KeepsId(a) /\ frame[a].rid # NoId /\ \A b \in Actors :
              pc'[b] \in EarlyRun => b # a
<1>1. pc[a] = l /\ Go(a, After[frame[a].path][l]) /\ pc[a] \in OwnsReview
  BY DEF Outcome, At, OwnsReview, RunSteps
<1>2. After[frame[a].path][l] \in OutcomeSteps \cup {"done"}
  BY <1>1, AfterIsALabel DEF TypeInv, PathOK
<1>3. After[frame[a].path][l] \in Labels /\ After[frame[a].path][l] \notin EarlyRun
  BY <1>2, EarlySteps DEF EarlyRun, OutcomeSteps
<1>4. pc'[a] = After[frame[a].path][l]
  BY <1>1 DEF Go, MoveTo, TypeInv, TypeOK
<1> QED BY <1>1, <1>3, <1>4, GoKeepsId DEF OwnInv

LEMMA RunIsOrderly ==
    ASSUME TypeInv, OwnInv, NEW a \in Runners,
           \/ TriggerStart(a) \/ LoadAnswers(a) \/ Analyze(a) \/ StoreResponses(a)
           \/ CompleteAssessment(a) \/ ScoreAssessment(a) \/ AssignBadge(a)
    PROVE  Orderly(a)
<1>1. a \in Actors /\ {"load", "analyze", "responses"} \cup OutcomeSteps \subseteq Labels
  BY DEF Runners, Actors, Labels, RunSteps
<1>2. \A l \in OutcomeSteps : Outcome(a, l) => KeepsId(a)
  BY <1>1, OutcomeKeepsId
<1>3. CASE TriggerStart(a)
  <2>1. pc[a] \in OwnsReview /\ pc[a] \in EarlyRun
    BY <1>3 DEF TriggerStart, At, OwnsReview, EarlyRun
  <2>2. KeepsId(a)
    BY <1>1, <1>3, <2>1, GoKeepsId DEF TriggerStart
  <2>3. review' = review \/ review' = [review EXCEPT !.status = "in_progress"]
    BY <1>3 DEF TriggerStart, ReviewStatusTo
  <2> QED BY <1>3, <2>2, <2>3 DEF TriggerStart, Orderly
<1>4. CASE LoadAnswers(a) \/ Analyze(a) \/ StoreResponses(a)
  <2>1. /\ pc[a] \in OwnsReview
        /\ LoadAnswers(a) => pc[a] \in EarlyRun
    BY <1>4 DEF LoadAnswers, Analyze, StoreResponses, At, OwnsReview, RunSteps, EarlyRun
  <2>2. {"graded", "empty", "fallback", "upload", "failed"} \subseteq Paths
    BY DEF Paths
  <2>3. {"responses", "reviewDone", "reviewScore"} \cap EarlyRun = {}
    BY DEF EarlyRun
  <2>4. {"reviewDone", "reviewScore"} \subseteq Labels
    BY DEF Labels, RunSteps, OutcomeSteps
  <2>5. CASE LoadAnswers(a)
    BY <1>1, <2>1, <2>2, <2>3, <2>4, <2>5, GoKeepsId
       DEF LoadAnswers, WriteOutcome, Orderly, rows
  <2>6. CASE Analyze(a)
    BY <1>1, <2>1, <2>2, <2>3, <2>4, <2>6, GoKeepsId
       DEF Analyze, WriteOutcome, Orderly, rows
  <2>7. CASE StoreResponses(a)
    BY <1>1, <2>1, <2>2, <2>3, <2>4, <2>7, GoKeepsId DEF StoreResponses, Orderly, rows
  <2> QED BY <1>4, <2>5, <2>6, <2>7
<1>5. CASE CompleteAssessment(a) \/ ScoreAssessment(a) \/ AssignBadge(a)
  BY <1>2, <1>5
  DEF CompleteAssessment, ScoreAssessment, AssignBadge, OutcomeSteps, Orderly
<1> QED BY <1>3, <1>4, <1>5

LEMMA SweepIsOrderly ==
    ASSUME TypeInv, NEW a \in Sweeps, SweepFind(a) \/ SweepStep(a)
    PROVE  Orderly(a)
<1>1. /\ a \in Actors /\ frame[a] \in Frames /\ EmptyFrame \in Frames
      /\ EmptyFrame.rid = NoId
  BY OwnRid, LocalsAreTyped DEF Actors, TypeInv
<1>2. \A l \in {"record", "resubmit", "find", "idle"} :
         l \in Labels /\ l \notin OwnsReview /\ l \notin EarlyRun
  BY DEF Labels, SweepSteps, TriggerSteps, OwnsReview, EarlyRun, RunSteps, OutcomeSteps
<1>3. \A l \in {"record", "resubmit", "find", "idle"} : Go(a, l) => KeepsId(a)
  BY <1>1, <1>2 DEF Go, KeepsId
<1>4. review' = review /\ nextId' = nextId
  BY DEF SweepFind, SweepStep, RecordRetryAttempt, SweepResubmit, SweepEnd, rows
<1>5. KeepsId(a)
  BY <1>3 DEF SweepFind, SweepStep, RecordRetryAttempt, SweepResubmit, SweepEnd
<1> QED BY <1>4, <1>5 DEF Orderly

LEMMA CompleteReviewKeeps ==
    ASSUME TypeInv, OwnInv, NEW a \in Actors, CompleteReview(a)
    PROVE  OwnInv'
<1>1. /\ KeepsId(a) /\ frame[a].rid # NoId /\ nextId' = nextId
      /\ \A b \in Actors : pc'[b] \in EarlyRun => b # a
  BY OutcomeKeepsId DEF CompleteReview, OutcomeSteps
<1>2. /\ review'.id = review.id /\ review'.score = review.score
      /\ review' # review => review.id = frame[a].rid
  BY DEF CompleteReview, ReviewStatusTo, TypeInv, TypeOK, ReviewRows
<1>3. \A b \in Actors : pc'[b] \in EarlyRun /\ frame'[b].rid = review'.id =>
          review'.status # "completed"
  BY <1>1, <1>2, KeepsIdKeeps DEF OwnInv
<1> QED BY <1>1, <1>2, <1>3, KeepsIdKeeps DEF OwnInv

LEMMA ScoreReviewKeeps ==
    ASSUME TypeInv, OwnInv, NEW a \in Actors, ScoreReview(a)
    PROVE  OwnInv'
<1>1. KeepsId(a) /\ nextId' = nextId
  BY OutcomeKeepsId DEF ScoreReview, OutcomeSteps
<1>2. review'.id = review.id /\ review'.status = review.status
  BY DEF ScoreReview, ReviewScoreTo, TypeInv, TypeOK, ReviewRows
<1>3. review'.score \in {NoScore, Zero, review'.id}
  BY DEF ScoreReview, ReviewScoreTo, Grade, TypeInv, TypeOK, ReviewRows, OwnInv
<1>4. \A b \in Actors : pc'[b] \in EarlyRun /\ frame'[b].rid = review'.id =>
          review'.status # "completed"
  BY <1>1, <1>2, KeepsIdKeeps DEF OwnInv
<1> QED BY <1>1, <1>2, <1>3, <1>4, KeepsIdKeeps DEF OwnInv

LEMMA CreateAiReviewKeeps ==
    ASSUME TypeInv, OwnInv, NEW a \in Actors, CreateAiReview(a)
    PROVE  OwnInv'
<1>1. CASE Exists /\ Go(a, Rejected(a)) /\ UNCHANGED <<review, nextId>>
  <2>1. /\ frame[a] \in Frames /\ EmptyFrame \in Frames /\ EmptyFrame.rid = NoId
    BY OwnRid, LocalsAreTyped DEF TypeInv
  <2>2. /\ Rejected(a) \in Labels
        /\ Rejected(a) \notin OwnsReview /\ Rejected(a) \notin EarlyRun
    BY DEF Rejected, Labels, FailureSteps, OwnsReview, EarlyRun, RunSteps, OutcomeSteps
  <2>3. KeepsId(a)
    BY <1>1, <2>1, <2>2 DEF Go, KeepsId
  <2> QED BY <1>1, <2>3, OrderlyKeepsOwnInv DEF Orderly
<1>2. CASE /\ review' = [id |-> nextId, status |-> "pending", score |-> NoScore]
           /\ nextId' = nextId + 1
           /\ MoveTo(a, "start", [frame[a] EXCEPT !.rid = nextId])
  <2>1. /\ nextId \in Nat \ {0} /\ frame[a] \in Frames
        /\ \A b \in Actors : frame[b].rid \in Nat
    BY DEF TypeInv, TypeOK, Frames
  <2>2. \A b \in Actors : /\ pc'[b] = IF b = a THEN "start" ELSE pc[b]
                          /\ frame'[b].rid = IF b = a THEN nextId ELSE frame[b].rid
    BY <1>2, <2>1 DEF MoveTo, TypeInv, TypeOK, Frames
  <2>3. /\ review'.id = nextId /\ review'.score = NoScore
        /\ review'.status # "completed"
    BY <1>2
  <2>4. \A b \in Actors : frame'[b].rid < nextId'
    BY <1>2, <2>1, <2>2 DEF OwnInv
  <2>5. \A b, c \in Actors :
           frame'[b].rid = frame'[c].rid /\ frame'[b].rid # NoId => b = c
    BY <2>1, <2>2 DEF OwnInv
  <2>6. \A b \in Actors : pc'[b] \in OwnsReview => frame'[b].rid # NoId
    BY <2>1, <2>2 DEF OwnInv, NoId
  <2> QED BY <1>2, <2>1, <2>3, <2>4, <2>5, <2>6 DEF OwnInv
<1> QED BY <1>1, <1>2 DEF CreateAiReview

LEMMA CrashKeepsOwnInv ==
    ASSUME TypeInv, OwnInv, Crash
    PROVE  OwnInv'
<1>1. EmptyFrame.rid = NoId
  BY DEF EmptyFrame
<1>2. \A a \in Actors : frame'[a].rid = NoId
  BY <1>1 DEF Crash
<1>3. \A a \in Actors : pc'[a] \notin OwnsReview /\ pc'[a] \notin EarlyRun
  <2>1. \A a \in Actors : pc'[a] \in {"idle", "done"}
    BY DEF Crash
  <2> QED BY <2>1 DEF OwnsReview, EarlyRun, RunSteps, OutcomeSteps
<1>4. review' = review /\ nextId' = nextId /\ NoId < nextId
  BY DEF Crash, rows, NoId, TypeInv, TypeOK
<1> QED BY <1>2, <1>3, <1>4 DEF OwnInv

LEMMA OwnInvInductive ==
    ASSUME TypeInv, OwnInv, [Next]_vars
    PROVE  OwnInv'
<1>1. ASSUME NEW a \in Actors, Outside(a)
      PROVE  OwnInv'
  BY <1>1, OutsideIsOrderly, OrderlyKeepsOwnInv
<1>2. ASSUME NEW w \in Sweeps, SweepFind(w) \/ SweepStep(w)
      PROVE  OwnInv'
  BY <1>2, SweepIsOrderly, OrderlyKeepsOwnInv DEF Actors
<1>3. ASSUME NEW a \in Actors, Start(a)
      PROVE  OwnInv'
  BY <1>1, <1>2, <1>3, SubmitOutside, AdminOutside, PollOutside DEF Start
<1>4. ASSUME NEW a \in Runners, TriggerStep(a) \/ RunStep(a)
      PROVE  OwnInv'
  <2>1. a \in Actors
    BY DEF Runners, Actors
  <2>2. CASE TriggerStep(a)
    BY <1>1, <2>1, <2>2, TriggerOutside, CreateAiReviewKeeps, RunIsOrderly,
       OrderlyKeepsOwnInv DEF TriggerStep
  <2>3. CASE RunStep(a)
    BY <1>1, <2>1, <2>3, FailureOutside, RunIsOrderly, OrderlyKeepsOwnInv,
       CompleteReviewKeeps, ScoreReviewKeeps DEF RunStep
  <2> QED BY <1>4, <2>2, <2>3
<1>5. ASSUME NEW a \in Actors, Continue(a)
      PROVE  OwnInv'
  BY <1>1, <1>2, <1>4, <1>5, SubmitOutside, RevertOutside, PollOutside DEF Continue
<1>6. ASSUME NEW a \in Actors, DbFault(a)
      PROVE  OwnInv'
  BY <1>1, <1>6, FaultOutside
<1>7. CASE UNCHANGED vars
  BY <1>7 DEF vars, OwnInv
<1> QED BY <1>3, <1>5, <1>6, <1>7, CrashKeepsOwnInv DEF Next

LEMMA OwnInvInitially == Init => OwnInv
<1> SUFFICES ASSUME Init PROVE OwnInv
  OBVIOUS
<1>1. EmptyFrame.rid = NoId /\ NoReview.id = NoId /\ NoReview.score = NoScore
  BY DEF EmptyFrame, NoReview
<1>2. \A a \in Actors : frame[a].rid = NoId /\ pc[a] = "idle"
  BY <1>1 DEF Init
<1>3. "idle" \notin OwnsReview /\ "idle" \notin EarlyRun
  BY DEF OwnsReview, EarlyRun, RunSteps, OutcomeSteps
<1> QED BY <1>1, <1>2, <1>3 DEF Init, OwnInv, NoId

\* An overtaken run never writes its grade, nor its completion, on the review of
\* the run that replaced it: any number of runs, in any order, with any failure.
THEOREM OwnGradeHolds == Spec => []ReviewKeepsItsOwnGrade
<1>1. TypeInv /\ OwnInv /\ [Next]_vars => TypeInv' /\ OwnInv'
  BY TypeInvInductive, OwnInvInductive
<1>2. OwnInv => ReviewKeepsItsOwnGrade
  BY DEF OwnInv, ReviewKeepsItsOwnGrade, EarlyRun, Runners, Actors
<1> QED BY <1>1, <1>2, OwnInvInitially, TypeInvInitially, PTL DEF Spec
=============================================================================
