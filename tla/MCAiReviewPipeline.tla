------------------------- MODULE MCAiReviewPipeline -------------------------
(* The AI review pipeline on small sets of requests. *)
EXTENDS AiReviewPipeline, TLC

\* The places at which a run lets a database call fail.
NoFaults == {}
SoloFaults == {"rvDelete"} \cup PollSteps
AllFaults == Labels \ {"idle", "done"}

Symmetry == Permutations(Submits) \cup Permutations(Sweeps)
=============================================================================
