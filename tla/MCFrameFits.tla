------------------------------ MODULE MCFrameFits ------------------------------
(***************************************************************************)
(* The functions and handlers for which FrameExecutionProofs shows that    *)
(* the frame code is correct: TLC evaluates the proofs' hypotheses on them *)
(* before it checks the properties.                                        *)
(***************************************************************************)
EXTENDS MCFrame, FrameExecutionProofs

ASSUME FrameHypotheses == Hypotheses /\ \A f \in Functions : ReadsArguments(f)
=============================================================================
