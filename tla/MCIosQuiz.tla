----------------------------- MODULE MCIosQuiz -----------------------------
(***************************************************************************)
(* The iOS quiz on small instances for TLC.                                *)
(***************************************************************************)
EXTENDS IosQuizProps
=============================================================================
