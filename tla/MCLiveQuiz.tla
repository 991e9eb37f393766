----------------------------- MODULE MCLiveQuiz -----------------------------
(***************************************************************************)
(* The quiz on small instances for TLC.                                    *)
(***************************************************************************)
EXTENDS LiveQuizProps, TLC

\* The viewers are interchangeable: no property names one of them.
Symmetry == Permutations(Viewers)
=============================================================================
