--------------------------- MODULE MCImageSelect ---------------------------
(***************************************************************************)
(* The picture selection on small instances for TLC.                       *)
(***************************************************************************)
EXTENDS ImageSelectProps
=============================================================================
