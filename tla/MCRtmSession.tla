---------------------------- MODULE MCRtmSession ----------------------------
(***************************************************************************)
(* The RTM session on small instances for TLC.                             *)
(***************************************************************************)
EXTENDS RtmSessionProps
=============================================================================
