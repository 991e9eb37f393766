---------------------------- MODULE MCVoiceInput ----------------------------
(***************************************************************************)
(* The voice input on small instances for TLC.                             *)
(***************************************************************************)
EXTENDS VoiceInputProps
=============================================================================
