---------------------------- MODULE MCRoomEvents ----------------------------
(***************************************************************************)
(* The viewer's room on small instances for TLC.                           *)
(***************************************************************************)
EXTENDS RoomEventsProps
=============================================================================
