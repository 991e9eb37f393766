----------------------------- MODULE ChatWindow -----------------------------
(***************************************************************************)
(* The list operation of widget/MessageContainer: what addMessage does to  *)
(* mMessageList.  It is kept apart from the state machine MessageContainer *)
(* so that the room modules can use it for the window of each participant. *)
(***************************************************************************)
EXTENDS Naturals, Sequences

\* Mutant: the loop condition off by one.
AddMessageOneMore(list, line, max) ==
  LET kept == IF Len(list) > max
              THEN SubSeq(list, Len(list) - max + 1, Len(list))
              ELSE list
  IN  Append(kept, line)

\* The while loop drops from the front until fewer than max lines are left;
\* then the new line goes to the end.  `max` is MAX_MSG_COUNT, 20 in the code.
AddMessage(list, line, max) ==
  LET kept == IF Len(list) >= max
              THEN SubSeq(list, Len(list) - max + 2, Len(list))
              ELSE list
  IN  Append(kept, line)
=============================================================================
