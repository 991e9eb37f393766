----------------------------- MODULE Dictation -----------------------------
(***************************************************************************)
(* What the voice input promises to whoever waits for its texts (LiveQuiz: *)
(* startAsrTransform, onAsrTranformResult, onAsrEmpty): a dictation that   *)
(* was started ends once at most, in a text that is shown or in silence,   *)
(* and no text comes of anything else.                                     *)
(***************************************************************************)
CONSTANT Dictations

VARIABLE status

DInit == status = [d \in Dictations |-> "none"]

Start(d) ==
  /\ status[d] = "none"
  /\ status' = [status EXCEPT ![d] = "open"]

End(d) ==
  /\ status[d] = "open"
  /\ \E how \in {"text", "silence"} : status' = [status EXCEPT ![d] = how]

DNext == \E d \in Dictations : Start(d) \/ End(d)

Dictating == DInit /\ [][DNext]_status
=============================================================================
