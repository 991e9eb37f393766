------------------------------ MODULE LiveQuiz ------------------------------
(***************************************************************************)
(* The quiz of a live room: the anchor speaks a question, sends it to the  *)
(* RTM channel, collects the viewers' yes/no answers for WAIT_TIME and     *)
(* publishes the statistics (AnchorLiveActivity, ViewerLiveActivity and    *)
(* the message part of BaseLiveActivity).                                  *)
(*                                                                         *)
(* A participant is one activity instance, which runs on one UI thread;    *)
(* participants interleave freely.  A question is named by the rank of the *)
(* recognition result it comes from.  The code sends no such name: in      *)
(* messages, dialogs and lines it is there for the properties to speak     *)
(* about, and no guard reads it.                                           *)
(***************************************************************************)
EXTENDS Naturals, FiniteSets, SequencesExt, ChatWindow

CONSTANTS
  Anchor,         \* the AnchorLiveActivity
  Viewers,        \* the ViewerLiveActivity instances
  MaxQuestions,   \* bound: speech recognitions that return a text
  MaxAsr,         \* bound: recognitions that may be outstanding at once.  The
                  \* code sets none; 1 is an anchor who waits for the text
                  \* before pressing the button again
  MaxMsgCount     \* MessageContainer.MAX_MSG_COUNT

ASSUME AnchorAssumption == Anchor \notin Viewers
ASSUME ViewersAssumption == IsFiniteSet(Viewers)
ASSUME BoundsAssumption == /\ MaxQuestions \in Nat
                           /\ MaxAsr \in Nat
                           /\ MaxMsgCount \in Nat \ {0}

VARIABLES
  \* every participant
  phase,             \* "live", "finished" (finish() ran), "destroyed", "crashed"
  inRoom,            \* the participants whose RtmChannel is joined
  window,            \* the lines of each participant's MessageContainer
  \* the anchor
  inputDialog,       \* mInputDialog is on the screen
  asrPending,        \* recognitions started and not yet reported to the UI
  recognised,        \* recognitions that have returned a text
  checkDialogs,      \* the VoiceInputCheckDialogs, the one on top last
  mPreQuestionInfo,  \* the question last sent, 0 for null
  mIsWaitingResult,
  mYesNum, mNoNum,
  timers,            \* MSG_ANALYZE_RESULT messages in mHandler's queue
  \* the viewers
  dialogs,           \* the AlertDialogs of each viewer, the one on top last
  \* the RTM channel, with the receivers' SDK threads and posted Runnables
  net,
  \* history, read by no action
  tallied,           \* the answers received since a question was last sent
  announced          \* the statistics the anchor has published

anchorVars == <<inputDialog, asrPending, recognised, checkDialogs>>
tallyVars  == <<mPreQuestionInfo, mIsWaitingResult, mYesNum, mNoNum, timers>>
history    == <<tallied, announced>>
vars == <<phase, inRoom, window, anchorVars, tallyVars, dialogs, net, history>>

Participants == Viewers \cup {Anchor}
Questions    == 1..MaxQuestions
Buttons      == {"yes", "no"}

\* The constants RESULT_YES and RESULT_NO: the text a button sends.
RESULT(button) == IF button = "yes" THEN "no" ELSE "yes"

\* What travels in the channel and what a window shows; the three kinds are the
\* prefixes MSG_PREFIX_QUESTION, MSG_PREFIX_QUESTION_RESULT and
\* MSG_PREFIX_DIRECT_DISPLAY.  `choice` is the button pressed, for the properties.
QuestionLine == [kind : {"question"}, q : Questions]
AnswerLine   == [kind : {"answer"}, from : Viewers, q : Questions,
                 choice : Buttons, text : Buttons]
StatLine     == [kind : {"stat"}, q : {0} \cup Questions, yes : Nat, no : Nat]
Line         == QuestionLine \cup AnswerLine \cup StatLine
Message      == [to : Participants, body : Line]
-----------------------------------------------------------------------------
Init ==
  /\ phase = [p \in Participants |-> "live"]
  /\ inRoom = {}
  /\ window = [p \in Participants |-> << >>]
  /\ inputDialog = FALSE
  /\ asrPending = 0
  /\ recognised = 0
  /\ checkDialogs = << >>
  /\ mPreQuestionInfo = 0
  /\ mIsWaitingResult = FALSE
  /\ mYesNum = 0
  /\ mNoNum = 0
  /\ timers = 0
  /\ dialogs = [v \in Viewers |-> << >>]
  /\ net = {}
  /\ tallied = {}
  /\ announced = << >>
-----------------------------------------------------------------------------
(* Helpers.                                                                *)

\* The windows of an activity stay until it is destroyed.
OnScreen(p) == phase[p] \in {"live", "finished"}

Show(p, line) ==
  window' = [window EXCEPT ![p] = AddMessage(@, line, MaxMsgCount)]

\* The failure callback of sendMessage only logs, so every way of losing a
\* message looks alike: it reaches some of the members, or nobody when the
\* sender's own channel is not joined or is released.
Broadcast(p, body) ==
  \E receivers \in SUBSET (IF p \in inRoom THEN inRoom \ {p} ELSE {}) :
    net' = net \cup {[to |-> r, body |-> body] : r \in receivers}

\* The sender's window shows the message whether or not it was sent.
sendMsg(p, body) == Broadcast(p, body) /\ Show(p, body)

\* A Runnable throws on the UI thread: the process of p is gone.
Crash(p) ==
  /\ phase' = [phase EXCEPT ![p] = "crashed"]
  /\ inRoom' = inRoom \ {p}
-----------------------------------------------------------------------------
(* Life cycle of an activity.                                              *)

JoinRoom(p) ==
  /\ phase[p] = "live"
  /\ p \notin inRoom
  /\ inRoom' = inRoom \cup {p}
  /\ UNCHANGED <<phase, window, anchorVars, tallyVars, dialogs, net, history>>

HasDialog(p) == IF p = Anchor THEN inputDialog \/ checkDialogs # << >>
                              ELSE dialogs[p] # << >>

\* Mutant: finish() already removes the delayed message.
finishStopsTimer(p) ==
  /\ phase[p] = "live"
  /\ ~HasDialog(p)
  /\ phase' = [phase EXCEPT ![p] = "finished"]
  /\ inRoom' = inRoom \ {p}
  /\ timers' = IF p = Anchor THEN 0 ELSE timers
  /\ UNCHANGED <<window, anchorVars, mPreQuestionInfo, mIsWaitingResult, mYesNum,
                 mNoNum, dialogs, net, history>>

\* The user leaves with the back key, which a dialog on top would take instead.
finish(p) ==
  /\ phase[p] = "live"
  /\ ~HasDialog(p)
  /\ phase' = [phase EXCEPT ![p] = "finished"]
  /\ inRoom' = inRoom \ {p}
  /\ UNCHANGED <<window, anchorVars, tallyVars, dialogs, net, history>>

\* After finish(), or without it when the system reclaims the activity: then the
\* channel stays joined.  The windows go without calling their listeners.
onDestroy(p) ==
  /\ OnScreen(p)
  /\ phase' = [phase EXCEPT ![p] = "destroyed"]
  /\ \/ /\ p = Anchor
        /\ inputDialog' = FALSE
        /\ checkDialogs' = << >>
        /\ timers' = 0
        /\ UNCHANGED dialogs
     \/ /\ p # Anchor
        /\ dialogs' = [dialogs EXCEPT ![p] = << >>]
        /\ UNCHANGED <<inputDialog, checkDialogs, timers>>
  /\ UNCHANGED <<inRoom, window, asrPending, recognised, mPreQuestionInfo,
                 mIsWaitingResult, mYesNum, mNoNum, net, history>>
-----------------------------------------------------------------------------
(* The anchor.                                                             *)

\* Mutant: the entrance forgets that a question waits.
questViewClickAnyTime ==
  /\ phase[Anchor] = "live"
  /\ ~HasDialog(Anchor)
  /\ inputDialog' = TRUE
  /\ UNCHANGED <<phase, inRoom, window, asrPending, recognised, checkDialogs,
                 tallyVars, dialogs, net, history>>

\* The entrance only raises a toast while a question waits for answers.
questViewClick ==
  /\ phase[Anchor] = "live"
  /\ ~HasDialog(Anchor)
  /\ ~mIsWaitingResult
  /\ inputDialog' = TRUE
  /\ UNCHANGED <<phase, inRoom, window, asrPending, recognised, checkDialogs,
                 tallyVars, dialogs, net, history>>

\* Pressing the record button: VoiceInputDialog's onStart.
startAsrTransform ==
  /\ phase[Anchor] = "live"
  /\ inputDialog
  /\ checkDialogs = << >>
  /\ asrPending < MaxAsr
  /\ recognised + asrPending < MaxQuestions
  /\ asrPending' = asrPending + 1
  /\ UNCHANGED <<phase, inRoom, window, inputDialog, recognised, checkDialogs,
                 tallyVars, dialogs, net, history>>

dismissInputDialog ==
  /\ inputDialog
  /\ inputDialog' = FALSE
  /\ UNCHANGED <<phase, inRoom, window, asrPending, recognised, checkDialogs,
                 tallyVars, dialogs, net, history>>

\* An empty text is a toast; after release() there is no listener to call.
onAsrEmpty ==
  /\ asrPending > 0
  /\ phase[Anchor] # "crashed"
  /\ asrPending' = asrPending - 1
  /\ UNCHANGED <<phase, inRoom, window, inputDialog, recognised, checkDialogs,
                 tallyVars, dialogs, net, history>>

\* The posted Runnable: mInputDialog.dismiss() and doubleCheckInputMsg up to
\* show(), which throws when the activity's window token is gone.
onAsrTranformResult ==
  /\ asrPending > 0
  /\ recognised < MaxQuestions
  /\ phase[Anchor] # "crashed"
  /\ asrPending' = asrPending - 1
  /\ recognised' = recognised + 1
  /\ \/ /\ OnScreen(Anchor)
        /\ inputDialog' = FALSE
        /\ checkDialogs' = Append(checkDialogs, recognised + 1)
        /\ UNCHANGED <<phase, inRoom>>
     \/ /\ phase[Anchor] = "destroyed"
        /\ Crash(Anchor)
        /\ UNCHANGED <<inputDialog, checkDialogs>>
  /\ UNCHANGED <<window, tallyVars, dialogs, net, history>>

\* Mutant: the counters of the last question are kept.
sendQuestionKeepsCounts ==
  /\ OnScreen(Anchor)
  /\ checkDialogs # << >>
  /\ checkDialogs' = Front(checkDialogs)
  /\ mPreQuestionInfo' = Last(checkDialogs)
  /\ sendMsg(Anchor, [kind |-> "question", q |-> Last(checkDialogs)])
  /\ mIsWaitingResult' = TRUE
  /\ timers' = timers + 1
  /\ tallied' = {}
  /\ UNCHANGED <<phase, inRoom, inputDialog, asrPending, recognised, dialogs,
                 announced, mYesNum, mNoNum>>

\* Send, back or a touch outside: onDismiss with the edited text.
sendQuestion ==
  /\ OnScreen(Anchor)
  /\ checkDialogs # << >>
  /\ checkDialogs' = Front(checkDialogs)
  /\ mPreQuestionInfo' = Last(checkDialogs)
  /\ sendMsg(Anchor, [kind |-> "question", q |-> Last(checkDialogs)])
  /\ mIsWaitingResult' = TRUE
  /\ mYesNum' = 0
  /\ mNoNum' = 0
  /\ timers' = timers + 1
  /\ tallied' = {}
  /\ UNCHANGED <<phase, inRoom, inputDialog, asrPending, recognised, dialogs,
                 announced>>

\* The Cancel button, which clears the listener first, or onDismiss with an
\* emptied text.
dropQuestion ==
  /\ OnScreen(Anchor)
  /\ checkDialogs # << >>
  /\ checkDialogs' = Front(checkDialogs)
  /\ UNCHANGED <<phase, inRoom, window, inputDialog, asrPending, recognised,
                 tallyVars, dialogs, net, history>>

\* Mutant: a question nobody answered gets no statistics.
announceOnlyAnswered ==
  /\ phase[Anchor] # "crashed"
  /\ timers > 0
  /\ timers' = timers - 1
  /\ mIsWaitingResult' = FALSE
  /\ IF mYesNum + mNoNum = 0
     THEN UNCHANGED <<net, window, announced>>
     ELSE /\ sendMsg(Anchor, [kind |-> "stat", q |-> mPreQuestionInfo,
                              yes |-> mYesNum, no |-> mNoNum])
          /\ announced' = Append(announced, [q |-> mPreQuestionInfo,
                                             yes |-> mYesNum, no |-> mNoNum])
  /\ UNCHANGED <<phase, inRoom, anchorVars, mPreQuestionInfo, mYesNum, mNoNum,
                 dialogs, tallied>>

\* The handler's message: after finish() it still runs, and sends to nobody.
startAnalyzeQuestionResult ==
  /\ phase[Anchor] # "crashed"
  /\ timers > 0
  /\ timers' = timers - 1
  /\ mIsWaitingResult' = FALSE
  /\ sendMsg(Anchor, [kind |-> "stat", q |-> mPreQuestionInfo,
                      yes |-> mYesNum, no |-> mNoNum])
  /\ announced' = Append(announced, [q |-> mPreQuestionInfo,
                                     yes |-> mYesNum, no |-> mNoNum])
  /\ UNCHANGED <<phase, inRoom, anchorVars, mPreQuestionInfo, mYesNum, mNoNum,
                 dialogs, tallied>>

\* Mutant: the text is compared with the word "yes".
anchorReadsWord(m) ==
  /\ m.to = Anchor
  /\ phase[Anchor] # "crashed"
  /\ net' = net \ {m}
  /\ IF m.body.text = "yes"
     THEN mYesNum' = mYesNum + 1 /\ UNCHANGED mNoNum
     ELSE mNoNum' = mNoNum + 1 /\ UNCHANGED mYesNum
  /\ tallied' = tallied \cup {m.body}
  /\ UNCHANGED <<phase, inRoom, window, anchorVars, mPreQuestionInfo,
                 mIsWaitingResult, timers, dialogs, announced>>

\* Only answers are sent to the anchor, who is alone in sending the rest.
anchorHandleMessage(m) ==
  /\ m.to = Anchor
  /\ phase[Anchor] # "crashed"
  /\ net' = net \ {m}
  /\ IF m.body.text = RESULT("yes")
     THEN mYesNum' = mYesNum + 1 /\ UNCHANGED mNoNum
     ELSE mNoNum' = mNoNum + 1 /\ UNCHANGED mYesNum
  /\ tallied' = tallied \cup {m.body}
  /\ UNCHANGED <<phase, inRoom, window, anchorVars, mPreQuestionInfo,
                 mIsWaitingResult, timers, dialogs, announced>>
-----------------------------------------------------------------------------
(* A viewer.                                                               *)

\* handleReceiveQuestion opens a dialog, then the base class adds the line.
viewerHandleQuestion(v, m) ==
  /\ m.to = v
  /\ m.body.kind = "question"
  /\ net' = net \ {m}
  /\ \/ /\ OnScreen(v)
        /\ dialogs' = [dialogs EXCEPT ![v] = Append(@, m.body.q)]
        /\ Show(v, m.body)
        /\ UNCHANGED <<phase, inRoom>>
     \/ /\ phase[v] = "destroyed"
        /\ Crash(v)
        /\ UNCHANGED <<dialogs, window>>
  /\ UNCHANGED <<anchorVars, tallyVars, history>>

viewerHandleStat(v, m) ==
  /\ m.to = v
  /\ m.body.kind = "stat"
  /\ phase[v] # "crashed"
  /\ net' = net \ {m}
  /\ Show(v, m.body)
  /\ UNCHANGED <<phase, inRoom, anchorVars, tallyVars, dialogs, history>>

\* Mutant: the early return for answers is missing.
viewerShowsAnswer(v, m) ==
  /\ m.to = v
  /\ m.body.kind = "answer"
  /\ phase[v] # "crashed"
  /\ net' = net \ {m}
  /\ Show(v, m.body)
  /\ UNCHANGED <<phase, inRoom, anchorVars, tallyVars, dialogs, history>>

\* Another viewer's answer: the early return of the base class.
viewerIgnoreAnswer(v, m) ==
  /\ m.to = v
  /\ m.body.kind = "answer"
  /\ phase[v] # "crashed"
  /\ net' = net \ {m}
  /\ UNCHANGED <<phase, inRoom, window, anchorVars, tallyVars, dialogs, history>>

\* Mutant: the dialog stays open after a click.
clickAnswerAgain(v, button) ==
  /\ OnScreen(v)
  /\ dialogs[v] # << >>
  /\ sendMsg(v, [kind |-> "answer", from |-> v, q |-> Last(dialogs[v]),
                 choice |-> button, text |-> RESULT(button)])
  /\ UNCHANGED <<phase, inRoom, anchorVars, tallyVars, dialogs, history>>

\* A button of the dialog on top, which goes with the click.
clickAnswer(v, button) ==
  /\ OnScreen(v)
  /\ dialogs[v] # << >>
  /\ dialogs' = [dialogs EXCEPT ![v] = Front(@)]
  /\ sendMsg(v, [kind |-> "answer", from |-> v, q |-> Last(dialogs[v]),
                 choice |-> button, text |-> RESULT(button)])
  /\ UNCHANGED <<phase, inRoom, anchorVars, tallyVars, history>>

dismissQuestion(v) ==
  /\ OnScreen(v)
  /\ dialogs[v] # << >>
  /\ dialogs' = [dialogs EXCEPT ![v] = Front(@)]
  /\ UNCHANGED <<phase, inRoom, window, anchorVars, tallyVars, net, history>>
-----------------------------------------------------------------------------
Next ==
  \/ \E p \in Participants : JoinRoom(p) \/ finish(p) \/ onDestroy(p)
  \/ questViewClick \/ startAsrTransform \/ dismissInputDialog
  \/ onAsrEmpty \/ onAsrTranformResult \/ sendQuestion \/ dropQuestion
  \/ startAnalyzeQuestionResult
  \/ \E m \in net : anchorHandleMessage(m)
  \/ \E v \in Viewers, m \in net : \/ viewerHandleQuestion(v, m)
                                   \/ viewerHandleStat(v, m)
                                   \/ viewerIgnoreAnswer(v, m)
  \/ \E v \in Viewers, b \in Buttons : clickAnswer(v, b)
  \/ \E v \in Viewers : dismissQuestion(v)

Spec == Init /\ [][Next]_vars

\* The looper delivers a delayed message while the process lives.  Nothing is
\* assumed of the users, of the recognition service or of the channel.
FairSpec == Spec /\ WF_vars(startAnalyzeQuestionResult)
=============================================================================
