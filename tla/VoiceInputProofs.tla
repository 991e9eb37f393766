-------------------------- MODULE VoiceInputProofs --------------------------
(***************************************************************************)
(* Proofs about the voice input, for every number of recognitions and      *)
(* activities.                                                             *)
(***************************************************************************)
EXTENDS VoiceInputProps, FiniteSetTheorems, TLAPS

\* The actions, by the thread that takes them.
LEMMA Threads ==
  ASSUME Next
  PROVE  \/ /\ \/ ACTION_DOWN \/ moveOut \/ moveIn \/ onLongClick
               \/ upTooShort \/ upAfterLongPress \/ ACTION_CANCEL
               \/ showVoiceInputDialog \/ dismissByUser \/ runResult
               \/ onRequestPermissionsResult \/ answerNobody
               \/ finish \/ destroyBySystem \/ onCreate
               \/ \E a \in Activities : onDestroy(a)
               \/ \E r \in Recognitions : \/ onBegin(r) \/ onEnd(r) \/ onLastResult(r)
                                          \/ onCompleted(r) \/ onError(r)
               \/ callListener \/ sdkStops
            /\ UNCHANGED crashed
         \/ runResultTooLate \/ callNull
BY DEF Next, Step, ACTION_UP
-----------------------------------------------------------------------------
(* Types.                                                                  *)

\* What keeps a part of the state keeps its types.
LEMMA UnchangedTypes ==
  ASSUME TypeInvariant
  PROVE  /\ UNCHANGED screen => ScreenTypes'
         /\ UNCHANGED button => ButtonTypes'
         /\ UNCHANGED window => WindowTypes'
         /\ UNCHANGED <<screen, channel, sdk>> => ChannelTypes'
         /\ UNCHANGED <<system, muted, crashed>> => SystemTypes'
         /\ UNCHANGED <<threads, posted>> => ThreadTypes'
         /\ UNCHANGED history => HistoryTypes'
<1> USE DEF TypeInvariant
<1>1. UNCHANGED screen => ScreenTypes'
  BY DEF ScreenTypes, screen
<1>2. UNCHANGED button => ButtonTypes'
  BY DEF ButtonTypes, button
<1>3. UNCHANGED window => WindowTypes'
  BY DEF WindowTypes, window
<1>4. UNCHANGED <<screen, channel, sdk>> => ChannelTypes'
  BY DEF ChannelTypes, Exists, screen, channel
<1>5. UNCHANGED <<system, muted, crashed>> => SystemTypes'
  BY DEF SystemTypes, system
<1>6. UNCHANGED <<threads, posted>> => ThreadTypes'
  BY DEF ThreadTypes, threads
<1>7. UNCHANGED history => HistoryTypes'
  BY DEF HistoryTypes, history
<1>8. QED
  BY <1>1, <1>2, <1>3, <1>4, <1>5, <1>6, <1>7

LEMMA NewThreadTypes ==
  ASSUME ThreadTypes, newThread
  PROVE  /\ audio' \in [Recognitions -> {"none", "starting", "recording", "ended"}]
         /\ overlapped' = (overlapped \/ Open # {})
BY DEF ThreadTypes, newThread

\* A press, or a finger that comes back, on the activity that is there.
LEMMA PressTypes ==
  ASSUME TypeInvariant, alive, changeToRecording,
         UNCHANGED <<screen, mReady, showing, mIsCallbacked, sdk, granted, stopped,
                     service, posted, crashed, released, robbed, answers>>,
         held' \in BOOLEAN, longPress' \in BOOLEAN, cutShort' \in BOOLEAN
  PROVE  TypeInvariant'
<1> USE DEF TypeInvariant
<1>1. ScreenTypes'
  BY UnchangedTypes
<1>2. ButtonTypes'
  BY DEF ButtonTypes, changeToRecording
<1>3. WindowTypes'
  <2>1. mIsAutoChangeProgress' \in BOOLEAN
    BY DEF WindowTypes, changeToRecording, recording
  <2>2. ticks' \in {ticks, ticks + 1}
    BY DEF changeToRecording, recording
  <2>3. ticks' \in Nat
    BY <2>2 DEF WindowTypes
  <2>4. QED
    BY <2>1, <2>3 DEF WindowTypes
<1>4. ChannelTypes'
  <2>1. mListener' \in {mListener, activity} /\ mIsTransfroming' \in BOOLEAN
    BY DEF ChannelTypes, changeToRecording, recording, startAsrTransform
  <2>2. QED
    BY <2>1 DEF ChannelTypes, ScreenTypes, Exists, screen
<1>5. SystemTypes'
  <2>1. muted' \in BOOLEAN /\ permPending' \in {"none", "asked", "orphaned"}
    BY DEF SystemTypes, changeToRecording, recording, startAsrTransform
  <2>2. QED
    BY <2>1 DEF SystemTypes
<1>6. ThreadTypes'
  BY NewThreadTypes DEF ThreadTypes, changeToRecording, recording, startAsrTransform
<1>7. HistoryTypes'
  <2>1. overlapped' = (overlapped \/ Open # {}) \/ overlapped' = overlapped
    BY NewThreadTypes DEF changeToRecording, recording, startAsrTransform
  <2>2. QED
    BY <2>1 DEF HistoryTypes
<1>8. QED
  BY <1>1, <1>2, <1>3, <1>4, <1>5, <1>6, <1>7

LEMMA HideTypes ==
  ASSUME TypeInvariant, hide
  PROVE  ButtonTypes' /\ WindowTypes' /\ cutShort' \in BOOLEAN
BY DEF TypeInvariant, hide, ButtonTypes, WindowTypes, HistoryTypes

LEMMA ReleaseTypes ==
  ASSUME TypeInvariant, NEW a, release(a), cutShort' \in BOOLEAN
  PROVE  ChannelTypes' /\ ThreadTypes' /\ HistoryTypes'
<1>1. mIsTransfroming' \in BOOLEAN /\ stopped' \subseteq Recognitions
  BY DEF TypeInvariant, release, stopAsrTransform, ChannelTypes, ThreadTypes
<1>2. ChannelTypes'
  BY <1>1 DEF TypeInvariant, release, ChannelTypes
<1>3. ThreadTypes'
  BY <1>1 DEF TypeInvariant, release, ThreadTypes
<1>4. HistoryTypes'
  BY DEF TypeInvariant, release, HistoryTypes, Open
<1>5. QED
  BY <1>2, <1>3, <1>4

LEMMA GoOnTypes ==
  ASSUME NEW r \in Recognitions, NEW result \in Result, NEW after \in {Idle, Stopping},
         goOn(r, result, after)
  PROVE  sdk' \in {Idle, Stopping} \cup Calling
BY DEF goOn, Calling

LEMMA TypeStep ==
  ASSUME TypeInvariant, Pressed, [Next]_vars
  PROVE  TypeInvariant'
<1>1. CASE UNCHANGED vars
  BY <1>1, UnchangedTypes DEF vars, TypeInvariant
<1>2. CASE ACTION_DOWN /\ UNCHANGED crashed
  BY <1>2, PressTypes DEF ACTION_DOWN
<1>3. CASE moveIn /\ UNCHANGED crashed
  <2>1. alive /\ longPress' \in BOOLEAN /\ held' \in BOOLEAN /\ cutShort' \in BOOLEAN
    BY <1>3 DEF moveIn, Pressed, TypeInvariant, ButtonTypes, HistoryTypes
  <2>2. QED
    BY <1>3, <2>1, PressTypes DEF moveIn
<1>4. CASE moveOut /\ UNCHANGED crashed
  <2>1. ButtonTypes'
    BY <1>4 DEF moveOut, TypeInvariant, ButtonTypes
  <2>2. QED
    BY <1>4, <2>1, UnchangedTypes DEF moveOut, TypeInvariant
<1>5. CASE upAfterLongPress /\ UNCHANGED crashed
  <2>1. ButtonTypes' /\ WindowTypes'
    BY <1>5 DEF upAfterLongPress, reset, TypeInvariant, ButtonTypes, WindowTypes
  <2>2. ChannelTypes'
    BY <1>5 DEF upAfterLongPress, stopAsrTransform, TypeInvariant, ChannelTypes, Exists, screen
  <2>3. SystemTypes' /\ ThreadTypes'
    BY <1>5 DEF upAfterLongPress, stopAsrTransform, TypeInvariant, SystemTypes, ThreadTypes, system
  <2>4. HistoryTypes'
    BY <1>5 DEF upAfterLongPress, Heard, TypeInvariant, HistoryTypes, ScreenTypes
  <2>5. QED
    BY <1>5, <2>1, <2>2, <2>3, <2>4, UnchangedTypes DEF upAfterLongPress, TypeInvariant
<1>6. CASE (onLongClick \/ upTooShort \/ ACTION_CANCEL) /\ UNCHANGED crashed
  <2>1. CASE onLongClick
    BY <1>6, <2>1, UnchangedTypes DEF onLongClick, TypeInvariant, ButtonTypes
  <2>2. CASE upTooShort
    <3>1. ButtonTypes' /\ WindowTypes' /\ HistoryTypes'
      BY <2>2 DEF upTooShort, reset, TypeInvariant, ButtonTypes, WindowTypes, HistoryTypes
    <3>2. QED
      BY <1>6, <2>2, <3>1, UnchangedTypes DEF upTooShort, TypeInvariant
  <2>3. CASE ACTION_CANCEL
    <3>1. ButtonTypes' /\ HistoryTypes'
      BY <2>3 DEF ACTION_CANCEL, TypeInvariant, ButtonTypes, HistoryTypes
    <3>2. QED
      BY <1>6, <2>3, <3>1, UnchangedTypes DEF ACTION_CANCEL, TypeInvariant
  <2>4. QED
    BY <1>6, <2>1, <2>2, <2>3
<1>7. CASE (showVoiceInputDialog \/ dismissByUser \/ runResult) /\ UNCHANGED crashed
  <2>1. CASE showVoiceInputDialog
    <3>1. WindowTypes'
      BY <2>1 DEF showVoiceInputDialog, TypeInvariant, WindowTypes
    <3>2. QED
      BY <1>7, <2>1, <3>1, UnchangedTypes DEF showVoiceInputDialog, TypeInvariant
  <2>2. CASE dismissByUser
    <3>1. HistoryTypes'
      BY <2>2, HideTypes DEF dismissByUser, TypeInvariant, HistoryTypes
    <3>2. QED
      BY <1>7, <2>2, <3>1, HideTypes, UnchangedTypes DEF dismissByUser, TypeInvariant
  <2>3. CASE runResult
    <3>1. ButtonTypes' /\ WindowTypes' /\ cutShort' \in BOOLEAN
      BY <2>3, HideTypes, UnchangedTypes DEF runResult, TypeInvariant, HistoryTypes
    <3>2. ThreadTypes'
      BY <2>3 DEF runResult, TypeInvariant, ThreadTypes, threads
    <3>3. HistoryTypes'
      BY <2>3, <3>1 DEF runResult, TypeInvariant, HistoryTypes
    <3>4. QED
      BY <1>7, <2>3, <3>1, <3>2, <3>3, UnchangedTypes DEF runResult, TypeInvariant
  <2>4. QED
    BY <1>7, <2>1, <2>2, <2>3
<1>8. CASE onRequestPermissionsResult /\ UNCHANGED crashed
  <2>1. ThreadTypes' /\ SystemTypes' /\ HistoryTypes'
    BY <1>8, NewThreadTypes
       DEF onRequestPermissionsResult, TypeInvariant, ThreadTypes, SystemTypes, HistoryTypes
  <2>2. ChannelTypes'
    BY <1>8 DEF onRequestPermissionsResult, TypeInvariant, ChannelTypes, Exists, screen
  <2>3. QED
    BY <1>8, <2>1, <2>2, UnchangedTypes DEF onRequestPermissionsResult, TypeInvariant
<1>9. CASE finish /\ UNCHANGED crashed
  <2>1. ScreenTypes'
    BY <1>9 DEF finish, TypeInvariant, ScreenTypes
  <2>2. \A a \in Activities : Exists(a) => Exists(a)'
    BY <1>9 DEF finish, Exists
  <2>3. ChannelTypes'
    BY <1>9, <2>2 DEF finish, TypeInvariant, ChannelTypes, channel
  <2>4. SystemTypes'
    BY <1>9 DEF finish, TypeInvariant, SystemTypes
  <2>5. QED
    BY <1>9, <2>1, <2>3, <2>4, UnchangedTypes DEF finish, TypeInvariant
<1>10. CASE onCreate /\ UNCHANGED crashed
  <2>1. activity' \in Activities
    BY <1>10, VoiceAssumption DEF onCreate, TypeInvariant, ScreenTypes, Activities
  <2>2. ScreenTypes'
    BY <1>10, <2>1 DEF onCreate, TypeInvariant, ScreenTypes
  <2>3. \A a \in Activities : Exists(a) => Exists(a)'
    BY <1>10 DEF onCreate, Exists
  <2>4. ChannelTypes'
    BY <1>10, <2>3 DEF onCreate, TypeInvariant, ChannelTypes, channel
  <2>5. ButtonTypes'
    BY <1>10 DEF onCreate, TypeInvariant, ButtonTypes
  <2>6. WindowTypes'
    BY <1>10 DEF onCreate, TypeInvariant, WindowTypes
  <2>7. QED
    BY <1>10, <2>2, <2>4, <2>5, <2>6, UnchangedTypes DEF onCreate, TypeInvariant
<1>11. CASE destroyBySystem /\ UNCHANGED crashed
  <2>1. ScreenTypes'
    BY <1>11 DEF destroyBySystem, TypeInvariant, ScreenTypes
  <2>2. QED
    BY <1>11, <2>1, HideTypes, ReleaseTypes, UnchangedTypes
       DEF destroyBySystem, TypeInvariant, release
<1>12. CASE (\E a \in Activities : onDestroy(a)) /\ UNCHANGED crashed
  <2>1. PICK a \in Activities : onDestroy(a)
    BY <1>12
  <2>2. ScreenTypes' /\ cutShort' \in BOOLEAN
    BY <2>1 DEF onDestroy, TypeInvariant, ScreenTypes, HistoryTypes
  <2>3. QED
    BY <1>12, <2>1, <2>2, ReleaseTypes, UnchangedTypes DEF onDestroy, TypeInvariant, release
<1>13. CASE (\E r \in Recognitions : onBegin(r) \/ onEnd(r)) /\ UNCHANGED crashed
  <2>1. PICK r \in Recognitions : onBegin(r) \/ onEnd(r)
    BY <1>13
  <2>2. ThreadTypes'
    BY <2>1 DEF onBegin, onEnd, TypeInvariant, ThreadTypes
  <2>3. ChannelTypes'
    BY <2>1 DEF onBegin, onEnd, TypeInvariant, ChannelTypes, Exists, screen, channel
  <2>4. QED
    BY <1>13, <2>1, <2>2, <2>3, UnchangedTypes DEF onBegin, onEnd, TypeInvariant
<1>14. CASE (\E r \in Recognitions : onLastResult(r) \/ onCompleted(r) \/ onError(r))
            /\ UNCHANGED crashed
  <2>1. PICK r \in Recognitions : onLastResult(r) \/ onCompleted(r) \/ onError(r)
    BY <1>14
  <2>2. ThreadTypes'
    BY <2>1 DEF onLastResult, onCompleted, onError, TypeInvariant, ThreadTypes
  <2>3. sdk' \in {Idle, Stopping} \cup Calling
    BY <2>1, GoOnTypes DEF onLastResult, onCompleted, onError, Result, TypeInvariant, ChannelTypes
  <2>4. ChannelTypes'
    BY <2>1, <2>3 DEF onLastResult, onCompleted, onError, TypeInvariant, ChannelTypes, Exists,
                      screen, channel
  <2>5. QED
    BY <1>14, <2>1, <2>2, <2>4, UnchangedTypes DEF onLastResult, onCompleted, onError, TypeInvariant
<1>15. CASE callListener /\ UNCHANGED crashed
  <2>1. sdk \in Calling /\ mListener \in Activities
    BY <1>15 DEF callListener, TypeInvariant, ChannelTypes, Idle, Stopping
  <2>2. sdk.rec \in Recognitions /\ sdk.result \in Result /\ sdk.after \in {Idle, Stopping}
    BY <2>1 DEF Calling
  <2>3. answers' \in [Recognitions -> Seq(Result)]
    BY <1>15, <2>2 DEF callListener, TypeInvariant, HistoryTypes
  <2>4. HistoryTypes'
    BY <1>15, <2>3 DEF callListener, TypeInvariant, HistoryTypes
  <2>5. ThreadTypes'
    <3>1. [to |-> mListener, rec |-> sdk.rec] \in Runnable
      BY <2>1, <2>2 DEF Runnable
    <3>2. posted \in Seq(Runnable)
      BY DEF TypeInvariant, ThreadTypes
    <3>3. posted' \in Seq(Runnable)
      BY <1>15, <3>1, <3>2 DEF callListener
    <3>4. QED
      BY <1>15, <3>3 DEF callListener, TypeInvariant, ThreadTypes, threads
  <2>6. ChannelTypes'
    BY <1>15, <2>2 DEF callListener, TypeInvariant, ChannelTypes, Exists, screen, channel
  <2>7. QED
    BY <1>15, <2>4, <2>5, <2>6, UnchangedTypes DEF callListener, TypeInvariant
<1>16. CASE sdkStops /\ UNCHANGED crashed
  <2>1. ThreadTypes'
    BY <1>16 DEF sdkStops, stopAsrTransform, TypeInvariant, ThreadTypes
  <2>2. ChannelTypes'
    BY <1>16 DEF sdkStops, stopAsrTransform, TypeInvariant, ChannelTypes, Exists, screen
  <2>3. QED
    BY <1>16, <2>1, <2>2, UnchangedTypes DEF sdkStops, TypeInvariant
<1>19. CASE answerNobody /\ UNCHANGED crashed
  <2>1. SystemTypes'
    BY <1>19 DEF answerNobody, TypeInvariant, SystemTypes
  <2>2. QED
    BY <1>19, <2>1, UnchangedTypes DEF answerNobody, TypeInvariant
<1>17. CASE runResultTooLate \/ callNull
  <2>1. SystemTypes'
    BY <1>17 DEF runResultTooLate, callNull, TypeInvariant, SystemTypes, system
  <2>2. QED
    BY <1>17, <2>1, UnchangedTypes DEF runResultTooLate, callNull, TypeInvariant, threads
<1>18. QED
  BY <1>1, <1>2, <1>3, <1>4, <1>5, <1>6, <1>7, <1>8, <1>9, <1>10, <1>11, <1>12, <1>13, <1>14,
     <1>15, <1>16, <1>17, <1>19, Threads

LEMMA PressedStep ==
  ASSUME TypeInvariant, Pressed, [Next]_vars
  PROVE  Pressed'
<1> USE DEF Pressed
<1>1. CASE UNCHANGED vars
  BY <1>1 DEF vars, screen, button, window
<1>2. CASE ACTION_DOWN \/ moveOut \/ moveIn \/ onLongClick \/ upTooShort \/ upAfterLongPress
           \/ ACTION_CANCEL
  BY <1>2 DEF ACTION_DOWN, moveOut, moveIn, onLongClick, upTooShort, upAfterLongPress,
              ACTION_CANCEL, screen, window
<1>3. CASE showVoiceInputDialog \/ dismissByUser \/ destroyBySystem
  BY <1>3 DEF showVoiceInputDialog, dismissByUser, destroyBySystem, hide, screen, button
<1>4. CASE runResult \/ finish \/ onCreate \/ onRequestPermissionsResult
  BY <1>4 DEF runResult, hide, finish, onCreate, onRequestPermissionsResult, screen, button, window
<1>5. CASE UNCHANGED <<screen, button, window>> \/ answerNobody
  BY <1>5 DEF answerNobody, screen, button, window
<1>6. CASE \E a \in Activities : onDestroy(a)
  BY <1>6 DEF onDestroy, button, window
<1>7. CASE \E r \in Recognitions : \/ onBegin(r) \/ onEnd(r) \/ onLastResult(r)
                                   \/ onCompleted(r) \/ onError(r)
  BY <1>5, <1>7 DEF onBegin, onEnd, onLastResult, onCompleted, onError
<1>8. CASE callListener \/ sdkStops \/ runResultTooLate \/ callNull
  BY <1>5, <1>8 DEF callListener, sdkStops, runResultTooLate, callNull
<1>9. QED
  BY <1>1, <1>2, <1>3, <1>4, <1>5, <1>6, <1>7, <1>8, Threads

LEMMA TypeInit == Init => TypeInvariant /\ Pressed
<1> SUFFICES ASSUME Init PROVE TypeInvariant /\ Pressed
  OBVIOUS
<1> USE DEF Init
<1>1. ScreenTypes /\ Pressed
  BY VoiceAssumption DEF ScreenTypes, Activities, Pressed
<1>2. ButtonTypes /\ WindowTypes /\ ChannelTypes /\ SystemTypes
  BY DEF ButtonTypes, WindowTypes, ChannelTypes, SystemTypes
<1>3. << >> \in Seq(Runnable) /\ << >> \in Seq(Result)
  OBVIOUS
<1>4. ThreadTypes /\ HistoryTypes
  BY <1>3 DEF ThreadTypes, HistoryTypes
<1>5. QED
  BY <1>1, <1>2, <1>4 DEF TypeInvariant

LEMMA Types == Spec => [](TypeInvariant /\ Pressed)
<1>1. TypeInvariant /\ Pressed /\ [Next]_vars => (TypeInvariant /\ Pressed)'
  BY TypeStep, PressedStep
<1>2. QED
  BY <1>1, TypeInit, PTL DEF Spec

\* Every variable keeps its type, and the channel never keeps the listener of an
\* activity that was destroyed, however late onDestroy comes.
THEOREM VoiceTypes == Spec => []TypeInvariant
BY Types, PTL
-----------------------------------------------------------------------------
(* The progress animation and the mute.                                    *)

\* What the touch events, the window and the activities do to the animation and to the
\* mute; every other action leaves both alone, and the press with them.
LEMMA PressFrame ==
  ASSUME Next
  PROVE  \/ ACTION_DOWN \/ moveIn \/ upTooShort \/ upAfterLongPress \/ ACTION_CANCEL
         \/ dismissByUser \/ runResult \/ destroyBySystem \/ onCreate
         \/ UNCHANGED <<muted, held, cutShort, mIsAutoChangeProgress, ticks>>
<1>1. CASE moveOut \/ onLongClick \/ showVoiceInputDialog
             \/ onRequestPermissionsResult \/ answerNobody \/ finish \/ sdkStops
  BY <1>1 DEF moveOut, onLongClick, showVoiceInputDialog,
              onRequestPermissionsResult, answerNobody, finish, sdkStops, button, window, history
<1>2. CASE callListener \/ callNull \/ runResultTooLate
  BY <1>2 DEF callListener, callNull, runResultTooLate, button, window, history
<1>3. CASE \E a \in Activities : onDestroy(a)
  BY <1>3 DEF onDestroy, release, button, window
<1>4. CASE \E r \in Recognitions : \/ onBegin(r) \/ onEnd(r) \/ onLastResult(r)
                                   \/ onCompleted(r) \/ onError(r)
  <2>1. PICK r \in Recognitions : \/ onBegin(r) \/ onEnd(r) \/ onLastResult(r)
                                  \/ onCompleted(r) \/ onError(r)
    BY <1>4
  <2>2. CASE onBegin(r) \/ onEnd(r)
    BY <2>2 DEF onBegin, onEnd, button, window, history
  <2>3. CASE onLastResult(r) \/ onCompleted(r) \/ onError(r)
    BY <2>3 DEF onLastResult, onCompleted, onError, button, window, history
  <2>4. QED
    BY <2>1, <2>2, <2>3
<1>5. QED
  BY <1>1, <1>2, <1>3, <1>4, Threads

LEMMA RecordingTicks ==
  ASSUME OneTicker, recording
  PROVE  OneTicker'
<1>1. CASE mIsAutoChangeProgress
  BY <1>1 DEF OneTicker, recording
<1>2. CASE ~mIsAutoChangeProgress
  <2>1. ticks = 0
    BY <1>2 DEF OneTicker
  <2>2. ticks' = 1 /\ mIsAutoChangeProgress'
    BY <1>2, <2>1 DEF recording
  <2>3. QED
    BY <2>2 DEF OneTicker
<1>3. QED
  BY <1>1, <1>2

LEMMA TickerStep ==
  ASSUME OneTicker, [Next]_vars
  PROVE  OneTicker'
<1>1. CASE UNCHANGED <<mIsAutoChangeProgress, ticks>>
  BY <1>1 DEF OneTicker
<1>2. CASE changeToRecording
  BY <1>1, <1>2, RecordingTicks DEF changeToRecording
<1>3. CASE reset
  BY <1>3 DEF reset, OneTicker
<1>4. CASE onCreate
  BY <1>4 DEF onCreate, OneTicker
<1>5. CASE ACTION_CANCEL \/ hide \/ UNCHANGED <<button, window, cutShort>>
  BY <1>1, <1>5 DEF ACTION_CANCEL, hide, window
<1>6. CASE Next
  BY <1>1, <1>2, <1>3, <1>4, <1>5, <1>6, PressFrame
     DEF ACTION_DOWN, moveIn, upTooShort, upAfterLongPress, dismissByUser,
         runResult, destroyBySystem
<1>7. QED
  BY <1>1, <1>6 DEF vars, window

\* One message drives the animation, whatever the finger does.
THEOREM Ticker == Spec => []OneTicker
<1>1. Init => OneTicker
  BY DEF Init, OneTicker
<1>2. OneTicker /\ [Next]_vars => OneTicker'
  BY TickerStep
<1>3. QED
  BY <1>1, <1>2, PTL DEF Spec

LEMMA MuteStep ==
  ASSUME MutedOnlyByPress, [Next]_vars
  PROVE  MutedOnlyByPress'
<1> USE DEF MutedOnlyByPress
<1>1. CASE UNCHANGED <<muted, held, cutShort>>
  BY <1>1
<1>2. CASE ACTION_DOWN
  BY <1>2 DEF ACTION_DOWN
<1>3. CASE moveIn
  BY <1>3 DEF moveIn
<1>4. CASE upTooShort
  BY <1>4 DEF upTooShort
<1>5. CASE upAfterLongPress
  BY <1>5 DEF upAfterLongPress
<1>6. CASE ACTION_CANCEL
  BY <1>6 DEF ACTION_CANCEL
<1>7. CASE dismissByUser \/ runResult \/ destroyBySystem
  BY <1>7 DEF dismissByUser, runResult, destroyBySystem, release, hide, button
<1>8. CASE onCreate
  BY <1>8 DEF onCreate, history
<1>9. QED
  BY <1>1, <1>2, <1>3, <1>4, <1>5, <1>6, <1>7, <1>8, PressFrame DEF vars, button, history

\* The room is muted only during a press, or after one that the program's own
\* exceptions cut short.
THEOREM Mute == Spec => []MutedOnlyByPress
<1>1. Init => MutedOnlyByPress
  BY DEF Init, MutedOnlyByPress
<1>2. MutedOnlyByPress /\ [Next]_vars => MutedOnlyByPress'
  BY MuteStep
<1>3. QED
  BY <1>1, <1>2, PTL DEF Spec
-----------------------------------------------------------------------------
(* The results of the recognitions: always that only a last result is a    *)
(* text, and while none overlaps another one result for each.              *)

\* What the invariant reads of the state, save the permissions.
watched == <<audio, service, mIsCallbacked, sdk, answers, overlapped>>

LEMMA AskedResult ==
  ASSUME ResultInvariant, UNCHANGED watched,
         permPending' # "none" => ~granted', granted => granted'
  PROVE  ResultInvariant'
<1> USE DEF ResultInvariant, watched
<1>1. InStep'
  BY DEF InStep, Started
<1>2. AnsweredLate'
  BY DEF AnsweredLate
<1>3. ~overlapped' => OneOpen' /\ Flagged'
  BY DEF OneOpen, Flagged, Open
<1>4. OneResultEach'
  BY DEF OneResultEach
<1>5. QED
  BY <1>1, <1>2, <1>3, <1>4

LEMMA UnchangedResult ==
  ASSUME ResultInvariant, UNCHANGED watched, UNCHANGED system
  PROVE  ResultInvariant'
BY AskedResult DEF ResultInvariant, InStep, system

LEMMA StartResult ==
  ASSUME TypeInvariant, ResultInvariant, newThread,
         UNCHANGED <<service, mIsCallbacked, sdk, answers>>,
         granted', permPending' = "none"
  PROVE  ResultInvariant'
<1>1. PICK r \in Recognitions \ Started :
        /\ audio' = [audio EXCEPT ![r] = "starting"]
        /\ overlapped' = (overlapped \/ Open # {})
  BY DEF newThread
<1>2. audio \in [Recognitions -> {"none", "starting", "recording", "ended"}]
  BY DEF TypeInvariant, ThreadTypes
<1>3. audio[r] = "none" /\ service[r] = "none" /\ service'[r] = "none"
  BY <1>1 DEF Started, ResultInvariant, InStep
<1>4. InStep'
  BY <1>1, <1>2, <1>3 DEF ResultInvariant, InStep
<1>5. AnsweredLate'
  BY DEF ResultInvariant, AnsweredLate
<1>6. ~overlapped' => OneOpen' /\ Flagged'
  <2>1. HAVE ~overlapped'
  <2>2. ~overlapped /\ Open = {}
    BY <1>1, <2>1
  <2>3. Open' \subseteq {r}
    BY <1>1, <1>2, <2>2 DEF Open
  <2>4. QED
    BY <2>2, <2>3 DEF OneOpen, Flagged, ResultInvariant
<1>7. OneResultEach'
  BY <1>1 DEF ResultInvariant, OneResultEach
<1>8. QED
  BY <1>4, <1>5, <1>6, <1>7 DEF ResultInvariant

LEMMA PressResult ==
  ASSUME TypeInvariant, ResultInvariant, changeToRecording, permPending = "none",
         UNCHANGED <<service, mIsCallbacked, sdk, answers, granted>>
  PROVE  ResultInvariant'
<1>1. CASE UNCHANGED <<audio, permPending, overlapped>>
  BY <1>1, UnchangedResult DEF watched, system
<1>2. CASE ~granted /\ UNCHANGED <<audio, overlapped>>
  BY <1>2, AskedResult DEF watched
<1>3. CASE granted /\ newThread /\ UNCHANGED permPending
  BY <1>3, StartResult
<1>4. QED
  BY <1>1, <1>2, <1>3 DEF changeToRecording, recording, startAsrTransform

LEMMA BeginResult ==
  ASSUME TypeInvariant, ResultInvariant, NEW r \in Recognitions, onBegin(r)
  PROVE  ResultInvariant'
<1> USE DEF ResultInvariant
<1>1. /\ audio \in [Recognitions -> {"none", "starting", "recording", "ended"}]
      /\ service \in [Recognitions -> {"none", "listening", "finishing", "resulted", "done"}]
  BY DEF TypeInvariant, ThreadTypes
<1>2. /\ audio[r] = "starting" /\ service[r] = "none"
      /\ audio' = [audio EXCEPT ![r] = "recording"]
      /\ service' = [service EXCEPT ![r] = "listening"]
      /\ UNCHANGED <<sdk, answers, granted, permPending, overlapped>>
  BY DEF onBegin, InStep, system, history
<1>3. Open' = Open /\ r \in Open /\ Started' = Started
  BY <1>1, <1>2 DEF Open, Started
<1>4. InStep'
  BY <1>1, <1>2, <1>3 DEF InStep
<1>5. AnsweredLate'
  BY <1>1, <1>2 DEF AnsweredLate
<1>6. ~overlapped' => OneOpen' /\ Flagged'
  <2>1. HAVE ~overlapped'
  <2>2. OneOpen /\ Flagged
    BY <1>2, <2>1
  <2>3. OneOpen'
    BY <1>3, <2>2 DEF OneOpen
  <2>4. \A q \in Recognitions : service'[q] # "resulted"
    BY <1>1, <1>2, <1>3, <2>2 DEF OneOpen, InStep, Open
  <2>5. Flagged'
    BY <1>2, <2>2, <2>4 DEF Flagged
  <2>6. QED
    BY <2>3, <2>5
<1>7. OneResultEach'
  BY <1>2 DEF OneResultEach
<1>8. QED
  BY <1>4, <1>5, <1>6, <1>7

LEMMA EndResult ==
  ASSUME TypeInvariant, ResultInvariant, NEW r \in Recognitions, onEnd(r)
  PROVE  ResultInvariant'
<1> USE DEF ResultInvariant
<1>1. /\ audio \in [Recognitions -> {"none", "starting", "recording", "ended"}]
      /\ service \in [Recognitions -> {"none", "listening", "finishing", "resulted", "done"}]
  BY DEF TypeInvariant, ThreadTypes
<1>2. /\ audio[r] = "recording" /\ service[r] \in {"listening", "done"}
      /\ audio' = [audio EXCEPT ![r] = "ended"]
      /\ service' = [service EXCEPT ![r] = IF @ = "listening" THEN "finishing" ELSE @]
      /\ UNCHANGED <<mIsCallbacked, sdk, answers, granted, permPending, overlapped>>
  BY DEF onEnd, InStep, system, history, channel
<1>3. Open' \subseteq Open /\ Started' = Started
  BY <1>1, <1>2 DEF Open, Started
<1>4. InStep'
  BY <1>1, <1>2, <1>3 DEF InStep
<1>5. AnsweredLate'
  BY <1>1, <1>2 DEF AnsweredLate
<1>6. ~overlapped' => OneOpen' /\ Flagged'
  BY <1>1, <1>2, <1>3 DEF OneOpen, Flagged
<1>7. OneResultEach'
  BY <1>2 DEF OneResultEach
<1>8. QED
  BY <1>4, <1>5, <1>6, <1>7

\* The service moves on about a recognition: a text is called only as its last result, and
\* without an overlap nothing is called of one that is answered.
LEMMA ServiceResult ==
  ASSUME TypeInvariant, ResultInvariant, NEW r \in Recognitions,
         NEW s \in {"resulted", "done"},
         service[r] \in {"listening", "finishing", "resulted"}, sdk.at # "calling",
         s = "resulted" => service[r] = "finishing" /\ mIsCallbacked',
         service' = [service EXCEPT ![r] = s],
         mIsCallbacked => mIsCallbacked',
         \/ sdk'.at # "calling"
         \/ /\ sdk'.at = "calling" /\ sdk'.rec = r
            /\ sdk'.result = "text" => s = "resulted"
            /\ (~overlapped \/ s = "resulted") => answers[r] = << >>,
         UNCHANGED <<audio, answers, system, overlapped>>
  PROVE  ResultInvariant'
<1> USE DEF ResultInvariant
<1>1. service \in [Recognitions -> {"none", "listening", "finishing", "resulted", "done"}]
  BY DEF TypeInvariant, ThreadTypes
<1>2. audio[r] \in {"recording", "ended"} /\ UNCHANGED <<granted, permPending>>
  BY DEF InStep, TypeInvariant, ThreadTypes, system
<1>3. Open' \subseteq Open /\ Started' = Started
  BY <1>1, <1>2 DEF Open, Started
<1>4. InStep'
  BY <1>1, <1>2, <1>3 DEF InStep
<1>5. AnsweredLate'
  BY <1>1 DEF AnsweredLate
<1>6. ~overlapped' => OneOpen' /\ Flagged'
  BY <1>1, <1>3 DEF OneOpen, Flagged
<1>7. OneResultEach'
  BY DEF OneResultEach
<1>8. QED
  BY <1>4, <1>5, <1>6, <1>7

\* What goOn leaves for the SDK's thread to do.
LEMMA GoOnResult ==
  ASSUME NEW r \in Recognitions, NEW result \in Result, NEW after \in {Idle, Stopping},
         goOn(r, result, after)
  PROVE  \/ sdk'.at # "calling"
         \/ sdk'.at = "calling" /\ sdk'.rec = r /\ sdk'.result = result
BY DEF goOn, Idle, Stopping

LEMMA CallResult ==
  ASSUME TypeInvariant, ResultInvariant, callListener
  PROVE  ResultInvariant'
<1> USE DEF ResultInvariant
<1>1. sdk \in Calling
  BY DEF callListener, TypeInvariant, ChannelTypes, Idle, Stopping
<1>2. sdk.rec \in Recognitions /\ sdk.result \in Result /\ sdk'.at # "calling"
  BY <1>1 DEF Calling, callListener, Idle, Stopping
<1>3. service[sdk.rec] \in {"resulted", "done"}
  BY DEF callListener, AnsweredLate
<1>4. /\ answers \in [Recognitions -> Seq(Result)]
      /\ answers' = [answers EXCEPT ![sdk.rec] = Append(answers[sdk.rec], sdk.result)]
      /\ UNCHANGED <<audio, service, mIsCallbacked, granted, permPending, overlapped>>
  BY DEF callListener, TypeInvariant, HistoryTypes, channel, threads, system
<1>5. InStep'
  BY <1>4 DEF InStep, Started
<1>6. AnsweredLate'
  BY <1>2, <1>3, <1>4 DEF AnsweredLate
<1>7. ~overlapped' => OneOpen' /\ Flagged'
  BY <1>2, <1>4 DEF OneOpen, Flagged, Open
<1>8. OneResultEach'
  <2>1. SUFFICES ASSUME ~overlapped, NEW q \in Recognitions PROVE Len(answers'[q]) <= 1
    BY <1>4 DEF OneResultEach
  <2>2. answers[sdk.rec] = << >>
    BY <2>1 DEF Flagged, callListener
  <2>3. answers'[sdk.rec] = << sdk.result >> /\ Len(answers'[sdk.rec]) = 1
    BY <1>2, <1>4, <2>2
  <2>4. QED
    BY <1>2, <1>4, <2>1, <2>3 DEF OneResultEach
<1>9. QED
  BY <1>5, <1>6, <1>7, <1>8

LEMMA ResultStep ==
  ASSUME TypeInvariant, ResultInvariant, [Next]_vars
  PROVE  ResultInvariant'
<1>1. CASE UNCHANGED vars
  BY <1>1, UnchangedResult DEF vars, watched, threads, channel, history
<1>2. CASE ACTION_DOWN \/ moveIn
  BY <1>2, PressResult DEF ACTION_DOWN, moveIn
<1>3. CASE moveOut \/ onLongClick \/ upTooShort \/ upAfterLongPress \/ ACTION_CANCEL
           \/ showVoiceInputDialog
  BY <1>3, UnchangedResult
     DEF moveOut, onLongClick, upTooShort, upAfterLongPress, ACTION_CANCEL,
         showVoiceInputDialog, watched, threads, channel, history
<1>4. CASE dismissByUser \/ runResult \/ onCreate \/ runResultTooLate \/ callNull
  BY <1>4, UnchangedResult
     DEF dismissByUser, runResult, onCreate, runResultTooLate, callNull,
         watched, threads, channel, history
<1>5. CASE destroyBySystem \/ sdkStops \/ \E a \in Activities : onDestroy(a)
  <2>1. CASE destroyBySystem \/ \E a \in Activities : onDestroy(a)
    BY <2>1, UnchangedResult DEF destroyBySystem, onDestroy, release, watched, threads, channel
  <2>2. CASE sdkStops
    <3>1. sdk'.at # "calling"
      BY <2>2 DEF sdkStops, Idle
    <3>2. UNCHANGED <<audio, service, mIsCallbacked, answers, granted, permPending, overlapped>>
      BY <2>2 DEF sdkStops, history, system
    <3>3. InStep' /\ AnsweredLate'
      BY <3>1, <3>2 DEF ResultInvariant, InStep, AnsweredLate, Started
    <3>4. (~overlapped' => OneOpen' /\ Flagged') /\ OneResultEach'
      BY <3>1, <3>2 DEF ResultInvariant, OneOpen, Flagged, OneResultEach, Open
    <3>5. QED
      BY <3>3, <3>4 DEF ResultInvariant
  <2>3. QED
    BY <1>5, <2>1, <2>2
<1>6. CASE onRequestPermissionsResult
  BY <1>6, StartResult DEF onRequestPermissionsResult
<1>7. CASE \E r \in Recognitions : onBegin(r) \/ onEnd(r)
  BY <1>7, BeginResult, EndResult
<1>8. CASE \E r \in Recognitions : onLastResult(r)
  <2>1. PICK r \in Recognitions : onLastResult(r)
    BY <1>8
  <2>2. answers[r] = << >> /\ service[r] = "finishing" /\ sdk.at # "calling"
    BY <2>1 DEF onLastResult, ResultInvariant, AnsweredLate, Idle
  <2>3. PICK result \in Result : goOn(r, result, Stopping)
    BY <2>1 DEF onLastResult, Result
  <2>4. \/ sdk'.at # "calling"
        \/ sdk'.at = "calling" /\ sdk'.rec = r /\ sdk'.result = result
    BY <2>3, GoOnResult
  <2>5. /\ service' = [service EXCEPT ![r] = "resulted"]
        /\ mIsCallbacked'
        /\ UNCHANGED <<audio, answers, system, overlapped>>
    BY <2>1 DEF onLastResult, history
  <2>6. QED
    BY <2>2, <2>4, <2>5, ServiceResult
<1>9. CASE \E r \in Recognitions : onCompleted(r)
  <2>1. PICK r \in Recognitions : onCompleted(r)
    BY <1>9
  <2>2. service[r] \in {"finishing", "resulted"} /\ sdk.at # "calling"
    BY <2>1 DEF onCompleted, Idle
  <2>3. \/ sdk'.at # "calling"
        \/ sdk'.at = "calling" /\ sdk'.rec = r /\ sdk'.result = "toast" /\ ~mIsCallbacked
    BY <2>1, <2>2, GoOnResult DEF onCompleted, Result
  <2>4. ~mIsCallbacked /\ ~overlapped => answers[r] = << >>
    BY <2>2 DEF ResultInvariant, AnsweredLate, Flagged
  <2>5. /\ service' = [service EXCEPT ![r] = "done"]
        /\ UNCHANGED <<audio, answers, mIsCallbacked, system, overlapped>>
    BY <2>1 DEF onCompleted, history, channel
  <2>6. QED
    BY <2>2, <2>3, <2>4, <2>5, ServiceResult
<1>10. CASE \E r \in Recognitions : onError(r)
  <2>1. PICK r \in Recognitions : onError(r)
    BY <1>10
  <2>2. /\ answers[r] = << >> /\ service[r] \in {"listening", "finishing"}
        /\ sdk.at # "calling"
    BY <2>1 DEF onError, ResultInvariant, AnsweredLate, Idle
  <2>3. \/ sdk'.at # "calling"
        \/ sdk'.at = "calling" /\ sdk'.rec = r /\ sdk'.result = "toast"
    BY <2>1, GoOnResult DEF onError, Result
  <2>4. /\ service' = [service EXCEPT ![r] = "done"]
        /\ mIsCallbacked => mIsCallbacked'
        /\ UNCHANGED <<audio, answers, system, overlapped>>
    BY <2>1 DEF onError, history
  <2>5. QED
    BY <2>2, <2>3, <2>4, ServiceResult
<1>11. CASE callListener
  BY <1>11, CallResult
<1>12. CASE finish \/ answerNobody
  <2>1. permPending' # "none" => ~granted'
    BY <1>12 DEF finish, answerNobody, ResultInvariant, InStep
  <2>2. granted => granted'
    BY <1>12 DEF finish, answerNobody, ResultInvariant, InStep
  <2>3. UNCHANGED watched
    BY <1>12 DEF finish, answerNobody, watched, threads, channel, history
  <2>4. QED
    BY <2>1, <2>2, <2>3, AskedResult
<1>13. QED
  BY <1>1, <1>2, <1>3, <1>4, <1>5, <1>6, <1>7, <1>8, <1>9, <1>10, <1>11, <1>12, Threads

LEMMA ResultInit == Init => ResultInvariant
BY DEF Init, ResultInvariant, OneOpen, Flagged, InStep, AnsweredLate, OneResultEach, Open,
       Started, Idle

LEMMA Results == Spec => [](TypeInvariant /\ ResultInvariant)
<1>1. TypeInvariant /\ ResultInvariant /\ [Next]_vars => ResultInvariant'
  BY ResultStep
<1>2. QED
  BY <1>1, ResultInit, Types, PTL DEF Spec

\* The listener hears of each recognition once at most while none is started with another
\* open: the SDK's thread, the audio thread that resets the flag and the UI thread that
\* takes the listener away cannot give a second answer.
THEOREM OneResult == Spec => []OneResultEach
<1>1. ResultInvariant => OneResultEach
  BY DEF ResultInvariant
<1>2. QED
  BY <1>1, Results, PTL
-----------------------------------------------------------------------------
(* Nobody who released the button is forgotten, while no recognition       *)
(* overlaps another.                                                       *)

Listened == {"listening", "finishing"}

\* What the invariant reads of the state, save the activities and the listener.
LEMMA UnchangedPending ==
  ASSUME NobodyForgotten,
         UNCHANGED <<audio, service, mIsCallbacked, sdk, answers, mListener, mIsTransfroming,
                     screen, released, robbed>>
  PROVE  NobodyForgotten'
BY DEF NobodyForgotten, NoEarlyResult, ErrorIsTold, OldDestroyed, ReleaseIsKept, Called, screen

\* Of a recognition the service has still to speak of the thread runs or ran.
LEMMA ListenedIsOpen ==
  ASSUME ResultInvariant, NEW q \in Recognitions, service[q] \in Listened
  PROVE  q \in Open
BY DEF ResultInvariant, InStep, Open, Listened

LEMMA CalledStays ==
  ASSUME NEW q \in Recognitions, Called(q), sdk.at # "calling", UNCHANGED answers
  PROVE  Called(q)'
BY DEF Called

\* A recognition starts when none is open.
LEMMA StartPending ==
  ASSUME TypeInvariant, ResultInvariant, NobodyForgotten, ~overlapped', newThread,
         UNCHANGED <<service, mIsCallbacked, sdk, answers, screen, released, robbed>>
  PROVE  NobodyForgotten'
<1>1. PICK r \in Recognitions \ Started : audio' = [audio EXCEPT ![r] = "starting"]
  BY DEF newThread
<1>0. Open = {}
  BY DEF newThread
<1>2. \A q \in Recognitions : service[q] \notin Listened
  BY <1>0, ListenedIsOpen
<1>3. NoEarlyResult' /\ OldDestroyed'
  BY DEF NobodyForgotten, NoEarlyResult, OldDestroyed, screen
<1>4. ErrorIsTold'
  <2>1. \A q \in Recognitions : audio'[q] # "recording"
    BY <1>0, <1>1 DEF Open, TypeInvariant, ThreadTypes
  <2>2. QED
    BY <2>1 DEF ErrorIsTold
<1>5. ReleaseIsKept'
  BY <1>2 DEF NobodyForgotten, ReleaseIsKept, Called, Listened, screen
<1>6. QED
  BY <1>3, <1>4, <1>5 DEF NobodyForgotten

LEMMA PressPending ==
  ASSUME TypeInvariant, ResultInvariant, NobodyForgotten, changeToRecording, ~overlapped',
         UNCHANGED <<service, mIsCallbacked, sdk, answers, screen, released, robbed>>
  PROVE  NobodyForgotten'
<1>1. CASE UNCHANGED <<audio, mListener, mIsTransfroming>>
  BY <1>1, UnchangedPending
<1>2. CASE newThread
  BY <1>2, StartPending
<1>3. QED
  BY <1>1, <1>2 DEF changeToRecording, recording, startAsrTransform

LEMMA UpPending ==
  ASSUME TypeInvariant, ResultInvariant, NobodyForgotten, upAfterLongPress
  PROVE  NobodyForgotten'
<1>1. /\ ~mIsTransfroming' /\ released' \subseteq released \cup Heard
      /\ UNCHANGED <<audio, service, mIsCallbacked, sdk, answers, mListener, screen, robbed>>
  BY DEF upAfterLongPress, stopAsrTransform
<1>2. activity \in Activities /\ activity \in Nat /\ activity # 0
  BY DEF TypeInvariant, ScreenTypes, Activities
<1>3. NoEarlyResult' /\ ErrorIsTold'
  BY <1>1 DEF NobodyForgotten, NoEarlyResult, ErrorIsTold, Called
<1>4. OldDestroyed'
  BY <1>1, <1>2 DEF NobodyForgotten, OldDestroyed, Heard, screen
<1>5. ReleaseIsKept'
  <2>1. SUFFICES ASSUME NEW r \in Recognitions, NEW a \in Activities,
                        <<r, a>> \in released', alive, activity = a, r \notin robbed
                 PROVE  Called(r)' \/ (service[r] \in Listened /\ mListener = a)
    BY <1>1 DEF ReleaseIsKept, Listened, screen
  <2>2. CASE <<r, a>> \in released
    BY <1>1, <2>1, <2>2 DEF NobodyForgotten, ReleaseIsKept, Called, Listened
  <2>3. CASE <<r, a>> \in Heard
    <3>1. mListener = a /\ audio[r] = "recording"
      BY <2>1, <2>3 DEF Heard
    <3>2. service[r] \in {"listening", "done"}
      BY <3>1 DEF ResultInvariant, InStep
    <3>3. service[r] = "done" => Called(r)
      BY <1>2, <2>1, <3>1 DEF NobodyForgotten, ErrorIsTold
    <3>4. QED
      BY <1>1, <3>1, <3>2, <3>3 DEF Called, Listened
  <2>4. QED
    BY <1>1, <2>1, <2>2, <2>3
<1>6. QED
  BY <1>3, <1>4, <1>5 DEF NobodyForgotten

\* The end of an activity that is not on the screen.
LEMMA DestroyPending ==
  ASSUME TypeInvariant, ResultInvariant, NobodyForgotten, NEW d \in Activities, onDestroy(d)
  PROVE  NobodyForgotten'
<1>1. /\ mListener' = 0 /\ d \in destroying /\ destroying' = destroying \ {d}
      /\ robbed' = IF mListener = d THEN robbed ELSE robbed \cup Open
      /\ UNCHANGED <<audio, service, mIsCallbacked, sdk, answers, activity, alive, released>>
  BY DEF onDestroy, release
<1>2. NoEarlyResult' /\ ErrorIsTold' /\ OldDestroyed'
  BY <1>1 DEF NobodyForgotten, NoEarlyResult, ErrorIsTold, OldDestroyed
<1>3. ReleaseIsKept'
  <2>1. SUFFICES ASSUME NEW r \in Recognitions, NEW a \in Activities,
                        <<r, a>> \in released, alive, activity = a, r \notin robbed'
                 PROVE  Called(r)'
    BY <1>1 DEF ReleaseIsKept
  <2>2. Called(r) \/ (service[r] \in Listened /\ mListener = a)
    BY <1>1, <2>1 DEF NobodyForgotten, ReleaseIsKept, Listened
  <2>3. d # a
    BY <1>1, <2>1 DEF NobodyForgotten, OldDestroyed
  <2>4. ~(service[r] \in Listened /\ mListener = a)
    BY <1>1, <2>1, <2>3, ListenedIsOpen
  <2>5. QED
    BY <1>1, <2>2, <2>4 DEF Called
<1>4. QED
  BY <1>2, <1>3 DEF NobodyForgotten

LEMMA ScreenPending ==
  ASSUME TypeInvariant, NobodyForgotten, finish \/ destroyBySystem \/ onCreate
  PROVE  NobodyForgotten'
<1>1. UNCHANGED <<audio, service, mIsCallbacked, sdk, answers, released>>
      /\ mListener' \in {mListener, 0}
  BY DEF finish, destroyBySystem, onCreate, release, channel, threads, history
<1>2. NoEarlyResult' /\ ErrorIsTold'
  BY <1>1 DEF NobodyForgotten, NoEarlyResult, ErrorIsTold, Called
<1>3. activity \in Nat /\ destroying \subseteq Nat
  BY DEF TypeInvariant, ScreenTypes, Activities
<1>4. \A p \in released : p[2] \in Nat
  BY DEF TypeInvariant, HistoryTypes, Activities
<1>5. OldDestroyed' /\ ReleaseIsKept'
  <2>1. CASE finish \/ destroyBySystem
    <3>1. ~alive' /\ activity' = activity /\ destroying' \subseteq destroying \cup {activity}
      BY <2>1 DEF finish, destroyBySystem
    <3>2. QED
      BY <1>1, <1>3, <3>1 DEF NobodyForgotten, OldDestroyed, ReleaseIsKept
  <2>2. CASE onCreate
    <3>1. activity' = activity + 1 /\ UNCHANGED destroying
      BY <2>2 DEF onCreate
    <3>2. OldDestroyed'
      BY <1>1, <1>3, <1>4, <3>1 DEF NobodyForgotten, OldDestroyed
    <3>3. \A r \in Recognitions : <<r, activity'>> \notin released
      BY <1>3, <3>1 DEF NobodyForgotten, OldDestroyed
    <3>4. QED
      BY <1>1, <3>2, <3>3 DEF ReleaseIsKept
  <2>3. QED
    BY <2>1, <2>2
<1>6. QED
  BY <1>2, <1>5 DEF NobodyForgotten

\* The audio thread of a recognition.
LEMMA AudioPending ==
  ASSUME TypeInvariant, ResultInvariant, NobodyForgotten, NEW r \in Recognitions,
         onBegin(r) \/ onEnd(r)
  PROVE  NobodyForgotten'
<1>1. /\ audio \in [Recognitions -> {"none", "starting", "recording", "ended"}]
      /\ service \in [Recognitions -> {"none", "listening", "finishing", "resulted", "done"}]
      /\ mIsCallbacked \in BOOLEAN
  BY DEF TypeInvariant, ThreadTypes, ChannelTypes
<1>2. /\ UNCHANGED <<mListener, mIsTransfroming, sdk, answers, released, robbed, screen>>
      /\ mIsCallbacked' => mIsCallbacked
      /\ \A q \in Recognitions \ {r} : audio'[q] = audio[q] /\ service'[q] = service[q]
  BY <1>1 DEF onBegin, onEnd, channel, history
<1>3. \/ audio'[r] = "recording" /\ service[r] = "none" /\ service'[r] = "listening"
         /\ ~mIsCallbacked'
      \/ audio'[r] = "ended" /\ (service[r] \in Listened <=> service'[r] \in Listened)
  BY <1>1 DEF onBegin, onEnd, Listened, ResultInvariant, InStep
<1>4. NoEarlyResult'
  BY <1>2, <1>3 DEF NobodyForgotten, NoEarlyResult, Listened
<1>5. ErrorIsTold'
  BY <1>2, <1>3 DEF NobodyForgotten, ErrorIsTold, Called
<1>6. OldDestroyed'
  BY <1>2 DEF NobodyForgotten, OldDestroyed, screen
<1>7. ReleaseIsKept'
  BY <1>2, <1>3 DEF NobodyForgotten, ReleaseIsKept, Called, Listened, screen
<1>8. QED
  BY <1>4, <1>5, <1>6, <1>7 DEF NobodyForgotten

\* The service says the last word but one, or the last, of the one that is open.
LEMMA ServicePending ==
  ASSUME TypeInvariant, ResultInvariant, NobodyForgotten, NEW r \in Recognitions,
         NEW s \in {"resulted", "done"}, ~overlapped,
         sdk.at # "calling", service[r] \in Listened \cup {"resulted"},
         service' = [service EXCEPT ![r] = s],
         (service[r] \in Listened /\ ~mIsTransfroming /\ mListener # 0) => Called(r)',
         (s = "done" /\ audio[r] = "recording" /\ mListener # 0) => Called(r)',
         UNCHANGED <<audio, mListener, mIsTransfroming, answers, released, robbed, screen>>
  PROVE  NobodyForgotten'
<1>1. service \in [Recognitions -> {"none", "listening", "finishing", "resulted", "done"}]
  BY DEF TypeInvariant, ThreadTypes
<1>2. r \in Open
  BY DEF ResultInvariant, InStep, Open, Listened
<1>3. NoEarlyResult'
  <2>1. \A q \in Recognitions : service'[q] \notin Listened
    BY <1>1, <1>2, ListenedIsOpen DEF ResultInvariant, OneOpen, Listened
  <2>2. QED
    BY <2>1 DEF NoEarlyResult, Listened
<1>4. \A q \in Recognitions : Called(q) => Called(q)'
  BY CalledStays
<1>5. ErrorIsTold'
  BY <1>1, <1>4 DEF NobodyForgotten, ErrorIsTold
<1>6. OldDestroyed'
  BY DEF NobodyForgotten, OldDestroyed, screen
<1>7. ReleaseIsKept'
  <2>1. SUFFICES ASSUME NEW q \in Recognitions, NEW a \in Activities,
                        <<q, a>> \in released, alive, activity = a, q \notin robbed
                 PROVE  Called(q)' \/ (/\ service'[q] \in Listened /\ mListener = a
                                       /\ ~mIsTransfroming)
    BY DEF ReleaseIsKept, Listened, screen
  <2>2. Called(q) \/ (service[q] \in Listened /\ mListener = a /\ ~mIsTransfroming)
    BY <2>1 DEF NobodyForgotten, ReleaseIsKept, Listened
  <2>3. a # 0
    BY DEF Activities
  <2>4. QED
    BY <1>1, <1>4, <2>2, <2>3
<1>8. QED
  BY <1>3, <1>5, <1>6, <1>7 DEF NobodyForgotten

LEMMA GoOnCalls ==
  ASSUME NEW r \in Recognitions, NEW result, NEW after, goOn(r, result, after), mListener # 0
  PROVE  Called(r)'
BY DEF goOn, Called

LEMMA CallPending ==
  ASSUME TypeInvariant, NobodyForgotten, callListener \/ sdkStops
  PROVE  NobodyForgotten'
<1>1. UNCHANGED <<audio, service, mIsCallbacked, mListener, released, robbed, screen>>
      /\ (mIsTransfroming' => mIsTransfroming)
  BY DEF callListener, sdkStops, stopAsrTransform, channel, threads, history
<1>2. \A q \in Recognitions : Called(q) => Called(q)'
  <2>1. TAKE q \in Recognitions
  <2>2. CASE sdkStops
    BY <2>2, CalledStays DEF sdkStops, Stopping, history
  <2>3. CASE callListener
    <3>1. answers \in [Recognitions -> Seq(Result)]
          /\ answers' = [answers EXCEPT ![sdk.rec] = Append(answers[sdk.rec], sdk.result)]
      BY <2>3 DEF callListener, TypeInvariant, HistoryTypes
    <3>2. q # sdk.rec => answers'[q] = answers[q]
      BY <3>1
    <3>3. q = sdk.rec => answers'[q] # << >>
      <4>1. HAVE q = sdk.rec
      <4>2. sdk.result \in Result
        BY <2>3 DEF callListener, TypeInvariant, ChannelTypes, Calling, Idle, Stopping
      <4>3. answers'[q] = Append(answers[q], sdk.result) /\ answers[q] \in Seq(Result)
        BY <3>1, <4>1
      <4>4. QED
        BY <4>2, <4>3
    <3>4. QED
      BY <3>2, <3>3 DEF Called
  <2>4. QED
    BY <2>2, <2>3
<1>3. NoEarlyResult' /\ OldDestroyed'
  BY <1>1 DEF NobodyForgotten, NoEarlyResult, OldDestroyed, screen
<1>4. ErrorIsTold' /\ ReleaseIsKept'
  BY <1>1, <1>2 DEF NobodyForgotten, ErrorIsTold, ReleaseIsKept, screen
<1>5. QED
  BY <1>3, <1>4 DEF NobodyForgotten

LEMMA OverlapStays ==
  ASSUME overlapped, [Next]_vars
  PROVE  overlapped'
<1>1. CASE UNCHANGED history
  BY <1>1 DEF history
<1>2. CASE ACTION_DOWN \/ moveIn
  BY <1>2 DEF ACTION_DOWN, moveIn, changeToRecording, recording, startAsrTransform, newThread
<1>3. CASE onRequestPermissionsResult
  BY <1>3 DEF onRequestPermissionsResult, newThread
<1>4. CASE upTooShort \/ upAfterLongPress \/ ACTION_CANCEL \/ dismissByUser \/ runResult
           \/ destroyBySystem \/ callListener \/ \E a \in Activities : onDestroy(a)
  BY <1>4 DEF upTooShort, upAfterLongPress, ACTION_CANCEL, dismissByUser, runResult,
              destroyBySystem, onDestroy, release, callListener
<1>5. CASE moveOut \/ onLongClick \/ showVoiceInputDialog \/ answerNobody \/ finish
           \/ onCreate \/ sdkStops \/ runResultTooLate \/ callNull
  BY <1>1, <1>5 DEF moveOut, onLongClick, showVoiceInputDialog, answerNobody, finish, onCreate,
                    sdkStops, runResultTooLate, callNull
<1>6. CASE \E r \in Recognitions : \/ onBegin(r) \/ onEnd(r) \/ onLastResult(r)
                                   \/ onCompleted(r) \/ onError(r)
  BY <1>1, <1>6 DEF onBegin, onEnd, onLastResult, onCompleted, onError
<1>7. QED
  BY <1>1, <1>2, <1>3, <1>4, <1>5, <1>6, Threads DEF vars

LEMMA PendingStep ==
  ASSUME TypeInvariant, ResultInvariant, PendingInvariant, [Next]_vars
  PROVE  PendingInvariant'
<1> SUFFICES ASSUME ~overlapped' PROVE NobodyForgotten'
  BY DEF PendingInvariant
<1>0. ~overlapped /\ NobodyForgotten
  BY OverlapStays DEF PendingInvariant
<1>1. CASE UNCHANGED vars
  BY <1>0, <1>1, UnchangedPending DEF vars, threads, channel, history
<1>2. CASE ACTION_DOWN \/ moveIn
  BY <1>0, <1>2, PressPending DEF ACTION_DOWN, moveIn
<1>3. CASE upAfterLongPress
  BY <1>0, <1>3, UpPending
<1>4. CASE moveOut \/ onLongClick \/ upTooShort \/ ACTION_CANCEL \/ showVoiceInputDialog
           \/ dismissByUser \/ runResult \/ runResultTooLate \/ callNull
  BY <1>0, <1>4, UnchangedPending
     DEF moveOut, onLongClick, upTooShort, ACTION_CANCEL, showVoiceInputDialog,
         dismissByUser, runResult, runResultTooLate, callNull, threads, channel, history
<1>5. CASE finish \/ destroyBySystem \/ onCreate
  BY <1>0, <1>5, ScreenPending
<1>6. CASE \E a \in Activities : onDestroy(a)
  BY <1>0, <1>6, DestroyPending
<1>7. CASE onRequestPermissionsResult
  BY <1>0, <1>7, StartPending DEF onRequestPermissionsResult
<1>8. CASE \E r \in Recognitions : onBegin(r) \/ onEnd(r)
  BY <1>0, <1>8, AudioPending
<1>9. CASE \E r \in Recognitions : onLastResult(r)
  <2>1. PICK r \in Recognitions : onLastResult(r)
    BY <1>9
  <2>2. service[r] = "finishing" /\ audio[r] # "recording" /\ sdk.at # "calling"
    BY <2>1 DEF onLastResult, ResultInvariant, InStep, Idle
  <2>3. mListener # 0 => Called(r)'
    BY <2>1, GoOnCalls DEF onLastResult
  <2>4. /\ service' = [service EXCEPT ![r] = "resulted"]
        /\ UNCHANGED <<audio, mListener, mIsTransfroming, answers, released, robbed, screen>>
    BY <2>1 DEF onLastResult, history
  <2>5. QED
    BY <1>0, <2>2, <2>3, <2>4, ServicePending DEF Listened
<1>10. CASE \E r \in Recognitions : onCompleted(r)
  <2>1. PICK r \in Recognitions : onCompleted(r)
    BY <1>10
  <2>2. /\ service[r] \in {"finishing", "resulted"} /\ audio[r] # "recording"
        /\ sdk.at # "calling"
    BY <2>1 DEF onCompleted, ResultInvariant, InStep, Idle
  <2>3. (service[r] \in Listened /\ ~mIsTransfroming /\ mListener # 0) => Called(r)'
    <3>1. service[r] \in Listened => ~mIsCallbacked
      BY <1>0 DEF NobodyForgotten, NoEarlyResult, Listened
    <3>2. QED
      BY <2>1, <3>1, GoOnCalls DEF onCompleted
  <2>4. /\ service' = [service EXCEPT ![r] = "done"]
        /\ UNCHANGED <<audio, mListener, mIsTransfroming, answers, released, robbed, screen>>
    BY <2>1 DEF onCompleted, history, channel
  <2>5. QED
    BY <1>0, <2>2, <2>3, <2>4, ServicePending DEF Listened
<1>11. CASE \E r \in Recognitions : onError(r)
  <2>1. PICK r \in Recognitions : onError(r)
    BY <1>11
  <2>2. service[r] \in Listened /\ sdk.at # "calling"
    BY <2>1 DEF onError, Listened, Idle
  <2>3. mListener # 0 => Called(r)'
    BY <2>1, GoOnCalls DEF onError
  <2>4. /\ service' = [service EXCEPT ![r] = "done"]
        /\ UNCHANGED <<audio, mListener, mIsTransfroming, answers, released, robbed, screen>>
    BY <2>1 DEF onError, history
  <2>5. QED
    BY <1>0, <2>2, <2>3, <2>4, ServicePending
<1>12. CASE callListener \/ sdkStops
  BY <1>0, <1>12, CallPending
<1>14. CASE answerNobody
  BY <1>0, <1>14, UnchangedPending DEF answerNobody, threads, channel, history
<1>13. QED
  BY <1>1, <1>2, <1>3, <1>4, <1>5, <1>6, <1>7, <1>8, <1>9, <1>10, <1>11, <1>12, <1>14, Threads

\* Nobody who released the button inside it is forgotten, while no recognition is started
\* with another open: the flag that the audio thread resets, the listener that a late
\* onDestroy takes away, a source that ended by itself and the permission dialog's own
\* start included.
THEOREM Pending == Spec => []ReleaseIsPending
<1>1. TypeInvariant /\ ResultInvariant /\ PendingInvariant /\ [Next]_vars => PendingInvariant'
  BY PendingStep
<1>2. Init => PendingInvariant
  <2>1. ASSUME Init PROVE PendingInvariant
    BY <2>1 DEF Init, PendingInvariant, NobodyForgotten, NoEarlyResult, ErrorIsTold, OldDestroyed,
                ReleaseIsKept
  <2>2. QED
    BY <2>1
<1>3. PendingInvariant => ReleaseIsPending
  BY DEF PendingInvariant, NobodyForgotten, ReleaseIsKept, ReleaseIsPending, Called
<1>4. QED
  BY <1>1, <1>2, <1>3, Results, PTL DEF Spec
-----------------------------------------------------------------------------
(* The recognitions are dictations.                                        *)

Statuses == [r \in Recognitions |-> Status(r)]

Waits(r) == \E i \in DOMAIN posted : posted[i].rec = r

\* What the status of a recognition depends on.
LEMMA StatusFrame ==
  ASSUME NEW r \in Recognitions, audio'[r] = audio[r], answers'[r] = answers[r],
         answers[r] = << >> => (r \in Open' <=> r \in Open),
         answers[r] # << >> => (Waits(r)' <=> Waits(r))
  PROVE  Status(r)' = Status(r)
BY DEF Status, Waits

\* A step that moves one recognition on, and that one as a dictation, is a step of the
\* dictations.
LEMMA OneMoves ==
  ASSUME NEW r \in Recognitions, \A q \in Recognitions \ {r} : Status(q)' = Status(q),
         \/ Status(r)' = Status(r)
         \/ Status(r) = "none" /\ Status(r)' = "open"
         \/ Status(r) = "open" /\ Status(r)' \in {"text", "silence"}
  PROVE  [D!DNext]_Statuses
<1>1. CASE Status(r)' = Status(r)
  <2>1. \A q \in Recognitions : Status(q)' = Status(q)
    BY <1>1
  <2>2. QED
    BY <2>1 DEF Statuses
<1>2. CASE Status(r) = "none" /\ Status(r)' = "open"
  <2>1. \A q \in Recognitions : Status(q)' = IF q = r THEN "open" ELSE Status(q)
    BY <1>2
  <2>2. Statuses[r] = "none" /\ Statuses' = [Statuses EXCEPT ![r] = "open"]
    BY <1>2, <2>1 DEF Statuses
  <2>3. QED
    BY <2>2 DEF D!DNext, D!Start, Statuses
<1>3. CASE Status(r) = "open" /\ Status(r)' \in {"text", "silence"}
  <2>1. /\ Statuses[r] = "open"
        /\ \E how \in {"text", "silence"} : Statuses' = [Statuses EXCEPT ![r] = how]
    BY <1>3 DEF Statuses
  <2>2. QED
    BY <2>1 DEF D!DNext, D!End, Statuses
<1>4. QED
  BY <1>1, <1>2, <1>3

LEMMA NoneMoves ==
  ASSUME UNCHANGED <<audio, service, answers, posted>>
  PROVE  [D!DNext]_Statuses
<1>1. ASSUME NEW r \in Recognitions PROVE Status(r)' = Status(r)
  BY StatusFrame DEF Open, Waits
<1>2. QED
  BY <1>1 DEF Statuses

LEMMA StartMoves ==
  ASSUME TypeInvariant, ResultInvariant, newThread, UNCHANGED <<service, answers, posted>>
  PROVE  [D!DNext]_Statuses
<1>1. PICK r \in Recognitions \ Started : audio' = [audio EXCEPT ![r] = "starting"]
  BY DEF newThread
<1>2. /\ audio \in [Recognitions -> {"none", "starting", "recording", "ended"}]
      /\ audio[r] = "none" /\ audio'[r] = "starting"
  BY <1>1 DEF TypeInvariant, ThreadTypes, Started
<1>3. \A q \in Recognitions \ {r} : Status(q)' = Status(q)
  <2>1. TAKE q \in Recognitions \ {r}
  <2>2. audio'[q] = audio[q] /\ (q \in Open' <=> q \in Open)
    BY <1>1, <1>2 DEF Open
  <2>3. QED
    BY <2>2, StatusFrame DEF Waits
<1>4. answers'[r] = << >> /\ r \in Open'
  BY <1>1, <1>2 DEF ResultInvariant, InStep, AnsweredLate, Open
<1>5. Status(r) = "none" /\ Status(r)' = "open"
  BY <1>2, <1>4 DEF Status
<1>6. QED
  BY <1>3, <1>5, OneMoves

\* The audio thread and the SDK move a recognition on without an answer.
LEMMA ThreadMoves ==
  ASSUME TypeInvariant, ResultInvariant, NEW r \in Recognitions,
         audio[r] # "none", audio'[r] # "none", r \in Open,
         \A q \in Recognitions \ {r} : audio'[q] = audio[q] /\ service'[q] = service[q],
         UNCHANGED <<answers, posted>>
  PROVE  [D!DNext]_Statuses
<1>1. \A q \in Recognitions \ {r} : Status(q)' = Status(q)
  BY StatusFrame DEF Open, Waits
<1>2. \/ Status(r)' = Status(r)
      \/ Status(r) = "open" /\ Status(r)' \in {"text", "silence"}
  <2>1. CASE answers[r] = << >>
    BY <2>1 DEF Status
  <2>2. CASE answers[r] # << >>
    BY <2>2 DEF Status
  <2>3. QED
    BY <2>1, <2>2
<1>3. QED
  BY <1>1, <1>2, OneMoves

\* A call of the listener ends a recognition, unless a text has yet to be shown; of one
\* that has its answer a toast changes nothing.
LEMMA CallMoves ==
  ASSUME TypeInvariant, ResultInvariant, callListener
  PROVE  [D!DNext]_Statuses
<1>1. sdk \in Calling
  BY DEF callListener, TypeInvariant, ChannelTypes, Idle, Stopping
<1>0. PICK r \in Recognitions : r = sdk.rec
  BY <1>1 DEF Calling
<1>2. sdk.result \in Result
  BY <1>1 DEF Calling
<1>3. service[r] \in {"resulted", "done"}
  BY <1>0 DEF callListener, ResultInvariant, AnsweredLate
<1>4. /\ answers \in [Recognitions -> Seq(Result)]
      /\ answers' = [answers EXCEPT ![r] = Append(answers[r], sdk.result)]
      /\ UNCHANGED <<audio, service>>
  BY <1>0 DEF callListener, TypeInvariant, HistoryTypes, threads
<1>5. audio[r] # "none" /\ answers'[r] = Append(answers[r], sdk.result)
  BY <1>3, <1>4 DEF ResultInvariant, InStep
<1>6. CASE sdk.result = "toast"
  <2>1. UNCHANGED posted
    BY <1>6 DEF callListener
  <2>2. \A q \in Recognitions \ {r} : Status(q)' = Status(q)
    BY <1>4, <2>1, StatusFrame DEF Open, Waits
  <2>3. /\ answers'[r] # << >> /\ Len(answers[r]) \in Nat
        /\ DOMAIN answers[r] = 1..Len(answers[r])
        /\ DOMAIN answers'[r] = 1..(Len(answers[r]) + 1)
        /\ \A i \in 1..Len(answers[r]) : answers'[r][i] = answers[r][i]
        /\ answers'[r][Len(answers[r]) + 1] = "toast"
    BY <1>2, <1>4, <1>5, <1>6
  <2>4. CASE answers[r] = << >>
    <3>1. Status(r) \in {"open", "silence"}
      BY <1>5, <2>4 DEF Status
    <3>2. \A i \in DOMAIN answers'[r] : answers'[r][i] = "toast"
      BY <2>3, <2>4
    <3>3. Status(r)' = "silence"
      BY <1>4, <1>5, <2>3, <3>2 DEF Status
    <3>4. QED
      BY <2>2, <3>1, <3>3, OneMoves
  <2>5. CASE answers[r] # << >>
    <3>1. (\A i \in DOMAIN answers'[r] : answers'[r][i] = "toast")
            <=> (\A i \in DOMAIN answers[r] : answers[r][i] = "toast")
      BY <2>3
    <3>2. Status(r)' = Status(r)
      BY <1>4, <2>1, <2>3, <2>5, <3>1 DEF Status
    <3>3. QED
      BY <2>2, <3>2, OneMoves
  <2>6. QED
    BY <2>4, <2>5
<1>7. CASE sdk.result = "text"
  <2> DEFINE new == [to |-> mListener, rec |-> r]
  <2>1. posted' = Append(posted, new) /\ posted \in Seq(Runnable) /\ new.rec = r
    BY <1>7, <1>0 DEF callListener, TypeInvariant, ThreadTypes
  <2>2. \A q \in Recognitions \ {r} : Waits(q)' <=> Waits(q)
    BY <2>1 DEF Waits
  <2>3. \A q \in Recognitions \ {r} : Status(q)' = Status(q)
    BY <1>4, <2>2, StatusFrame DEF Open
  <2>0. answers[r] = << >> /\ service[r] = "resulted"
    BY <1>0, <1>7 DEF callListener, ResultInvariant, AnsweredLate
  <2>4. Status(r) = "open"
    BY <1>5, <2>0 DEF Status, Open
  <2>5. Waits(r)'
    BY <2>1 DEF Waits
  <2>6. Status(r)' = "open"
    <3>1. answers'[r] = << "text" >>
      BY <1>5, <1>7, <2>0
    <3>3. answers'[r] # << >> /\ \E i \in DOMAIN answers'[r] : answers'[r][i] # "toast"
      BY <3>1
    <3>2. QED
      BY <1>4, <1>5, <2>5, <3>3 DEF Status, Waits
  <2>7. QED
    BY <2>3, <2>4, <2>6, OneMoves
<1>8. QED
  BY <1>2, <1>6, <1>7 DEF Result

\* A Runnable shows its text, and changes no other recognition.
LEMMA ResultMoves ==
  ASSUME TypeInvariant, runResult
  PROVE  [D!DNext]_Statuses
<1>1. posted \in Seq(Runnable) /\ posted # << >> /\ posted' = Tail(posted)
  BY DEF runResult, TypeInvariant, ThreadTypes
<1>2. PICK r \in Recognitions : r = Head(posted).rec
  <2>1. Head(posted) \in Runnable
    BY <1>1
  <2>2. QED
    BY <2>1 DEF Runnable
<1>3. \A q \in Recognitions \ {r} : Waits(q)' <=> Waits(q)
  <2>1. TAKE q \in Recognitions \ {r}
  <2>2. /\ Len(posted) \in Nat /\ Len(posted') = Len(posted) - 1
        /\ DOMAIN posted = 1..Len(posted) /\ DOMAIN posted' = 1..Len(posted')
        /\ \A i \in DOMAIN posted' : posted'[i] = posted[i + 1]
    BY <1>1
  <2>3. ASSUME Waits(q)' PROVE Waits(q)
    <3>1. PICK i \in DOMAIN posted' : posted'[i].rec = q
      BY <2>3 DEF Waits
    <3>2. i + 1 \in DOMAIN posted /\ posted[i + 1].rec = q
      BY <2>2, <3>1
    <3>3. QED
      BY <3>2 DEF Waits
  <2>4. ASSUME Waits(q) PROVE Waits(q)'
    <3>1. PICK i \in DOMAIN posted : posted[i].rec = q
      BY <2>4 DEF Waits
    <3>2. i # 1
      BY <1>1, <1>2, <3>1
    <3>3. i - 1 \in DOMAIN posted' /\ posted'[i - 1].rec = q
      BY <2>2, <3>1, <3>2
    <3>4. QED
      BY <3>3 DEF Waits
  <2>5. QED
    BY <2>3, <2>4
<1>4. Waits(r)
  BY <1>1, <1>2 DEF Waits
<1>5. UNCHANGED <<audio, service, answers>>
  BY DEF runResult, threads
<1>6. \A q \in Recognitions \ {r} : Status(q)' = Status(q)
  BY <1>3, <1>5, StatusFrame DEF Open
<1>7. \/ Status(r)' = Status(r)
      \/ Status(r) = "open" /\ Status(r)' = "text"
  BY <1>4, <1>5 DEF Status, Open, Waits
<1>8. QED
  BY <1>6, <1>7, OneMoves

LEMMA DictationStep ==
  ASSUME TypeInvariant, ResultInvariant, [Next]_vars
  PROVE  [D!DNext]_Statuses
<1>1. CASE UNCHANGED vars
  BY <1>1, NoneMoves DEF vars, threads, history
<1>2. CASE ACTION_DOWN \/ moveIn
  <2>1. (newThread \/ UNCHANGED audio) /\ UNCHANGED <<service, answers, posted>>
    BY <1>2 DEF ACTION_DOWN, moveIn, changeToRecording, recording, startAsrTransform
  <2>2. QED
    BY <2>1, StartMoves, NoneMoves
<1>3. CASE moveOut \/ onLongClick \/ upTooShort \/ upAfterLongPress \/ ACTION_CANCEL
           \/ showVoiceInputDialog
  BY <1>3, NoneMoves
     DEF moveOut, onLongClick, upTooShort, upAfterLongPress, ACTION_CANCEL,
         showVoiceInputDialog, threads, history
<1>4. CASE dismissByUser \/ finish \/ answerNobody \/ onCreate \/ runResultTooLate \/ callNull
  BY <1>4, NoneMoves
     DEF dismissByUser, finish, answerNobody, onCreate, runResultTooLate, callNull, threads, history
<1>5. CASE destroyBySystem \/ sdkStops \/ \E a \in Activities : onDestroy(a)
  BY <1>5, NoneMoves DEF destroyBySystem, onDestroy, release, sdkStops, history
<1>6. CASE onRequestPermissionsResult
  BY <1>6, StartMoves DEF onRequestPermissionsResult
<1>7. CASE runResult
  BY <1>7, ResultMoves
<1>8. CASE callListener
  BY <1>8, CallMoves
<1>9. CASE \E r \in Recognitions : \/ onBegin(r) \/ onEnd(r) \/ onLastResult(r)
                                   \/ onCompleted(r) \/ onError(r)
  <2>1. PICK r \in Recognitions : \/ onBegin(r) \/ onEnd(r) \/ onLastResult(r)
                                  \/ onCompleted(r) \/ onError(r)
    BY <1>9
  <2>2. /\ audio \in [Recognitions -> {"none", "starting", "recording", "ended"}]
        /\ service \in [Recognitions -> {"none", "listening", "finishing", "resulted", "done"}]
    BY DEF TypeInvariant, ThreadTypes
  <2>3. CASE onBegin(r) \/ onEnd(r)
    <3>1. audio[r] \in {"starting", "recording"} /\ audio'[r] \in {"recording", "ended"}
      BY <2>2, <2>3 DEF onBegin, onEnd
    <3>2. /\ \A q \in Recognitions \ {r} : audio'[q] = audio[q] /\ service'[q] = service[q]
          /\ UNCHANGED <<answers, posted>>
      BY <2>2, <2>3 DEF onBegin, onEnd, history
    <3>3. r \in Open
      BY <3>1 DEF Open
    <3>4. QED
      BY <3>1, <3>2, <3>3, ThreadMoves
  <2>4. CASE onLastResult(r) \/ onCompleted(r) \/ onError(r)
    <3>1. service[r] \in {"listening", "finishing", "resulted"} /\ UNCHANGED audio
      BY <2>4 DEF onLastResult, onCompleted, onError
    <3>2. /\ \A q \in Recognitions \ {r} : service'[q] = service[q]
          /\ UNCHANGED <<answers, posted>>
      BY <2>2, <2>4 DEF onLastResult, onCompleted, onError, history
    <3>3. audio[r] # "none" /\ r \in Open
      BY <3>1 DEF Open, ResultInvariant, InStep
    <3>4. QED
      BY <3>1, <3>2, <3>3, ThreadMoves
  <2>5. QED
    BY <2>1, <2>3, <2>4
<1>10. QED
  BY <1>1, <1>2, <1>3, <1>4, <1>5, <1>6, <1>7, <1>8, <1>9, Threads

\* Each recognition is a dictation that ends once, in a text that is shown or in silence,
\* also when it overlaps another.
THEOREM DictationRefinement == Spec => ImplementsDictation
<1>1. Init => D!DInit
  BY DEF Init, D!DInit, Status
<1>2. TypeInvariant /\ ResultInvariant /\ [Next]_vars => [D!DNext]_Statuses
  BY DictationStep
<1>3. QED
  BY <1>1, <1>2, Results, PTL DEF Spec, ImplementsDictation, D!Dictating, Statuses
=============================================================================
