----------------------------- MODULE VoiceInput -----------------------------
(***************************************************************************)
(* How an anchor speaks a question: AudioRecordButton (the touch events),  *)
(* VoiceInputDialog (the window around it), SogouVoiceChannel (the         *)
(* recognition) and the two RTC calls of AnchorLiveActivity that keep the  *)
(* room from hearing the dictation.                                        *)
(*                                                                         *)
(* Three kinds of threads meet: the UI thread, one audio thread for each   *)
(* recognition (mAudioSource.run), and the thread of the Sogou SDK that    *)
(* calls mSpeechEventListener.  The SDK, the audio source and the system's *)
(* permission dialog are external.  A recognition is named by its rank.    *)
(*                                                                         *)
(* The channel is one object for the whole process, the activity is not:   *)
(* one that finished is destroyed, and releases the channel, later.        *)
(***************************************************************************)
EXTENDS Naturals, FiniteSets, SequencesExt

CONSTANTS
  MaxRecognitions,   \* bound: recognitions started
  MaxActivities      \* bound: AnchorLiveActivities, one on the screen at a time

ASSUME VoiceAssumption == /\ MaxRecognitions \in Nat
                          /\ MaxActivities \in Nat \ {0}

VARIABLES
  activity,       \* the rank of the last AnchorLiveActivity
  alive,          \* it has neither finished nor been destroyed
  destroying,     \* the finished activities whose onDestroy is to come
  \* AudioRecordButton
  held,           \* a finger is on the button and its events arrive there
  longPress,      \* the view's long-press callback is pending
  mCurrentState, isRecording, mReady,
  \* VoiceInputDialog
  showing,
  mIsAutoChangeProgress,
  ticks,          \* MSG_ID_CHANGE_PROGRESS messages in mHandler's queue
  \* SogouVoiceChannel
  mListener,      \* the activity it belongs to, 0 for null
  mIsTransfroming, mIsCallbacked,
  sdk,            \* where the SDK's thread is in a callback
  \* the system
  granted,        \* every permission of mNeedPermissions
  permPending,    \* the permission dialog: "asked" by the activity, "orphaned" when the
                  \* one that asked has finished, or "none"
  muted,          \* mRtcEngine.disableAudio() came after enableAudio()
  \* the recognitions
  audio,          \* the thread of each recognition
  stopped,        \* those whose thread has been told to stop and has not ended
  service,        \* what the SDK has still to say about each recognition
  posted,         \* Runnables with a text, not yet run by the UI thread
  crashed,        \* an exception ended the process
  \* history, read by no action
  released,       \* recognitions ended by a full press that was not slid out of the
                  \* button, each with the activity on the screen, its listener
  robbed,         \* those open when another activity's end took the listener
  answers,        \* the results given to the listener of each recognition
  cutShort,       \* the last press was a short tap or was taken away
  overlapped      \* a recognition was started while another was open

button  == <<held, longPress, mCurrentState, isRecording, mReady>>
window  == <<showing, mIsAutoChangeProgress, ticks>>
channel == <<mListener, mIsTransfroming, mIsCallbacked>>
system  == <<granted, permPending>>
threads == <<audio, stopped, service>>
screen  == <<activity, alive, destroying>>
history == <<released, robbed, answers, cutShort, overlapped>>
vars == <<screen, button, window, channel, sdk, system, muted, threads, posted, crashed,
          history>>

Recognitions == 1..MaxRecognitions
Activities   == 1..MaxActivities
Idle         == [at |-> "idle"]
Stopping     == [at |-> "stopping"]   \* before the stopAsrTransform() of a callback

\* Its thread runs or the SDK has something to say about it.
Open == {r \in Recognitions :
           audio[r] # "none" /\ (audio[r] # "ended" \/ service[r] # "done")}

\* Those that record for the activity on the screen, with it.
Heard == {<<r, activity>> : r \in {q \in Recognitions : mListener = activity
                                                      /\ audio[q] = "recording"}}

\* Its windows can still be shown.
Exists(a) == a \in destroying \/ (alive /\ a = activity)

Started == {r \in Recognitions : audio[r] # "none"}

Init ==
  /\ activity = 1 /\ alive = TRUE /\ destroying = {}
  /\ held = FALSE /\ longPress = FALSE
  /\ mCurrentState = "normal" /\ isRecording = FALSE /\ mReady = FALSE
  /\ showing = FALSE
  /\ mIsAutoChangeProgress = FALSE /\ ticks = 0
  /\ mListener = 0 /\ mIsTransfroming = FALSE /\ mIsCallbacked = FALSE
  /\ sdk = Idle
  /\ granted \in BOOLEAN /\ permPending = "none"
  /\ muted = FALSE
  /\ audio = [r \in Recognitions |-> "none"]
  /\ stopped = {}
  /\ service = [r \in Recognitions |-> "none"]
  /\ posted = << >>
  /\ crashed = FALSE
  /\ released = {} /\ robbed = {}
  /\ answers = [r \in Recognitions |-> << >>]
  /\ cutShort = FALSE /\ overlapped = FALSE
-----------------------------------------------------------------------------
(* SogouVoiceChannel, as its callers use it.                               *)

\* new Thread(mAudioSource).start()
newThread ==
  \E r \in Recognitions \ Started :
    /\ \A q \in Recognitions : q < r => q \in Started
    /\ audio' = [audio EXCEPT ![r] = "starting"]
    /\ overlapped' = (overlapped \/ Open # {})

\* With a permission missing nothing is kept of the call, the listener neither.
startAsrTransform(listener) ==
  \/ /\ ~granted
     /\ permPending' = "asked"
     /\ UNCHANGED <<mListener, mIsTransfroming, audio, overlapped>>
  \/ /\ granted
     /\ mListener' = listener
     /\ mIsTransfroming' = TRUE
     /\ newThread
     /\ UNCHANGED permPending

\* Mutant: the flag stays.
stopKeepsTransforming ==
  /\ mIsTransfroming' = mIsTransfroming
  /\ \E early \in SUBSET {r \in Recognitions : audio[r] = "starting"} :
       stopped' = stopped \cup early \cup {r \in Recognitions : audio[r] = "recording"}

\* mAudioSource.stop() reaches the threads that record; whether it reaches one
\* that has not begun is up to the audio source.
stopAsrTransform ==
  /\ mIsTransfroming' = FALSE
  /\ \E early \in SUBSET {r \in Recognitions : audio[r] = "starting"} :
       stopped' = stopped \cup early \cup {r \in Recognitions : audio[r] = "recording"}
-----------------------------------------------------------------------------
(* The dialog's answers to the button.                                     *)

\* Mutant: the animation starts whether or not it runs.
recordingTwice ==
  /\ muted' = TRUE
  /\ startAsrTransform(activity)
  /\ mIsAutoChangeProgress' = TRUE
  /\ ticks' = ticks + 1

\* recording(): onStart of the activity, then the progress animation.
recording ==
  /\ muted' = TRUE
  /\ startAsrTransform(activity)
  /\ mIsAutoChangeProgress' = TRUE
  /\ ticks' = IF mIsAutoChangeProgress THEN ticks ELSE ticks + 1

\* reset() of the button, which ends in reset() of the dialog.
reset ==
  /\ isRecording' = FALSE
  /\ mCurrentState' = "normal"
  /\ mReady' = FALSE
  /\ mIsAutoChangeProgress' = FALSE
  /\ ticks' = 0
-----------------------------------------------------------------------------
(* AudioRecordButton.onTouchEvent.                                         *)

\* changeState does nothing when the state is already the wanted one.
changeToRecording ==
  \/ /\ mCurrentState # "recording"
     /\ mCurrentState' = "recording"
     /\ isRecording' = TRUE
     /\ recording
  \/ /\ mCurrentState = "recording"
     /\ UNCHANGED <<mCurrentState, isRecording, muted, mListener, mIsTransfroming,
                    permPending, audio, overlapped, mIsAutoChangeProgress, ticks>>

ACTION_DOWN ==
  /\ alive /\ showing /\ ~held
  /\ permPending = "none"
  /\ held' = TRUE
  /\ longPress' = TRUE
  /\ changeToRecording
  /\ cutShort' = FALSE
  /\ UNCHANGED <<screen, mReady, showing, mIsCallbacked, sdk, granted, stopped,
                 service, posted, released, robbed, answers>>

\* A move may leave the view far enough for the view to forget the long press,
\* with or without wantToCancel.
moveOut ==
  /\ held /\ isRecording
  /\ mCurrentState' = "want_to_cancel"
  /\ longPress' \in {longPress, FALSE}
  /\ UNCHANGED <<screen, held, isRecording, mReady, window, channel, sdk, system,
                 muted, threads, posted, history>>

moveIn ==
  /\ held /\ isRecording
  /\ permPending = "none"
  /\ changeToRecording
  /\ longPress' \in {longPress, FALSE}
  /\ UNCHANGED <<screen, held, mReady, showing, mIsCallbacked, sdk, granted,
                 stopped, service, posted, released, robbed, answers, cutShort>>

onLongClick ==
  /\ held /\ longPress
  /\ longPress' = FALSE
  /\ mReady' = TRUE
  /\ UNCHANGED <<screen, held, mCurrentState, isRecording, window, channel, sdk,
                 system, muted, threads, posted, history>>

\* A press that never was a long press: reset() and nothing else.
upTooShort ==
  /\ held
  /\ ~mReady
  /\ held' = FALSE
  /\ longPress' = FALSE
  /\ reset
  /\ cutShort' = TRUE
  /\ UNCHANGED <<screen, showing, channel, sdk, system, muted, threads, posted,
                 released, robbed, answers, overlapped>>

\* Mutant: a press released where it says "cancel" gives the audio not back.
upKeepsMute ==
  /\ held
  /\ mReady
  /\ held' = FALSE
  /\ longPress' = FALSE
  /\ stopAsrTransform
  /\ muted' = (muted /\ mCurrentState # "recording")
  /\ reset
  /\ released' = IF mCurrentState = "recording" THEN released \cup Heard ELSE released
  /\ UNCHANGED <<screen, showing, mListener, mIsCallbacked, sdk, system, audio,
                 service, posted, robbed, answers, cutShort, overlapped>>

\* finished() and canceled() are the same: onStop of the activity; then reset().
upAfterLongPress ==
  /\ held
  /\ mReady
  /\ held' = FALSE
  /\ longPress' = FALSE
  /\ stopAsrTransform
  /\ muted' = FALSE
  /\ reset
  /\ released' = IF mCurrentState = "recording" THEN released \cup Heard ELSE released
  /\ UNCHANGED <<screen, showing, mListener, mIsCallbacked, sdk, system, audio,
                 service, posted, robbed, answers, cutShort, overlapped>>

ACTION_UP == upTooShort \/ upAfterLongPress

\* The button has no case for it.
ACTION_CANCEL ==
  /\ held
  /\ held' = FALSE
  /\ longPress' = FALSE
  /\ cutShort' = TRUE
  /\ UNCHANGED <<screen, mCurrentState, isRecording, mReady, window, channel, sdk,
                 system, muted, threads, posted, released, robbed, answers, overlapped>>
-----------------------------------------------------------------------------
(* The dialog and the activities.                                          *)

showVoiceInputDialog ==
  /\ alive /\ ~showing
  /\ showing' = TRUE
  /\ UNCHANGED <<screen, button, mIsAutoChangeProgress, ticks, channel, sdk,
                 system, muted, threads, posted, history>>

\* The window goes, and with it the touch; button and animation are as they were.
hide ==
  /\ showing' = FALSE
  /\ held' = FALSE
  /\ longPress' = FALSE
  /\ cutShort' = (cutShort \/ held)
  /\ UNCHANGED <<mCurrentState, isRecording, mReady, mIsAutoChangeProgress, ticks>>

dismissByUser ==
  /\ showing
  /\ hide
  /\ UNCHANGED <<screen, channel, sdk, system, muted, threads, posted, released,
                 robbed, answers, overlapped>>

\* The Runnable of onAsrTranformResult; the check dialog that follows is not here.
runResult ==
  /\ posted # << >>
  /\ Exists(Head(posted).to)
  /\ posted' = Tail(posted)
  /\ \/ Head(posted).to = activity /\ hide
     \/ Head(posted).to # activity /\ UNCHANGED <<button, window, cutShort>>
  /\ UNCHANGED <<screen, channel, sdk, system, muted, threads, released, robbed,
                 answers, overlapped>>

\* Its show() throws on a destroyed activity.
runResultTooLate ==
  /\ posted # << >>
  /\ ~Exists(Head(posted).to)
  /\ crashed' = TRUE
  /\ UNCHANGED <<screen, button, window, channel, sdk, system, muted, threads, posted,
                 history>>

\* All granted: the transform starts with the listener kept from an earlier call.
\* A refusal asks again at once, which changes nothing here.  The system gives the
\* result to the activity that asked, or to the one it made in its place.
onRequestPermissionsResult ==
  /\ permPending = "asked" /\ alive
  /\ granted' = TRUE
  /\ permPending' = "none"
  /\ mIsTransfroming' = TRUE
  /\ newThread
  /\ UNCHANGED <<screen, button, window, mListener, mIsCallbacked, sdk, muted,
                 stopped, service, posted, released, robbed, answers, cutShort>>

\* An activity that finished hears of no result, and asks no more.
answerNobody ==
  /\ permPending = "orphaned"
  /\ granted' \in BOOLEAN
  /\ permPending' = "none"
  /\ UNCHANGED <<screen, button, window, channel, sdk, muted, threads, posted, history>>

\* The back key, which the dialog would take, also while the permission dialog is on
\* its way.
finish ==
  /\ alive /\ ~showing
  /\ alive' = FALSE
  /\ destroying' = destroying \cup {activity}
  /\ permPending' = IF permPending = "asked" THEN "orphaned" ELSE permPending
  /\ UNCHANGED <<activity, button, window, channel, sdk, granted, muted, threads, posted,
                 history>>

\* Mutant: the listener stays.
releaseKeepsListener(a) ==
  /\ \/ mIsTransfroming /\ stopAsrTransform
     \/ ~mIsTransfroming /\ UNCHANGED <<mIsTransfroming, stopped>>
  /\ robbed' = IF mListener = a THEN robbed ELSE robbed \cup Open
  /\ UNCHANGED <<mListener, mIsCallbacked, sdk, system, muted, audio, service, posted,
                 released, answers, overlapped>>

release(a) ==
  /\ \/ mIsTransfroming /\ stopAsrTransform
     \/ ~mIsTransfroming /\ UNCHANGED <<mIsTransfroming, stopped>>
  /\ mListener' = 0
  /\ robbed' = IF mListener = a THEN robbed ELSE robbed \cup Open
  /\ UNCHANGED <<mIsCallbacked, sdk, system, muted, audio, service, posted, released,
                 answers, overlapped>>

\* The system takes the activity on the screen, to make another, also under the
\* permission dialog.
destroyBySystem ==
  /\ alive
  /\ alive' = FALSE
  /\ hide
  /\ release(activity)
  /\ UNCHANGED <<activity, destroying>>

\* Of one that finished, when the system comes to it.
onDestroy(a) ==
  /\ a \in destroying
  /\ destroying' = destroying \ {a}
  /\ release(a)
  /\ UNCHANGED <<activity, alive, button, window, cutShort>>

\* With a dialog and a button of its own; the mute is the engine's and stays.
onCreate ==
  /\ ~alive
  /\ activity < MaxActivities
  /\ activity' = activity + 1
  /\ alive' = TRUE
  /\ mCurrentState' = "normal" /\ isRecording' = FALSE /\ mReady' = FALSE
  /\ mIsAutoChangeProgress' = FALSE /\ ticks' = 0
  /\ UNCHANGED <<destroying, held, longPress, showing, channel, sdk, system, muted,
                 threads, posted, history>>
-----------------------------------------------------------------------------
(* The audio thread: mAudioSourceListener.                                 *)

\* Mutant: the flag of the last recognition stays.
onBeginKeepsFlag(r) ==
  /\ audio[r] = "starting"
  /\ audio' = [audio EXCEPT ![r] = "recording"]
  /\ service' = [service EXCEPT ![r] = "listening"]
  /\ UNCHANGED <<screen, button, window, channel, sdk, system, muted, stopped, posted,
                 history>>

onBegin(r) ==
  /\ audio[r] = "starting"
  /\ audio' = [audio EXCEPT ![r] = "recording"]
  /\ mIsCallbacked' = FALSE
  /\ service' = [service EXCEPT ![r] = "listening"]
  /\ UNCHANGED <<screen, button, window, mListener, mIsTransfroming, sdk, system,
                 muted, stopped, posted, history>>

\* The source was stopped, or ended by itself with an exception: the code does not look.
onEnd(r) ==
  /\ audio[r] = "recording"
  /\ audio' = [audio EXCEPT ![r] = "ended"]
  /\ stopped' = stopped \ {r}
  /\ service' = [service EXCEPT ![r] = IF @ = "listening" THEN "finishing" ELSE @]
  /\ UNCHANGED <<screen, button, window, channel, sdk, system, muted, posted, history>>
-----------------------------------------------------------------------------
(* The SDK's thread: mSpeechEventListener.                                 *)

\* The null check: the call of the listener is next, if there is one.
goOn(r, result, after) ==
  sdk' = IF mListener # 0 THEN [at |-> "calling", rec |-> r, result |-> result, after |-> after]
                          ELSE after

\* Mutant: a result is handled like the last, and another follows.
onEveryResult(r) ==
  /\ sdk = Idle
  /\ service[r] = "finishing"
  /\ mIsCallbacked' = TRUE
  /\ \E result \in {"text", "toast"} : goOn(r, result, Stopping)
  /\ UNCHANGED <<screen, button, window, mListener, mIsTransfroming, system, muted,
                 threads, posted, history>>

onLastResult(r) ==
  /\ sdk = Idle
  /\ service[r] = "finishing"
  /\ service' = [service EXCEPT ![r] = "resulted"]
  /\ mIsCallbacked' = TRUE
  /\ \E result \in {"text", "toast"} : goOn(r, result, Stopping)
  /\ UNCHANGED <<screen, button, window, mListener, mIsTransfroming, system, muted,
                 audio, stopped, posted, history>>

\* Mutant: the flag that a result was given is not looked at.
onCompletedAnyway(r) ==
  /\ sdk = Idle
  /\ service[r] \in {"finishing", "resulted"}
  /\ service' = [service EXCEPT ![r] = "done"]
  /\ IF ~mIsTransfroming THEN goOn(r, "toast", Idle) ELSE UNCHANGED sdk
  /\ UNCHANGED <<screen, button, window, channel, system, muted, audio, stopped, posted,
                 history>>

onCompleted(r) ==
  /\ sdk = Idle
  /\ service[r] \in {"finishing", "resulted"}
  /\ service' = [service EXCEPT ![r] = "done"]
  /\ IF ~mIsTransfroming /\ ~mIsCallbacked THEN goOn(r, "toast", Idle) ELSE UNCHANGED sdk
  /\ UNCHANGED <<screen, button, window, channel, system, muted, audio, stopped, posted,
                 history>>

\* Any error but 9002, which stands for a cancellation the code never asks for.
onError(r) ==
  /\ sdk = Idle
  /\ service[r] \in {"listening", "finishing"}
  /\ service' = [service EXCEPT ![r] = "done"]
  /\ mIsCallbacked' = (mIsCallbacked \/ mListener # 0)
  /\ goOn(r, "toast", Stopping)
  /\ UNCHANGED <<screen, button, window, mListener, mIsTransfroming, system, muted,
                 audio, stopped, posted, history>>

\* onAsrTranformResult: a text goes to the UI thread; without one there is a toast.
callListener ==
  /\ sdk.at = "calling"
  /\ mListener # 0
  /\ answers' = [answers EXCEPT ![sdk.rec] = Append(@, sdk.result)]
  /\ posted' = IF sdk.result = "text"
               THEN Append(posted, [to |-> mListener, rec |-> sdk.rec])
               ELSE posted
  /\ sdk' = sdk.after
  /\ UNCHANGED <<screen, button, window, channel, system, muted, threads, released,
                 robbed, cutShort, overlapped>>

\* release() came between the check and the call.
callNull ==
  /\ sdk.at = "calling"
  /\ mListener = 0
  /\ crashed' = TRUE
  /\ UNCHANGED <<screen, button, window, channel, sdk, system, muted, threads, posted,
                 history>>

sdkStops ==
  /\ sdk = Stopping
  /\ stopAsrTransform
  /\ sdk' = Idle
  /\ UNCHANGED <<screen, button, window, mListener, mIsCallbacked, system, muted,
                 audio, service, posted, history>>
-----------------------------------------------------------------------------
Step ==
  \/ ACTION_DOWN \/ moveOut \/ moveIn \/ onLongClick \/ ACTION_UP \/ ACTION_CANCEL
  \/ showVoiceInputDialog \/ dismissByUser \/ runResult
  \/ onRequestPermissionsResult \/ answerNobody
  \/ finish \/ destroyBySystem \/ onCreate
  \/ \E a \in Activities : onDestroy(a)
  \/ \E r \in Recognitions : \/ onBegin(r) \/ onEnd(r) \/ onLastResult(r)
                             \/ onCompleted(r) \/ onError(r)
  \/ callListener \/ sdkStops

Next == ~crashed /\ (runResultTooLate \/ callNull \/ (Step /\ UNCHANGED crashed))

Spec == Init /\ [][Next]_vars

Lives(A) == ~crashed /\ A /\ UNCHANGED crashed

\* Threads that were started run, a stopped one ends, and the service says the
\* last word about every recognition.  Nothing is assumed of the anchor.
FairSpec == /\ Spec
            /\ \A r \in Recognitions :
                 /\ WF_vars(Lives(onBegin(r) \/ (r \in stopped /\ onEnd(r))))
                 /\ WF_vars(Lives(onCompleted(r)))
            /\ WF_vars(Lives(callListener \/ sdkStops))
            /\ WF_vars(~crashed /\ callNull)
=============================================================================
