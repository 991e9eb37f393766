-------------------------- MODULE VoiceInputProps --------------------------
(***************************************************************************)
(* The properties of the voice input.                                      *)
(***************************************************************************)
EXTENDS VoiceInput

Result   == {"text", "toast"}
Runnable == [to : Activities, rec : Recognitions]
Calling  == [at : {"calling"}, rec : Recognitions, result : Result,
             after : {Idle, Stopping}]

ScreenTypes ==
  /\ activity \in Activities
  /\ alive \in BOOLEAN
  /\ destroying \subseteq Activities

ButtonTypes ==
  /\ held \in BOOLEAN /\ longPress \in BOOLEAN
  /\ mCurrentState \in {"normal", "recording", "want_to_cancel"}
  /\ isRecording \in BOOLEAN /\ mReady \in BOOLEAN

WindowTypes ==
  /\ showing \in BOOLEAN
  /\ mIsAutoChangeProgress \in BOOLEAN
  /\ ticks \in Nat

ChannelTypes ==
  /\ mListener \in {0} \cup {a \in Activities : Exists(a)}
  /\ mIsTransfroming \in BOOLEAN /\ mIsCallbacked \in BOOLEAN
  /\ sdk \in {Idle, Stopping} \cup Calling

SystemTypes ==
  /\ granted \in BOOLEAN /\ permPending \in {"none", "asked", "orphaned"}
  /\ muted \in BOOLEAN /\ crashed \in BOOLEAN

ThreadTypes ==
  /\ audio \in [Recognitions -> {"none", "starting", "recording", "ended"}]
  /\ stopped \subseteq Recognitions
  /\ service \in [Recognitions -> {"none", "listening", "finishing", "resulted", "done"}]
  /\ posted \in Seq(Runnable)

HistoryTypes ==
  /\ released \subseteq Recognitions \X Activities
  /\ robbed \subseteq Recognitions
  /\ answers \in [Recognitions -> Seq(Result)]
  /\ cutShort \in BOOLEAN /\ overlapped \in BOOLEAN

\* Every variable has the values the code can give it; the channel, which outlives the
\* activities, keeps no listener of one that is destroyed.
TypeInvariant == /\ ScreenTypes /\ ButtonTypes /\ WindowTypes /\ ChannelTypes
                 /\ SystemTypes /\ ThreadTypes /\ HistoryTypes

\* A finger is on a button of a dialog of an activity that is there.
Pressed == (held => showing) /\ (showing => alive)

\* The progress animation is driven by one message, however often the finger
\* leaves the button and comes back: two would run it at double speed for good,
\* since each renews itself (recording and reset of VoiceInputDialog).
OneTicker == ticks = IF mIsAutoChangeProgress THEN 1 ELSE 0

\* The room does not hear the anchor only while he holds the button, or after a
\* press that a short tap, a vanished dialog or the system ended: every release
\* of a long press calls enableAudio, wherever the finger is.
MutedOnlyByPress == muted => held \/ cutShort
-----------------------------------------------------------------------------
(* While no recognition was started with another still open, as a press     *)
(* after an impatient one does, or a finger that slides out and back.      *)

\* The listener hears of a recognition once at most, although the last result and
\* the completion are two events on the SDK's thread and mIsCallbacked is reset by
\* the audio thread.
OneResultEach == ~overlapped => \A r \in Recognitions : Len(answers[r]) <= 1

\* Why, always: the thread and the service of a recognition move on together, and only
\* its last result can be a text.
InStep ==
  /\ permPending # "none" => ~granted
  /\ ~granted => Started = {}
  /\ \A r \in Recognitions :
       /\ audio[r] \in {"none", "starting"} <=> service[r] = "none"
       /\ audio[r] = "recording" => service[r] \in {"listening", "done"}
       /\ audio[r] = "ended" => service[r] \in {"finishing", "resulted", "done"}

AnsweredLate ==
  /\ \A r \in Recognitions :
       service[r] \in {"none", "listening", "finishing"} => answers[r] = << >>
  /\ sdk.at = "calling" =>
       /\ service[sdk.rec] \in {"resulted", "done"}
       /\ sdk.result = "text" => service[sdk.rec] = "resulted" /\ answers[sdk.rec] = << >>

\* And without an overlap: at most one is open, and its flag is set from its result to
\* its end.
OneOpen == \A r, q \in Open : r = q

Flagged ==
  /\ \A r \in Recognitions : service[r] = "resulted" => mIsCallbacked
  /\ sdk.at = "calling" => answers[sdk.rec] = << >>

ResultInvariant == /\ InStep /\ AnsweredLate
                   /\ ~overlapped => OneOpen /\ Flagged
                   /\ OneResultEach

\* A text in a Runnable that waits is not shown yet.
Status(r) ==
  CASE audio[r] = "none" -> "none"
    [] audio[r] # "none" /\ answers[r] = << >> -> IF r \in Open THEN "open" ELSE "silence"
    [] audio[r] # "none" /\ answers[r] # << >> ->
         IF \A i \in DOMAIN answers[r] : answers[r][i] = "toast" THEN "silence"
         ELSE IF \E i \in DOMAIN posted : posted[i].rec = r THEN "open" ELSE "text"

D == INSTANCE Dictation WITH
       Dictations <- Recognitions,
       status     <- [r \in Recognitions |-> Status(r)]

\* To whoever waits for texts the recognitions are dictations: each ends in a text or
\* in silence, and then for good, across the three threads, the null checks,
\* recognitions that overlap, and activities that finish, are destroyed late and created
\* anew.
ImplementsDictation == D!Dictating

\* He who released the button inside it while it was recording for him is never
\* forgotten: until he is answered the service has still to speak of the recognition, or
\* the SDK's thread is about to call, whatever flag the audio thread reset and whichever
\* activity's end came in between, save an end that took the listener.  One who slid out
\* wanted no answer, and a source that ended by itself was recording no more.
ReleaseIsPending ==
  ~overlapped =>
    \A r \in Recognitions, a \in Activities :
      (<<r, a>> \in released /\ alive /\ activity = a /\ r \notin robbed) =>
        \/ answers[r] # << >>
        \/ service[r] \in {"listening", "finishing"}
        \/ sdk.at = "calling" /\ sdk.rec = r

\* Why: while the service has to speak nothing says that it did, and the listener is
\* there to be told; an error it had while recording was told to the listener too.
Called(r) == answers[r] # << >> \/ (sdk.at = "calling" /\ sdk.rec = r)

NoEarlyResult ==
  \A r \in Recognitions : service[r] \in {"listening", "finishing"} => ~mIsCallbacked

ErrorIsTold ==
  \A r \in Recognitions :
    (audio[r] = "recording" /\ service[r] = "done" /\ mListener # 0) => Called(r)

OldDestroyed ==
  /\ \A a \in destroying : a <= activity /\ (alive => a # activity)
  /\ \A p \in released : p[2] <= activity

ReleaseIsKept ==
  \A r \in Recognitions, a \in Activities :
    (<<r, a>> \in released /\ alive /\ activity = a /\ r \notin robbed) =>
      \/ Called(r)
      \/ service[r] \in {"listening", "finishing"} /\ mListener = a /\ ~mIsTransfroming

NobodyForgotten == NoEarlyResult /\ ErrorIsTold /\ OldDestroyed /\ ReleaseIsKept

PendingInvariant == ~overlapped => NobodyForgotten

\* An anchor who released the button inside it while it was recording for him gets a
\* text or a toast, as long as his activity is on the screen, no recognition is started
\* while another is open, and its predecessor's onDestroy, which may come late, does not
\* take the listener or end the process.
ReleaseIsAnswered ==
  \A r \in Recognitions :
    (\E a \in Activities : <<r, a>> \in released) ~>
      \/ answers[r] # << >> \/ r \in robbed \/ crashed \/ overlapped
      \/ \A a \in Activities : <<r, a>> \in released => ~alive \/ activity # a
-----------------------------------------------------------------------------
(* What the program's texts say, and the code does not keep.               *)

\* "voice_input_to_end": letting the button go ends the recording.
ReleaseEndsRecording == [][ACTION_UP => ~mIsTransfroming']_vars
=============================================================================
