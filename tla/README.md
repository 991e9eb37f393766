# Live-Shop in TLA+

This directory holds the formal model of Live-Shop, a demonstration of live
shopping with two apps that share a service but no code: an Android app (Java,
`src/Android`) and an iOS app (Swift, `src/iOS`). A host, called *anchor* in the
Android app, broadcasts video, dictates a yes/no question, sends it to a message
channel, and collects the audience's answers for a while. Everything below refers
to the code of these two apps; the Agora RTC and RTM SDKs, the Sogou speech SDK
and the operating systems are external.

Contents: [the system](#1-the-system), [the modules](#2-the-modules),
[what TLC checks](#3-what-tlc-checks), [disagreements](#4-where-code-and-texts-disagree),
[what is proved](#5-what-is-proved), [limits](#6-what-is-not-covered), [the plan](#7-the-plan).

## 1. The system

### Android

| Part | State | Operations | Talks to |
|---|---|---|---|
| `AnchorLiveActivity` | `mIsWaitingResult`, `mYesNum`, `mNoNum`, `mPreQuestionInfo`, the delayed `MSG_ANALYZE_RESULT`, one `VoiceInputDialog`, any number of `VoiceInputCheckDialog`s | question entrance, recognition result, check dialog, 15 s timer, received answer, `onDestroy` | RTM channel, voice input, RTC engine (mute) |
| `ViewerLiveActivity` | its number, a stack of `AlertDialog`s, surface and notice | received question, Yes/No, RTC presence events | RTM channel, RTC events |
| `BaseLiveActivity` | RTM channel, `mIsMsgChannelEnable` | `onCreate` (login, channel), `onRtmConnected` (join), `sendMsg`, `onMessageReceived`, `finish` | both managers, `MessageContainer` |
| `MessageContainer` | the last 20 lines | `addMessage` | |
| `RtmClientManager`, `RtmEnventCallback` | last connection state, one listener | SDK callbacks, `setRtmClientListener` | activities, on the SDK's thread |
| `RtcEngineManager` | one callback | SDK callbacks | activities, on the SDK's thread |
| `AudioRecordButton`, `VoiceInputDialog` | touch state, progress animation | touch events, long click, dismissal | `SogouVoiceChannel` through the activity |
| `SogouVoiceChannel` | `mListener`, `mIsTransfroming`, `mIsCallbacked` | start, stop, release, permission result, audio events, SDK events | audio thread, SDK thread, UI thread |
| `LivePrepareActivity`, `ImageSelectHelper` | the two pictures, one shared listener and path | start a selection, activity result | file system, other apps |
| `RoleSelectActivity`, `LiveRoomsActivity`, `DemoApplication` | a preference | navigation, language, creation of the singletons | |

What is hard here: three kinds of threads (UI, SDK, audio) share plain fields
without a lock; Runnables posted by one thread run later on another, when the
activity may be gone; messages are lost or come in another order and carry no
question number; dialogs stack up; the system destroys activities and dialogs
under a running press, timer or recognition. Each part is correct when:

* quiz: the published counts are the answers that were received, one for each
  viewer; each question gets one result; nobody sees another's answer; the
  question entrance is never locked for good;
* RTM session: no "connected" is lost, the ready flag is true, every activity gets its
  channel, the room knows the user under the right number;
* voice input: a press records, its end ends the recording, unmutes the room and
  gives exactly one answer; a cancelled press sends nothing;
* message list: never more than `MAX_MSG_COUNT` lines;
* a viewer's room: once everything reported has arrived, the surface is there just
  when the anchor's picture is, the notice and the lines say who is in the room;
* preparation: each view shows, and the live uses, the picture last picked for it.

### iOS

| Part | State | Operations |
|---|---|---|
| `LiveService` | channel, `isAnswering`, the closures that reset it | `send`, its completion, received messages, `leaveChannel` |
| `SpeechService` | the SDK's manager | start, stop, final result, error |
| `LiveViewController` | the alert on the screen | result of a dictation, OK and Cancel, received quiz, YES and NO, dismissal after 10 s, received answer, close |
| `AnswersViewController` | answers, question label, statistics | `showQuestion`, `addAnswer`, `clearAnswers` |
| `VoiceButton` | `isSelected` | touches |
| chat, home and set-up controllers, `GenerateToken`, models | a list, navigation, one HTTPS request | |

What is hard: everything runs on the main queue, but `DispatchQueue.main.async`
and `asyncAfter` separate the order of the calls from the order of their effects,
UIKit shows one alert at a time and ignores the others, and no timer is ever
cancelled. It is correct when the voice button is not locked for good, the label
and the list belong to the last quiz, nobody is listed twice, every alert goes,
and the statistics count what they say.

`PROJECT.json` lists every part (`components`), the lines each definition
translates (`map`), and, line by line, what can go wrong that a test would hardly
reach (`hazards`), with the property that would notice it.

## 2. The modules

| Module | Models |
|---|---|
| `ChatWindow` | `MessageContainer.addMessage` as an operator on sequences |
| `LiveQuiz` | the Android quiz: anchor, viewers, channel, life cycle |
| `QuizRounds` | the abstract quiz: rounds that open with a new topic and close with one exact result |
| `Ballot` | the abstract vote of both apps: a voter's ballot for a topic is cast once, counted once, or lost |
| `LiveQuizProps` | the quiz's properties, inductive invariants and refinement mapping |
| `MCLiveQuiz` | the quiz for TLC: symmetry of the viewers |
| `VoiceInput`, `VoiceInputProps`, `MCVoiceInput` | button, dialog, speech channel, the two RTC calls that mute, the activities around the one channel |
| `Dictation` | the abstract voice input: a dictation ends once, in a text or in silence |
| `RtmSession`, `RtmSessionProps`, `MCRtmSession` | the RTM manager and its use by activities that stack up, at the grain of single field accesses |
| `RoomEvents`, `RoomEventsProps`, `MCRoomEvents` | the RTC manager's callback, the Runnables on the looper, surface, notice and window of a viewer |
| `ImageSelect`, `ImageSelectProps`, `MCImageSelect` | the two pictures of `LivePrepareActivity` and their one listener |
| `IosQuiz`, `IosQuizProps`, `MCIosQuiz` | the iOS quiz |
| `SeqFacts` | facts about sequences and the window, cited by the proofs |
| `LiveQuizProofs`, `LiveQuizRoundsProofs`, `VoiceInputProofs`, `RtmSessionProofs`, `RoomEventsProofs`, `ImageSelectProofs`, `IosQuizProofs` | the proofs |

Actions carry the names of the methods they model. A definition marked *Mutant*
is a plausible wrong version of the one after it; no specification uses it. It is
there to show that the property named in `PROJECT.json` notices the difference.
Variables under *history* are written but read by no guard.

**LiveQuiz.** A participant is one activity. Its `phase` goes from `live` to
`finished` (`finish()` ran, windows are still there) to `destroyed`, or directly
to `destroyed` when the system takes the activity; `crashed` is a Runnable that
threw, because it opened a dialog on a destroyed activity. A question is named by
the rank of its recognition. No message carries that name in the code; it is in
messages and dialogs only so that properties can speak of it, and no guard reads
it. `net` is a set of messages that are delivered in any order or never:
`Broadcast` picks who will receive one, which stands for every way of losing it.
It also holds what the receiver's SDK has read and posted but the UI thread has
not yet run. `RESULT` keeps the swapped words of `RESULT_YES` and `RESULT_NO`.

**QuizRounds** knows only a topic, a box of votes and a list of results. `LiveQuiz`
implements it with `topic` being `mPreQuestionInfo` while `mIsWaitingResult`, `box`
the tallied answers, and `results` the statistics published.

**Ballot** knows voters, topics and votes. A ballot is open, a cast vote is under way or
counted, and either may be lost at any step, many at a time, but neither comes back.
Both apps implement it, with different mappings: in `LiveQuiz` a ballot is open while
the question is still to come, in a check dialog, in the channel or in the viewer's
dialog, a vote is cast while the anchor's copy is in the channel and counted while it is
tallied; in `IosQuiz` a cast vote may also be in the closure of an answer in the host's
main queue, where `clearAnswers` does not reach it, and the count is the list. What the
rounds say of the anchor, with one recognition at a time, the ballots say of each
viewer, with any number.

**VoiceInput** has the fields of the three classes, one thread for each
recognition (`audio`), what the speech service has still to say about it
(`service`), and `sdk`, the point the SDK's thread has reached in a callback:
between the null check of `mListener` and the call (`calling`), or between the call
and its `stopAsrTransform()` (`stopping`). Other threads get in at both. A text is
shown by a Runnable (`posted`). `SogouVoiceChannel` is one object for the process;
its listener is an activity. `activity` is the one on the screen, `alive` until it
finishes or is destroyed, and `destroying` holds those that finished and whose
`onDestroy`, which releases the channel, is still to come: possibly after the next
one has started a recognition (`robbed`). `MotionEvent.ACTION_CANCEL` has an action
because the code has no case for it.

A recognition may start while another is open: after a second press, or when the finger
slides out of the button and back (`AudioRecordButton`, lines 50 to 58: `changeState`
calls `recording()` again). `overlapped` remembers it. What the SDK does with two
sessions is a guess: each reports its own events. The thread of a recognition ends when
`stopAsrTransform` reached it (`stopped`), or by itself at any time, which
`onEnd(status, e, count)` does not look at (`SogouVoiceChannel`, lines 94 to 98). The
permission dialog keeps touches from the button except the release. The activity may
finish or be destroyed under it; the result goes to the activity that asked, or to the
instance the system made in its place, and to nobody if it finished (`answerNobody`).

**Dictation** is what `LiveQuiz` takes the voice input to be: its
`startAsrTransform` is a `Start`, `onAsrTranformResult` and `onAsrEmpty` are the two
ways to `End`. `VoiceInput` implements it with a status computed from the thread,
the answers and the Runnables of a recognition.

**RtmSession** gives the UI thread and the SDK's thread a program counter each
(`thread`), with a stop between any two accesses to `mClientListener`, `mConnectState`,
`mRtmChannel` and `mIsMsgChannelEnable`. Activities are numbered as they are created and
stack up (`opened`), since two taps open two rooms (`LiveRoomsActivity.java:24`); the
system may destroy one without `finish()` and create it anew. They share the one client,
its one listener and the one channel of the room's name: `createChannel` gives null while
another call's channel exists (as its header says, `IAgoraRtmService.h`, line 743, in
`src/Android/app/libs`), and `finish()` of one activity sets the listener to null, whoever
it belongs to (`BaseLiveActivity.java:283`). An activity that got no channel creates it
again, which replaces the listener and replays the state to it, which calls
`onRtmConnected` once more (`BaseLiveActivity.java:120`, 139 to 146, and
`RtmClientManager.java:70`): while the channel is refused and the client connected this
goes on until the stack overflows (`crashed = "no end of calls"`). Assumed of the SDK:
login works from a logged-out state only, a released channel's join fails, join results
come on the same thread as connection states.

**RoomEvents** is the device of one viewer. The service reports who is in the
channel in order (`events`); the SDK's thread takes an event, reads
`mEventCallback` once for the null check and once for the call, posts a line and
then, about the anchor, a change of the screen; the UI thread runs what was posted
in order (`looper`), next to typed and received chat lines. A second `joinChannel`
while the device is in the channel changes nothing; `leaveChannel` takes the device
out, and what was reported before may come or not. An event that reaches an activity
of another session makes that activity `strayed`: the window between the two reads
allows it, and the properties except it.

**ImageSelect** has the helper's one `mSelectedListener`, replaced by each tap, and
the choosers that were opened (`pickers`), which come back in the order of a stack:
with a picture, cancelled, or with a path that the helper cannot resolve, which
erases the picture. The system may create the activity anew while a chooser is open;
the new helper has no listener, the pictures of the old instance are gone, and so is the
one picked in its chooser. `picked` keeps what the user chose all the same, and `lost`
the views whose choice the code has dropped.

**IosQuiz** has one main queue for each device. `mainQueue` keeps the closures sent
with `async`, in order; timers may fire at any time after they were set. A host who
closes the room and enters again has new view controllers (`visit`) and the same
two services; closures, timers, completions and recognitions of the earlier visit
are still on their way.

## 3. What TLC checks

Every action fires in some passing run, and every property of a passing run is
violated when a mutant replaces one definition.

| Run | Instance | Properties | States |
|---|---|---|---|
| `quiz_viewers` | 2 viewers, 1 question, windows of 2 lines | `TypeInvariant`, `TallyIsExact`, `OneAnswerPerQuestion`, `BallotIsSecret` | 219,174 |
| `quiz_rounds` | 1 viewer, 2 questions, one recognition at a time | `WaitingHasTimer`, `OneQuestionAtATime`, `ImplementsRounds`, `ImplementsBallots`, `QuestionIsAnnounced` | 30,912 |
| `voice_press` | 2 recognitions, also at once, 2 activities | `TypeInvariant`, `OneTicker`, `MutedOnlyByPress`, `OneResultEach`, `ReleaseIsPending`, `ImplementsDictation`, `ReleaseIsAnswered` | 577,985 |
| `rtm_join` | 3 activities, 2 on the stack, 5 changes of the connection | `TypeInvariant`, `NoLostConnect`, `EnabledIsJoined`, `CrashAfterFinish`, `ConnectedJoins` | 296,725 |
| `room_events` | anchor and 1 other member, 2 activities one after the other, 4 reports, 1 chat line, windows of 2 lines | `TypeInvariant`, `SurfaceFollowsAnchor`, `NoticeIsTrue`, `PresenceLinesAreTrue`, `CrashOffScreen`, `FrameIsShown` | 682,465 |
| `image_select` | 4 taps, 2 choosers at once, 2 instances | `TypeInvariant`, `LastPickIsShown` | 7,998 |
| `ios_quiz` | 1 viewer, 2 quizzes, 2 visits | `TypeInvariant`, `LockHasTimer`, `LabelIsLastQuiz`, `OneAnswerEach`, `ImplementsBallots`, `QuizAlertEnds` | 229,415 |

What the runs show:

* **The counts are right.** `TallyIsExact` and `OneAnswerPerQuestion`: the anchor's
  two counters are the answers received since the question was sent, each under
  the button that was pressed, in spite of the swapped constants, and no viewer
  counts twice for one question.
* **The quiz is a sequence of rounds**, `ImplementsRounds`, if the anchor lets a
  recognition end before starting the next one. That is the constant `MaxAsr = 1`;
  the code does not enforce it, and with `MaxAsr = 2` the rounds overlap (section 4).
* **To a viewer a question is one ballot**, `ImplementsBallots`, in both apps: no vote is
  cast twice, counted for two questions, changed on its way, or counted again after its
  tally was cleared. This needs no patience. `quiz_late` does not contradict it: a late
  answer is counted once, in the tally of a later question.
* **Nothing stays locked.** `WaitingHasTimer` and `QuestionIsAnnounced` on Android,
  `LockHasTimer` on iOS, where the lock outlives the visit that set it and so does
  its timer.
* **The two RTM threads need no lock**, `NoLostConnect`, because one writes the
  listener before it reads the state and the other writes the state before it reads
  the listener. This assumes that accesses take effect in program order. The claim, and
  that of `ConnectedJoins`, is about the activity last created, with any others below it
  on the stack. It is not about one that comes back to the screen when the one above it
  is closed: `finish()` of the upper one has set the listener to null
  (`BaseLiveActivity.java:283`), so the next "connected" reaches nobody, and an activity
  that was not in the channel by then stays outside (`doSendMsg` creates a channel that is
  missing, but joins none that is there). Nor is it about an activity while one below it
  was refused the channel and asks again, which makes it the listener (`Undisturbed`).
* **Why the process may end**, `CrashAfterFinish`. `mClientListener` is tested and read
  again (`RtmClientManager`, lines 38 and 39): the exception comes only between `finish()` of
  the activity last created and the moment the next one listens. If nothing was below it,
  no activity is on the screen then; if something was, it is, and the user sees the crash.
  A null `mRtmChannel` is never joined, although both threads write it. The calls without
  end need two activities at once. In `RtcEngineManager` the exception comes while no
  activity is on the screen, one room at a time (`CrashOffScreen` of `RoomEvents`).
* **A full press gets one answer**, `OneResultEach` and `ReleaseIsAnswered`, while
  recognitions do not overlap. When they do, which the code allows, the flags of one are
  those of the other, and without the premise `~overlapped` TLC finds a recognition that
  answers twice and one that is forgotten. A full press ends in a release inside the button
  while the recognition still records: one released outside should send nothing
  (`voice_input_error_cancel`; section 4 says what it does), and after an audio source that
  ended by itself the completion finds `mIsTransfroming` still set and says nothing
  (`SogouVoiceChannel`, lines 61 to 63). `ReleaseIsAnswered` excepts an activity that left,
  a listener taken by its predecessor's late `onDestroy`, and the exception between null
  check and call. `ReleaseIsPending` is what a state owes: until the answer, somebody still
  has to speak.
* **A dictation ends once**, `ImplementsDictation`, also when recognitions overlap: in a
  text that is shown, or in silence, and then for good.
* **`MutedOnlyByPress`** also names the exceptions: a short tap, a dialog that goes
  away under the finger and `ACTION_CANCEL` leave the room muted.
* **The viewer's screen tells the truth in the end.** `SurfaceFollowsAnchor`,
  `NoticeIsTrue` and `PresenceLinesAreTrue` compare the screen with what the service
  knows whenever nothing is on its way. They hold although the anchor is recognised in
  one place when the event comes and in another when the Runnable runs, and although
  lines push each other out. They need one room at a time: `room_stack`.
* **One listener is enough for two pictures**, `LastPickIsShown`, unless the second
  view is tapped before the first one's chooser covers the screen (`crossed`). When the
  activity is created anew, its pictures and the one a chooser is still to bring are lost;
  the property says what the user is left with: a view without a picture, which keeps the
  live from starting until it is picked again, and never an older or the other picture.

Bounds. Two viewers are enough for every property of the quiz, each of which relates two
answers at most; two questions for an answer or a timer that outlives its question. A
window of one or two lines makes the list overflow at once. Two recognitions let one
overlap the other, a late event of one meet the other, and a second activity meet the
late end of the first. Two activities on the stack are the least at which one takes over
the listener and the channel of the other, and a third lets one be opened, by the user
or by the system, after the upper one was closed; five changes let the first connect,
lose the session and the next connect again. Four reports are the shortest sequence in
which a member comes, is seen, goes and comes again, or two members cross. Four taps let
each picture be picked twice. Two quizzes on iOS make a second alert meet a first one
and its timer, two visits make the closures of one meet the views of the other. The
proofs of section 5 remove the bounds from every safety property but for two that stand
for a patient user: `MaxAsr` in `LiveQuiz`, `MaxOpen` in `RoomEvents`. Where a bound is
a guard (`recognised < MaxQuestions`, `changes < MaxChanges`, `MaxActivities`, ...) it
is named in the `CONSTANTS` of the module. `CHECK_DEADLOCK` is off in every run: users
stop, activities are destroyed, and the bounds run out.

Fairness. `LiveQuiz`: the handler's looper delivers a delayed message while the process
lives. `VoiceInput`: threads that were started run, an audio thread that was told to
stop ends (one that was not need not), the SDK's thread goes on after a null check, and
the speech service says its last word about every recognition. `RtmSession`: both
threads go on, the SDK ends every join, and a call stack is finite (strong fairness of
`overflow`: a thread that gets into the recursion again and again without leaving it
overflows). `RoomEvents`: the SDK's thread and the looper go on. `IosQuiz`: the main
queues run their closures and fire their timers. Nothing is assumed of users, of the
network, or of the recognition's success.

## 4. Where code and texts disagree

Each has a run that must find the property violated; `findings` in `PROJECT.json`
quotes the text.

| Run | Property | What happens |
|---|---|---|
| `quiz_late` | `NoMoreAnswersThanViewers` | answers to two stacked dialogs are counted for one question |
| `voice_tap` | `ReleaseEndsRecording` | a short tap starts a recording that goes on, with the room muted |
| `rtm_role` | `RoomKnowsRole` | after a change of role the room knows the user under the old number |
| `room_stack` | `SurfaceFollowsAnchor` | of two activities opened by two taps, the closed one has left the channel for both: the one below keeps the picture it had and hears nothing more |
| `ios_early` | `ButtonWaits` | the first quiz's timer lets the host dictate while the second one waits for answers |

More were met while modelling. The first four are too simple to need a run; the others
are what the properties of section 3 except, since no text of the program promises more:

* `AnswersViewController.swift:33` maps where it should filter: the statistics count
  every answer as YES.
* The constants `RESULT_YES` and `RESULT_NO` hold each other's words
  (`BaseLiveActivity.java:39`): counted right, but who presses Yes reads "no" in his
  own window.
* `VoiceInputDialog.java:97`: `finished()` and `canceled()` do the same. Releasing
  where the text says "cancel" ends the recording, and the question is still offered.
* `AnchorLiveActivity.java:67`: whether a question waits is asked when the entrance is
  clicked, not when a question is sent (132). With two recognitions open
  (`MaxAsr = 2`) a second question is sent while the first one waits.
* `BaseLiveActivity.java:139`: an activity that `createChannel` refuses, because another
  one has the channel, asks again in a recursion (139 to 146, `RtmClientManager.java:70`,
  119) that ends with the connection or with the stack.
* `BaseLiveActivity.java:283`: when the upper of two activities is closed, the lower one
  has no listener any more and hears of no later "connected".
* `BaseLiveActivity.java:126`: the ready flag is not taken back when the session is
  aborted, and then keeps an activity that comes back from joining again.
* `AudioRecordButton.java:50`: a finger that slides out of the button and back starts a
  second recognition with the first one still open.
* `SogouVoiceChannel.java:96`: a recording that ends by itself with an error is not told
  from one that was stopped, and its anchor may hear nothing.
* `LivePrepareActivity.java:45`: the pictures chosen do not survive a re-creation.

## 5. What is proved

TLAPS checks these theorems for every value of the constants: viewers, members,
recognitions, activities, visits, and every bound. They rest on the named assumptions
of the modules only: `AnchorAssumption` (the anchor is no viewer),
`ViewersAssumption` (finitely many), `BoundsAssumption`, `VoiceAssumption`,
`SessionAssumption`, `RoomAssumption` (the anchor's number is nobody else's; a window
has a line), `ImageAssumption` and `IosAssumption`, which say for the rest that bounds
are numbers. Where a theorem says `MaxAsr = 1` or `MaxOpen = 1` it is about a user who
waits for a recognition, or leaves a room, before starting the next. Those about the RTM
session and the voice input need no such premise: what they except is in the property.

| Theorem | States |
|---|---|
| `LiveQuizProofs!TypeCorrect` | `Spec => []TypeInvariant`, the window bound included |
| `LiveQuizProofs!TallyExact` | `Spec => []TallyIsExact` |
| `LiveQuizProofs!OneAnswer` | `Spec => []OneAnswerPerQuestion` |
| `LiveQuizProofs!WaitingEnds` | `Spec => []WaitingHasTimer` |
| `LiveQuizProofs!BallotSecret` | `Spec => []BallotIsSecret` |
| `LiveQuizProofs!QuizBallots` | `Spec => ImplementsBallots` |
| `LiveQuizRoundsProofs!OneQuestion` | `MaxAsr = 1`: `Spec => []OneQuestionAtATime` |
| `LiveQuizRoundsProofs!Refinement` | `MaxAsr = 1`: `Spec => ImplementsRounds` |
| `LiveQuizRoundsProofs!OneResult` | `MaxAsr = 1`: no question has two results |
| `VoiceInputProofs!VoiceTypes` | `Spec => []TypeInvariant` |
| `VoiceInputProofs!Ticker` | `Spec => []OneTicker` |
| `VoiceInputProofs!Mute` | `Spec => []MutedOnlyByPress` |
| `VoiceInputProofs!OneResult` | `Spec => []OneResultEach` |
| `VoiceInputProofs!Pending` | `Spec => []ReleaseIsPending` |
| `VoiceInputProofs!DictationRefinement` | `Spec => ImplementsDictation` |
| `RtmSessionProofs!SessionTypes` | `Spec => []TypeInvariant` |
| `RtmSessionProofs!ConnectIsNotLost` | `Spec => []NoLostConnect` |
| `RtmSessionProofs!FlagIsTrue` | `Spec => []EnabledIsJoined` |
| `RtmSessionProofs!SessionCrash` | `Spec => []CrashAfterFinish` |
| `RoomEventsProofs!RoomTypes` | `Spec => []TypeInvariant`, the window bound included |
| `RoomEventsProofs!SurfaceRight` | `MaxOpen = 1`: `Spec => []SurfaceFollowsAnchor` |
| `RoomEventsProofs!NoticeRight` | `MaxOpen = 1`: `Spec => []NoticeIsTrue` |
| `RoomEventsProofs!LinesRight` | `MaxOpen = 1`: `Spec => []PresenceLinesAreTrue` |
| `RoomEventsProofs!RoomCrash` | `MaxOpen = 1`: `Spec => []CrashOffScreen` |
| `ImageSelectProofs!SelectTypes` | `Spec => []TypeInvariant` |
| `ImageSelectProofs!PicksAreShown` | `Spec => []LastPickIsShown` |
| `IosQuizProofs!IosTypes` | `Spec => []TypeInvariant` |
| `IosQuizProofs!IosLock` | `Spec => []LockHasTimer` |
| `IosQuizProofs!IosLabel` | `Spec => []LabelIsLastQuiz` |
| `IosQuizProofs!IosAnswers` | `Spec => []OneAnswerEach` |
| `IosQuizProofs!IosBallots` | `Spec => ImplementsBallots` |
| `IosQuizProofs!IosAlert` | the alert on a viewer's screen has a timer to dismiss it |
| `SeqFacts!WindowIsLastLines` | a window is the last lines of everything that was added |

The arguments.

**Quiz.** `TallyIsExact` is not inductive: an answer that arrives adds one to a
counter, but to the set of tallied answers only if it was not there yet.
`TallyInvariant` therefore follows a question on its way: in one check dialog of
the anchor; then, for each viewer, in the channel, or in one dialog on the screen,
or in one answer, which is in the channel or tallied but not both. Each action
moves a question one step along that way or drops it. The set of tallied answers
is finite, and adding a new one adds one to exactly one of the two cardinalities.
`RoundInvariant` adds, for a patient anchor, that at most one of timer, pending
recognition and check dialog exists, and that a question still in a check dialog
was neither sent nor published. With it `sendQuestion` is an `Ask` of `QuizRounds`,
`startAnalyzeQuestionResult` a `Publish`, a new answer a `Vote`, and every other
step a stutter.

**Ballots.** On Android the refinement rests on `TallyInvariant`: a viewer whose dialog
is open has no answer for that question anywhere (`QuestionMovesOn`), so `clickAnswer`
is a `Cast` of a ballot that is open and closes with it, unless the other dialog of the
same question existed, which `DialogsDistinct` excludes; an answer that arrives is a
`Count`; sending the next question, a lost message and a dismissed dialog are a `Lose`.
On iOS the same is read off the six places of `OnePlace`. A vote under way is in the
channel or in the queue and never in both, so that the closure that lists it takes it
from the cast ones, and a closure of an earlier visit drops it for good.

**Voice input.** `OneTicker` and `MutedOnlyByPress` are inductive as they stand; the
proof is that all but a few actions leave the animation, the mute and the press alone
(`PressFrame`). `OneResultEach` is not: nothing in it says why a result and the
completion do not both call the listener. `ResultInvariant` does. Always, the thread of a
recognition and its service move on together (`InStep`), nothing was answered before the
service's result, and only the first answer can be a text (`AnsweredLate`). Without an
overlap at most one recognition is open (`OneOpen`), and from its result on
`mIsCallbacked` is set, since only the thread of the one open recognition resets it
(`Flagged`). The refinement needs the first half only, so it holds for recognitions that
overlap too: a step that closes a recognition without a text or runs the Runnable of one
is an `End` of that recognition, a new thread a `Start`, and every other step, a second
answer included, leaves each `Status` as it was.

`ReleaseIsPending` is not inductive either: it does not say why the completion of a
released recognition calls anybody. `PendingInvariant` does, without an overlap
(`NobodyForgotten`): while the service has to speak, `mIsCallbacked` is clear
(`NoEarlyResult`), `mIsTransfroming` is clear and the listener is that of the activity
(`ReleaseIsKept`), so each of the three last events finds it; an error during the
recording, before the release, has told the listener already (`ErrorIsTold`); and the
activity on the screen is none of those whose `onDestroy` is to come (`OldDestroyed`), so
that a late one that takes the listener away robs every open recognition and is excepted.
The premise is needed: the start of a second recognition sets `mIsTransfroming`, and the
first one's completion is silent.

**RTM session.** `NoLostConnect` speaks of a state where both threads are idle, and is
not inductive. `IInv` says who still has to act while they are not (`Remembered`): the
activity last created, on the screen of a connected client, is in the channel or has
tried to join, or the SDK's thread has yet to look for a listener, or one of the threads
is on its way through `checkChannelEnable`, the replay and `join` with it. The order of
accesses is what keeps it: the listener is set before the replay is pending, so that a
"connected" stored later finds it (`Listens`); one stored earlier is seen by the replay. A
thread that gives up because the flag is set may, since a set flag means joined
(`EnabledIsJoined`), except after an aborted session, out of which only a new activity can
log in (`NewLogin`).

With activities below the last one the question is which of them has the channel and
who may become the listener instead. `Channels` says that a channel somebody on the stack
holds is the one that exists, and that an activity was refused only while one below it, or
one that is gone, had it; `Paths` that the UI thread works for the activity on top and
that the SDK's thread creates a channel only for one that was refused, so that only
such an activity takes the listener away (`Undisturbed`); `Numbered` that nothing speaks
of an activity to come. For `CrashAfterFinish`: the listener is null only once the last
activity is finishing or before it listens (`Listens`); a thread about to join has
its channel (`Channels`); and nobody is refused while the stack never held two
(`OneAtATime`).

**Viewer's room.** The three properties speak of a state where nothing is on its way.
`RoomInvariant` says of every other state that the *last word* is true (`Told`), for
three things: the anchor's picture, his presence, and each member's line. The last
event about the thing among those reported in this session; if there is none, what the
SDK's thread holds; if it holds nothing, the last Runnable about it in the looper; and
if there is none, the screen itself, agree with the service. Each action moves a word
one stage on (`TailTold`, `AppendTold`), and a chat line that pushes others out of the
window does not reach the last of them (`AddMessageTold`). `OneRoom` says that the
activity, the callback and the session are the same while one room is open, `Fresh`
that an activity nobody opened yet has nothing on its way.

**Pictures.** Unless the user crossed the two views, the listener is that of every
chooser this instance opened (`OneView`), so a result goes to the right view. Choosers
of an earlier instance cover the new one, whose listener is still empty
(`OldChoosersCover`), so their results change no view, and every view of a new instance is
`lost` until the first tap in it (`OldIsLost`); what covers the activity is always a chooser
that is still to come back (`CoverIsOfOne`).

**iOS.** `LockHasTimer` needs only that a closure of its own is started whenever the
flag is set, on success and on failure. `LabelIsLastQuiz` needs that the last closure
of this visit in the queue shows the quiz last sent (`LastShowIsAsked`), because
`clearAnswers` has emptied the label by then. `OneAnswerEach` follows a quiz to each
viewer through six places (`OnePlace`): unsent, offered in the channel, on the screen,
answered in the channel, in the main queue, in the list; it is in one of them at most.
`AlertHasTimer` (`IosAlert`) is inductive: the only action that shows an alert starts
its timer, the only one that ends a timer takes its alert away.

`SeqFacts` holds what the proofs need about sequences: what `AddMessage` keeps, and
what pushing on and popping off a stack of dialogs does to its set of elements.
`WindowIsLastLines` states what `MessageContainer` is for: by it, whatever the order of
calls, a window holds the last lines of its history.

Only model-checked: the liveness properties (`QuestionIsAnnounced`,
`ReleaseIsAnswered`, `ConnectedJoins`, `FrameIsShown`, `QuizAlertEnds`), which are out
of the prover's reach. Each has a half that speaks of states and is proved: what must
happen is still under way or has a timer (`WaitingEnds`, `Pending`, `ConnectIsNotLost`,
`SurfaceRight`, `IosAlert`); TLC checks the other half, that fairness brings it. Every
other property of a passing run is proved.

## 6. What is not covered

* Vendored code. Nearly all lines of the repository are libraries that the iOS app's
  speech SDK brings along (`src/iOS/Pods`: BoringSSL, gRPC, Protobuf) and headers of
  the RTC SDK (`src/Android/app/libs`): C and C++ of other projects. The program is the
  Java and Swift code of the two apps, and the SDKs are actions marked external.
* Android: a viewer number drawn twice; two anchors' activities at once; the crop of a
  picture, which nothing switches on (`ImageSelectHelper`, lines 136 to 161); the
  reading and writing of pictures (`ImageUtils`); the anchor's own surface, which no
  event changes. The answer to the picture permissions changes nothing in the model,
  since the helper has no `onRequestPermissionsResult`, although its comment
  (`ImageSelectHelper.java:40`) speaks of one.
* What properties except, each a hazard that the code has and does not handle, listed in
  `PROJECT.json`. `ImageSelect`: crossed taps; what a re-creation loses is not excepted but
  said. `RoomEvents`: events that strayed, and two rooms at once. `VoiceInput`: recognitions
  that overlap, a robbed listener, releases outside the button, a source that ended by
  itself. `RtmSession`: activities below the last one created, or back on the screen after
  it; an activity while another one is refused the channel; the flag after an aborted
  session.
* A touch of the record button in the short time between the request for the microphone
  and the permission dialog, which would make a second request.
* The question an anchor without a channel sends (`BaseLiveActivity.java:183` reads
  `mRtmChannel` unchecked): `LiveQuiz` takes the channel as created.
* An activity that the system creates anew without finishing it, in `RoomEvents`.
* iOS: login, RTC, chat, set-up, the masking of member ids.
* Visibility of plain fields between threads beyond program order.
* Text, layout, drawing, file I/O, the token request.

## 7. The plan

In order of importance; all steps but the last two, which only widen what is said of
impatient users, are done.

1. `ChatWindow`, `LiveQuiz`, `QuizRounds`: the quiz, its refinement, its proofs.
2. `VoiceInput`, with activities around the one channel, and `Dictation`, which it
   implements and whose steps the recognition actions of `LiveQuiz` are.
3. `RtmSession`: the two threads and the join.
4. `IosQuiz`, over several visits.
5. `RoomEvents`: the callback read twice, the looper, the screen, the lines.
6. `ImageSelect`: two views, one listener.
7. Proofs of every safety property that the runs check.
8. `SpokenQuiz`, the composition of `VoiceInput` and `LiveQuiz` in one state space: when
   the question entrance alone makes an anchor patient (`MaxAsr = 1`).
9. `RoomEvents` for two rooms at once: what the activity on top still shows truly.
