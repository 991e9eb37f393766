------------------------------ MODULE IosQuiz ------------------------------
(***************************************************************************)
(* The quiz of the iOS app: VoiceButton and SpeechService take the host's  *)
(* question, LiveService sends it and keeps isAnswering, LiveViewController *)
(* shows the alerts, AnswersViewController lists the answers.              *)
(*                                                                         *)
(* Every device has one main queue, which runs touches, alert buttons,     *)
(* SDK callbacks, timers and the closures sent to it.  Closures sent with  *)
(* DispatchQueue.main.async run in order, after whatever is already queued: *)
(* the host's are kept in mainQueue.  A quiz is named by its rank; no      *)
(* message carries it.                                                     *)
(*                                                                         *)
(* The host may close the room and enter again: the view controllers are   *)
(* new then, the two services are not.                                     *)
(***************************************************************************)
EXTENDS Naturals, FiniteSets, Sequences

CONSTANTS
  Viewers,        \* the devices in the audience
  MaxQuestions,   \* bound: recognitions that return a text
  MaxSpeech,      \* bound: recognitions under way at once
  MaxVisits       \* bound: LiveViewControllers of the host

ASSUME IosAssumption == /\ IsFiniteSet(Viewers)
                        /\ MaxQuestions \in Nat
                        /\ MaxSpeech \in Nat /\ MaxVisits \in Nat \ {0}

VARIABLES
  \* the host
  visit,         \* the rank of the last LiveViewController
  here,          \* it is on the screen, and the LiveService's delegate
  listening,     \* it is the SpeechService's delegate, too
  isSelected,    \* of the voice button
  speech,        \* recognitions that may still return a text
  texts,         \* texts returned
  alert,         \* the question in the alert on the screen, 0 for none
  sending,       \* quizzes whose send completion is to come
  isAnswering,
  timers,        \* the quizzes whose closures will reset isAnswering
  mainQueue,     \* closures of showQuestion and addAnswer
  label,         \* the question in questionLabel, 0 for none
  answers,       \* the list of the AnswersViewController
  statistics,    \* what statisticsLabel shows
  asked,         \* history: the quiz last sent, 0 for none
  \* the viewers
  shown,         \* the quiz in the alert on each screen, 0 for none
  alertTimers,   \* the alerts that each device will still dismiss
  \* the channel
  net

screen    == <<visit, here, listening>>
dictation == <<isSelected, speech>>
service   == <<sending, isAnswering, timers>>
host      == <<screen, dictation, texts, alert, service>>
list      == <<mainQueue, label, answers, statistics, asked>>
viewers   == <<shown, alertTimers>>
vars == <<host, list, viewers, net>>

Questions == 1..MaxQuestions
Buttons   == {"YES", "NO"}
Answer    == [from : Viewers, q : Questions, text : Buttons]
Closure   == [show : Questions, of : 1..MaxVisits]
             \cup [add : Answer, of : 1..MaxVisits]
Message   == [to : Viewers, quiz : Questions] \cup [add : Answer]

Init ==
  /\ visit = 1 /\ here = TRUE /\ listening = FALSE
  /\ isSelected = FALSE
  /\ speech = 0 /\ texts = 0
  /\ alert = 0
  /\ sending = {}
  /\ isAnswering = FALSE
  /\ timers = {}
  /\ mainQueue = << >>
  /\ label = 0
  /\ answers = << >>
  /\ statistics = [total |-> 0, yes |-> 0, no |-> 0]
  /\ asked = 0
  /\ shown = [v \in Viewers |-> 0]
  /\ alertTimers = [v \in Viewers |-> {}]
  /\ net = {}
-----------------------------------------------------------------------------
(* The host speaks a question.                                             *)

\* While a quiz is answered the button only shows a message.  The first touch makes
\* the view controller the delegate of the SpeechService.
touchesBegan ==
  /\ here /\ ~isSelected /\ alert = 0
  /\ ~isAnswering
  /\ speech < MaxSpeech
  /\ isSelected' = TRUE
  /\ speech' = speech + 1
  /\ listening' = TRUE
  /\ UNCHANGED <<visit, here, texts, alert, service, list, viewers, net>>

\* touchesEnded stops the recording, wherever the finger is; touchesCancelled
\* does not: either way the recognition can still return a text.
touchesEnded ==
  /\ isSelected
  /\ isSelected' = FALSE
  /\ UNCHANGED <<screen, speech, texts, alert, service, list, viewers, net>>

\* Mutant: a text comes and then the end is reported too.
speechFailsAnyway ==
  /\ here
  /\ speech' = speech - 1
  /\ UNCHANGED <<screen, isSelected, texts, alert, service, list, viewers, net>>

\* The recognition ends with nothing: an error is only printed.
speechFails ==
  /\ speech > 0
  /\ speech' = speech - 1
  /\ UNCHANGED <<screen, isSelected, texts, alert, service, list, viewers, net>>

\* UIKit shows one alert at a time and ignores the rest.  The delegate is weak: a text
\* that comes after the host left goes nowhere, or to the view controller of a later
\* visit once its button was touched.
didReceiveResult ==
  /\ speech > 0
  /\ texts < MaxQuestions
  /\ speech' = speech - 1
  /\ texts' = texts + 1
  /\ alert' = IF listening /\ alert = 0 THEN texts + 1 ELSE alert
  /\ UNCHANGED <<screen, isSelected, service, list, viewers, net>>

\* Cancel, or OK with an emptied text.
alertCancel ==
  /\ alert # 0
  /\ alert' = 0
  /\ UNCHANGED <<screen, dictation, texts, service, list, viewers, net>>

\* Mutant: the label is set on the spot.
alertOKAtOnce ==
  /\ alert # 0
  /\ alert' = 0
  /\ asked' = alert
  /\ answers' = << >>
  /\ label' = 0
  /\ sending' = sending \cup {alert}
  /\ \E receivers \in SUBSET Viewers :
       net' = net \cup {[to |-> v, quiz |-> alert] : v \in receivers}
  /\ UNCHANGED <<mainQueue, screen, dictation, texts, isAnswering, timers, statistics,
                 viewers>>

\* OK: showQuestion queues a closure, clearAnswers acts at once, send broadcasts.
alertOK ==
  /\ alert # 0
  /\ alert' = 0
  /\ asked' = alert
  /\ mainQueue' = Append(mainQueue, [show |-> alert, of |-> visit])
  /\ answers' = << >>
  /\ label' = 0
  /\ sending' = sending \cup {alert}
  /\ \E receivers \in SUBSET Viewers :
       net' = net \cup {[to |-> v, quiz |-> alert] : v \in receivers}
  /\ UNCHANGED <<screen, dictation, texts, isAnswering, timers, statistics, viewers>>

\* Mutant: the flag goes up before the error code is looked at.
sendCompletesLocked(q) ==
  /\ q \in sending
  /\ sending' = sending \ {q}
  /\ isAnswering' = TRUE
  /\ timers' \in {timers, timers \cup {q}}
  /\ UNCHANGED <<screen, dictation, texts, alert, list, viewers, net>>

\* The completion: a failure is only printed.
sendCompletes(q) ==
  /\ q \in sending
  /\ sending' = sending \ {q}
  /\ \/ isAnswering' = TRUE /\ timers' = timers \cup {q}
     \/ UNCHANGED <<isAnswering, timers>>
  /\ UNCHANGED <<screen, dictation, texts, alert, list, viewers, net>>

quizTimer(q) ==
  /\ q \in timers
  /\ timers' = timers \ {q}
  /\ isAnswering' = FALSE
  /\ UNCHANGED <<screen, dictation, texts, alert, sending, list, viewers, net>>

\* The close button, which an alert would cover: leaveChannel.  LiveService, its
\* flag and its timers stay; the recording is not stopped.
leave ==
  /\ here /\ alert = 0
  /\ here' = FALSE
  /\ listening' = FALSE
  /\ isSelected' = FALSE
  /\ net' = {m \in net : "to" \in DOMAIN m}
  /\ UNCHANGED <<visit, speech, texts, alert, service, list, viewers>>

\* "To Live" from the set-up screen and viewDidLoad: new views, the shared service.
enter ==
  /\ ~here
  /\ visit < MaxVisits
  /\ visit' = visit + 1
  /\ here' = TRUE
  /\ label' = 0
  /\ answers' = << >>
  /\ statistics' = [total |-> 0, yes |-> 0, no |-> 0]
  /\ asked' = 0
  /\ UNCHANGED <<listening, dictation, texts, alert, service, mainQueue, viewers, net>>
-----------------------------------------------------------------------------
(* The host's list of answers.                                             *)

didReceiveAnswer(a) ==
  /\ here
  /\ [add |-> a] \in net
  /\ net' = net \ {[add |-> a]}
  /\ mainQueue' = Append(mainQueue, [add |-> a, of |-> visit])
  /\ UNCHANGED <<host, label, answers, statistics, asked, viewers>>

\* A closure of an earlier visit works on views that nobody sees.
staleClosure ==
  /\ mainQueue # << >>
  /\ Head(mainQueue).of # visit
  /\ mainQueue' = Tail(mainQueue)
  /\ UNCHANGED <<host, label, answers, statistics, asked, viewers, net>>

showClosure ==
  /\ mainQueue # << >>
  /\ Head(mainQueue).of = visit
  /\ "show" \in DOMAIN Head(mainQueue)
  /\ label' = Head(mainQueue).show
  /\ mainQueue' = Tail(mainQueue)
  /\ UNCHANGED <<host, answers, statistics, asked, viewers, net>>

\* correctAnswers is a map of the answers, one Boolean for each, and counted.
addClosure ==
  /\ mainQueue # << >>
  /\ Head(mainQueue).of = visit
  /\ "add" \in DOMAIN Head(mainQueue)
  /\ LET listed         == Append(answers, Head(mainQueue).add)
         correctAnswers == [i \in DOMAIN listed |-> listed[i].text = "YES"]
     IN  /\ answers' = listed
         /\ statistics' = [total |-> Len(listed),
                           yes   |-> Len(correctAnswers),
                           no    |-> Len(listed) - Len(correctAnswers)]
  /\ mainQueue' = Tail(mainQueue)
  /\ UNCHANGED <<host, label, asked, viewers, net>>
-----------------------------------------------------------------------------
(* A viewer.                                                               *)

\* Mutant: no new timer while one runs.
didReceiveQuizOneTimer(v, q) ==
  /\ [to |-> v, quiz |-> q] \in net
  /\ net' = net \ {[to |-> v, quiz |-> q]}
  /\ shown' = [shown EXCEPT ![v] = IF @ = 0 THEN q ELSE @]
  /\ alertTimers' = [alertTimers EXCEPT ![v] = IF @ = {} THEN {q} ELSE @]
  /\ UNCHANGED <<host, list>>

\* The alert is shown if no other is; it is dismissed quizDuration later, shown or
\* not.
didReceiveQuiz(v, q) ==
  /\ [to |-> v, quiz |-> q] \in net
  /\ net' = net \ {[to |-> v, quiz |-> q]}
  /\ shown' = [shown EXCEPT ![v] = IF @ = 0 THEN q ELSE @]
  /\ alertTimers' = [alertTimers EXCEPT ![v] = @ \cup {q}]
  /\ UNCHANGED <<host, list>>

\* Mutant: the alert stays.
clickAgain(v, button) ==
  /\ shown[v] # 0
  /\ shown' = shown
  /\ \E arrives \in {FALSE, here} :
       net' = IF arrives
              THEN net \cup {[add |-> [from |-> v, q |-> shown[v], text |-> button]]}
              ELSE net
  /\ UNCHANGED <<host, list, alertTimers>>

\* A button of the alert, which goes with it.  The answer may be lost, and is when the
\* host is not in the channel; what other viewers do with it is hidden.
click(v, button) ==
  /\ shown[v] # 0
  /\ shown' = [shown EXCEPT ![v] = 0]
  /\ \E arrives \in {FALSE, here} :
       net' = IF arrives
              THEN net \cup {[add |-> [from |-> v, q |-> shown[v], text |-> button]]}
              ELSE net
  /\ UNCHANGED <<host, list, alertTimers>>

alertTimeout(v, q) ==
  /\ q \in alertTimers[v]
  /\ alertTimers' = [alertTimers EXCEPT ![v] = @ \ {q}]
  /\ shown' = [shown EXCEPT ![v] = IF @ = q THEN 0 ELSE @]
  /\ UNCHANGED <<host, list, net>>
-----------------------------------------------------------------------------
Next ==
  \/ touchesBegan \/ touchesEnded \/ speechFails \/ didReceiveResult
  \/ alertCancel \/ alertOK
  \/ \E q \in Questions : sendCompletes(q) \/ quizTimer(q)
  \/ leave \/ enter
  \/ \E v \in Viewers, q \in Questions, b \in Buttons :
       didReceiveAnswer([from |-> v, q |-> q, text |-> b])
  \/ staleClosure \/ showClosure \/ addClosure
  \/ \E v \in Viewers, q \in Questions : didReceiveQuiz(v, q) \/ alertTimeout(v, q)
  \/ \E v \in Viewers, b \in Buttons : click(v, b)

Spec == Init /\ [][Next]_vars

\* The main queues run their closures and fire their timers.
FairSpec == /\ Spec
            /\ \A q \in Questions : WF_vars(quizTimer(q))
            /\ WF_vars(staleClosure \/ showClosure \/ addClosure)
            /\ \A v \in Viewers, q \in Questions : WF_vars(alertTimeout(v, q))
=============================================================================
