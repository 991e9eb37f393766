---------------------------- MODULE IosQuizProps ----------------------------
(***************************************************************************)
(* The properties of the iOS quiz.                                         *)
(***************************************************************************)
EXTENDS IosQuiz

\* Every variable has the values the code can give it.
TypeInvariant ==
  /\ {here, listening, isSelected, isAnswering} \subseteq BOOLEAN
  /\ visit \in 1..MaxVisits
  /\ speech \in Nat
  /\ timers \subseteq Questions
  /\ texts \in 0..MaxQuestions
  /\ {alert, label, asked} \subseteq 0..MaxQuestions
  /\ sending \subseteq Questions
  /\ mainQueue \in Seq(Closure)
  /\ answers \in Seq(Answer)
  /\ statistics \in [total : Nat, yes : Nat, no : Nat]
  /\ shown \in [Viewers -> 0..MaxQuestions]
  /\ alertTimers \in [Viewers -> SUBSET Questions]
  /\ net \subseteq Message

\* The voice button is never locked for good: while isAnswering is set a closure is
\* on its way that resets it, also after several quizzes, a failed send, or a host
\* who left and came back to the same LiveService (LiveService.send).
LockHasTimer == isAnswering => timers # {}

\* A closure of this visit that will set the label.
ShowWaits == \E i \in DOMAIN mainQueue :
               mainQueue[i].of = visit /\ "show" \in DOMAIN mainQueue[i]

\* showQuestion is called before clearAnswers, which empties the label, but takes
\* effect after it: once its closure ran, the label shows the quiz this visit last
\* sent, whatever closures an earlier visit left behind.
LabelIsLastQuiz == ~ShowWaits => label = asked

\* A quiz alert does not stay on a viewer's screen: its own timer dismisses it, also
\* when it came while another alert was shown.
QuizAlertEnds ==
  \A v \in Viewers, q \in Questions : shown[v] = q ~> shown[v] # q

\* A viewer is listed once at most for a quiz, however the click, the timer and the
\* clearing of the list interleave.
OneAnswerEach ==
  \A i, j \in DOMAIN answers :
    answers[i].from = answers[j].from /\ answers[i].q = answers[j].q => i = j

\* What a viewer does with a quiz goes through six places on several devices: not
\* sent yet, under way to the viewer, in the viewer's alert, the answer under way to
\* the host, its closure in the host's main queue, and in the list.
Unsent(q)     == q > texts \/ q = alert
Offered(v, q) == [to |-> v, quiz |-> q] \in net
Arriving      == {a \in Answer : \/ [add |-> a] \in net
                                 \/ \E i \in DOMAIN mainQueue :
                                      /\ "add" \in DOMAIN mainQueue[i]
                                      /\ mainQueue[i].add = a}

\* Every viewer has one ballot for each quiz, open until the alert is gone; its vote
\* is listed once at most and as it was cast, and never again after alertOK or a new
\* visit cleared the list, whatever closures earlier visits left in the queue.
B == INSTANCE Ballot WITH
       Voters  <- Viewers,
       Topics  <- Questions,
       Votes   <- Answer,
       open    <- {b \in Viewers \X Questions :
                    Unsent(b[2]) \/ Offered(b[1], b[2]) \/ shown[b[1]] = b[2]},
       cast    <- Arriving,
       counted <- {answers[i] : i \in DOMAIN answers}
ImplementsBallots == B!Ballots
-----------------------------------------------------------------------------
(* What the program's texts say, and the code does not keep.               *)

\* "Please wait for last quiz to finish": no dictation starts while the time of a quiz
\* that was sent runs.
ButtonWaits == [][touchesBegan => timers = {}]_vars
=============================================================================
