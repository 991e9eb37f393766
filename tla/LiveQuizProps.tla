--------------------------- MODULE LiveQuizProps ---------------------------
(***************************************************************************)
(* The properties of the quiz, and the formulas their proofs rest on.      *)
(***************************************************************************)
EXTENDS LiveQuiz

\* Every variable has the values the code can give it; no window holds more
\* than MAX_MSG_COUNT lines.
TypeInvariant ==
  /\ phase \in [Participants -> {"live", "finished", "destroyed", "crashed"}]
  /\ inRoom \subseteq Participants
  /\ window \in [Participants -> Seq(Line)]
  /\ \A p \in Participants : Len(window[p]) <= MaxMsgCount
  /\ inputDialog \in BOOLEAN
  /\ asrPending \in Nat
  /\ recognised \in 0..MaxQuestions
  /\ checkDialogs \in Seq(Questions)
  /\ mPreQuestionInfo \in {0} \cup Questions
  /\ mIsWaitingResult \in BOOLEAN
  /\ mYesNum \in Nat
  /\ mNoNum \in Nat
  /\ timers \in Nat
  /\ dialogs \in [Viewers -> Seq(Questions)]
  /\ net \subseteq Message
  /\ \A m \in net : m.to = Anchor => m.body \in AnswerLine
  /\ tallied \subseteq AnswerLine
  /\ announced \in Seq([q : {0} \cup Questions, yes : Nat, no : Nat])
-----------------------------------------------------------------------------
(* Safety, for any number of recognitions at once.                         *)

\* The counters the anchor publishes are the answers that arrived since the
\* question was last sent, each counted once and under the button the viewer
\* pressed, although RESULT_YES and RESULT_NO hold each other's word
\* (handleMessageReceived, the reset in doubleCheckInputMsg).
TallyIsExact ==
  /\ mYesNum = Cardinality({a \in tallied : a.choice = "yes"})
  /\ mNoNum = Cardinality({a \in tallied : a.choice = "no"})

\* A viewer has at most one answer per question in a tally: the dialog goes with
\* the click, and no question is ever shown to a viewer twice.
OneAnswerPerQuestion ==
  \A a, b \in tallied : a.from = b.from /\ a.q = b.q => a = b

\* As long as the anchor's activity is there, a question that waits has a timer
\* to end it: mIsWaitingResult cannot lock the question entrance for good.
WaitingHasTimer ==
  mIsWaitingResult /\ OnScreen(Anchor) => timers > 0

\* No window shows another viewer's answer: the early return of
\* BaseLiveActivity.handleMessageReceived and the override of the anchor.
BallotIsSecret ==
  \A p \in Participants : \A i \in DOMAIN window[p] :
    window[p][i].kind = "answer" => window[p][i].from = p
-----------------------------------------------------------------------------
(* The inductive invariant behind TallyIsExact and OneAnswerPerQuestion: a *)
(* question moves one way, from a check dialog into the channel, from there *)
(* onto a viewer's screen, and from there into one answer of that viewer.  *)

QuestionTo(v, q) == [to |-> v, body |-> [kind |-> "question", q |-> q]]

\* The answers given so far that may still count: tallied or under way.
Answers == {a \in AnswerLine : a \in tallied \/ \E m \in net : m.body = a}

\* No question is in two dialogs of one participant.
DialogsDistinct == /\ IsInjective(checkDialogs)
                   /\ \A v \in Viewers : IsInjective(dialogs[v])

\* A question that left the anchor is not in a check dialog any more, and none
\* has a rank that recognition has not reached.
QuestionLeftAnchor ==
  /\ \A q \in ToSet(checkDialogs) : q <= recognised
  /\ \A q \in Questions :
       \/ \E v \in Viewers : QuestionTo(v, q) \in net \/ q \in ToSet(dialogs[v])
       \/ \E a \in Answers : a.q = q
       => q <= recognised /\ q \notin ToSet(checkDialogs)

\* For one viewer a question is under way, or on the screen, or answered.
QuestionMovesOn ==
  \A v \in Viewers, q \in Questions :
    /\ QuestionTo(v, q) \in net => q \notin ToSet(dialogs[v])
    /\ QuestionTo(v, q) \in net \/ q \in ToSet(dialogs[v])
         => \A a \in Answers : ~(a.from = v /\ a.q = q)

\* One answer per viewer and question, whose text is that of the button, and
\* which is not on its way to the anchor once the anchor has counted it.
AnswersDistinct ==
  /\ \A a, b \in Answers : a.from = b.from /\ a.q = b.q => a = b
  /\ \A a \in Answers : a.text = RESULT(a.choice)
  /\ \A m \in net : m.to = Anchor => m.body \notin tallied

TallyInvariant ==
  /\ DialogsDistinct
  /\ QuestionLeftAnchor
  /\ QuestionMovesOn
  /\ AnswersDistinct
  /\ IsFiniteSet(tallied)
  /\ TallyIsExact
-----------------------------------------------------------------------------
\* Every viewer has one ballot for each question.  It is open from before the
\* question is recognised until the viewer's dialog is gone; a vote is cast with the
\* click, on its way while the anchor's copy is in the channel, and counted until the
\* next question is sent.  No vote is counted for two questions, or again after its
\* tally was cleared, with any number of recognitions at once (clickAnswer,
\* handleMessageReceived, doubleCheckInputMsg).
IsOpen(v, q) == \/ q > recognised \/ q \in ToSet(checkDialogs)
                \/ QuestionTo(v, q) \in net \/ q \in ToSet(dialogs[v])
B == INSTANCE Ballot WITH
       Voters  <- Viewers,
       Topics  <- Questions,
       Votes   <- AnswerLine,
       open    <- {b \in Viewers \X Questions : IsOpen(b[1], b[2])},
       cast    <- {m.body : m \in {n \in net : n.to = Anchor}},
       counted <- tallied
ImplementsBallots == B!Ballots
-----------------------------------------------------------------------------
(* Under an anchor who lets a recognition end before starting another      *)
(* (MaxAsr = 1).                                                           *)

\* The entrance check of questViewClick is enough: while a question is being
\* prepared no timer runs, and a running timer is that of the waiting question.
OneQuestionAtATime ==
  /\ timers = IF mIsWaitingResult /\ OnScreen(Anchor) THEN 1 ELSE 0
  /\ timers + asrPending + Len(checkDialogs) <= 1

\* The inductive invariant behind OneQuestionAtATime and the refinement: the
\* dialogs exclude a running question, and a question in a check dialog was
\* neither sent nor published before.
RoundInvariant ==
  /\ OneQuestionAtATime
  /\ inputDialog => timers = 0 /\ checkDialogs = << >>
  /\ mIsWaitingResult => mPreQuestionInfo \in Questions
  /\ mPreQuestionInfo <= recognised
  /\ mPreQuestionInfo \notin ToSet(checkDialogs)
  /\ \A i \in DOMAIN announced : /\ announced[i].q <= recognised
                                 /\ announced[i].q \notin ToSet(checkDialogs)
                                 /\ mIsWaitingResult => announced[i].q # mPreQuestionInfo

\* The quiz then is a sequence of rounds, each with one result.
R == INSTANCE QuizRounds WITH
       Topics  <- Questions,
       Votes   <- AnswerLine,
       NoTopic <- 0,
       topic   <- IF mIsWaitingResult THEN mPreQuestionInfo ELSE 0,
       box     <- tallied,
       results <- announced
ImplementsRounds == R!Rounds

\* Every question sent gets its statistics, unless the anchor's activity is
\* destroyed or crashes first.
QuestionIsAnnounced ==
  \A t \in Questions :
    (mIsWaitingResult /\ mPreQuestionInfo = t)
      ~> ((\E i \in DOMAIN announced : announced[i].q = t) \/ ~OnScreen(Anchor))
-----------------------------------------------------------------------------
(* What the program's texts say, and the code does not keep.               *)

\* "msg_question_analysis_result" publishes a number of people who answered:
\* it cannot be larger than the number of viewers.
NoMoreAnswersThanViewers ==
  \A i \in DOMAIN announced :
    announced[i].yes + announced[i].no <= Cardinality(Viewers)
=============================================================================
