------------------------ MODULE LiveQuizRoundsProofs ------------------------
(***************************************************************************)
(* Under an anchor who waits for each recognition (MaxAsr = 1) the quiz    *)
(* implements QuizRounds.                                                  *)
(***************************************************************************)
EXTENDS LiveQuizProofs

LEMMA InitRounds == Init => RoundInvariant
<1> SUFFICES ASSUME Init
             PROVE  RoundInvariant
  OBVIOUS
<1>1. ToSet(checkDialogs) = {} /\ Len(checkDialogs) = 0
  BY EmptyStack DEF Init
<1>2. DOMAIN announced = {}
  BY DEF Init
<1>3. OneQuestionAtATime
  BY <1>1 DEF Init, OneQuestionAtATime
<1>4. QED
  BY <1>1, <1>2, <1>3 DEF Init, RoundInvariant

\* The types of what the invariant counts.
LEMMA RoundTypes ==
  ASSUME TypeInvariant
  PROVE  /\ timers \in Nat /\ asrPending \in Nat
         /\ Len(checkDialogs) \in Nat
         /\ checkDialogs \in Seq(Questions)
         /\ Len(checkDialogs) = 0 <=> checkDialogs = << >>
         /\ recognised \in Nat /\ MaxQuestions \in Nat
         /\ mPreQuestionInfo \in Nat
         /\ Anchor \in Participants
         /\ \A q \in Questions : q \in Nat
         /\ \A i \in DOMAIN announced : announced[i].q \in Nat
<1>1. checkDialogs \in Seq(Questions)
  BY DEF TypeInvariant
<1>2. Len(checkDialogs) \in Nat /\ (Len(checkDialogs) = 0 <=> checkDialogs = << >>)
  BY <1>1, LenProperties, EmptySeq
<1>3. recognised \in Nat /\ MaxQuestions \in Nat /\ \A q \in Questions : q \in Nat
  BY BoundsAssumption DEF TypeInvariant, Questions
<1>4. mPreQuestionInfo \in Nat
  BY <1>3 DEF TypeInvariant
<1>5. \A i \in DOMAIN announced : announced[i].q \in Nat
  <2>1. announced \in Seq([q : {0} \cup Questions, yes : Nat, no : Nat])
    BY DEF TypeInvariant
  <2>2. \A i \in DOMAIN announced :
          announced[i] \in [q : {0} \cup Questions, yes : Nat, no : Nat]
    BY <2>1, ElementOfSeq, LenProperties
  <2>3. QED
    BY <1>3, <2>2
<1>6. QED
  BY <1>1, <1>2, <1>3, <1>4, <1>5 DEF TypeInvariant, Participants

\* Steps that leave the round alone: no timer, no question, no dialog opens.
LEMMA RoundFrame ==
  ASSUME TypeInvariant, RoundInvariant,
         UNCHANGED <<mPreQuestionInfo, mIsWaitingResult, timers, announced,
                     recognised, asrPending, checkDialogs>>,
         OnScreen(Anchor)' = OnScreen(Anchor),
         inputDialog' => inputDialog
  PROVE  RoundInvariant'
BY DEF RoundInvariant, OneQuestionAtATime

LEMMA RoundLifeCycle ==
  ASSUME TypeInvariant, RoundInvariant, NEW p \in Participants,
         JoinRoom(p) \/ finish(p) \/ onDestroy(p)
  PROVE  RoundInvariant'
<1>1. CASE JoinRoom(p) \/ finish(p)
  <2>1. OnScreen(Anchor)' = OnScreen(Anchor)
    BY <1>1, RoundTypes DEF JoinRoom, finish, OnScreen, TypeInvariant
  <2>2. QED
    BY <1>1, <2>1, RoundFrame
       DEF JoinRoom, finish, anchorVars, tallyVars, history
<1>2. CASE onDestroy(p) /\ p # Anchor
  <2>1. OnScreen(Anchor)' = OnScreen(Anchor)
    BY <1>2, RoundTypes DEF onDestroy, OnScreen, TypeInvariant
  <2>2. QED
    BY <1>2, <2>1, RoundFrame DEF onDestroy, history
<1>3. CASE onDestroy(p) /\ p = Anchor
  <2>1. /\ inputDialog' = FALSE /\ checkDialogs' = << >> /\ timers' = 0
        /\ UNCHANGED <<mPreQuestionInfo, mIsWaitingResult, announced, recognised,
                       asrPending>>
    BY <1>3 DEF onDestroy, history
  <2>2. ~OnScreen(Anchor)'
    BY <1>3, RoundTypes DEF onDestroy, OnScreen, TypeInvariant
  <2>3. ToSet(checkDialogs') = {} /\ Len(checkDialogs') = 0
    BY <2>1, EmptyStack
  <2>4. asrPending <= 1
    BY RoundTypes DEF RoundInvariant, OneQuestionAtATime
  <2>5. OneQuestionAtATime'
    BY <2>1, <2>2, <2>3, <2>4, RoundTypes DEF OneQuestionAtATime
  <2>6. QED
    BY <2>1, <2>3, <2>5 DEF RoundInvariant
<1>4. QED
  BY <1>1, <1>2, <1>3

LEMMA RoundPrepare ==
  ASSUME MaxAsr = 1, TypeInvariant, RoundInvariant,
         questViewClick \/ startAsrTransform \/ dismissInputDialog \/ onAsrEmpty
           \/ dropQuestion
  PROVE  RoundInvariant'
<1>0. /\ UNCHANGED <<mPreQuestionInfo, mIsWaitingResult, timers, announced,
                     recognised>>
      /\ OnScreen(Anchor)' = OnScreen(Anchor)
  BY DEF questViewClick, startAsrTransform, dismissInputDialog, onAsrEmpty,
         dropQuestion, tallyVars, history, OnScreen
<1>1. CASE questViewClick
  <2>1. /\ checkDialogs = << >> /\ ~mIsWaitingResult
        /\ UNCHANGED <<asrPending, checkDialogs>>
    BY <1>1 DEF questViewClick, HasDialog
  <2>2. timers = 0
    BY <2>1 DEF RoundInvariant, OneQuestionAtATime
  <2>3. QED
    BY <1>0, <2>1, <2>2 DEF RoundInvariant, OneQuestionAtATime
<1>2. CASE startAsrTransform
  <2>1. /\ inputDialog /\ checkDialogs = << >> /\ asrPending < 1
        /\ asrPending' = asrPending + 1
        /\ UNCHANGED <<inputDialog, checkDialogs>>
    BY <1>2 DEF startAsrTransform
  <2>2. timers = 0 /\ Len(checkDialogs) = 0 /\ asrPending = 0
    BY <2>1, RoundTypes DEF RoundInvariant
  <2>3. QED
    BY <1>0, <2>1, <2>2 DEF RoundInvariant, OneQuestionAtATime
<1>3. CASE dismissInputDialog
  BY <1>0, <1>3, RoundFrame DEF dismissInputDialog
<1>4. CASE onAsrEmpty
  <2>1. /\ asrPending > 0 /\ asrPending' = asrPending - 1
        /\ UNCHANGED <<inputDialog, checkDialogs>>
    BY <1>4 DEF onAsrEmpty
  <2>2. timers + (asrPending - 1) + Len(checkDialogs) <= 1
    BY <2>1, RoundTypes DEF RoundInvariant, OneQuestionAtATime
  <2>3. QED
    BY <1>0, <2>1, <2>2 DEF RoundInvariant, OneQuestionAtATime
<1>5. CASE dropQuestion
  <2>1. /\ checkDialogs # << >> /\ checkDialogs' = Front(checkDialogs)
        /\ UNCHANGED <<inputDialog, asrPending>>
    BY <1>5 DEF dropQuestion
  <2>2. /\ ToSet(checkDialogs') \subseteq ToSet(checkDialogs)
        /\ Len(checkDialogs') = Len(checkDialogs) - 1
    BY <2>1, RoundTypes, PopOffStack, FrontLast
  <2>3. ~inputDialog
    BY <2>1 DEF RoundInvariant
  <2>4. timers + asrPending + (Len(checkDialogs) - 1) <= 1
    BY RoundTypes DEF RoundInvariant, OneQuestionAtATime
  <2>5. QED
    BY <1>0, <2>1, <2>2, <2>3, <2>4 DEF RoundInvariant, OneQuestionAtATime
<1>6. QED
  BY <1>1, <1>2, <1>3, <1>4, <1>5

LEMMA RoundRecognise ==
  ASSUME TypeInvariant, RoundInvariant, onAsrTranformResult
  PROVE  RoundInvariant'
<1>1. /\ asrPending > 0 /\ asrPending' = asrPending - 1
      /\ recognised' = recognised + 1
      /\ UNCHANGED <<mPreQuestionInfo, mIsWaitingResult, timers, announced>>
  BY DEF onAsrTranformResult, tallyVars, history
<1>2. timers = 0 /\ asrPending = 1 /\ checkDialogs = << >>
  BY <1>1, RoundTypes DEF RoundInvariant, OneQuestionAtATime
<1>3. \A n \in Nat : n <= recognised => n <= recognised + 1 /\ n # recognised + 1
  BY RoundTypes
<1>4. CASE OnScreen(Anchor)
  <2>1. /\ inputDialog' = FALSE
        /\ checkDialogs' = Append(checkDialogs, recognised + 1)
        /\ UNCHANGED phase
    BY <1>4 DEF onAsrTranformResult, OnScreen
  <2>2. recognised + 1 \in Questions
    BY RoundTypes DEF onAsrTranformResult, Questions
  <2>3. /\ ToSet(checkDialogs') = ToSet(checkDialogs) \cup {recognised + 1}
        /\ Len(checkDialogs') = 1
    <3> DEFINE q == recognised + 1
    <3>1. q \in Questions
      BY <2>2
    <3> HIDE DEF q
    <3>2. /\ ToSet(Append(checkDialogs, q)) = ToSet(checkDialogs) \cup {q}
          /\ Len(Append(checkDialogs, q)) = Len(checkDialogs) + 1
      BY <3>1, RoundTypes, PushOnStack, AppendProperties
    <3>3. QED
      BY <1>2, <2>1, <3>2, RoundTypes DEF q
  <2>4. OneQuestionAtATime'
    BY <1>1, <1>2, <2>1, <2>3 DEF RoundInvariant, OneQuestionAtATime, OnScreen
  <2>5. QED
    BY <1>1, <1>3, <2>1, <2>3, <2>4, RoundTypes DEF RoundInvariant
<1>5. CASE ~OnScreen(Anchor)
  <2>1. UNCHANGED <<inputDialog, checkDialogs>> /\ Crash(Anchor)
    BY <1>5 DEF onAsrTranformResult
  <2>2. ~OnScreen(Anchor)'
    BY <2>1, RoundTypes DEF Crash, OnScreen, TypeInvariant
  <2>3. OneQuestionAtATime'
    BY <1>1, <1>2, <1>5, <2>1, <2>2, RoundTypes
       DEF RoundInvariant, OneQuestionAtATime
  <2>4. QED
    BY <1>1, <1>3, <2>1, <2>3, RoundTypes DEF RoundInvariant
<1>6. QED
  BY <1>4, <1>5

LEMMA RoundSend ==
  ASSUME TypeInvariant, TallyInvariant, RoundInvariant, sendQuestion
  PROVE  /\ RoundInvariant'
         /\ ~mIsWaitingResult
         /\ Last(checkDialogs) \in Questions
         /\ \A i \in DOMAIN announced : announced[i].q # Last(checkDialogs)
<1> DEFINE q == Last(checkDialogs)
<1>1. /\ OnScreen(Anchor) /\ checkDialogs # << >>
      /\ checkDialogs' = Front(checkDialogs)
      /\ mPreQuestionInfo' = q /\ mIsWaitingResult' = TRUE
      /\ timers' = timers + 1
      /\ UNCHANGED <<phase, inputDialog, asrPending, recognised, announced>>
  BY DEF sendQuestion
<1>2. /\ ToSet(checkDialogs') \subseteq ToSet(checkDialogs)
      /\ q \in ToSet(checkDialogs) /\ q \notin ToSet(checkDialogs')
      /\ Len(checkDialogs') = Len(checkDialogs) - 1
      /\ q \in Questions
  BY <1>1, RoundTypes, StacksOf, PopOffStack, FrontLast
<1>3. timers = 0 /\ asrPending = 0 /\ Len(checkDialogs) = 1
  <2>1. Len(checkDialogs) \in Nat /\ Len(checkDialogs) # 0
    BY <1>1, RoundTypes
  <2>2. timers + asrPending + Len(checkDialogs) <= 1
    BY DEF RoundInvariant, OneQuestionAtATime
  <2>3. timers \in Nat /\ asrPending \in Nat
    BY RoundTypes
  <2>4. QED
    BY <2>1, <2>2, <2>3
<1>4. ~mIsWaitingResult
  BY <1>1, <1>3 DEF RoundInvariant, OneQuestionAtATime
<1>5. q <= recognised
  BY <1>2 DEF TallyInvariant, QuestionLeftAnchor
<1>6. \A i \in DOMAIN announced : announced[i].q # q
  BY <1>2 DEF RoundInvariant
<1>7. ~inputDialog
  BY <1>1 DEF RoundInvariant
<1>8. OneQuestionAtATime'
  BY <1>1, <1>2, <1>3 DEF OneQuestionAtATime, OnScreen
<1>9. RoundInvariant'
  BY <1>1, <1>2, <1>5, <1>6, <1>7, <1>8 DEF RoundInvariant
<1>10. QED
  BY <1>2, <1>4, <1>6, <1>9

LEMMA RoundAnnounce ==
  ASSUME TypeInvariant, RoundInvariant, startAnalyzeQuestionResult
  PROVE  /\ RoundInvariant'
         /\ mIsWaitingResult /\ mPreQuestionInfo # 0
<1> DEFINE r == [q |-> mPreQuestionInfo, yes |-> mYesNum, no |-> mNoNum]
<1>1. /\ timers > 0 /\ timers' = timers - 1
      /\ mIsWaitingResult' = FALSE
      /\ announced' = Append(announced, r)
      /\ UNCHANGED <<phase, inputDialog, asrPending, recognised, checkDialogs,
                     mPreQuestionInfo>>
  BY DEF startAnalyzeQuestionResult, anchorVars
<1>2. timers = 1 /\ mIsWaitingResult /\ asrPending = 0 /\ Len(checkDialogs) = 0
  BY <1>1, RoundTypes DEF RoundInvariant, OneQuestionAtATime
<1>3. mPreQuestionInfo # 0
  BY <1>2, RoundTypes DEF RoundInvariant, Questions
<1>4. OneQuestionAtATime'
  BY <1>1, <1>2 DEF OneQuestionAtATime, OnScreen
<1>5. \A i \in DOMAIN announced' : /\ announced'[i].q <= recognised
                                   /\ announced'[i].q \notin ToSet(checkDialogs)
  <2>1. /\ r \in [q : {0} \cup Questions, yes : Nat, no : Nat]
        /\ announced \in Seq([q : {0} \cup Questions, yes : Nat, no : Nat])
    BY DEF TypeInvariant
  <2>2. /\ DOMAIN announced' = 1..(Len(announced) + 1)
        /\ DOMAIN announced = 1..Len(announced) /\ Len(announced) \in Nat
        /\ \A i \in 1..Len(announced) : announced'[i] = announced[i]
        /\ announced'[Len(announced) + 1] = r
    <3> HIDE DEF r
    <3>1. QED
      BY <1>1, <2>1, AppendProperties, LenProperties
  <2>3. \A i \in DOMAIN announced' : i \in DOMAIN announced \/ announced'[i] = r
    BY <2>2
  <2>4. r.q = mPreQuestionInfo
    OBVIOUS
  <2>5. QED
    BY <2>2, <2>3, <2>4 DEF RoundInvariant
<1>6. timers' = 0
  BY <1>1, <1>2
<1>7. RoundInvariant'
  BY <1>1, <1>4, <1>5, <1>6 DEF RoundInvariant
<1>8. QED
  BY <1>2, <1>3, <1>7

\* Steps that keep the anchor's timers, texts and dialogs.
LEMMA RoundOther ==
  ASSUME TypeInvariant, RoundInvariant,
         \/ \E m \in net : anchorHandleMessage(m)
         \/ \E v \in Viewers, m \in net : \/ viewerHandleQuestion(v, m)
                                          \/ viewerHandleStat(v, m)
                                          \/ viewerIgnoreAnswer(v, m)
         \/ \E v \in Viewers, b \in Buttons : clickAnswer(v, b)
         \/ \E v \in Viewers : dismissQuestion(v)
         \/ UNCHANGED vars
  PROVE  RoundInvariant'
<1>1. UNCHANGED <<mPreQuestionInfo, mIsWaitingResult, timers, announced,
                  recognised, asrPending, checkDialogs, inputDialog>>
  BY DEF anchorHandleMessage, viewerHandleQuestion, viewerHandleStat,
         viewerIgnoreAnswer, clickAnswer, dismissQuestion, vars,
         anchorVars, tallyVars, history
<1>2. UNCHANGED phase \/ \E v \in Viewers : Crash(v)
  BY DEF anchorHandleMessage, viewerHandleQuestion, viewerHandleStat,
         viewerIgnoreAnswer, clickAnswer, dismissQuestion, vars
<1>3. phase'[Anchor] = phase[Anchor]
  BY <1>2, AnchorAssumption, RoundTypes DEF Crash, TypeInvariant
<1>4. QED
  BY <1>1, <1>3, RoundFrame DEF OnScreen

LEMMA NextRounds ==
  ASSUME MaxAsr = 1, TypeInvariant, TallyInvariant, RoundInvariant, [Next]_vars
  PROVE  RoundInvariant'
<1>1. CASE \E p \in Participants : JoinRoom(p) \/ finish(p) \/ onDestroy(p)
  BY <1>1, RoundLifeCycle
<1>2. CASE questViewClick \/ startAsrTransform \/ dismissInputDialog \/ onAsrEmpty
             \/ dropQuestion
  BY <1>2, RoundPrepare
<1>3. CASE onAsrTranformResult
  BY <1>3, RoundRecognise
<1>4. CASE sendQuestion
  BY <1>4, RoundSend
<1>5. CASE startAnalyzeQuestionResult
  BY <1>5, RoundAnnounce
<1>6. CASE \/ \E m \in net : anchorHandleMessage(m)
           \/ \E v \in Viewers, m \in net : \/ viewerHandleQuestion(v, m)
                                            \/ viewerHandleStat(v, m)
                                            \/ viewerIgnoreAnswer(v, m)
           \/ \E v \in Viewers, b \in Buttons : clickAnswer(v, b)
           \/ \E v \in Viewers : dismissQuestion(v)
           \/ UNCHANGED vars
  BY <1>6, RoundOther
<1>7. QED
  BY <1>1, <1>2, <1>3, <1>4, <1>5, <1>6 DEF Next

\* An anchor who waits for each recognition has one question at a time.
THEOREM OneQuestion ==
  ASSUME MaxAsr = 1
  PROVE  Spec => [](RoundInvariant /\ OneQuestionAtATime)
<1>1. Init => RoundInvariant
  BY InitRounds
<1>2. TypeInvariant /\ TallyInvariant /\ RoundInvariant /\ [Next]_vars
        => RoundInvariant'
  BY NextRounds
<1>3. RoundInvariant => OneQuestionAtATime
  BY DEF RoundInvariant
<1>4. QED
  BY <1>1, <1>2, <1>3, TypeCorrect, TallyHolds, PTL DEF Spec

-----------------------------------------------------------------------------
(* Refinement: each step of the quiz is a step of the rounds or a stutter. *)

LEMMA RoundsInit == Init => R!RInit
BY DEF Init, R!RInit

LEMMA RoundsStep ==
  ASSUME TypeInvariant, TallyInvariant, RoundInvariant, [Next]_vars
  PROVE  [R!RNext]_(R!rvars)
<1>1. CASE UNCHANGED <<mIsWaitingResult, mPreQuestionInfo, tallied, announced>>
  BY <1>1 DEF R!rvars
<1>2. CASE sendQuestion
  <2> DEFINE q == Last(checkDialogs)
  <2>1. /\ mPreQuestionInfo' = q /\ mIsWaitingResult' = TRUE
        /\ tallied' = {} /\ announced' = announced
    BY <1>2 DEF sendQuestion
  <2>2. /\ ~mIsWaitingResult /\ q \in Questions
        /\ \A i \in DOMAIN announced : announced[i].q # q
    BY <1>2, RoundSend
  <2>3. R!Ask(q)
    BY <2>1, <2>2 DEF R!Ask
  <2>4. QED
    BY <2>2, <2>3 DEF R!RNext
<1>3. CASE startAnalyzeQuestionResult
  <2>1. /\ mIsWaitingResult' = FALSE
        /\ announced' = Append(announced, [q |-> mPreQuestionInfo,
                                           yes |-> mYesNum, no |-> mNoNum])
        /\ UNCHANGED <<mPreQuestionInfo, tallied>>
    BY <1>3 DEF startAnalyzeQuestionResult
  <2>2. mIsWaitingResult /\ mPreQuestionInfo # 0
    BY <1>3, RoundAnnounce
  <2>3. mYesNum = R!Count("yes") /\ mNoNum = R!Count("no")
    BY DEF TallyInvariant, TallyIsExact, R!Count, R!Cardinality, Cardinality
  <2>4. R!Publish
    BY <2>1, <2>2, <2>3 DEF R!Publish
  <2>5. QED
    BY <2>4 DEF R!RNext
<1>4. ASSUME NEW m \in net, anchorHandleMessage(m)
      PROVE  [R!RNext]_(R!rvars)
  <2>1. /\ tallied' = tallied \cup {m.body}
        /\ UNCHANGED <<mIsWaitingResult, mPreQuestionInfo, announced>>
    BY <1>4 DEF anchorHandleMessage
  <2>2. m.body \in AnswerLine /\ m.body \notin tallied
    BY <1>4 DEF anchorHandleMessage, TypeInvariant, TallyInvariant, AnswersDistinct
  <2>3. R!Vote(m.body)
    BY <2>1, <2>2 DEF R!Vote
  <2>4. QED
    BY <2>2, <2>3 DEF R!RNext
<1>5. ASSUME \/ \E p \in Participants : JoinRoom(p) \/ finish(p) \/ onDestroy(p)
             \/ questViewClick \/ startAsrTransform \/ dismissInputDialog
             \/ onAsrEmpty \/ onAsrTranformResult \/ dropQuestion
             \/ \E v \in Viewers, m \in net : \/ viewerHandleQuestion(v, m)
                                              \/ viewerHandleStat(v, m)
                                              \/ viewerIgnoreAnswer(v, m)
             \/ \E v \in Viewers, b \in Buttons : clickAnswer(v, b)
             \/ \E v \in Viewers : dismissQuestion(v)
             \/ UNCHANGED vars
      PROVE  UNCHANGED <<mIsWaitingResult, mPreQuestionInfo, tallied, announced>>
  BY <1>5 DEF JoinRoom, finish, onDestroy, questViewClick, startAsrTransform,
              dismissInputDialog, onAsrEmpty, onAsrTranformResult, dropQuestion,
              viewerHandleQuestion, viewerHandleStat, viewerIgnoreAnswer,
              clickAnswer, dismissQuestion, vars, tallyVars, history
<1>6. QED
  BY <1>1, <1>2, <1>3, <1>4, <1>5 DEF Next

\* The quiz is a sequence of rounds, each with a topic of its own and one result
\* that counts each vote received since the round opened once.
THEOREM Refinement ==
  ASSUME MaxAsr = 1
  PROVE  Spec => ImplementsRounds
<1>1. Init => R!RInit
  BY RoundsInit
<1>2. TypeInvariant /\ TallyInvariant /\ RoundInvariant /\ [Next]_vars
        => [R!RNext]_(R!rvars)
  BY RoundsStep
<1>3. QED
  BY <1>1, <1>2, TypeCorrect, TallyHolds, OneQuestion, PTL
     DEF Spec, ImplementsRounds, R!Rounds
-----------------------------------------------------------------------------
(* One result for each question.                                           *)

OneResultPerQuestion ==
  \A i, j \in DOMAIN announced : announced[i].q = announced[j].q => i = j

LEMMA ResultStep ==
  ASSUME TypeInvariant, TallyInvariant, RoundInvariant, OneResultPerQuestion, [Next]_vars
  PROVE  OneResultPerQuestion'
<1>1. CASE UNCHANGED announced
  BY <1>1 DEF OneResultPerQuestion
<1>2. CASE R!Publish
  <2> DEFINE new == [q |-> mPreQuestionInfo, yes |-> R!Count("yes"), no |-> R!Count("no")]
  <2>1. mIsWaitingResult /\ announced' = Append(announced, new) /\ new.q = mPreQuestionInfo
    BY <1>2 DEF R!Publish
  <2> HIDE DEF new
  <2>2. \A i \in DOMAIN announced : announced[i].q # mPreQuestionInfo
    BY <2>1 DEF RoundInvariant
  <2>3. announced \in Seq([q : {0} \cup Questions, yes : Nat, no : Nat])
    BY DEF TypeInvariant
  <2>4. /\ DOMAIN announced' = 1..Len(announced) + 1 /\ Len(announced) \in Nat
        /\ DOMAIN announced = 1..Len(announced)
        /\ announced'[Len(announced) + 1] = new
        /\ \A i \in 1..Len(announced) : announced'[i] = announced[i]
    BY <2>1, <2>3
  <2>5. QED
    BY <2>1, <2>2, <2>4 DEF OneResultPerQuestion
<1>3. [R!RNext]_(R!rvars)
  BY RoundsStep
<1>4. QED
  BY <1>1, <1>2, <1>3 DEF R!RNext, R!rvars, R!Ask, R!Vote

\* The room hears the result of a question once at most: no statistics timer outlives
\* its question, and no question is sent again.
THEOREM OneResult ==
  ASSUME MaxAsr = 1
  PROVE  Spec => []OneResultPerQuestion
<1>1. Init => OneResultPerQuestion
  BY DEF Init, OneResultPerQuestion
<1>2. TypeInvariant /\ TallyInvariant /\ RoundInvariant /\ OneResultPerQuestion /\ [Next]_vars
        => OneResultPerQuestion'
  BY ResultStep
<1>3. QED
  BY <1>1, <1>2, TypeCorrect, TallyHolds, OneQuestion, PTL DEF Spec
=============================================================================
