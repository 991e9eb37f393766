--------------------------- MODULE LiveQuizProofs ---------------------------
(***************************************************************************)
(* Proofs about the quiz, for any set of viewers and any bounds.           *)
(***************************************************************************)
EXTENDS LiveQuizProps, SeqFacts, FiniteSetTheorems

\* The shapes of lines and messages.
LEMMA LineShapes ==
  /\ \A q \in Questions : [kind |-> "question", q |-> q] \in QuestionLine
  /\ \A v \in Viewers, q \in Questions, b \in Buttons :
       [kind |-> "answer", from |-> v, q |-> q, choice |-> b,
        text |-> RESULT(b)] \in AnswerLine
  /\ \A q \in {0} \cup Questions, y \in Nat, n \in Nat :
       [kind |-> "stat", q |-> q, yes |-> y, no |-> n] \in StatLine
  /\ QuestionLine \subseteq Line /\ AnswerLine \subseteq Line
  /\ StatLine \subseteq Line
BY DEF QuestionLine, AnswerLine, StatLine, Line, Buttons, RESULT

\* The kind of a line tells which of the three it is.
LEMMA LineKinds ==
  ASSUME NEW l \in Line
  PROVE  /\ l.kind = "question" => l \in QuestionLine
         /\ l.kind = "answer" => l \in AnswerLine
         /\ l.kind = "stat" => l \in StatLine
BY DEF QuestionLine, AnswerLine, StatLine, Line

\* Showing a line keeps every window a bounded sequence of lines.
LEMMA ShowType ==
  ASSUME TypeInvariant, NEW p \in Participants, NEW l \in Line, Show(p, l)
  PROVE  /\ window' \in [Participants -> Seq(Line)]
         /\ \A r \in Participants : Len(window'[r]) <= MaxMsgCount
<1> DEFINE new == AddMessage(window[p], l, MaxMsgCount)
<1>1. window[p] \in Seq(Line) /\ MaxMsgCount \in Nat \ {0}
  BY BoundsAssumption DEF TypeInvariant
<1>2. Len(window[p]) \in Nat
  BY <1>1, LenProperties
<1>3. /\ new \in Seq(Line)
      /\ Len(new) = IF Len(window[p]) >= MaxMsgCount THEN MaxMsgCount
                                                    ELSE Len(window[p]) + 1
  <2> DEFINE list == window[p]
  <2>1. list \in Seq(Line)
    BY <1>1
  <2> HIDE DEF list
  <2>2. /\ AddMessage(list, l, MaxMsgCount) \in Seq(Line)
        /\ Len(AddMessage(list, l, MaxMsgCount)) =
             IF Len(list) >= MaxMsgCount THEN MaxMsgCount ELSE Len(list) + 1
    BY <1>1, <2>1, AddMessageProperties
  <2>3. QED
    BY <2>2 DEF list
<1> HIDE DEF new
<1>4. Len(new) <= MaxMsgCount
  BY <1>1, <1>2, <1>3
<1>5. window' = [window EXCEPT ![p] = new]
  BY DEF Show, new
<1>6. window \in [Participants -> Seq(Line)]
  BY DEF TypeInvariant
<1>7. \A r \in Participants : window'[r] = IF r = p THEN new ELSE window[r]
  BY <1>5, <1>6
<1>8. window' \in [Participants -> Seq(Line)]
  BY <1>3, <1>5, <1>6
<1>9. \A r \in Participants : Len(window'[r]) <= MaxMsgCount
  BY <1>4, <1>7 DEF TypeInvariant
<1>10. QED
  BY <1>8, <1>9

\* A broadcast adds copies of one body, for others than its sender.
LEMMA BroadcastAdds ==
  ASSUME TypeInvariant, NEW p \in Participants, NEW l \in Line, Broadcast(p, l)
  PROVE  /\ net \subseteq net'
         /\ net' \subseteq Message
         /\ \A m \in net' \ net : m.to # p /\ m.body = l
<1>1. PICK receivers \in SUBSET (IF p \in inRoom THEN inRoom \ {p} ELSE {}) :
        net' = net \cup {[to |-> r, body |-> l] : r \in receivers}
  BY DEF Broadcast
<1>2. receivers \subseteq Participants /\ p \notin receivers
  BY DEF TypeInvariant
<1>3. net \subseteq Message
  BY DEF TypeInvariant
<1>4. QED
  BY <1>1, <1>2, <1>3 DEF Message

-----------------------------------------------------------------------------
(* Type correctness.                                                       *)

LEMMA InitType == Init => TypeInvariant
<1> SUFFICES ASSUME Init
             PROVE  TypeInvariant
  OBVIOUS
<1>1. << >> \in Seq(Line) /\ << >> \in Seq(Questions)
      /\ << >> \in Seq([q : {0} \cup Questions, yes : Nat, no : Nat])
      /\ Len(<< >>) = 0
  BY EmptySeq
<1>2. \A p \in Participants : Len(window[p]) <= MaxMsgCount
  BY <1>1, BoundsAssumption DEF Init
<1>3. window \in [Participants -> Seq(Line)]
  BY <1>1 DEF Init
<1>4. dialogs \in [Viewers -> Seq(Questions)]
  BY <1>1 DEF Init
<1>5. recognised \in 0..MaxQuestions
  BY BoundsAssumption DEF Init
<1>6. QED
  BY <1>1, <1>2, <1>3, <1>4, <1>5 DEF Init, TypeInvariant

\* The three actions of the life cycle.
LEMMA LifeCycleType ==
  ASSUME TypeInvariant, NEW p \in Participants,
         JoinRoom(p) \/ finish(p) \/ onDestroy(p)
  PROVE  TypeInvariant'
<1> USE DEF TypeInvariant
<1>1. CASE JoinRoom(p)
  BY <1>1 DEF JoinRoom, anchorVars, tallyVars, history
<1>2. CASE finish(p)
  BY <1>2 DEF finish, anchorVars, tallyVars, history
<1>3. CASE onDestroy(p)
  <2>1. << >> \in Seq(Questions)
    BY EmptySeq
  <2>2. phase' \in [Participants -> {"live", "finished", "destroyed", "crashed"}]
    BY <1>3 DEF onDestroy
  <2>3. CASE p = Anchor
    <3>1. checkDialogs' = << >> /\ timers' = 0 /\ inputDialog' = FALSE
          /\ dialogs' = dialogs
      BY <1>3, <2>3 DEF onDestroy
    <3>2. QED
      BY <1>3, <2>1, <2>2, <3>1 DEF onDestroy, history
  <2>4. CASE p # Anchor
    <3>1. p \in Viewers
      BY <2>4 DEF Participants
    <3>2. dialogs' = [dialogs EXCEPT ![p] = << >>]
          /\ UNCHANGED <<inputDialog, checkDialogs, timers>>
      BY <1>3, <2>4 DEF onDestroy
    <3>3. dialogs' \in [Viewers -> Seq(Questions)]
      BY <2>1, <3>1, <3>2
    <3>4. QED
      BY <1>3, <2>2, <3>2, <3>3 DEF onDestroy, history
  <2>5. QED
    BY <2>3, <2>4
<1>4. QED
  BY <1>1, <1>2, <1>3

\* The steps of the anchor before a question is sent or dropped.
LEMMA PrepareType ==
  ASSUME TypeInvariant,
         questViewClick \/ startAsrTransform \/ dismissInputDialog \/ onAsrEmpty
           \/ onAsrTranformResult \/ dropQuestion
  PROVE  TypeInvariant'
<1> USE DEF TypeInvariant
<1>1. CASE questViewClick
  BY <1>1 DEF questViewClick, tallyVars, history
<1>2. CASE startAsrTransform
  BY <1>2 DEF startAsrTransform, tallyVars, history
<1>3. CASE dismissInputDialog
  BY <1>3 DEF dismissInputDialog, tallyVars, history
<1>4. CASE onAsrEmpty
  BY <1>4 DEF onAsrEmpty, tallyVars, history
<1>5. CASE onAsrTranformResult
  <2>1. recognised + 1 \in Questions /\ recognised' \in 0..MaxQuestions
    BY <1>5, BoundsAssumption DEF onAsrTranformResult, Questions
  <2>2. asrPending' \in Nat
    BY <1>5 DEF onAsrTranformResult
  <2>3. Append(checkDialogs, recognised + 1) \in Seq(Questions)
    BY <2>1, AppendProperties
  <2>4. checkDialogs' \in Seq(Questions) /\ inputDialog' \in BOOLEAN
    BY <1>5, <2>3 DEF onAsrTranformResult
  <2>5. /\ phase' \in [Participants -> {"live", "finished", "destroyed", "crashed"}]
        /\ inRoom' \subseteq Participants
    BY <1>5 DEF onAsrTranformResult, Crash
  <2>6. QED
    BY <1>5, <2>1, <2>2, <2>4, <2>5 DEF onAsrTranformResult, tallyVars, history
<1>6. CASE dropQuestion
  <2>1. Front(checkDialogs) \in Seq(Questions)
    BY <1>6, FrontLast DEF dropQuestion
  <2>2. QED
    BY <1>6, <2>1 DEF dropQuestion, tallyVars, history
<1>7. QED
  BY <1>1, <1>2, <1>3, <1>4, <1>5, <1>6

LEMMA SendQuestionType ==
  ASSUME TypeInvariant, sendQuestion
  PROVE  TypeInvariant'
<1> DEFINE q == Last(checkDialogs)
           l == [kind |-> "question", q |-> q]
<1>1. q \in Questions /\ Front(checkDialogs) \in Seq(Questions)
  BY FrontLast DEF sendQuestion, TypeInvariant
<1>2. l \in Line /\ Anchor \in Participants
  BY <1>1, LineShapes DEF Participants
<1>3. Show(Anchor, l) /\ Broadcast(Anchor, l)
  BY DEF sendQuestion, sendMsg
<1>4. /\ window' \in [Participants -> Seq(Line)]
      /\ \A r \in Participants : Len(window'[r]) <= MaxMsgCount
  BY <1>2, <1>3, ShowType
<1>5. /\ net' \subseteq Message
      /\ \A m \in net' : m.to = Anchor => m.body \in AnswerLine
  BY <1>2, <1>3, BroadcastAdds DEF TypeInvariant
<1>6. timers' \in Nat
  BY DEF sendQuestion, TypeInvariant
<1>7. QED
  BY <1>1, <1>4, <1>5, <1>6 DEF sendQuestion, TypeInvariant

LEMMA AnnounceType ==
  ASSUME TypeInvariant, startAnalyzeQuestionResult
  PROVE  TypeInvariant'
<1> DEFINE l == [kind |-> "stat", q |-> mPreQuestionInfo,
                 yes |-> mYesNum, no |-> mNoNum]
<1>1. l \in Line /\ Anchor \in Participants
  BY LineShapes DEF Participants, TypeInvariant
<1>2. Show(Anchor, l) /\ Broadcast(Anchor, l)
  BY DEF startAnalyzeQuestionResult, sendMsg
<1>3. /\ window' \in [Participants -> Seq(Line)]
      /\ \A r \in Participants : Len(window'[r]) <= MaxMsgCount
  BY <1>1, <1>2, ShowType
<1>4. /\ net' \subseteq Message
      /\ \A m \in net' : m.to = Anchor => m.body \in AnswerLine
  BY <1>1, <1>2, BroadcastAdds DEF TypeInvariant
<1>5. timers' \in Nat
  BY DEF startAnalyzeQuestionResult, TypeInvariant
<1>6. announced' \in Seq([q : {0} \cup Questions, yes : Nat, no : Nat])
  <2>1. [q |-> mPreQuestionInfo, yes |-> mYesNum, no |-> mNoNum]
          \in [q : {0} \cup Questions, yes : Nat, no : Nat]
    BY DEF TypeInvariant
  <2>2. announced \in Seq([q : {0} \cup Questions, yes : Nat, no : Nat])
    BY DEF TypeInvariant
  <2>3. QED
    BY <2>1, <2>2, AppendProperties DEF startAnalyzeQuestionResult
<1>7. QED
  BY <1>3, <1>4, <1>5, <1>6
     DEF startAnalyzeQuestionResult, TypeInvariant, anchorVars

LEMMA AnchorHandleType ==
  ASSUME TypeInvariant, NEW m \in net, anchorHandleMessage(m)
  PROVE  TypeInvariant'
<1>1. m.body \in AnswerLine
  BY DEF anchorHandleMessage, TypeInvariant
<1>2. mYesNum' \in Nat /\ mNoNum' \in Nat
  BY DEF anchorHandleMessage, TypeInvariant
<1>3. QED
  BY <1>1, <1>2 DEF anchorHandleMessage, TypeInvariant, anchorVars

LEMMA ViewerHandleType ==
  ASSUME TypeInvariant, NEW v \in Viewers, NEW m \in net,
         \/ viewerHandleQuestion(v, m)
         \/ viewerHandleStat(v, m)
         \/ viewerIgnoreAnswer(v, m)
  PROVE  TypeInvariant'
<1>1. m.body \in Line /\ v \in Participants
  BY DEF TypeInvariant, Message, Participants
<1>2. CASE viewerHandleQuestion(v, m)
  <2>1. m.body.q \in Questions
    BY <1>1, <1>2, LineKinds DEF viewerHandleQuestion, QuestionLine
  <2>2. Append(dialogs[v], m.body.q) \in Seq(Questions)
    BY <2>1, AppendProperties DEF TypeInvariant
  <2>3. dialogs' \in [Viewers -> Seq(Questions)]
    BY <1>2, <2>2 DEF viewerHandleQuestion, TypeInvariant
  <2>4. /\ window' \in [Participants -> Seq(Line)]
        /\ \A r \in Participants : Len(window'[r]) <= MaxMsgCount
    <3>1. CASE Show(v, m.body)
      BY <1>1, <3>1, ShowType
    <3>2. CASE UNCHANGED window
      BY <3>2 DEF TypeInvariant
    <3>3. QED
      BY <1>2, <3>1, <3>2 DEF viewerHandleQuestion
  <2>5. /\ phase' \in [Participants -> {"live", "finished", "destroyed", "crashed"}]
        /\ inRoom' \subseteq Participants
    BY <1>2 DEF viewerHandleQuestion, Crash, TypeInvariant
  <2>6. QED
    BY <1>2, <2>3, <2>4, <2>5
       DEF viewerHandleQuestion, TypeInvariant, anchorVars, tallyVars, history
<1>3. CASE viewerHandleStat(v, m)
  <2>1. /\ window' \in [Participants -> Seq(Line)]
        /\ \A r \in Participants : Len(window'[r]) <= MaxMsgCount
    BY <1>1, <1>3, ShowType DEF viewerHandleStat
  <2>2. QED
    BY <1>3, <2>1
       DEF viewerHandleStat, TypeInvariant, anchorVars, tallyVars, history
<1>4. CASE viewerIgnoreAnswer(v, m)
  BY <1>4 DEF viewerIgnoreAnswer, TypeInvariant, anchorVars, tallyVars, history
<1>5. QED
  BY <1>2, <1>3, <1>4

LEMMA ViewerInputType ==
  ASSUME TypeInvariant, NEW v \in Viewers,
         (\E b \in Buttons : clickAnswer(v, b)) \/ dismissQuestion(v)
  PROVE  TypeInvariant'
<1>1. /\ dialogs[v] # << >>
      /\ dialogs' = [dialogs EXCEPT ![v] = Front(dialogs[v])]
  BY DEF clickAnswer, dismissQuestion
<1>2. Front(dialogs[v]) \in Seq(Questions) /\ Last(dialogs[v]) \in Questions
  BY <1>1, FrontLast DEF TypeInvariant
<1>3. dialogs' \in [Viewers -> Seq(Questions)]
  BY <1>1, <1>2 DEF TypeInvariant
<1>4. ASSUME NEW b \in Buttons, clickAnswer(v, b)
      PROVE  TypeInvariant'
  <2> DEFINE l == [kind |-> "answer", from |-> v, q |-> Last(dialogs[v]),
                   choice |-> b, text |-> RESULT(b)]
  <2>1. l \in Line /\ l \in AnswerLine /\ v \in Participants
    BY <1>2, LineShapes DEF Participants
  <2>2. Show(v, l) /\ Broadcast(v, l)
    BY <1>4 DEF clickAnswer, sendMsg
  <2> HIDE DEF l
  <2>3. /\ window' \in [Participants -> Seq(Line)]
        /\ \A r \in Participants : Len(window'[r]) <= MaxMsgCount
    BY <2>1, <2>2, ShowType
  <2>4. /\ net' \subseteq Message
        /\ \A m \in net' : m.to = Anchor => m.body \in AnswerLine
    BY <2>1, <2>2, BroadcastAdds DEF TypeInvariant
  <2>5. QED
    BY <1>3, <1>4, <2>3, <2>4
       DEF clickAnswer, TypeInvariant, anchorVars, tallyVars, history
<1>5. CASE dismissQuestion(v)
  BY <1>3, <1>5
     DEF dismissQuestion, TypeInvariant, anchorVars, tallyVars, history
<1>6. QED
  BY <1>4, <1>5

LEMMA NextType ==
  ASSUME TypeInvariant, [Next]_vars
  PROVE  TypeInvariant'
<1>1. CASE \E p \in Participants : JoinRoom(p) \/ finish(p) \/ onDestroy(p)
  BY <1>1, LifeCycleType
<1>2. CASE questViewClick \/ startAsrTransform \/ dismissInputDialog \/ onAsrEmpty
             \/ onAsrTranformResult \/ dropQuestion
  BY <1>2, PrepareType
<1>3. CASE sendQuestion
  BY <1>3, SendQuestionType
<1>4. CASE startAnalyzeQuestionResult
  BY <1>4, AnnounceType
<1>5. CASE \E m \in net : anchorHandleMessage(m)
  BY <1>5, AnchorHandleType
<1>6. CASE \E v \in Viewers, m \in net : \/ viewerHandleQuestion(v, m)
                                         \/ viewerHandleStat(v, m)
                                         \/ viewerIgnoreAnswer(v, m)
  BY <1>6, ViewerHandleType
<1>7. CASE \E v \in Viewers : (\E b \in Buttons : clickAnswer(v, b))
                                \/ dismissQuestion(v)
  BY <1>7, ViewerInputType
<1>8. CASE UNCHANGED vars
  BY <1>8 DEF vars, TypeInvariant, anchorVars, tallyVars, history
<1>9. QED
  BY <1>1, <1>2, <1>3, <1>4, <1>5, <1>6, <1>7, <1>8 DEF Next

\* Type correctness: every reachable state of the quiz has the declared values,
\* and no chat window outgrows MAX_MSG_COUNT.
THEOREM TypeCorrect == Spec => []TypeInvariant
<1>1. Init => TypeInvariant
  BY InitType
<1>2. TypeInvariant /\ [Next]_vars => TypeInvariant'
  BY NextType
<1>3. QED
  BY <1>1, <1>2, PTL DEF Spec
-----------------------------------------------------------------------------
(* The tally is exact.                                                     *)

\* The kinds of messages and answers, for the case analyses below.
LEMMA NetKinds ==
  ASSUME TypeInvariant
  PROVE  /\ \A a \in AnswerLine : a.kind = "answer"
         /\ \A v, q : QuestionTo(v, q).body.kind = "question"
         /\ \A v, q : QuestionTo(v, q).to = v
         /\ \A v, q : QuestionTo(v, q).body.q = q
BY DEF AnswerLine, QuestionTo

LEMMA InitTally == Init => TallyInvariant
<1> SUFFICES ASSUME Init
             PROVE  TallyInvariant
  OBVIOUS
<1>1. Answers = {}
  BY DEF Init, Answers
<1>2. \A v \in Viewers : dialogs[v] = << >>
  BY DEF Init
<1>3. checkDialogs = << >> /\ net = {} /\ tallied = {}
  BY DEF Init
<1>4. DialogsDistinct /\ QuestionLeftAnchor /\ QuestionMovesOn
  BY <1>1, <1>2, <1>3, EmptyStack
     DEF DialogsDistinct, QuestionLeftAnchor, QuestionMovesOn
<1>5. AnswersDistinct
  BY <1>1, <1>3 DEF AnswersDistinct
<1>6. IsFiniteSet(tallied) /\ TallyIsExact
  <2>1. {a \in tallied : a.choice = "yes"} = {} /\ {a \in tallied : a.choice = "no"} = {}
    BY <1>3
  <2>2. QED
    BY <1>3, <2>1, FS_EmptySet DEF TallyIsExact, Init
<1>7. QED
  BY <1>4, <1>5, <1>6 DEF TallyInvariant

\* Steps that count nothing, send at most statistics, and open no dialog.
LEMMA QuietStep ==
  ASSUME TypeInvariant, TallyInvariant,
         \A m \in net' : m \in net \/ m.body.kind = "stat",
         recognised' = recognised,
         UNCHANGED <<tallied, mYesNum, mNoNum>>,
         IsInjective(checkDialogs'),
         ToSet(checkDialogs') \subseteq ToSet(checkDialogs),
         \A v \in Viewers : /\ IsInjective(dialogs'[v])
                            /\ ToSet(dialogs'[v]) \subseteq ToSet(dialogs[v])
  PROVE  TallyInvariant'
<1>1. Answers' \subseteq Answers
  BY NetKinds DEF Answers
<1>2. \A v, q : QuestionTo(v, q) \in net' => QuestionTo(v, q) \in net
  BY NetKinds DEF QuestionTo
<1>3. DialogsDistinct'
  BY DEF DialogsDistinct
<1>4. QuestionLeftAnchor'
  BY <1>1, <1>2 DEF QuestionLeftAnchor, TallyInvariant
<1>5. QuestionMovesOn'
  BY <1>1, <1>2 DEF QuestionMovesOn, TallyInvariant
<1>6. AnswersDistinct'
  <2>1. \A m \in net' : m.to = Anchor => m.body \notin tallied'
    <3>1. \A a \in tallied : a.kind # "stat"
      BY NetKinds DEF TypeInvariant
    <3>2. QED
      BY <3>1 DEF AnswersDistinct, TallyInvariant
  <2>2. QED
    BY <1>1, <2>1 DEF AnswersDistinct, TallyInvariant
<1>7. IsFiniteSet(tallied') /\ TallyIsExact'
  BY DEF TallyInvariant, TallyIsExact
<1>8. QED
  BY <1>3, <1>4, <1>5, <1>6, <1>7 DEF TallyInvariant

\* Closing the dialog on top, of the anchor or of a viewer.
LEMMA StacksOf ==
  ASSUME TypeInvariant, TallyInvariant
  PROVE  /\ IsInjective(checkDialogs)
         /\ \A v \in Viewers : IsInjective(dialogs[v])
BY DEF TallyInvariant, DialogsDistinct

LEMMA LifeCycleTally ==
  ASSUME TypeInvariant, TallyInvariant, NEW p \in Participants,
         JoinRoom(p) \/ finish(p) \/ onDestroy(p)
  PROVE  TallyInvariant'
<1>1. CASE JoinRoom(p) \/ finish(p)
  <2>1. UNCHANGED <<net, recognised, tallied, mYesNum, mNoNum, checkDialogs, dialogs>>
    BY <1>1 DEF JoinRoom, finish, anchorVars, tallyVars, history
  <2>2. QED
    BY <2>1, StacksOf, QuietStep
<1>2. CASE onDestroy(p)
  <2>1. UNCHANGED <<net, recognised, tallied, mYesNum, mNoNum>>
    BY <1>2 DEF onDestroy, history
  <2>2. checkDialogs' = checkDialogs \/ checkDialogs' = << >>
    BY <1>2 DEF onDestroy
  <2>3. \A v \in Viewers : dialogs'[v] = dialogs[v] \/ dialogs'[v] = << >>
    BY <1>2 DEF onDestroy, TypeInvariant
  <2>4. QED
    BY <2>1, <2>2, <2>3, StacksOf, EmptyStack, QuietStep
<1>3. QED
  BY <1>1, <1>2

LEMMA PrepareTally ==
  ASSUME TypeInvariant, TallyInvariant,
         questViewClick \/ startAsrTransform \/ dismissInputDialog \/ onAsrEmpty
           \/ dropQuestion
  PROVE  TallyInvariant'
<1>1. UNCHANGED <<net, recognised, tallied, mYesNum, mNoNum, dialogs>>
  BY DEF questViewClick, startAsrTransform, dismissInputDialog, onAsrEmpty,
         dropQuestion, tallyVars, history
<1>2. /\ IsInjective(checkDialogs')
      /\ ToSet(checkDialogs') \subseteq ToSet(checkDialogs)
  <2>1. CASE UNCHANGED checkDialogs
    BY <2>1, StacksOf
  <2>2. CASE dropQuestion
    <3>1. checkDialogs # << >> /\ checkDialogs' = Front(checkDialogs)
      BY <2>2 DEF dropQuestion
    <3>2. checkDialogs \in Seq(Questions)
      BY DEF TypeInvariant
    <3>3. QED
      BY <3>1, <3>2, StacksOf, PopOffStack
  <2>3. QED
    BY <2>1, <2>2
       DEF questViewClick, startAsrTransform, dismissInputDialog, onAsrEmpty
<1>3. QED
  BY <1>1, <1>2, StacksOf, QuietStep

\* A recognition result gets a rank that nothing carries yet.
LEMMA RecogniseTally ==
  ASSUME TypeInvariant, TallyInvariant, onAsrTranformResult
  PROVE  TallyInvariant'
<1> DEFINE q == recognised + 1
<1>1. /\ UNCHANGED <<net, tallied, mYesNum, mNoNum, dialogs>>
      /\ recognised' = q
  BY DEF onAsrTranformResult, tallyVars, history
<1>2. recognised \in Nat /\ MaxQuestions \in Nat /\ q \in Questions
  BY BoundsAssumption DEF TypeInvariant, onAsrTranformResult, Questions
<1>3. \A r \in Questions : r \in Nat
  BY BoundsAssumption DEF Questions
<1>4. checkDialogs \in Seq(Questions) /\ ToSet(checkDialogs) \subseteq Questions
  BY ElementOfSeq, LenProperties DEF TypeInvariant, ToSet
<1>5. q \notin ToSet(checkDialogs)
  BY <1>2, <1>3, <1>4 DEF TallyInvariant, QuestionLeftAnchor
<1>6. checkDialogs' = checkDialogs \/ checkDialogs' = Append(checkDialogs, q)
  BY DEF onAsrTranformResult
<1>7. /\ IsInjective(checkDialogs')
      /\ ToSet(checkDialogs') \subseteq ToSet(checkDialogs) \cup {q}
  <2>1. /\ ToSet(Append(checkDialogs, q)) = ToSet(checkDialogs) \cup {q}
        /\ IsInjective(Append(checkDialogs, q))
    <3> HIDE DEF q
    <3>1. QED
      BY <1>2, <1>4, <1>5, StacksOf, PushOnStack
  <2>2. QED
    BY <1>6, <2>1, StacksOf
<1>8. Answers' = Answers
  BY <1>1 DEF Answers
<1>9. DialogsDistinct'
  BY <1>1, <1>7, StacksOf DEF DialogsDistinct
<1>10. QuestionLeftAnchor'
  <2>1. \A r \in ToSet(checkDialogs') : r <= q
    BY <1>2, <1>3, <1>4, <1>7 DEF TallyInvariant, QuestionLeftAnchor
  <2>2. \A r \in Questions : r <= recognised => r <= q /\ r # q
    BY <1>2, <1>3
  <2>3. QED
    BY <1>1, <1>7, <1>8, <2>1, <2>2 DEF TallyInvariant, QuestionLeftAnchor
<1>11. QuestionMovesOn' /\ AnswersDistinct'
  BY <1>1, <1>8 DEF TallyInvariant, QuestionMovesOn, AnswersDistinct
<1>12. IsFiniteSet(tallied') /\ TallyIsExact'
  BY <1>1 DEF TallyInvariant, TallyIsExact
<1>13. QED
  BY <1>9, <1>10, <1>11, <1>12 DEF TallyInvariant

\* Sending takes a question out of the check dialogs into the channel.
LEMMA SendQuestionTally ==
  ASSUME TypeInvariant, TallyInvariant, sendQuestion
  PROVE  TallyInvariant'
<1> DEFINE q == Last(checkDialogs)
           l == [kind |-> "question", q |-> q]
<1>1. /\ UNCHANGED <<recognised, dialogs>>
      /\ checkDialogs # << >> /\ checkDialogs' = Front(checkDialogs)
      /\ tallied' = {} /\ mYesNum' = 0 /\ mNoNum' = 0
      /\ Broadcast(Anchor, l)
  BY DEF sendQuestion, sendMsg
<1>2. checkDialogs \in Seq(Questions)
  BY DEF TypeInvariant
<1>3. /\ ToSet(checkDialogs') \subseteq ToSet(checkDialogs)
      /\ q \in ToSet(checkDialogs) /\ q \notin ToSet(checkDialogs')
      /\ IsInjective(checkDialogs')
      /\ q \in Questions
  BY <1>1, <1>2, StacksOf, PopOffStack, FrontLast
<1>4. q <= recognised
  BY <1>3 DEF TallyInvariant, QuestionLeftAnchor
<1>5. l \in Line /\ Anchor \in Participants
  BY <1>3, LineShapes DEF Participants
<1>6. /\ net \subseteq net'
      /\ \A m \in net' \ net : m.to # Anchor /\ m.body = l
  BY <1>1, <1>5, BroadcastAdds
<1>7. Answers' \subseteq Answers
  BY <1>1, <1>6, NetKinds DEF Answers
<1>8. \A v, r : QuestionTo(v, r) \in net' => QuestionTo(v, r) \in net \/ r = q
  BY <1>6 DEF QuestionTo
<1>9. \A v \in Viewers : q \notin ToSet(dialogs[v]) /\ QuestionTo(v, q) \notin net
  BY <1>3 DEF TallyInvariant, QuestionLeftAnchor
<1>10. \A a \in Answers : a.q # q
  BY <1>3 DEF TallyInvariant, QuestionLeftAnchor
<1>11. DialogsDistinct'
  BY <1>1, <1>3, StacksOf DEF DialogsDistinct
<1>12. QuestionLeftAnchor'
  BY <1>1, <1>3, <1>4, <1>7, <1>8 DEF TallyInvariant, QuestionLeftAnchor
<1>13. QuestionMovesOn'
  <2>1. SUFFICES ASSUME NEW v \in Viewers, NEW r \in Questions
                 PROVE  /\ QuestionTo(v, r) \in net' => r \notin ToSet(dialogs[v])
                        /\ QuestionTo(v, r) \in net' \/ r \in ToSet(dialogs[v])
                             => \A a \in Answers : ~(a.from = v /\ a.q = r)
    BY <1>1, <1>7 DEF QuestionMovesOn
  <2>2. CASE r = q
    BY <1>9, <1>10, <2>2
  <2>3. CASE r # q
    BY <1>8, <2>3 DEF TallyInvariant, QuestionMovesOn
  <2>4. QED
    BY <2>2, <2>3
<1>14. AnswersDistinct'
  BY <1>1, <1>7 DEF TallyInvariant, AnswersDistinct
<1>15. IsFiniteSet(tallied') /\ TallyIsExact'
  <2>1. {a \in {} : a.choice = "yes"} = {} /\ {a \in {} : a.choice = "no"} = {}
    OBVIOUS
  <2>2. QED
    BY <1>1, <2>1, FS_EmptySet DEF TallyIsExact
<1>16. QED
  BY <1>11, <1>12, <1>13, <1>14, <1>15 DEF TallyInvariant

LEMMA AnnounceTally ==
  ASSUME TypeInvariant, TallyInvariant, startAnalyzeQuestionResult
  PROVE  TallyInvariant'
<1> DEFINE l == [kind |-> "stat", q |-> mPreQuestionInfo,
                 yes |-> mYesNum, no |-> mNoNum]
<1>1. /\ UNCHANGED <<recognised, checkDialogs, dialogs, tallied, mYesNum, mNoNum>>
      /\ Broadcast(Anchor, l)
  BY DEF startAnalyzeQuestionResult, sendMsg, anchorVars
<1>2. l \in Line /\ Anchor \in Participants
  BY LineShapes DEF Participants, TypeInvariant
<1>3. \A m \in net' : m \in net \/ m.body.kind = "stat"
  BY <1>1, <1>2, BroadcastAdds
<1>4. QED
  BY <1>1, <1>3, StacksOf, QuietStep

\* Counting an answer: it was not counted before, and the text tells the button.
LEMMA AnchorHandleTally ==
  ASSUME TypeInvariant, TallyInvariant, NEW m \in net, anchorHandleMessage(m)
  PROVE  TallyInvariant'
<1> DEFINE a == m.body
           yes == {b \in tallied : b.choice = "yes"}
           no == {b \in tallied : b.choice = "no"}
<1>1. /\ UNCHANGED <<recognised, checkDialogs, dialogs>>
      /\ net' = net \ {m} /\ tallied' = tallied \cup {a} /\ m.to = Anchor
      /\ IF a.text = RESULT("yes") THEN mYesNum' = mYesNum + 1 /\ mNoNum' = mNoNum
                                   ELSE mNoNum' = mNoNum + 1 /\ mYesNum' = mYesNum
  BY DEF anchorHandleMessage, anchorVars
<1>2. a \in AnswerLine /\ a \in Answers /\ a.choice \in {"yes", "no"}
  BY <1>1 DEF TypeInvariant, AnswerLine, Answers, Buttons
<1>3. a \notin tallied /\ a.text = RESULT(a.choice)
  BY <1>1, <1>2 DEF TallyInvariant, AnswersDistinct
<1>4. Answers' \subseteq Answers
  BY <1>1, <1>2 DEF Answers
<1>5. DialogsDistinct' /\ QuestionLeftAnchor' /\ QuestionMovesOn'
  BY <1>1, <1>4
     DEF TallyInvariant, DialogsDistinct, QuestionLeftAnchor, QuestionMovesOn
<1>6. AnswersDistinct'
  <2>1. ASSUME NEW n \in net', n.to = Anchor
        PROVE  n.body \notin tallied'
    <3>1. n \in net /\ n # m /\ n.body \notin tallied
      BY <1>1, <2>1 DEF TallyInvariant, AnswersDistinct
    <3>2. n = [to |-> n.to, body |-> n.body] /\ m = [to |-> m.to, body |-> m.body]
      BY <3>1 DEF TypeInvariant, Message
    <3>3. n.body # a
      BY <1>1, <2>1, <3>1, <3>2
    <3>4. QED
      BY <1>1, <3>1, <3>3
  <2>2. QED
    BY <1>4, <2>1 DEF TallyInvariant, AnswersDistinct
<1>7. IsFiniteSet(tallied) /\ IsFiniteSet(tallied')
  BY <1>1, FS_AddElement DEF TallyInvariant
<1>8. IsFiniteSet(yes) /\ IsFiniteSet(no) /\ a \notin yes /\ a \notin no
  BY <1>3, <1>7, FS_Subset
<1>9. /\ Cardinality(yes \cup {a}) = Cardinality(yes) + 1
      /\ Cardinality(no \cup {a}) = Cardinality(no) + 1
  BY <1>8, FS_AddElement
<1>10. mYesNum = Cardinality(yes) /\ mNoNum = Cardinality(no)
  BY DEF TallyInvariant, TallyIsExact
<1>11. TallyIsExact'
  <2>1. CASE a.choice = "yes"
    <3>1. /\ {b \in tallied' : b.choice = "yes"} = yes \cup {a}
          /\ {b \in tallied' : b.choice = "no"} = no
      BY <1>1, <2>1
    <3>2. mYesNum' = mYesNum + 1 /\ mNoNum' = mNoNum
      BY <1>1, <1>3, <2>1
    <3>3. QED
      BY <1>9, <1>10, <3>1, <3>2 DEF TallyIsExact
  <2>2. CASE a.choice = "no"
    <3>1. /\ {b \in tallied' : b.choice = "yes"} = yes
          /\ {b \in tallied' : b.choice = "no"} = no \cup {a}
      BY <1>1, <2>2
    <3>2. mYesNum' = mYesNum /\ mNoNum' = mNoNum + 1
      BY <1>1, <1>3, <2>2 DEF RESULT
    <3>3. QED
      BY <1>9, <1>10, <3>1, <3>2 DEF TallyIsExact
  <2>3. QED
    BY <1>2, <2>1, <2>2
<1>12. QED
  BY <1>5, <1>6, <1>7, <1>11 DEF TallyInvariant

\* Showing a question moves it from the channel onto the screen.
LEMMA ViewerQuestionTally ==
  ASSUME TypeInvariant, TallyInvariant, NEW v \in Viewers, NEW m \in net,
         viewerHandleQuestion(v, m)
  PROVE  TallyInvariant'
<1> DEFINE q == m.body.q
<1>1. /\ UNCHANGED <<recognised, checkDialogs, tallied, mYesNum, mNoNum>>
      /\ net' = net \ {m} /\ m.to = v /\ m.body.kind = "question"
      /\ \/ dialogs' = [dialogs EXCEPT ![v] = Append(@, q)]
         \/ dialogs' = dialogs
  BY DEF viewerHandleQuestion, anchorVars, tallyVars, history
<1>2. q \in Questions /\ m = QuestionTo(v, q)
  <2>1. m = [to |-> m.to, body |-> m.body] /\ m.body \in Line
    BY DEF TypeInvariant, Message
  <2>2. m.body \in QuestionLine
    BY <1>1, <2>1, LineKinds
  <2>3. m.body = [kind |-> "question", q |-> q] /\ q \in Questions
    BY <2>2 DEF QuestionLine
  <2>4. QED
    BY <1>1, <2>1, <2>3 DEF QuestionTo
<1>3. CASE dialogs' = dialogs
  <2>1. \A n \in net' : n \in net \/ n.body.kind = "stat"
    BY <1>1
  <2>2. QED
    BY <1>1, <1>3, <2>1, StacksOf, QuietStep
<1>4. CASE dialogs' = [dialogs EXCEPT ![v] = Append(@, q)]
  <2>1. /\ dialogs \in [Viewers -> Seq(Questions)]
        /\ dialogs[v] \in Seq(Questions)
    BY DEF TypeInvariant
  <2>2. q \notin ToSet(dialogs[v])
    BY <1>2 DEF TallyInvariant, QuestionMovesOn
  <2> DEFINE s == dialogs[v]
  <2>3. /\ ToSet(Append(s, q)) = ToSet(s) \cup {q}
        /\ IsInjective(Append(s, q))
    <3>1. s \in Seq(Questions) /\ IsInjective(s) /\ q \notin ToSet(s)
      BY <2>1, <2>2, StacksOf
    <3> HIDE DEF q, s
    <3>2. QED
      BY <1>2, <3>1, PushOnStack
  <2>4. \A w \in Viewers :
          dialogs'[w] = IF w = v THEN Append(s, q) ELSE dialogs[w]
    BY <1>4, <2>1
  <2>5. Answers' \subseteq Answers
    BY <1>1 DEF Answers
  <2>6. \A w, r : QuestionTo(w, r) \in net' =>
                    QuestionTo(w, r) \in net /\ ~(w = v /\ r = q)
    BY <1>1, <1>2
  <2>7. \A w \in Viewers : \A r : r \in ToSet(dialogs'[w]) =>
                    r \in ToSet(dialogs[w]) \/ (w = v /\ r = q)
    BY <2>3, <2>4
  <2>8. DialogsDistinct'
    BY <1>1, <2>3, <2>4, StacksOf DEF DialogsDistinct
  <2>9. QuestionLeftAnchor'
    BY <1>1, <1>2, <2>5, <2>6, <2>7 DEF TallyInvariant, QuestionLeftAnchor
  <2>10. QuestionMovesOn'
    <3>1. SUFFICES ASSUME NEW w \in Viewers, NEW r \in Questions
                   PROVE  /\ QuestionTo(w, r) \in net' => r \notin ToSet(dialogs'[w])
                          /\ QuestionTo(w, r) \in net' \/ r \in ToSet(dialogs'[w])
                               => \A a \in Answers : ~(a.from = w /\ a.q = r)
      BY <2>5 DEF QuestionMovesOn
    <3>2. CASE w = v /\ r = q
      BY <1>2, <2>6, <3>2 DEF TallyInvariant, QuestionMovesOn
    <3>3. CASE ~(w = v /\ r = q)
      BY <2>6, <2>7, <3>3 DEF TallyInvariant, QuestionMovesOn
    <3>4. QED
      BY <3>2, <3>3
  <2>11. AnswersDistinct'
    BY <1>1, <2>5 DEF TallyInvariant, AnswersDistinct
  <2>12. IsFiniteSet(tallied') /\ TallyIsExact'
    BY <1>1 DEF TallyInvariant, TallyIsExact
  <2>13. QED
    BY <2>8, <2>9, <2>10, <2>11, <2>12 DEF TallyInvariant
<1>5. QED
  BY <1>1, <1>3, <1>4

LEMMA ViewerOtherTally ==
  ASSUME TypeInvariant, TallyInvariant, NEW v \in Viewers, NEW m \in net,
         viewerHandleStat(v, m) \/ viewerIgnoreAnswer(v, m)
  PROVE  TallyInvariant'
<1>1. /\ UNCHANGED <<recognised, checkDialogs, dialogs, tallied, mYesNum, mNoNum>>
      /\ net' = net \ {m}
  BY DEF viewerHandleStat, viewerIgnoreAnswer, anchorVars, tallyVars, history
<1>2. \A n \in net' : n \in net \/ n.body.kind = "stat"
  BY <1>1
<1>3. QED
  BY <1>1, <1>2, StacksOf, QuietStep

LEMMA DismissTally ==
  ASSUME TypeInvariant, TallyInvariant, NEW v \in Viewers, dismissQuestion(v)
  PROVE  TallyInvariant'
<1>1. /\ UNCHANGED <<net, recognised, checkDialogs, tallied, mYesNum, mNoNum>>
      /\ dialogs[v] # << >>
      /\ dialogs' = [dialogs EXCEPT ![v] = Front(dialogs[v])]
  BY DEF dismissQuestion, anchorVars, tallyVars, history
<1>2. /\ dialogs \in [Viewers -> Seq(Questions)]
      /\ dialogs[v] \in Seq(Questions)
  BY DEF TypeInvariant
<1>3. /\ IsInjective(Front(dialogs[v]))
      /\ ToSet(Front(dialogs[v])) \subseteq ToSet(dialogs[v])
  BY <1>1, <1>2, StacksOf, PopOffStack
<1>4. \A w \in Viewers : /\ IsInjective(dialogs'[w])
                         /\ ToSet(dialogs'[w]) \subseteq ToSet(dialogs[w])
  BY <1>1, <1>2, <1>3, StacksOf
<1>5. QED
  BY <1>1, <1>4, StacksOf, QuietStep

\* Clicking turns the dialog on top into the viewer's only answer to it.
LEMMA ClickTally ==
  ASSUME TypeInvariant, TallyInvariant, NEW v \in Viewers, NEW b \in Buttons,
         clickAnswer(v, b)
  PROVE  TallyInvariant'
<1> DEFINE q == Last(dialogs[v])
           l == [kind |-> "answer", from |-> v, q |-> q, choice |-> b,
                 text |-> RESULT(b)]
<1>1. /\ UNCHANGED <<recognised, checkDialogs, tallied, mYesNum, mNoNum>>
      /\ dialogs[v] # << >>
      /\ dialogs' = [dialogs EXCEPT ![v] = Front(dialogs[v])]
      /\ Broadcast(v, l)
  BY DEF clickAnswer, sendMsg, anchorVars, tallyVars, history
<1>2. /\ dialogs \in [Viewers -> Seq(Questions)]
      /\ dialogs[v] \in Seq(Questions)
  BY DEF TypeInvariant
<1>3. /\ IsInjective(Front(dialogs[v]))
      /\ ToSet(Front(dialogs[v])) \subseteq ToSet(dialogs[v])
      /\ q \in ToSet(dialogs[v]) /\ q \notin ToSet(Front(dialogs[v]))
      /\ q \in Questions
  BY <1>1, <1>2, StacksOf, PopOffStack, FrontLast
<1>4. \A w \in Viewers :
        dialogs'[w] = IF w = v THEN Front(dialogs[v]) ELSE dialogs[w]
  BY <1>1, <1>2
<1>5. l \in AnswerLine /\ l \in Line /\ v \in Participants
      /\ l.from = v /\ l.q = q /\ l.text = RESULT(l.choice)
  BY <1>3, LineShapes DEF Participants
<1>6. /\ net \subseteq net'
      /\ \A m \in net' \ net : m.to # v /\ m.body = l
  <2> HIDE DEF l
  <2>1. QED
    BY <1>1, <1>5, BroadcastAdds
<1> HIDE DEF l
<1>7. Answers' \subseteq Answers \cup {l}
  BY <1>1, <1>6 DEF Answers
<1>8. \A w, r : QuestionTo(w, r) \in net' => QuestionTo(w, r) \in net
  <2>1. l.kind = "answer"
    BY DEF l
  <2>2. QED
    BY <1>6, <2>1, NetKinds
<1>9. \A a \in Answers : ~(a.from = v /\ a.q = q)
  BY <1>3 DEF TallyInvariant, QuestionMovesOn
<1>10. QuestionTo(v, q) \notin net
  BY <1>3 DEF TallyInvariant, QuestionMovesOn
<1>11. q <= recognised /\ q \notin ToSet(checkDialogs)
  BY <1>3 DEF TallyInvariant, QuestionLeftAnchor
<1>12. DialogsDistinct'
  BY <1>1, <1>3, <1>4, StacksOf DEF DialogsDistinct
<1>13. \A w \in Viewers : /\ ToSet(dialogs'[w]) \subseteq ToSet(dialogs[w])
                          /\ w = v => q \notin ToSet(dialogs'[w])
  BY <1>3, <1>4
<1>14. QuestionLeftAnchor'
  BY <1>1, <1>5, <1>7, <1>8, <1>11, <1>13 DEF TallyInvariant, QuestionLeftAnchor
<1>15. QuestionMovesOn'
  BY <1>5, <1>7, <1>8, <1>10, <1>13 DEF TallyInvariant, QuestionMovesOn
<1>16. AnswersDistinct'
  <2>1. \A a, c \in Answers' : a.from = c.from /\ a.q = c.q => a = c
    BY <1>5, <1>7, <1>9 DEF TallyInvariant, AnswersDistinct
  <2>2. \A a \in Answers' : a.text = RESULT(a.choice)
    BY <1>5, <1>7 DEF TallyInvariant, AnswersDistinct
  <2>3. l \notin tallied
    <3>1. l \in tallied => l \in Answers
      BY <1>5 DEF Answers
    <3>2. QED
      BY <1>5, <1>9, <3>1
  <2>4. \A m \in net' : m.to = Anchor => m.body \notin tallied'
    BY <1>1, <1>6, <2>3 DEF TallyInvariant, AnswersDistinct
  <2>5. QED
    BY <2>1, <2>2, <2>4 DEF AnswersDistinct
<1>17. IsFiniteSet(tallied') /\ TallyIsExact'
  BY <1>1 DEF TallyInvariant, TallyIsExact
<1>18. QED
  BY <1>12, <1>14, <1>15, <1>16, <1>17 DEF TallyInvariant

LEMMA NextTally ==
  ASSUME TypeInvariant, TallyInvariant, [Next]_vars
  PROVE  TallyInvariant'
<1>1. CASE \E p \in Participants : JoinRoom(p) \/ finish(p) \/ onDestroy(p)
  BY <1>1, LifeCycleTally
<1>2. CASE questViewClick \/ startAsrTransform \/ dismissInputDialog \/ onAsrEmpty
             \/ dropQuestion
  BY <1>2, PrepareTally
<1>3. CASE onAsrTranformResult
  BY <1>3, RecogniseTally
<1>4. CASE sendQuestion
  BY <1>4, SendQuestionTally
<1>5. CASE startAnalyzeQuestionResult
  BY <1>5, AnnounceTally
<1>6. CASE \E m \in net : anchorHandleMessage(m)
  BY <1>6, AnchorHandleTally
<1>7. CASE \E v \in Viewers, m \in net : \/ viewerHandleQuestion(v, m)
                                         \/ viewerHandleStat(v, m)
                                         \/ viewerIgnoreAnswer(v, m)
  BY <1>7, ViewerQuestionTally, ViewerOtherTally
<1>8. CASE \E v \in Viewers, b \in Buttons : clickAnswer(v, b)
  BY <1>8, ClickTally
<1>9. CASE \E v \in Viewers : dismissQuestion(v)
  BY <1>9, DismissTally
<1>10. CASE UNCHANGED vars
  <2>1. \A m \in net' : m \in net \/ m.body.kind = "stat"
    BY <1>10 DEF vars
  <2>2. QED
    BY <1>10, <2>1, StacksOf, QuietStep DEF vars, anchorVars, tallyVars, history
<1>11. QED
  BY <1>1, <1>2, <1>3, <1>4, <1>5, <1>6, <1>7, <1>8, <1>9, <1>10 DEF Next

LEMMA TallyHolds == Spec => []TallyInvariant
<1>1. Init => TallyInvariant
  BY InitTally
<1>2. TypeInvariant /\ TallyInvariant /\ [Next]_vars => TallyInvariant'
  BY NextTally
<1>3. QED
  BY <1>1, <1>2, TypeCorrect, PTL DEF Spec

\* The counters the anchor publishes are exactly the answers received since a
\* question was last sent, under the buttons the viewers pressed, however many
\* viewers there are and in whatever order the channel delivers.
THEOREM TallyExact == Spec => []TallyIsExact
<1>1. TallyInvariant => TallyIsExact
  BY DEF TallyInvariant
<1>2. QED
  BY <1>1, TallyHolds, PTL

\* No tally holds two answers of one viewer to one question.
THEOREM OneAnswer == Spec => []OneAnswerPerQuestion
<1>1. TypeInvariant /\ TallyInvariant => OneAnswerPerQuestion
  BY DEF TypeInvariant, TallyInvariant, AnswersDistinct, Answers,
         OneAnswerPerQuestion
<1>2. QED
  BY <1>1, TypeCorrect, TallyHolds, PTL
-----------------------------------------------------------------------------
(* A waiting question has a timer.                                         *)

\* Only the anchor's own steps move its phase.
LEMMA WaitingStep ==
  ASSUME TypeInvariant, WaitingHasTimer, [Next]_vars
  PROVE  WaitingHasTimer'
<1> USE DEF WaitingHasTimer, OnScreen
<1>1. Anchor \in Participants /\ timers \in Nat
  BY DEF Participants, TypeInvariant
<1>2. ASSUME NEW p \in Participants, JoinRoom(p) \/ finish(p)
      PROVE  WaitingHasTimer'
  BY <1>1, <1>2 DEF JoinRoom, finish, tallyVars, TypeInvariant
<1>3. ASSUME NEW p \in Participants, onDestroy(p)
      PROVE  WaitingHasTimer'
  <2>1. CASE p = Anchor
    BY <1>1, <1>3, <2>1 DEF onDestroy, TypeInvariant
  <2>2. CASE p # Anchor
    BY <1>1, <1>3, <2>2 DEF onDestroy, TypeInvariant
  <2>3. QED
    BY <2>1, <2>2
<1>4. CASE questViewClick \/ startAsrTransform \/ dismissInputDialog \/ onAsrEmpty
             \/ dropQuestion
  BY <1>4 DEF questViewClick, startAsrTransform, dismissInputDialog, onAsrEmpty,
              dropQuestion, tallyVars
<1>5. CASE onAsrTranformResult
  BY <1>1, <1>5 DEF onAsrTranformResult, Crash, tallyVars, TypeInvariant
<1>6. CASE sendQuestion
  BY <1>1, <1>6 DEF sendQuestion
<1>7. CASE startAnalyzeQuestionResult
  BY <1>7 DEF startAnalyzeQuestionResult
<1>8. CASE \E m \in net : anchorHandleMessage(m)
  BY <1>8 DEF anchorHandleMessage
<1>9. ASSUME NEW v \in Viewers, NEW m \in net,
             \/ viewerHandleQuestion(v, m)
             \/ viewerHandleStat(v, m)
             \/ viewerIgnoreAnswer(v, m)
      PROVE  WaitingHasTimer'
  <2>1. v # Anchor
    BY AnchorAssumption
  <2>2. phase'[Anchor] = phase[Anchor]
    BY <1>1, <1>9, <2>1 DEF viewerHandleQuestion, viewerHandleStat,
                            viewerIgnoreAnswer, Crash, TypeInvariant
  <2>3. QED
    BY <1>9, <2>2 DEF viewerHandleQuestion, viewerHandleStat, viewerIgnoreAnswer,
                      tallyVars
<1>10. CASE \E v \in Viewers : (\E b \in Buttons : clickAnswer(v, b))
                                 \/ dismissQuestion(v)
  BY <1>10 DEF clickAnswer, dismissQuestion, tallyVars
<1>11. CASE UNCHANGED vars
  BY <1>11 DEF vars, tallyVars
<1>12. QED
  BY <1>2, <1>3, <1>4, <1>5, <1>6, <1>7, <1>8, <1>9, <1>10, <1>11 DEF Next

\* The question entrance is never locked for good while the anchor's activity is
\* there: even with several questions at once a waiting question has a timer.
THEOREM WaitingEnds == Spec => []WaitingHasTimer
<1>1. Init => WaitingHasTimer
  BY DEF Init, WaitingHasTimer
<1>2. TypeInvariant /\ WaitingHasTimer /\ [Next]_vars => WaitingHasTimer'
  BY WaitingStep
<1>3. QED
  BY <1>1, <1>2, TypeCorrect, PTL DEF Spec

-----------------------------------------------------------------------------
(* The ballot is secret.                                                   *)

\* A line that is not another participant's answer may be shown.
LEMMA ShowKeepsSecret ==
  ASSUME TypeInvariant, BallotIsSecret, NEW p \in Participants, NEW l \in Line,
         l.kind = "answer" => l.from = p, Show(p, l)
  PROVE  BallotIsSecret'
<1> DEFINE new == AddMessage(window[p], l, MaxMsgCount)
<1>1. /\ window \in [Participants -> Seq(Line)]
      /\ window[p] \in Seq(Line) /\ MaxMsgCount \in Nat \ {0}
  BY BoundsAssumption DEF TypeInvariant
<1>2. \A r \in Participants : window'[r] = IF r = p THEN new ELSE window[r]
  BY <1>1 DEF Show
<1>3. SUFFICES ASSUME NEW r \in Participants, NEW i \in DOMAIN window'[r],
                      window'[r][i].kind = "answer"
               PROVE  window'[r][i].from = r
  BY DEF BallotIsSecret
<1>4. CASE r # p
  BY <1>2, <1>3, <1>4 DEF BallotIsSecret
<1>5. CASE r = p
  <2> DEFINE old == window[p]
  <2>1. old \in Seq(Line) /\ DOMAIN old = 1..Len(old)
    BY <1>1, LenProperties
  <2>2. AddMessage(old, l, MaxMsgCount) \in Seq(Line)
    <3> HIDE DEF old
    <3>1. QED
      BY <1>1, <2>1, AddMessageProperties
  <2>3. i \in 1..Len(AddMessage(old, l, MaxMsgCount))
    BY <1>2, <1>5, <2>2, LenProperties
  <2>4. \/ AddMessage(old, l, MaxMsgCount)[i] = l
        \/ \E j \in 1..Len(old) : AddMessage(old, l, MaxMsgCount)[i] = old[j]
    <3> HIDE DEF old
    <3>1. QED
      BY <1>1, <2>1, <2>3, AddMessageKeeps
  <2>5. window'[r][i] = l \/ \E j \in DOMAIN window[p] : window'[r][i] = window[p][j]
    BY <1>2, <1>5, <2>1, <2>4
  <2>6. QED
    BY <1>3, <1>5, <2>5 DEF BallotIsSecret
<1>6. QED
  BY <1>4, <1>5

LEMMA SecretStep ==
  ASSUME TypeInvariant, BallotIsSecret, [Next]_vars
  PROVE  BallotIsSecret'
<1>1. CASE UNCHANGED window
  BY <1>1 DEF BallotIsSecret
<1>2. CASE sendQuestion
  <2> DEFINE l == [kind |-> "question", q |-> Last(checkDialogs)]
  <2>1. l \in Line /\ Anchor \in Participants /\ l.kind # "answer"
    BY <1>2, LineShapes, FrontLast DEF sendQuestion, TypeInvariant, Participants
  <2>2. Show(Anchor, l)
    BY <1>2 DEF sendQuestion, sendMsg
  <2> HIDE DEF l
  <2>3. QED
    BY <2>1, <2>2, ShowKeepsSecret
<1>3. CASE startAnalyzeQuestionResult
  <2> DEFINE l == [kind |-> "stat", q |-> mPreQuestionInfo,
                   yes |-> mYesNum, no |-> mNoNum]
  <2>1. l \in Line /\ Anchor \in Participants /\ l.kind # "answer"
    BY LineShapes DEF TypeInvariant, Participants
  <2>2. Show(Anchor, l)
    BY <1>3 DEF startAnalyzeQuestionResult, sendMsg
  <2> HIDE DEF l
  <2>3. QED
    BY <2>1, <2>2, ShowKeepsSecret
<1>4. ASSUME NEW v \in Viewers, NEW m \in net,
             viewerHandleQuestion(v, m) \/ viewerHandleStat(v, m)
      PROVE  BallotIsSecret'
  <2>1. m.body \in Line /\ v \in Participants
    BY DEF TypeInvariant, Message, Participants
  <2>2. m.body.kind # "answer" /\ (Show(v, m.body) \/ UNCHANGED window)
    BY <1>4 DEF viewerHandleQuestion, viewerHandleStat
  <2>3. QED
    BY <1>1, <2>1, <2>2, ShowKeepsSecret
<1>5. ASSUME NEW v \in Viewers, NEW b \in Buttons, clickAnswer(v, b)
      PROVE  BallotIsSecret'
  <2> DEFINE l == [kind |-> "answer", from |-> v, q |-> Last(dialogs[v]),
                   choice |-> b, text |-> RESULT(b)]
  <2>1. Last(dialogs[v]) \in Questions
    BY <1>5, FrontLast DEF clickAnswer, TypeInvariant
  <2>2. l \in Line /\ v \in Participants /\ l.from = v
    BY <2>1, LineShapes DEF Participants
  <2>3. Show(v, l)
    BY <1>5 DEF clickAnswer, sendMsg
  <2> HIDE DEF l
  <2>4. QED
    BY <2>2, <2>3, ShowKeepsSecret
<1>6. CASE UNCHANGED vars
  BY <1>1, <1>6 DEF vars
<1>7. ASSUME NEW p \in Participants, JoinRoom(p) \/ finish(p) \/ onDestroy(p)
      PROVE  BallotIsSecret'
  BY <1>1, <1>7 DEF JoinRoom, finish, onDestroy
<1>8. CASE questViewClick \/ startAsrTransform \/ dismissInputDialog \/ onAsrEmpty
             \/ onAsrTranformResult \/ dropQuestion
  BY <1>1, <1>8 DEF questViewClick, startAsrTransform, dismissInputDialog,
                    onAsrEmpty, onAsrTranformResult, dropQuestion
<1>9. ASSUME NEW m \in net, anchorHandleMessage(m)
      PROVE  BallotIsSecret'
  BY <1>1, <1>9 DEF anchorHandleMessage
<1>10. ASSUME NEW v \in Viewers, NEW m \in net, viewerIgnoreAnswer(v, m)
       PROVE  BallotIsSecret'
  BY <1>1, <1>10 DEF viewerIgnoreAnswer
<1>11. ASSUME NEW v \in Viewers, dismissQuestion(v)
       PROVE  BallotIsSecret'
  BY <1>1, <1>11 DEF dismissQuestion
<1>12. CASE Next
  <2>1. CASE \E p \in Participants : JoinRoom(p) \/ finish(p) \/ onDestroy(p)
    BY <1>7, <2>1
  <2>2. CASE \E m \in net : anchorHandleMessage(m)
    BY <1>9, <2>2
  <2>3. CASE \E v \in Viewers, m \in net : \/ viewerHandleQuestion(v, m)
                                           \/ viewerHandleStat(v, m)
                                           \/ viewerIgnoreAnswer(v, m)
    BY <1>4, <1>10, <2>3
  <2>4. CASE \E v \in Viewers, b \in Buttons : clickAnswer(v, b)
    BY <1>5, <2>4
  <2>5. CASE \E v \in Viewers : dismissQuestion(v)
    BY <1>11, <2>5
  <2>6. QED
    BY <1>2, <1>3, <1>8, <1>12, <2>1, <2>2, <2>3, <2>4, <2>5 DEF Next
<1>13. QED
  BY <1>6, <1>12

\* No participant ever sees another viewer's answer in the chat window.
THEOREM BallotSecret == Spec => []BallotIsSecret
<1>1. Init => BallotIsSecret
  BY DEF Init, BallotIsSecret
<1>2. TypeInvariant /\ BallotIsSecret /\ [Next]_vars => BallotIsSecret'
  BY SecretStep
<1>3. QED
  BY <1>1, <1>2, TypeCorrect, PTL DEF Spec
-----------------------------------------------------------------------------
(* The ballots.                                                            *)

OpenBallots == {b \in Viewers \X Questions : IsOpen(b[1], b[2])}
CastVotes   == {m.body : m \in {n \in net : n.to = Anchor}}

LEMMA BallotsLost ==
  ASSUME \A v \in Viewers, q \in Questions : IsOpen(v, q)' => IsOpen(v, q),
         \A m \in net' : m.to = Anchor => m \in net,
         tallied' \subseteq tallied
  PROVE  B!BNext
<1>1. OpenBallots' \subseteq OpenBallots
  BY DEF OpenBallots
<1>2. CastVotes' \subseteq CastVotes
  BY DEF CastVotes
<1>3. B!Lose
  BY <1>1, <1>2 DEF B!Lose, OpenBallots, CastVotes
<1>4. QED
  BY <1>3 DEF B!BNext

\* Steps that recognise nothing, send no question and no answer, and open no dialog.
LEMMA QuietBallots ==
  ASSUME \A m \in net' : m \in net \/ (m.to # Anchor /\ m.body.kind = "stat"),
         UNCHANGED recognised, tallied' \subseteq tallied,
         ToSet(checkDialogs') \subseteq ToSet(checkDialogs),
         \A v \in Viewers : ToSet(dialogs'[v]) \subseteq ToSet(dialogs[v])
  PROVE  B!BNext
<1>1. \A v, q : QuestionTo(v, q) \in net' => QuestionTo(v, q) \in net
  BY DEF QuestionTo
<1>2. \A v \in Viewers, q \in Questions : IsOpen(v, q)' => IsOpen(v, q)
  BY <1>1 DEF IsOpen
<1>3. QED
  BY <1>2, BallotsLost

\* Closing the dialog on top, or all of them.
LEMMA LifeBallots ==
  ASSUME TypeInvariant, NEW p \in Participants,
         JoinRoom(p) \/ finish(p) \/ onDestroy(p)
  PROVE  B!BNext
<1>1. UNCHANGED <<net, recognised, tallied>>
  BY DEF JoinRoom, finish, onDestroy, anchorVars, history
<1>2. checkDialogs' = checkDialogs \/ checkDialogs' = << >>
  BY DEF JoinRoom, finish, onDestroy, anchorVars
<1>3. \A v \in Viewers : dialogs'[v] = dialogs[v] \/ dialogs'[v] = << >>
  BY DEF JoinRoom, finish, onDestroy, TypeInvariant
<1>4. QED
  BY <1>1, <1>2, <1>3, EmptyStack, QuietBallots

LEMMA PrepareBallots ==
  ASSUME TypeInvariant,
         questViewClick \/ startAsrTransform \/ dismissInputDialog \/ onAsrEmpty
           \/ dropQuestion
  PROVE  B!BNext
<1>1. UNCHANGED <<net, recognised, tallied, dialogs>>
  BY DEF questViewClick, startAsrTransform, dismissInputDialog, onAsrEmpty,
         dropQuestion, tallyVars, history
<1>2. ToSet(checkDialogs') \subseteq ToSet(checkDialogs)
  <2>1. CASE UNCHANGED checkDialogs
    BY <2>1
  <2>2. CASE dropQuestion
    <3>1. checkDialogs # << >> /\ checkDialogs' = Front(checkDialogs)
      BY <2>2 DEF dropQuestion
    <3>2. QED
      BY <3>1, PopOffStack DEF TypeInvariant
  <2>3. QED
    BY <2>1, <2>2
       DEF questViewClick, startAsrTransform, dismissInputDialog, onAsrEmpty
<1>3. QED
  BY <1>1, <1>2, QuietBallots

\* The rank of a text that comes was beyond those recognised.
LEMMA RecogniseBallots ==
  ASSUME TypeInvariant, onAsrTranformResult
  PROVE  B!BNext
<1>1. PICK k \in Questions : k = recognised + 1
  BY BoundsAssumption DEF TypeInvariant, onAsrTranformResult, Questions
<1>2. /\ UNCHANGED <<net, tallied, dialogs>> /\ recognised' = k
      /\ recognised \in Nat /\ MaxQuestions \in Nat
  BY <1>1, BoundsAssumption DEF TypeInvariant, onAsrTranformResult, tallyVars, history
<1>3. ToSet(checkDialogs') \subseteq ToSet(checkDialogs) \cup {k}
  <2>1. ToSet(Append(checkDialogs, k)) = ToSet(checkDialogs) \cup {k}
    BY PushOnStack DEF TypeInvariant
  <2>2. checkDialogs' = checkDialogs \/ checkDialogs' = Append(checkDialogs, k)
    BY <1>1 DEF onAsrTranformResult
  <2>3. QED
    BY <2>1, <2>2
<1>4. \A v \in Viewers, q \in Questions : IsOpen(v, q)' => IsOpen(v, q)
  <2>1. \A q \in Questions : q > recognised' => q > recognised
    BY <1>1, <1>2 DEF Questions
  <2>2. k > recognised
    BY <1>1, <1>2
  <2>3. \A v, q : QuestionTo(v, q) \in net' => QuestionTo(v, q) \in net
    BY <1>2
  <2>4. QED
    BY <1>2, <1>3, <2>1, <2>2, <2>3 DEF IsOpen
<1>5. QED
  BY <1>2, <1>4, BallotsLost

\* The question sent was in a check dialog, and open; the tally is thrown away.
LEMMA SendBallots ==
  ASSUME TypeInvariant, sendQuestion
  PROVE  B!BNext
<1>1. checkDialogs \in Seq(Questions) /\ checkDialogs # << >>
  BY DEF sendQuestion, TypeInvariant
<1>2. PICK k \in Questions : k = Last(checkDialogs)
  BY <1>1, FrontLast
<1>3. PICK l \in Line : l = [kind |-> "question", q |-> k]
  BY LineShapes
<1>4. /\ net \subseteq net'
      /\ \A m \in net' \ net : m.to # Anchor /\ m.body = l
  BY <1>2, <1>3, BroadcastAdds DEF sendQuestion, sendMsg, Participants
<1>5. /\ UNCHANGED <<recognised, dialogs>> /\ tallied' = {}
      /\ ToSet(checkDialogs') \subseteq ToSet(checkDialogs)
      /\ k \in ToSet(checkDialogs)
  BY <1>1, <1>2, PopOffStack DEF sendQuestion
<1>6. \A v, q : QuestionTo(v, q) \in net' => QuestionTo(v, q) \in net \/ q = k
  BY <1>3, <1>4 DEF QuestionTo
<1>7. \A v \in Viewers, q \in Questions : IsOpen(v, q)' => IsOpen(v, q)
  BY <1>5, <1>6 DEF IsOpen
<1>8. QED
  BY <1>4, <1>5, <1>7, BallotsLost

LEMMA AnnounceBallots ==
  ASSUME TypeInvariant, startAnalyzeQuestionResult
  PROVE  B!BNext
<1>1. PICK l \in Line : l = [kind |-> "stat", q |-> mPreQuestionInfo,
                             yes |-> mYesNum, no |-> mNoNum]
  BY LineShapes DEF TypeInvariant
<1>2. \A m \in net' : m \in net \/ (m.to # Anchor /\ m.body.kind = "stat")
  <2>1. Broadcast(Anchor, l) /\ Anchor \in Participants
    BY <1>1 DEF startAnalyzeQuestionResult, sendMsg, Participants
  <2>2. l.kind = "stat"
    BY <1>1
  <2>3. QED
    BY <2>1, <2>2, BroadcastAdds
<1>3. UNCHANGED <<recognised, checkDialogs, dialogs, tallied>>
  BY DEF startAnalyzeQuestionResult, anchorVars
<1>4. QED
  BY <1>2, <1>3, QuietBallots

\* The anchor counts a vote that is on its way, and takes it off it.
LEMMA AnchorBallots ==
  ASSUME TypeInvariant, NEW m \in net, anchorHandleMessage(m)
  PROVE  B!BNext
<1>1. PICK a \in AnswerLine : a = m.body
  BY DEF anchorHandleMessage, TypeInvariant
<1>2. /\ m.to = Anchor /\ net' = net \ {m} /\ tallied' = tallied \cup {a}
      /\ UNCHANGED <<recognised, checkDialogs, dialogs>>
  BY <1>1 DEF anchorHandleMessage, anchorVars
<1>3. a \in CastVotes
  BY <1>1, <1>2 DEF CastVotes
<1>4. \A n \in net' : n.to = Anchor => n.body # a
  <2>1. SUFFICES ASSUME NEW n \in net', n.to = Anchor, n.body = a
                 PROVE  FALSE
    OBVIOUS
  <2>2. n = [to |-> n.to, body |-> n.body] /\ m = [to |-> m.to, body |-> m.body]
    BY <1>2 DEF TypeInvariant, Message
  <2>3. n = m
    BY <1>1, <1>2, <2>1, <2>2
  <2>4. QED
    BY <1>2, <2>3
<1>5. CastVotes' \subseteq CastVotes \ {a}
  BY <1>2, <1>4 DEF CastVotes
<1>6. OpenBallots' \subseteq OpenBallots
  BY <1>2 DEF OpenBallots, IsOpen
<1>7. B!Count(a)
  BY <1>2, <1>3, <1>5, <1>6 DEF B!Count, OpenBallots, CastVotes
<1>8. QED
  BY <1>7 DEF B!BNext

LEMMA ShowBallots ==
  ASSUME TypeInvariant, NEW v \in Viewers, NEW m \in net,
         \/ viewerHandleQuestion(v, m)
         \/ viewerHandleStat(v, m)
         \/ viewerIgnoreAnswer(v, m)
  PROVE  B!BNext
<1>1. net' = net \ {m} /\ UNCHANGED <<recognised, checkDialogs, tallied>>
  BY DEF viewerHandleQuestion, viewerHandleStat, viewerIgnoreAnswer, anchorVars, history
<1>2. CASE UNCHANGED dialogs
  BY <1>1, <1>2, QuietBallots
<1>3. CASE viewerHandleQuestion(v, m) /\ ~UNCHANGED dialogs
  <2>1. m = [to |-> m.to, body |-> m.body] /\ m.body \in Line
    BY DEF TypeInvariant, Message
  <2>2. m.to = v /\ m.body \in QuestionLine
    BY <1>3, <2>1, LineKinds DEF viewerHandleQuestion
  <2>3. PICK k \in Questions : m = QuestionTo(v, k) /\ m.body.q = k
    BY <2>1, <2>2 DEF QuestionLine, QuestionTo
  <2>4. dialogs' = [dialogs EXCEPT ![v] = Append(@, k)]
    BY <1>3, <2>3 DEF viewerHandleQuestion
  <2>5. \A w \in Viewers : ToSet(dialogs'[w]) \subseteq
                             ToSet(dialogs[w]) \cup (IF w = v THEN {k} ELSE {})
    <3>1. PICK s \in Seq(Questions) : s = dialogs[v]
      BY DEF TypeInvariant
    <3>2. ToSet(Append(s, k)) = ToSet(s) \cup {k}
      BY <3>1, PushOnStack
    <3>3. QED
      BY <2>4, <3>1, <3>2 DEF TypeInvariant
  <2>6. \A w \in Viewers, q \in Questions : IsOpen(w, q)' => IsOpen(w, q)
    <3>1. \A w, q : QuestionTo(w, q) \in net' => QuestionTo(w, q) \in net
      BY <1>1
    <3>2. QED
      BY <1>1, <2>3, <2>5, <3>1 DEF IsOpen
  <2>7. QED
    BY <1>1, <2>6, BallotsLost
<1>4. QED
  BY <1>2, <1>3 DEF viewerHandleStat, viewerIgnoreAnswer

LEMMA DismissBallots ==
  ASSUME TypeInvariant, NEW v \in Viewers, dismissQuestion(v)
  PROVE  B!BNext
<1>1. /\ UNCHANGED <<net, recognised, checkDialogs, tallied>>
      /\ dialogs[v] # << >>
      /\ dialogs' = [dialogs EXCEPT ![v] = Front(dialogs[v])]
  BY DEF dismissQuestion, anchorVars, history
<1>2. \A w \in Viewers : ToSet(dialogs'[w]) \subseteq ToSet(dialogs[w])
  BY <1>1, PopOffStack DEF TypeInvariant
<1>3. QED
  BY <1>1, <1>2, QuietBallots

\* The click casts the vote of the question in the dialog on top, which is neither
\* under way nor in another dialog, and never will be.
LEMMA ClickBallots ==
  ASSUME TypeInvariant, TallyInvariant, NEW v \in Viewers, NEW b \in Buttons,
         clickAnswer(v, b)
  PROVE  B!BNext
<1>1. /\ UNCHANGED <<recognised, checkDialogs, tallied>>
      /\ dialogs[v] # << >>
      /\ dialogs' = [dialogs EXCEPT ![v] = Front(dialogs[v])]
  BY DEF clickAnswer, anchorVars, tallyVars, history
<1>2. dialogs \in [Viewers -> Seq(Questions)] /\ dialogs[v] \in Seq(Questions)
  BY DEF TypeInvariant
<1>3. PICK k \in Questions : k = Last(dialogs[v])
  BY <1>1, <1>2, FrontLast
<1>4. PICK l \in AnswerLine :
        l = [kind |-> "answer", from |-> v, q |-> k, choice |-> b, text |-> RESULT(b)]
  BY LineShapes
<1>5. /\ \A w \in Viewers : ToSet(dialogs'[w]) \subseteq ToSet(dialogs[w])
      /\ k \in ToSet(dialogs[v]) /\ k \notin ToSet(dialogs'[v])
  BY <1>1, <1>2, <1>3, StacksOf, PopOffStack
<1>6. /\ net \subseteq net'
      /\ \A m \in net' \ net : m.to # v /\ m.body = l
  BY <1>3, <1>4, LineShapes, BroadcastAdds DEF clickAnswer, sendMsg, Participants
<1>7. \A w, q : QuestionTo(w, q) \in net' => QuestionTo(w, q) \in net
  <2>1. l.kind = "answer"
    BY <1>4
  <2>2. QED
    BY <1>6, <2>1, NetKinds
<1>8. /\ QuestionTo(v, k) \notin net' /\ k \notin ToSet(checkDialogs')
      /\ ~(k > recognised')
  <2>1. QuestionTo(v, k) \notin net
    BY <1>5 DEF TallyInvariant, QuestionMovesOn
  <2>2. k <= recognised /\ k \notin ToSet(checkDialogs)
    BY <1>5 DEF TallyInvariant, QuestionLeftAnchor
  <2>3. recognised \in Nat /\ k \in Nat
    BY BoundsAssumption DEF TypeInvariant, Questions
  <2>4. QED
    BY <1>1, <1>7, <2>1, <2>2, <2>3
<1>9. ~IsOpen(v, k)'
  BY <1>5, <1>8 DEF IsOpen
<1>10. \A w \in Viewers, q \in Questions :
         IsOpen(w, q)' => IsOpen(w, q) /\ <<w, q>> # <<v, k>>
  BY <1>1, <1>5, <1>7, <1>9 DEF IsOpen
<1>11. B!Cast(l)
  <2>1. <<l.from, l.q>> = <<v, k>>
    BY <1>4
  <2>2. <<v, k>> \in OpenBallots
    BY <1>5 DEF OpenBallots, IsOpen
  <2>3. OpenBallots' \subseteq OpenBallots \ {<<v, k>>}
    BY <1>10 DEF OpenBallots
  <2>4. CastVotes' \subseteq CastVotes \cup {l}
    BY <1>6 DEF CastVotes
  <2>5. QED
    BY <1>1, <2>1, <2>2, <2>3, <2>4 DEF B!Cast, OpenBallots, CastVotes
<1>12. QED
  BY <1>11 DEF B!BNext

LEMMA BallotsStep ==
  ASSUME TypeInvariant, TallyInvariant, [Next]_vars
  PROVE  [B!BNext]_B!bvars
<1>1. CASE UNCHANGED vars
  BY <1>1 DEF vars, anchorVars, history, B!bvars, IsOpen
<1>2. CASE Next
  <2>1. CASE \E p \in Participants : JoinRoom(p) \/ finish(p) \/ onDestroy(p)
    BY <2>1, LifeBallots
  <2>2. CASE questViewClick \/ startAsrTransform \/ dismissInputDialog \/ onAsrEmpty
               \/ dropQuestion
    BY <2>2, PrepareBallots
  <2>3. CASE onAsrTranformResult \/ sendQuestion \/ startAnalyzeQuestionResult
    BY <2>3, RecogniseBallots, SendBallots, AnnounceBallots
  <2>4. CASE \E m \in net : anchorHandleMessage(m)
    BY <2>4, AnchorBallots
  <2>5. CASE \E v \in Viewers, m \in net : \/ viewerHandleQuestion(v, m)
                                           \/ viewerHandleStat(v, m)
                                           \/ viewerIgnoreAnswer(v, m)
    BY <2>5, ShowBallots
  <2>6. CASE \E v \in Viewers, b \in Buttons : clickAnswer(v, b)
    BY <2>6, ClickBallots
  <2>7. CASE \E v \in Viewers : dismissQuestion(v)
    BY <2>7, DismissBallots
  <2>8. QED
    BY <1>2, <2>1, <2>2, <2>3, <2>4, <2>5, <2>6, <2>7 DEF Next
<1>3. QED
  BY <1>1, <1>2

\* Every viewer has one ballot for each question, which is cast and counted once at
\* most and thrown away with its tally, for any number of viewers, of questions and of
\* recognitions at once, however the channel loses and reorders messages.
THEOREM QuizBallots == Spec => ImplementsBallots
<1>1. Init => B!BInit
  <2>1. SUFFICES ASSUME Init PROVE B!BInit
    OBVIOUS
  <2>2. \A v \in Viewers, q \in Questions : IsOpen(v, q)
    BY <2>1 DEF Init, IsOpen, Questions
  <2>3. OpenBallots = Viewers \X Questions
    BY <2>2 DEF OpenBallots
  <2>4. CastVotes = {} /\ tallied = {}
    BY <2>1 DEF Init, CastVotes
  <2>5. QED
    BY <2>3, <2>4 DEF B!BInit, OpenBallots, CastVotes
<1>2. QED
  BY <1>1, BallotsStep, TypeCorrect, TallyHolds, PTL DEF Spec, ImplementsBallots, B!Ballots
=============================================================================
