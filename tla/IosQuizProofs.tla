--------------------------- MODULE IosQuizProofs ---------------------------
(***************************************************************************)
(* Proofs about the iOS quiz, for every audience and every number of       *)
(* questions, recognitions and visits.                                     *)
(***************************************************************************)
EXTENDS IosQuizProps, SequenceTheorems, TLAPS

LEMMA Devices ==
  ASSUME Next
  PROVE  \/ touchesBegan \/ touchesEnded \/ speechFails \/ didReceiveResult
         \/ alertCancel \/ alertOK \/ leave \/ enter
         \/ \E q \in Questions : sendCompletes(q) \/ quizTimer(q)
         \/ \E a \in Answer : didReceiveAnswer(a)
         \/ staleClosure \/ showClosure \/ addClosure
         \/ \E v \in Viewers, q \in Questions : didReceiveQuiz(v, q) \/ alertTimeout(v, q)
         \/ \E v \in Viewers, b \in Buttons : click(v, b)
BY DEF Next, Answer
-----------------------------------------------------------------------------
(* Types.                                                                  *)

\* The closures of the main queue, in order.
LEMMA QueueTypes ==
  ASSUME TypeInvariant, mainQueue # << >>
  PROVE  /\ Head(mainQueue) \in Closure
         /\ Tail(mainQueue) \in Seq(Closure)
         /\ Len(mainQueue) \in Nat \ {0} /\ Len(Tail(mainQueue)) = Len(mainQueue) - 1
         /\ Head(mainQueue) = mainQueue[1]
         /\ \A i \in 1..Len(Tail(mainQueue)) : Tail(mainQueue)[i] = mainQueue[i + 1]
BY DEF TypeInvariant

LEMMA ClosureTypes ==
  ASSUME NEW c \in Closure
  PROVE  /\ c.of \in 1..MaxVisits
         /\ "show" \in DOMAIN c => c.show \in Questions /\ "add" \notin DOMAIN c
         /\ "add" \in DOMAIN c => c.add \in Answer /\ "show" \notin DOMAIN c
<1>1. CASE c \in [show : Questions, of : 1..MaxVisits]
  BY <1>1
<1>2. CASE c \in [add : Answer, of : 1..MaxVisits]
  BY <1>2
<1>3. QED
  BY <1>1, <1>2 DEF Closure

LEMMA TypeStep ==
  ASSUME TypeInvariant, [Next]_vars
  PROVE  TypeInvariant'
<1> USE IosAssumption DEF TypeInvariant, screen, dictation, service, host, list, viewers
<1>1. CASE UNCHANGED vars
  BY <1>1 DEF vars
<1>2. CASE touchesBegan
  BY <1>2 DEF touchesBegan
<1>3. CASE touchesEnded \/ alertCancel \/ leave
  <2>1. CASE touchesEnded
    BY <2>1 DEF touchesEnded
  <2>2. CASE alertCancel
    BY <2>2 DEF alertCancel
  <2>3. CASE leave
    <3>1. net' \subseteq Message
      BY <2>3 DEF leave
    <3>2. {here', listening', isSelected', isAnswering'} \subseteq BOOLEAN
      BY <2>3 DEF leave
    <3>3. QED
      BY <2>3, <3>1, <3>2 DEF leave
  <2>4. QED
    BY <1>3, <2>1, <2>2, <2>3
<1>4. CASE speechFails
  BY <1>4 DEF speechFails
<1>5. CASE didReceiveResult
  BY <1>5 DEF didReceiveResult, Questions
<1>6. CASE alertOK
  <2>1. alert \in Questions /\ [show |-> alert, of |-> visit] \in Closure
    BY <1>6 DEF alertOK, Questions, Closure
  <2>2. mainQueue' \in Seq(Closure)
    BY <1>6, <2>1 DEF alertOK
  <2>3. sending' \subseteq Questions /\ net' \subseteq Message
    BY <1>6, <2>1 DEF alertOK, Message
  <2>4. QED
    BY <1>6, <2>1, <2>2, <2>3 DEF alertOK
<1>7. CASE enter
  BY <1>7 DEF enter
<1>8. CASE \E q \in Questions : sendCompletes(q) \/ quizTimer(q)
  BY <1>8 DEF sendCompletes, quizTimer
<1>9. CASE \E a \in Answer : didReceiveAnswer(a)
  <2>1. PICK a \in Answer : didReceiveAnswer(a)
    BY <1>9
  <2>2. [add |-> a, of |-> visit] \in Closure
    BY DEF Closure
  <2>3. mainQueue' \in Seq(Closure)
    BY <2>1, <2>2 DEF didReceiveAnswer
  <2>4. QED
    BY <2>1, <2>3 DEF didReceiveAnswer
<1>10. CASE staleClosure
  BY <1>10, QueueTypes DEF staleClosure
<1>11. CASE showClosure
  BY <1>11, QueueTypes, ClosureTypes DEF showClosure, Questions
<1>12. CASE addClosure
  <2> DEFINE listed         == Append(answers, Head(mainQueue).add)
             correctAnswers == [i \in DOMAIN listed |-> listed[i].text = "YES"]
  <2>1. Head(mainQueue).add \in Answer /\ mainQueue' \in Seq(Closure)
    BY <1>12, QueueTypes, ClosureTypes DEF addClosure
  <2>2. listed \in Seq(Answer) /\ Len(listed) \in Nat /\ DOMAIN listed = 1..Len(listed)
    BY <2>1
  <2> HIDE DEF listed
  <2>3. Len(correctAnswers) = Len(listed)
    BY <2>2
  <2> HIDE DEF correctAnswers
  <2>4. statistics' = [total |-> Len(listed), yes |-> Len(correctAnswers),
                       no |-> Len(listed) - Len(correctAnswers)]
    BY <1>12 DEF addClosure, listed, correctAnswers
  <2>5. statistics' \in [total : Nat, yes : Nat, no : Nat]
    BY <2>2, <2>3, <2>4
  <2>6. answers' \in Seq(Answer)
    BY <1>12, <2>2 DEF addClosure, listed
  <2>7. QED
    BY <1>12, <2>1, <2>5, <2>6 DEF addClosure
<1>13. CASE \E v \in Viewers, q \in Questions : didReceiveQuiz(v, q)
  BY <1>13 DEF didReceiveQuiz, Questions
<1>14. CASE \E v \in Viewers, q \in Questions : alertTimeout(v, q)
  BY <1>14 DEF alertTimeout
<1>15. CASE \E v \in Viewers, b \in Buttons : click(v, b)
  BY <1>15 DEF click, Message, Answer, Questions
<1>16. QED
  BY <1>1, <1>2, <1>3, <1>4, <1>5, <1>6, <1>7, <1>8, <1>9, <1>10, <1>11, <1>12, <1>13, <1>14,
     <1>15, Devices
-----------------------------------------------------------------------------
(* The lock of the voice button.                                           *)

LEMMA LockStep ==
  ASSUME TypeInvariant, LockHasTimer, [Next]_vars
  PROVE  LockHasTimer'
<1> USE DEF LockHasTimer
<1>1. CASE UNCHANGED service
  BY <1>1 DEF service
<1>2. CASE alertOK
  BY <1>2 DEF alertOK
<1>3. CASE \E q \in Questions : sendCompletes(q) \/ quizTimer(q)
  BY <1>3 DEF sendCompletes, quizTimer
<1>4. QED
  <2>1. CASE touchesBegan \/ touchesEnded \/ speechFails \/ didReceiveResult \/ alertCancel
             \/ leave \/ enter
    BY <1>1, <2>1 DEF touchesBegan, touchesEnded, speechFails, didReceiveResult, alertCancel,
                      leave, enter
  <2>2. CASE staleClosure \/ showClosure \/ addClosure \/ \E a \in Answer : didReceiveAnswer(a)
    BY <1>1, <2>2 DEF staleClosure, showClosure, addClosure, didReceiveAnswer, host
  <2>3. CASE \/ \E v \in Viewers, q \in Questions : didReceiveQuiz(v, q) \/ alertTimeout(v, q)
             \/ \E v \in Viewers, b \in Buttons : click(v, b)
    BY <1>1, <2>3 DEF didReceiveQuiz, alertTimeout, click, host
  <2>4. CASE UNCHANGED vars
    BY <1>1, <2>4 DEF vars, host
  <2>5. QED
    BY <1>2, <1>3, <2>1, <2>2, <2>3, <2>4, Devices

-----------------------------------------------------------------------------
(* The question on the host's screen.                                      *)

\* A closure of this visit that shows a question.
Shows(i) == mainQueue[i].of = visit /\ "show" \in DOMAIN mainQueue[i]

\* The last of them shows the question last sent, and no closure is of a later visit.
LastShowIsAsked ==
  /\ \A i \in DOMAIN mainQueue : mainQueue[i].of <= visit
  /\ \A i \in DOMAIN mainQueue :
       Shows(i) /\ (\A j \in DOMAIN mainQueue : j > i => ~Shows(j))
         => mainQueue[i].show = asked

LabelInvariant == LastShowIsAsked /\ LabelIsLastQuiz

LEMMA UnchangedLabel ==
  ASSUME LabelInvariant, UNCHANGED <<visit, mainQueue, label, asked>>
  PROVE  LabelInvariant'
BY DEF LabelInvariant, LastShowIsAsked, LabelIsLastQuiz, ShowWaits, Shows

\* A closure at the end of the queue, the last of this visit if it shows a question.
LEMMA QueuedLabel ==
  ASSUME TypeInvariant, LabelInvariant, NEW c \in Closure, c.of = visit,
         mainQueue' = Append(mainQueue, c), UNCHANGED visit,
         IF "show" \in DOMAIN c THEN c.show = asked' ELSE UNCHANGED <<label, asked>>
  PROVE  LabelInvariant'
<1>0. PICK n \in Nat : n = Len(mainQueue)
  BY LenProperties DEF TypeInvariant
<1>1. /\ DOMAIN mainQueue = 1..n /\ DOMAIN mainQueue' = 1..(n + 1)
      /\ \A i \in 1..n : mainQueue'[i] = mainQueue[i]
      /\ mainQueue'[n + 1] = c
  BY <1>0 DEF TypeInvariant
<1>2. \A i \in 1..(n + 1) : i \in 1..n \/ i = n + 1
  BY <1>1
<1>3. \A i \in 1..n : Shows(i)' <=> Shows(i)
  BY <1>1 DEF Shows
<1>4. Shows(n + 1)' <=> "show" \in DOMAIN c
  BY <1>1 DEF Shows
<1>5. visit \in Nat
  BY DEF TypeInvariant
<1>6. (\A i \in DOMAIN mainQueue : mainQueue[i].of <= visit)'
  BY <1>1, <1>2, <1>5 DEF LabelInvariant, LastShowIsAsked
<1>7. CASE "show" \in DOMAIN c
  <2>1. ASSUME NEW i \in 1..(n + 1), \A j \in 1..(n + 1) : j > i => ~Shows(j)'
        PROVE  mainQueue'[i].show = asked'
    <3>1. i = n + 1
      BY <1>1, <1>2, <1>4, <1>7, <2>1
    <3>2. QED
      BY <1>1, <1>7, <3>1
  <2>2. ShowWaits'
    BY <1>1, <1>7 DEF ShowWaits
  <2>3. LastShowIsAsked'
    BY <1>1, <1>6, <2>1 DEF LastShowIsAsked
  <2>4. QED
    BY <2>2, <2>3 DEF LabelInvariant, LabelIsLastQuiz
<1>8. CASE "show" \notin DOMAIN c
  <2>1. ASSUME NEW i \in 1..(n + 1), Shows(i)',
               \A j \in 1..(n + 1) : j > i => ~Shows(j)'
        PROVE  mainQueue'[i].show = asked'
    <3>1. i \in 1..n /\ Shows(i)
      BY <1>2, <1>3, <1>4, <1>8, <2>1
    <3>2. \A j \in 1..n : j > i => ~Shows(j)
      BY <1>1, <1>3, <2>1
    <3>3. QED
      BY <1>1, <1>8, <3>1, <3>2 DEF LabelInvariant, LastShowIsAsked
  <2>2. ShowWaits => ShowWaits'
    BY <1>1 DEF ShowWaits
  <2>3. LabelIsLastQuiz'
    BY <1>8, <2>2 DEF LabelInvariant, LabelIsLastQuiz
  <2>4. LastShowIsAsked'
    BY <1>1, <1>6, <2>1 DEF LastShowIsAsked
  <2>5. QED
    BY <2>3, <2>4 DEF LabelInvariant
<1>9. QED
  BY <1>7, <1>8

\* A closure that ran: if it showed a question of this visit, that is the label.
LEMMA RanLabel ==
  ASSUME TypeInvariant, LabelInvariant, mainQueue # << >>, mainQueue' = Tail(mainQueue),
         UNCHANGED <<visit, asked>>,
         label' = IF Shows(1) THEN mainQueue[1].show ELSE label
  PROVE  LabelInvariant'
<1> DEFINE n == Len(mainQueue)
<1>1. /\ n \in Nat \ {0} /\ DOMAIN mainQueue = 1..n /\ DOMAIN mainQueue' = 1..(n - 1)
      /\ \A i \in 1..(n - 1) : mainQueue'[i] = mainQueue[i + 1]
  BY QueueTypes DEF TypeInvariant
<1> HIDE DEF n
<1>2. \A i \in 1..(n - 1) : i + 1 \in 1..n /\ (Shows(i)' <=> Shows(i + 1))
  BY <1>1 DEF Shows
<1>3. \A i \in 1..n : i = 1 \/ i - 1 \in 1..(n - 1)
  BY <1>1
<1>4. LastShowIsAsked'
  <2>1. (\A i \in DOMAIN mainQueue : mainQueue[i].of <= visit)'
    BY <1>1, <1>2 DEF LabelInvariant, LastShowIsAsked
  <2>2. ASSUME NEW i \in 1..(n - 1), Shows(i)',
               \A j \in 1..(n - 1) : j > i => ~Shows(j)'
        PROVE  mainQueue'[i].show = asked'
    <3>1. i + 1 \in 1..n /\ Shows(i + 1)
      BY <1>2, <2>2
    <3>2. \A j \in 1..n : j > i + 1 => ~Shows(j)
      <4>1. SUFFICES ASSUME NEW j \in 1..n, j > i + 1
                     PROVE  ~Shows(j)
        OBVIOUS
      <4>2. j - 1 \in 1..(n - 1) /\ j - 1 > i /\ (j - 1) + 1 = j
        BY <1>1, <4>1
      <4>3. QED
        BY <1>2, <2>2, <4>2
    <3>3. mainQueue[i + 1].show = asked
      BY <1>1, <3>1, <3>2 DEF LabelInvariant, LastShowIsAsked
    <3>4. QED
      BY <1>1, <2>2, <3>3
  <2>3. QED
    BY <1>1, <2>1, <2>2 DEF LastShowIsAsked
<1>5. ASSUME ~ShowWaits'
      PROVE  label' = asked'
  <2>1. \A j \in 1..n : j > 1 => ~Shows(j)
    <3>1. SUFFICES ASSUME NEW j \in 1..n, j > 1
                   PROVE  ~Shows(j)
      OBVIOUS
    <3>2. j - 1 \in 1..(n - 1) /\ (j - 1) + 1 = j
      BY <1>1, <3>1
    <3>3. ~Shows(j - 1)'
      BY <1>1, <1>5, <3>2 DEF ShowWaits, Shows
    <3>4. QED
      BY <1>2, <3>2, <3>3
  <2>2. CASE Shows(1)
    <3>1. 1 \in 1..n
      BY <1>1
    <3>2. QED
      BY <1>1, <2>1, <2>2, <3>1 DEF LabelInvariant, LastShowIsAsked
  <2>3. CASE ~Shows(1)
    <3>1. \A j \in 1..n : ~Shows(j)
      BY <1>1, <2>1, <2>3
    <3>2. ~ShowWaits
      BY <1>1, <3>1 DEF ShowWaits, Shows
    <3>3. QED
      BY <2>3, <3>2 DEF LabelInvariant, LabelIsLastQuiz
  <2>4. QED
    BY <2>2, <2>3
<1>6. QED
  BY <1>4, <1>5 DEF LabelInvariant, LabelIsLastQuiz

LEMMA LabelStep ==
  ASSUME TypeInvariant, LabelInvariant, [Next]_vars
  PROVE  LabelInvariant'
<1>1. CASE UNCHANGED <<visit, mainQueue, label, asked>>
  BY <1>1, UnchangedLabel
<1>2. CASE touchesBegan \/ touchesEnded \/ speechFails \/ didReceiveResult \/ alertCancel
           \/ leave
  BY <1>1, <1>2 DEF touchesBegan, touchesEnded, speechFails, didReceiveResult, alertCancel,
                    leave, screen, list
<1>3. CASE alertOK
  <2>1. /\ [show |-> alert, of |-> visit] \in Closure
        /\ mainQueue' = Append(mainQueue, [show |-> alert, of |-> visit])
        /\ asked' = alert /\ UNCHANGED visit
    BY <1>3 DEF alertOK, TypeInvariant, Questions, Closure, screen
  <2>2. QED
    BY <2>1, QueuedLabel
<1>4. CASE enter
  <2>1. visit \in Nat /\ visit' = visit + 1 /\ UNCHANGED mainQueue /\ label' = 0 /\ asked' = 0
    BY <1>4 DEF enter, TypeInvariant
  <2>2. \A i \in DOMAIN mainQueue : mainQueue[i].of \in Nat /\ mainQueue[i].of <= visit
    <3>1. \A i \in DOMAIN mainQueue : mainQueue[i] \in Closure
      BY DEF TypeInvariant
    <3>2. QED
      BY <3>1, ClosureTypes DEF LabelInvariant, LastShowIsAsked
  <2>3. \A i \in DOMAIN mainQueue' : mainQueue'[i].of <= visit' /\ ~Shows(i)'
    BY <2>1, <2>2 DEF Shows
  <2>4. QED
    BY <2>1, <2>3 DEF LabelInvariant, LastShowIsAsked, LabelIsLastQuiz
<1>5. CASE \E a \in Answer : didReceiveAnswer(a)
  <2>1. PICK a \in Answer : didReceiveAnswer(a)
    BY <1>5
  <2>2. /\ [add |-> a, of |-> visit] \in Closure
        /\ mainQueue' = Append(mainQueue, [add |-> a, of |-> visit])
        /\ UNCHANGED <<visit, label, asked>>
    BY <2>1 DEF didReceiveAnswer, TypeInvariant, Closure, host, screen
  <2>3. QED
    BY <2>2, QueuedLabel
<1>6. CASE staleClosure \/ showClosure \/ addClosure
  <2>1. /\ mainQueue # << >> /\ mainQueue' = Tail(mainQueue) /\ UNCHANGED <<visit, asked>>
        /\ Head(mainQueue) \in Closure /\ Head(mainQueue) = mainQueue[1]
    BY <1>6, QueueTypes DEF staleClosure, showClosure, addClosure, host, screen
  <2>2. label' = IF Shows(1) THEN mainQueue[1].show ELSE label
    BY <1>6, <2>1, ClosureTypes DEF staleClosure, showClosure, addClosure, Shows
  <2>3. QED
    BY <2>1, <2>2, RanLabel
<1>7. CASE \E q \in Questions : sendCompletes(q) \/ quizTimer(q)
  BY <1>1, <1>7 DEF sendCompletes, quizTimer, screen, list
<1>8. CASE \/ \E v \in Viewers, q \in Questions : didReceiveQuiz(v, q) \/ alertTimeout(v, q)
           \/ \E v \in Viewers, b \in Buttons : click(v, b)
  BY <1>1, <1>8 DEF didReceiveQuiz, alertTimeout, click, host, screen, list
<1>9. CASE UNCHANGED vars
  BY <1>1, <1>9 DEF vars, host, screen, list
<1>10. QED
  BY <1>2, <1>3, <1>4, <1>5, <1>6, <1>7, <1>8, <1>9, Devices
-----------------------------------------------------------------------------
(* One answer of each viewer for each quiz: what one of them does with a   *)
(* quiz goes through six places, and is in one of them at a time.          *)

Of(a, v, q) == a.from = v /\ a.q = q

InNet(v, q)   == \E a \in Answer : [add |-> a] \in net /\ Of(a, v, q)
IsAdd(i)      == "add" \in DOMAIN mainQueue[i]
InQueue(v, q) == \E i \in DOMAIN mainQueue : IsAdd(i) /\ Of(mainQueue[i].add, v, q)
InList(v, q)  == \E i \in DOMAIN answers : Of(answers[i], v, q)

OnePlace ==
  \A v \in Viewers, q \in Questions :
    /\ Unsent(q)     => ~(Offered(v, q) \/ shown[v] = q \/ InNet(v, q) \/ InQueue(v, q)
                          \/ InList(v, q))
    /\ Offered(v, q) => ~(shown[v] = q \/ InNet(v, q) \/ InQueue(v, q) \/ InList(v, q))
    /\ shown[v] = q  => ~(InNet(v, q) \/ InQueue(v, q) \/ InList(v, q))
    /\ InNet(v, q)   => ~(InQueue(v, q) \/ InList(v, q))
    /\ InQueue(v, q) => ~InList(v, q)

\* And once there.
OneInNet ==
  \A a, b \in Answer :
    [add |-> a] \in net /\ [add |-> b] \in net /\ Of(a, b.from, b.q) => a = b

OneInQueue ==
  \A i, j \in DOMAIN mainQueue :
    /\ IsAdd(i) /\ IsAdd(j)
    /\ Of(mainQueue[i].add, mainQueue[j].add.from, mainQueue[j].add.q)
    => i = j

\* The alert's question is one of those returned.
AlertOfText == alert <= texts

AnswerInvariant == AlertOfText /\ OnePlace /\ OneInNet /\ OneInQueue /\ OneAnswerEach

\* What is left alone keeps its places.
LEMMA AnswerFrame ==
  ASSUME NEW v, NEW q
  PROVE  /\ UNCHANGED <<texts, alert>> => (Unsent(q)' <=> Unsent(q))
         /\ UNCHANGED net => (Offered(v, q)' <=> Offered(v, q)) /\ (InNet(v, q)' <=> InNet(v, q))
         /\ UNCHANGED mainQueue => (InQueue(v, q)' <=> InQueue(v, q))
         /\ UNCHANGED answers => (InList(v, q)' <=> InList(v, q))
         /\ answers' = << >> => ~InList(v, q)'
<1>1. UNCHANGED <<texts, alert>> => (Unsent(q)' <=> Unsent(q))
  BY DEF Unsent
<1>2. UNCHANGED net => (Offered(v, q)' <=> Offered(v, q)) /\ (InNet(v, q)' <=> InNet(v, q))
  BY DEF Offered, InNet
<1>3. UNCHANGED mainQueue => (InQueue(v, q)' <=> InQueue(v, q))
  BY DEF InQueue, IsAdd
<1>4. /\ UNCHANGED answers => (InList(v, q)' <=> InList(v, q))
      /\ answers' = << >> => ~InList(v, q)'
  BY DEF InList
<1>5. QED
  BY <1>1, <1>2, <1>3, <1>4

LEMMA OnceFrame ==
  ASSUME AnswerInvariant
  PROVE  /\ UNCHANGED net => OneInNet'
         /\ UNCHANGED mainQueue => OneInQueue'
         /\ UNCHANGED answers => OneAnswerEach'
         /\ answers' = << >> => OneAnswerEach'
BY DEF AnswerInvariant, OneInNet, OneInQueue, IsAdd, OneAnswerEach

LEMMA Letters ==
  ASSUME NEW a \in Answer, NEW v, NEW q
  PROVE  [add |-> a] # [to |-> v, quiz |-> q]
<1>1. DOMAIN [add |-> a] = {"add"} /\ DOMAIN [to |-> v, quiz |-> q] = {"to", "quiz"}
  OBVIOUS
<1>2. QED
  BY <1>1

LEMMA SameLetter ==
  ASSUME NEW a, NEW b, [add |-> a] = [add |-> b]
  PROVE  a = b
<1>1. [add |-> a].add = a /\ [add |-> b].add = b
  OBVIOUS
<1>2. QED
  BY <1>1

\* A closure at the end of the queue.
LEMMA QueueGrows ==
  ASSUME TypeInvariant, OneInQueue, NEW c \in Closure, mainQueue' = Append(mainQueue, c),
         "add" \in DOMAIN c => ~InQueue(c.add.from, c.add.q)
  PROVE  /\ OneInQueue'
         /\ \A v, q : InQueue(v, q)' => InQueue(v, q) \/ ("add" \in DOMAIN c /\ Of(c.add, v, q))
<1>0. PICK n \in Nat : n = Len(mainQueue)
  BY LenProperties DEF TypeInvariant
<1>1. /\ DOMAIN mainQueue = 1..n /\ DOMAIN mainQueue' = 1..(n + 1)
      /\ \A i \in 1..n : mainQueue'[i] = mainQueue[i]
      /\ mainQueue'[n + 1] = c
  BY <1>0 DEF TypeInvariant
<1>2. \A i \in 1..(n + 1) : i \in 1..n \/ i = n + 1
  OBVIOUS
<1>3. ASSUME NEW i \in 1..(n + 1), NEW j \in 1..(n + 1), IsAdd(i)', IsAdd(j)',
             Of(mainQueue'[i].add, mainQueue'[j].add.from, mainQueue'[j].add.q)
      PROVE  i = j
  <2>1. CASE i \in 1..n /\ j \in 1..n
    BY <1>1, <1>3, <2>1 DEF OneInQueue, IsAdd
  <2>2. CASE i \in 1..n /\ j = n + 1
    BY <1>1, <1>3, <2>2 DEF InQueue, IsAdd
  <2>3. CASE i = n + 1 /\ j \in 1..n
    BY <1>1, <1>3, <2>3 DEF InQueue, IsAdd, Of
  <2>4. QED
    BY <1>2, <2>1, <2>2, <2>3
<1>4. OneInQueue'
  BY <1>1, <1>3 DEF OneInQueue
<1>5. \A v, q : InQueue(v, q)' => InQueue(v, q) \/ ("add" \in DOMAIN c /\ Of(c.add, v, q))
  BY <1>1, <1>2 DEF InQueue, IsAdd
<1>6. QED
  BY <1>4, <1>5

\* The first closure runs.
LEMMA QueueRuns ==
  ASSUME TypeInvariant, OneInQueue, mainQueue # << >>, mainQueue' = Tail(mainQueue)
  PROVE  /\ OneInQueue'
         /\ \A v, q : InQueue(v, q)' => /\ InQueue(v, q)
                                        /\ IsAdd(1) => ~Of(mainQueue[1].add, v, q)
<1>0. PICK n \in Nat \ {0} : n = Len(mainQueue)
  BY QueueTypes
<1>1. /\ DOMAIN mainQueue = 1..n /\ DOMAIN mainQueue' = 1..(n - 1)
      /\ \A i \in 1..(n - 1) : mainQueue'[i] = mainQueue[i + 1]
      /\ \A i \in 1..(n - 1) : i + 1 \in 1..n /\ i + 1 # 1 /\ (IsAdd(i)' <=> IsAdd(i + 1))
  BY <1>0, QueueTypes DEF TypeInvariant, IsAdd
<1>2. ASSUME NEW i \in 1..(n - 1), NEW j \in 1..(n - 1), IsAdd(i)', IsAdd(j)',
             Of(mainQueue'[i].add, mainQueue'[j].add.from, mainQueue'[j].add.q)
      PROVE  i = j
  <2>1. i + 1 = j + 1
    BY <1>1, <1>2 DEF OneInQueue
  <2>2. QED
    BY <2>1
<1>3. OneInQueue'
  BY <1>1, <1>2 DEF OneInQueue
<1>4. ASSUME NEW v, NEW q, InQueue(v, q)'
      PROVE  InQueue(v, q) /\ (IsAdd(1) => ~Of(mainQueue[1].add, v, q))
  <2>1. PICK i \in 1..(n - 1) : IsAdd(i)' /\ Of(mainQueue'[i].add, v, q)
    BY <1>1, <1>4 DEF InQueue
  <2>2. i + 1 \in 1..n /\ i + 1 # 1 /\ IsAdd(i + 1) /\ Of(mainQueue[i + 1].add, v, q)
    BY <1>1, <2>1
  <2>3. InQueue(v, q)
    BY <1>1, <2>2 DEF InQueue
  <2>4. 1 \in 1..n /\ (IsAdd(1) => ~Of(mainQueue[1].add, v, q))
    BY <1>1, <2>2 DEF OneInQueue, Of
  <2>5. QED
    BY <2>3, <2>4
<1>5. QED
  BY <1>3, <1>4

\* An answer at the end of the list.
LEMMA ListGrows ==
  ASSUME TypeInvariant, OneAnswerEach, NEW a \in Answer, answers' = Append(answers, a),
         ~InList(a.from, a.q)
  PROVE  /\ OneAnswerEach'
         /\ \A v, q : InList(v, q)' => InList(v, q) \/ Of(a, v, q)
<1>0. PICK n \in Nat : n = Len(answers)
  BY LenProperties DEF TypeInvariant
<1>1. /\ DOMAIN answers = 1..n /\ DOMAIN answers' = 1..(n + 1)
      /\ \A i \in 1..n : answers'[i] = answers[i]
      /\ answers'[n + 1] = a
  BY <1>0 DEF TypeInvariant
<1>2. \A i \in 1..(n + 1) : i \in 1..n \/ i = n + 1
  OBVIOUS
<1>3. OneAnswerEach'
  BY <1>1, <1>2 DEF OneAnswerEach, InList, Of
<1>4. \A v, q : InList(v, q)' => InList(v, q) \/ Of(a, v, q)
  BY <1>1, <1>2 DEF InList
<1>5. QED
  BY <1>3, <1>4

\* Letters that are gone.
LEMMA NetShrinks ==
  ASSUME OneInNet, net' \subseteq net
  PROVE  /\ OneInNet'
         /\ \A v, q : (Offered(v, q)' => Offered(v, q)) /\ (InNet(v, q)' => InNet(v, q))
BY DEF OneInNet, Offered, InNet

\* A step that moves nothing forward but what it names is left to its own lemma; here
\* every place keeps what it had, or loses it.
LEMMA PlacesShrink ==
  ASSUME OnePlace,
         \A v \in Viewers, q \in Questions :
           /\ Unsent(q)' => Unsent(q)
           /\ Offered(v, q)' => Offered(v, q)
           /\ shown'[v] = q => shown[v] = q
           /\ InNet(v, q)' => InNet(v, q)
           /\ InQueue(v, q)' => InQueue(v, q)
           /\ InList(v, q)' => InList(v, q)
  PROVE  OnePlace'
BY DEF OnePlace

\* Between the button and the OK, and around a send: nothing moves.
LEMMA QuietAnswer ==
  ASSUME AnswerInvariant, UNCHANGED <<texts, alert, net, mainQueue, answers, shown>>
  PROVE  AnswerInvariant'
<1>1. OnePlace'
  BY AnswerFrame, PlacesShrink DEF AnswerInvariant
<1>2. QED
  BY <1>1, OnceFrame DEF AnswerInvariant, AlertOfText

\* A text, an alert that is cancelled, a host who leaves or comes back.
LEMMA HostAnswer ==
  ASSUME TypeInvariant, AnswerInvariant, didReceiveResult \/ alertCancel \/ leave \/ enter
  PROVE  AnswerInvariant'
<1>1. /\ net' \subseteq net /\ UNCHANGED <<mainQueue, shown>>
      /\ UNCHANGED answers \/ answers' = << >>
  BY DEF didReceiveResult, alertCancel, leave, enter, list, viewers
<1>2. /\ texts \in Nat /\ texts' \in {texts, texts + 1} /\ alert \in Nat
      /\ alert' \in {0, alert} \/ (alert' = texts + 1 /\ texts' = texts + 1)
  BY IosAssumption DEF didReceiveResult, alertCancel, leave, enter, TypeInvariant
<1>3. AlertOfText'
  BY <1>2 DEF AnswerInvariant, AlertOfText
<1>4. ASSUME NEW q \in Questions
      PROVE  Unsent(q)' => Unsent(q)
  BY <1>2 DEF Unsent, Questions
<1>5. OnePlace'
  BY <1>1, <1>4, AnswerFrame, NetShrinks, PlacesShrink DEF AnswerInvariant
<1>6. OneInNet' /\ OneInQueue' /\ OneAnswerEach'
  BY <1>1, OnceFrame, NetShrinks DEF AnswerInvariant
<1>7. QED
  BY <1>3, <1>5, <1>6 DEF AnswerInvariant

LEMMA AskAnswer ==
  ASSUME TypeInvariant, AnswerInvariant, alertOK
  PROVE  AnswerInvariant'
<1>1. PICK k \in Questions : k = alert
  BY DEF alertOK, TypeInvariant, Questions
<1>2. k <= texts /\ texts \in Nat /\ UNCHANGED <<texts, shown>> /\ alert' = 0
  BY <1>1, IosAssumption DEF TypeInvariant, AnswerInvariant, AlertOfText, alertOK, viewers
<1>3. \A q \in Questions : Unsent(q)' => Unsent(q) /\ q # k
  BY <1>2 DEF Unsent, Questions
<1>4. PICK receivers \in SUBSET Viewers :
        net' = net \cup {[to |-> v, quiz |-> k] : v \in receivers}
  BY <1>1 DEF alertOK
<1>5. \A a \in Answer : [add |-> a] \in net' => [add |-> a] \in net
  BY <1>4, Letters
<1>6. OneInNet' /\ \A v, q : InNet(v, q)' => InNet(v, q)
  BY <1>5 DEF AnswerInvariant, OneInNet, InNet
<1>7. \A v, q : Offered(v, q)' => Offered(v, q) \/ q = k
  <2>1. SUFFICES ASSUME NEW v, NEW q, Offered(v, q)', ~Offered(v, q)
                 PROVE  q = k
    OBVIOUS
  <2>2. PICK w \in receivers : [to |-> v, quiz |-> q] = [to |-> w, quiz |-> k]
    BY <1>4, <2>1 DEF Offered
  <2>3. QED
    BY <2>2
<1>8. OneInQueue' /\ \A v, q : InQueue(v, q)' => InQueue(v, q)
  <2>1. PICK c \in Closure : c = [show |-> k, of |-> visit]
    BY DEF TypeInvariant, Closure
  <2>2. mainQueue' = Append(mainQueue, c) /\ "add" \notin DOMAIN c
    BY <1>1, <2>1 DEF alertOK
  <2>3. QED
    BY <2>2, QueueGrows DEF AnswerInvariant
<1>9. OneAnswerEach' /\ \A v, q : ~InList(v, q)'
  BY AnswerFrame, OnceFrame DEF alertOK
<1>10. Unsent(k)
  BY <1>1 DEF Unsent
<1>11. OnePlace'
  BY <1>2, <1>3, <1>6, <1>7, <1>8, <1>9, <1>10 DEF AnswerInvariant, OnePlace
<1>12. QED
  BY <1>2, <1>6, <1>8, <1>9, <1>11 DEF AnswerInvariant, AlertOfText

LEMMA ArriveAnswer ==
  ASSUME TypeInvariant, AnswerInvariant, NEW a \in Answer, didReceiveAnswer(a)
  PROVE  AnswerInvariant'
<1>1. /\ [add |-> a] \in net /\ net' = net \ {[add |-> a]}
      /\ UNCHANGED <<texts, alert, shown, answers>>
  BY DEF didReceiveAnswer, host, viewers
<1>2. a.from \in Viewers /\ a.q \in Questions /\ InNet(a.from, a.q)
  BY <1>1 DEF Answer, InNet, Of
<1>3. \A v, q : InNet(v, q)' => InNet(v, q) /\ ~Of(a, v, q)
  <2>1. SUFFICES ASSUME NEW v, NEW q, InNet(v, q)'
                 PROVE  InNet(v, q) /\ ~Of(a, v, q)
    OBVIOUS
  <2>2. PICK b \in Answer : [add |-> b] \in net' /\ Of(b, v, q)
    BY <2>1 DEF InNet
  <2>3. [add |-> b] \in net /\ b # a
    BY <1>1, <2>2
  <2>4. ~Of(a, v, q)
    BY <1>1, <2>2, <2>3 DEF AnswerInvariant, OneInNet, Of
  <2>5. QED
    BY <2>2, <2>3, <2>4 DEF InNet
<1>4. OneInNet' /\ \A v, q : Offered(v, q)' => Offered(v, q)
  BY <1>1, NetShrinks DEF AnswerInvariant
<1>5. ~InQueue(a.from, a.q)
  BY <1>2 DEF AnswerInvariant, OnePlace
<1>6. OneInQueue' /\ \A v, q : InQueue(v, q)' => InQueue(v, q) \/ Of(a, v, q)
  <2>1. PICK c \in Closure : c = [add |-> a, of |-> visit]
    BY DEF TypeInvariant, Closure
  <2>2. mainQueue' = Append(mainQueue, c) /\ c.add = a
    BY <2>1 DEF didReceiveAnswer
  <2>3. QED
    BY <1>5, <2>2, QueueGrows DEF AnswerInvariant
<1>7. ASSUME NEW v \in Viewers, NEW q \in Questions, Of(a, v, q)
      PROVE  InNet(v, q)
  BY <1>1, <1>7 DEF InNet
<1>8. OnePlace'
  BY <1>1, <1>3, <1>4, <1>6, <1>7, AnswerFrame DEF AnswerInvariant, OnePlace
<1>9. QED
  BY <1>1, <1>4, <1>6, <1>8, OnceFrame DEF AnswerInvariant, AlertOfText

LEMMA ListAnswer ==
  ASSUME TypeInvariant, AnswerInvariant, staleClosure \/ showClosure \/ addClosure
  PROVE  AnswerInvariant'
<1>1. /\ mainQueue # << >> /\ mainQueue' = Tail(mainQueue)
      /\ UNCHANGED <<texts, alert, shown, net>>
  BY DEF staleClosure, showClosure, addClosure, host, viewers
<1>2. /\ OneInQueue'
      /\ \A v, q :
           InQueue(v, q)' => InQueue(v, q) /\ (IsAdd(1) => ~Of(mainQueue[1].add, v, q))
  BY <1>1, QueueRuns DEF AnswerInvariant
<1>3. CASE UNCHANGED answers
  <2>1. ASSUME NEW v \in Viewers, NEW q \in Questions
        PROVE  /\ Unsent(q)' => Unsent(q)
               /\ Offered(v, q)' => Offered(v, q)
               /\ InNet(v, q)' => InNet(v, q)
               /\ InList(v, q)' => InList(v, q)
    BY <1>1, <1>3, AnswerFrame
  <2>2. OnePlace'
    BY <1>1, <1>2, <2>1, PlacesShrink DEF AnswerInvariant
  <2>3. QED
    BY <1>1, <1>2, <1>3, <2>2, OnceFrame DEF AnswerInvariant, AlertOfText
<1>4. CASE addClosure
  <2>1. PICK a \in Answer : a = mainQueue[1].add
    BY <1>1, <1>4, QueueTypes, ClosureTypes DEF addClosure
  <2>2. IsAdd(1) /\ answers' = Append(answers, a) /\ 1 \in DOMAIN mainQueue
    BY <1>1, <1>4, <2>1, QueueTypes DEF addClosure, IsAdd, TypeInvariant
  <2>3. ASSUME NEW v \in Viewers, NEW q \in Questions, Of(a, v, q)
        PROVE  InQueue(v, q)
    BY <2>1, <2>2, <2>3 DEF InQueue
  <2>4. ~InList(a.from, a.q)
    BY <2>3 DEF AnswerInvariant, OnePlace, Answer, Of
  <2>5. OneAnswerEach' /\ \A v, q : InList(v, q)' => InList(v, q) \/ Of(a, v, q)
    BY <2>2, <2>4, ListGrows DEF AnswerInvariant
  <2>6. ASSUME NEW v \in Viewers, NEW q \in Questions
        PROVE  /\ Unsent(q)' <=> Unsent(q)
               /\ Offered(v, q)' <=> Offered(v, q)
               /\ InNet(v, q)' <=> InNet(v, q)
    BY <1>1, AnswerFrame
  <2>7. ASSUME NEW v \in Viewers, NEW q \in Questions
        PROVE  InQueue(v, q)' => InQueue(v, q) /\ ~Of(a, v, q)
    BY <1>2, <2>1, <2>2
  <2>8. OnePlace'
    BY <1>1, <2>3, <2>5, <2>6, <2>7 DEF AnswerInvariant, OnePlace
  <2>9. QED
    BY <1>1, <1>2, <2>5, <2>8, OnceFrame DEF AnswerInvariant, AlertOfText
<1>5. QED
  BY <1>3, <1>4 DEF staleClosure, showClosure

LEMMA ShowAnswer ==
  ASSUME TypeInvariant, AnswerInvariant, NEW w \in Viewers, NEW k \in Questions,
         didReceiveQuiz(w, k)
  PROVE  AnswerInvariant'
<1>1. /\ Offered(w, k) /\ net' = net \ {[to |-> w, quiz |-> k]}
      /\ UNCHANGED <<texts, alert, mainQueue, answers>>
      /\ shown' = [shown EXCEPT ![w] = IF @ = 0 THEN k ELSE @]
  BY DEF didReceiveQuiz, host, list, Offered
<1>2. ~Offered(w, k)'
  BY <1>1 DEF Offered
<1>3. OneInNet' /\ \A v, q : (Offered(v, q)' => Offered(v, q)) /\ (InNet(v, q)' => InNet(v, q))
  BY <1>1, NetShrinks DEF AnswerInvariant
<1>4. \A v \in Viewers, q \in Questions :
        shown'[v] = q => shown[v] = q \/ (v = w /\ q = k)
  BY <1>1 DEF TypeInvariant
<1>5. OnePlace'
  BY <1>1, <1>2, <1>3, <1>4, AnswerFrame DEF AnswerInvariant, OnePlace
<1>6. QED
  BY <1>1, <1>3, <1>5, OnceFrame DEF AnswerInvariant, AlertOfText

LEMMA EndAnswer ==
  ASSUME TypeInvariant, AnswerInvariant, NEW w \in Viewers, NEW k \in Questions,
         alertTimeout(w, k)
  PROVE  AnswerInvariant'
<1>1. /\ UNCHANGED <<texts, alert, mainQueue, answers, net>>
      /\ shown' = [shown EXCEPT ![w] = IF @ = k THEN 0 ELSE @]
  BY DEF alertTimeout, host, list
<1>2. \A v \in Viewers, q \in Questions : shown'[v] = q => shown[v] = q
  BY <1>1 DEF TypeInvariant, Questions
<1>3. OnePlace'
  BY <1>1, <1>2, AnswerFrame, PlacesShrink DEF AnswerInvariant
<1>4. QED
  BY <1>1, <1>3, OnceFrame DEF AnswerInvariant, AlertOfText

LEMMA ClickAnswer ==
  ASSUME TypeInvariant, AnswerInvariant, NEW w \in Viewers, NEW b \in Buttons, click(w, b)
  PROVE  AnswerInvariant'
<1>1. PICK k \in Questions : shown[w] = k
  BY DEF click, TypeInvariant, Questions
<1>2. PICK a \in Answer : a = [from |-> w, q |-> k, text |-> b]
  BY DEF Answer
<1>3. /\ UNCHANGED <<texts, alert, mainQueue, answers>>
      /\ shown' = [shown EXCEPT ![w] = 0]
      /\ net' = net \/ net' = net \cup {[add |-> a]}
  BY <1>1, <1>2 DEF click, host, list
<1>4. Of(a, w, k) /\ ~InNet(w, k)
  BY <1>1, <1>2 DEF AnswerInvariant, OnePlace, Of
<1>5. \A c \in Answer : [add |-> c] \in net' => [add |-> c] \in net \/ c = a
  BY <1>3, SameLetter
<1>6. \A v, q : (Offered(v, q)' => Offered(v, q)) /\ (InNet(v, q)' => InNet(v, q) \/ Of(a, v, q))
  <2>1. \A v, q : Offered(v, q)' => Offered(v, q)
    BY <1>3, Letters DEF Offered
  <2>2. \A v, q : InNet(v, q)' => InNet(v, q) \/ Of(a, v, q)
    BY <1>5 DEF InNet
  <2>3. QED
    BY <2>1, <2>2
<1>7. OneInNet'
  BY <1>4, <1>5 DEF AnswerInvariant, OneInNet, InNet, Of
<1>8. \A v \in Viewers, q \in Questions :
        /\ Of(a, v, q) => v = w /\ q = k
        /\ shown'[v] = q => shown[v] = q /\ ~(v = w /\ q = k)
  BY <1>1, <1>3, <1>4 DEF TypeInvariant, Questions, Of
<1>9. OnePlace'
  BY <1>1, <1>3, <1>6, <1>8, AnswerFrame DEF AnswerInvariant, OnePlace
<1>10. QED
  BY <1>3, <1>7, <1>9, OnceFrame DEF AnswerInvariant, AlertOfText

LEMMA AnswerStep ==
  ASSUME TypeInvariant, AnswerInvariant, [Next]_vars
  PROVE  AnswerInvariant'
<1>1. CASE UNCHANGED vars
  BY <1>1, QuietAnswer DEF vars, host, list, viewers
<1>2. CASE touchesBegan \/ touchesEnded \/ speechFails
  BY <1>2, QuietAnswer DEF touchesBegan, touchesEnded, speechFails, list, viewers
<1>3. CASE \E q \in Questions : sendCompletes(q) \/ quizTimer(q)
  BY <1>3, QuietAnswer DEF sendCompletes, quizTimer, list, viewers
<1>4. QED
  BY <1>1, <1>2, <1>3, HostAnswer, AskAnswer, ArriveAnswer, ListAnswer, ShowAnswer, EndAnswer,
     ClickAnswer, Devices
-----------------------------------------------------------------------------
(* The ballots.                                                            *)

IsOpen(v, q) == Unsent(q) \/ Offered(v, q) \/ shown[v] = q
Queued(a)    == \E i \in DOMAIN mainQueue : IsAdd(i) /\ mainQueue[i].add = a
Listed       == {answers[i] : i \in DOMAIN answers}

\* No place gets what it did not have.
LEMMA BallotsLost ==
  ASSUME \A v \in Viewers, q \in Questions : IsOpen(v, q)' => IsOpen(v, q),
         \A a \in Answer : [add |-> a] \in net' => [add |-> a] \in net \/ Queued(a),
         \A a \in Answer : Queued(a)' => Queued(a) \/ [add |-> a] \in net,
         Listed' \subseteq Listed
  PROVE  B!BNext
<1>1. Arriving' \subseteq Arriving
  BY DEF Arriving, Queued, IsAdd
<1>2. {b \in Viewers \X Questions : IsOpen(b[1], b[2])}'
        \subseteq {b \in Viewers \X Questions : IsOpen(b[1], b[2])}
  OBVIOUS
<1>3. B!Lose
  BY <1>1, <1>2 DEF B!Lose, IsOpen, Listed
<1>4. QED
  BY <1>3 DEF B!BNext

LEMMA QueuedGrows ==
  ASSUME TypeInvariant, NEW c \in Closure, mainQueue' = Append(mainQueue, c)
  PROVE  \A a : Queued(a)' => Queued(a) \/ ("add" \in DOMAIN c /\ c.add = a)
<1>0. PICK n \in Nat : n = Len(mainQueue)
  BY LenProperties DEF TypeInvariant
<1>1. /\ DOMAIN mainQueue = 1..n /\ DOMAIN mainQueue' = 1..(n + 1)
      /\ \A i \in 1..n : mainQueue'[i] = mainQueue[i]
      /\ mainQueue'[n + 1] = c
  BY <1>0 DEF TypeInvariant
<1>2. \A i \in 1..(n + 1) : i \in 1..n \/ i = n + 1
  OBVIOUS
<1>3. QED
  BY <1>1, <1>2 DEF Queued, IsAdd

LEMMA QueuedRuns ==
  ASSUME TypeInvariant, mainQueue # << >>, mainQueue' = Tail(mainQueue)
  PROVE  \A a : Queued(a)' => Queued(a)
<1>0. PICK n \in Nat \ {0} : n = Len(mainQueue)
  BY QueueTypes
<1>1. /\ DOMAIN mainQueue = 1..n /\ DOMAIN mainQueue' = 1..(n - 1)
      /\ \A i \in 1..(n - 1) : mainQueue'[i] = mainQueue[i + 1]
      /\ \A i \in 1..(n - 1) : i + 1 \in 1..n /\ (IsAdd(i)' <=> IsAdd(i + 1))
  BY <1>0, QueueTypes DEF TypeInvariant, IsAdd
<1>2. QED
  BY <1>1 DEF Queued

\* A step that leaves a place alone leaves it its ballots.
LEMMA BallotFrame ==
  /\ UNCHANGED mainQueue => \A a : Queued(a)' <=> Queued(a)
  /\ UNCHANGED answers => Listed' = Listed
  /\ answers' = << >> => Listed' = {}
  /\ UNCHANGED <<texts, alert, net, shown>> =>
       \A v, q : IsOpen(v, q)' <=> IsOpen(v, q)
BY DEF Queued, IsAdd, Listed, IsOpen, Unsent, Offered

LEMMA HostBallots ==
  ASSUME TypeInvariant, AnswerInvariant, didReceiveResult \/ alertCancel \/ leave \/ enter
  PROVE  B!BNext
<1>1. /\ net' \subseteq net /\ UNCHANGED <<mainQueue, shown>>
      /\ UNCHANGED answers \/ answers' = << >>
  BY DEF didReceiveResult, alertCancel, leave, enter, list, viewers
<1>2. /\ texts \in Nat /\ texts' \in {texts, texts + 1} /\ alert \in Nat
      /\ alert' \in {0, alert} \/ (alert' = texts + 1 /\ texts' = texts + 1)
  BY IosAssumption DEF didReceiveResult, alertCancel, leave, enter, TypeInvariant
<1>3. \A q \in Questions : Unsent(q)' => Unsent(q)
  BY <1>2 DEF Unsent, Questions
<1>4. \A v \in Viewers, q \in Questions : IsOpen(v, q)' => IsOpen(v, q)
  BY <1>1, <1>3 DEF IsOpen, Offered
<1>5. QED
  BY <1>1, <1>4, BallotFrame, BallotsLost

LEMMA AskBallots ==
  ASSUME TypeInvariant, AnswerInvariant, alertOK
  PROVE  B!BNext
<1>1. PICK k \in Questions : k = alert
  BY DEF alertOK, TypeInvariant, Questions
<1>2. Unsent(k) /\ UNCHANGED <<texts, shown>> /\ alert' = 0 /\ answers' = << >>
  BY <1>1 DEF alertOK, viewers, Unsent
<1>3. \A q \in Questions : Unsent(q)' => Unsent(q)
  BY <1>2 DEF Unsent, Questions
<1>4. PICK receivers \in SUBSET Viewers :
        net' = net \cup {[to |-> v, quiz |-> k] : v \in receivers}
  BY <1>1 DEF alertOK
<1>5. \A a \in Answer : [add |-> a] \in net' => [add |-> a] \in net
  BY <1>4, Letters
<1>6. \A v, q : Offered(v, q)' => Offered(v, q) \/ q = k
  <2>1. SUFFICES ASSUME NEW v, NEW q, Offered(v, q)', ~Offered(v, q)
                 PROVE  q = k
    OBVIOUS
  <2>2. PICK w \in receivers : [to |-> v, quiz |-> q] = [to |-> w, quiz |-> k]
    BY <1>4, <2>1 DEF Offered
  <2>3. QED
    BY <2>2
<1>7. \A v \in Viewers, q \in Questions : IsOpen(v, q)' => IsOpen(v, q)
  BY <1>2, <1>3, <1>6 DEF IsOpen
<1>8. PICK c \in Closure : c = [show |-> k, of |-> visit]
  BY DEF TypeInvariant, Closure
<1>9. \A a : Queued(a)' => Queued(a)
  BY <1>1, <1>8, QueuedGrows DEF alertOK
<1>10. QED
  BY <1>2, <1>5, <1>7, <1>9, BallotFrame, BallotsLost

LEMMA ArriveBallots ==
  ASSUME TypeInvariant, NEW a \in Answer, didReceiveAnswer(a)
  PROVE  B!BNext
<1>1. /\ [add |-> a] \in net /\ net' \subseteq net
      /\ UNCHANGED <<texts, alert, shown, answers>>
  BY DEF didReceiveAnswer, host, viewers
<1>2. PICK c \in Closure : c = [add |-> a, of |-> visit]
  BY DEF TypeInvariant, Closure
<1>3. \A d : Queued(d)' => Queued(d) \/ d = a
  BY <1>2, QueuedGrows DEF didReceiveAnswer
<1>4. \A v \in Viewers, q \in Questions : IsOpen(v, q)' => IsOpen(v, q)
  BY <1>1 DEF IsOpen, Unsent, Offered
<1>5. QED
  BY <1>1, <1>3, <1>4, BallotFrame, BallotsLost

\* The closure that adds an answer counts it: it is nowhere on the way any more.
LEMMA ListBallots ==
  ASSUME TypeInvariant, AnswerInvariant, staleClosure \/ showClosure \/ addClosure
  PROVE  B!BNext
<1>1. /\ mainQueue # << >> /\ mainQueue' = Tail(mainQueue)
      /\ UNCHANGED <<texts, alert, shown, net>>
  BY DEF staleClosure, showClosure, addClosure, host, viewers
<1>2. \A a : Queued(a)' => Queued(a)
  BY <1>1, QueuedRuns
<1>3. CASE UNCHANGED answers
  BY <1>1, <1>2, <1>3, BallotFrame, BallotsLost
<1>4. CASE addClosure
  <2>1. PICK a \in Answer : a = mainQueue[1].add
    BY <1>1, <1>4, QueueTypes, ClosureTypes DEF addClosure
  <2>2. IsAdd(1) /\ answers' = Append(answers, a) /\ 1 \in DOMAIN mainQueue
    BY <1>1, <1>4, <2>1, QueueTypes DEF addClosure, IsAdd, TypeInvariant
  <2>3. Queued(a) /\ InQueue(a.from, a.q)
    BY <2>1, <2>2 DEF Queued, InQueue, Of
  <2>4. [add |-> a] \notin net
    BY <2>3 DEF AnswerInvariant, OnePlace, InNet, Answer, Of
  <2>5. ~Queued(a)'
    <3>1. ~InQueue(a.from, a.q)'
      BY <1>1, <2>1, <2>2, QueueRuns DEF AnswerInvariant, Of
    <3>2. QED
      BY <3>1 DEF Queued, InQueue, IsAdd, Of
  <2>6. Arriving' \subseteq Arriving \ {a} /\ a \in Arriving
    BY <1>1, <1>2, <2>3, <2>4, <2>5 DEF Arriving, Queued, IsAdd
  <2>7. Listed' \subseteq Listed \cup {a}
    <3>1. PICK n \in Nat : n = Len(answers)
      BY LenProperties DEF TypeInvariant
    <3>2. /\ DOMAIN answers = 1..n /\ DOMAIN answers' = 1..(n + 1)
          /\ \A i \in 1..n : answers'[i] = answers[i]
          /\ answers'[n + 1] = a
      BY <2>2, <3>1 DEF TypeInvariant
    <3>3. \A i \in 1..(n + 1) : i \in 1..n \/ i = n + 1
      OBVIOUS
    <3>4. QED
      BY <3>2, <3>3 DEF Listed
  <2>8. {b \in Viewers \X Questions : IsOpen(b[1], b[2])}'
          \subseteq {b \in Viewers \X Questions : IsOpen(b[1], b[2])}
    BY <1>1, BallotFrame
  <2>9. B!Count(a)
    BY <2>6, <2>7, <2>8 DEF B!Count, IsOpen, Listed
  <2>10. QED
    BY <2>9 DEF B!BNext
<1>5. QED
  BY <1>3, <1>4 DEF staleClosure, showClosure

LEMMA ScreenBallots ==
  ASSUME TypeInvariant, NEW w \in Viewers, NEW k \in Questions,
         didReceiveQuiz(w, k) \/ alertTimeout(w, k)
  PROVE  B!BNext
<1>1. /\ net' \subseteq net /\ UNCHANGED <<texts, alert, mainQueue, answers>>
      /\ \/ Offered(w, k) /\ shown' = [shown EXCEPT ![w] = IF @ = 0 THEN k ELSE @]
         \/ shown' = [shown EXCEPT ![w] = IF @ = k THEN 0 ELSE @]
  BY DEF didReceiveQuiz, alertTimeout, host, list, Offered
<1>2. \A v \in Viewers, q \in Questions :
        shown'[v] = q => shown[v] = q \/ Offered(v, q)
  BY <1>1 DEF TypeInvariant, Questions
<1>3. \A v \in Viewers, q \in Questions : IsOpen(v, q)' => IsOpen(v, q)
  BY <1>1, <1>2 DEF IsOpen, Unsent, Offered
<1>4. QED
  BY <1>1, <1>3, BallotFrame, BallotsLost

\* The click casts the vote of the alert's quiz, whose ballot is nowhere else.
LEMMA ClickBallots ==
  ASSUME TypeInvariant, AnswerInvariant, NEW w \in Viewers, NEW b \in Buttons, click(w, b)
  PROVE  B!BNext
<1>1. PICK k \in Questions : shown[w] = k
  BY DEF click, TypeInvariant, Questions
<1>2. PICK a \in Answer : a = [from |-> w, q |-> k, text |-> b]
  BY DEF Answer
<1>3. /\ UNCHANGED <<texts, alert, mainQueue, answers>>
      /\ shown' = [shown EXCEPT ![w] = 0]
      /\ net' = net \/ net' = net \cup {[add |-> a]}
  BY <1>1, <1>2 DEF click, host, list
<1>4. ~Unsent(k) /\ ~Offered(w, k)
  BY <1>1 DEF AnswerInvariant, OnePlace
<1>5. \A c \in Answer : [add |-> c] \in net' => [add |-> c] \in net \/ c = a
  BY <1>3, SameLetter
<1>6. \A v, q : Offered(v, q)' => Offered(v, q)
  BY <1>3, Letters DEF Offered
<1>7. \A v \in Viewers, q \in Questions :
        shown'[v] = q => shown[v] = q /\ ~(v = w /\ q = k)
  BY <1>1, <1>3 DEF TypeInvariant, Questions
<1>8. \A v \in Viewers, q \in Questions :
        IsOpen(v, q)' => IsOpen(v, q) /\ <<v, q>> # <<w, k>>
  BY <1>3, <1>4, <1>6, <1>7 DEF IsOpen, Unsent
<1>9. IsOpen(w, k)
  BY <1>1 DEF IsOpen
<1>10. Arriving' \subseteq Arriving \cup {a}
  BY <1>3, <1>5 DEF Arriving
<1>11. Listed' = Listed
  BY <1>3, BallotFrame
<1>12. B!Cast(a)
  <2>1. <<a.from, a.q>> = <<w, k>>
    BY <1>2
  <2>2. <<w, k>> \in {c \in Viewers \X Questions : IsOpen(c[1], c[2])}
    BY <1>9
  <2>3. {c \in Viewers \X Questions : IsOpen(c[1], c[2])}'
          \subseteq {c \in Viewers \X Questions : IsOpen(c[1], c[2])} \ {<<w, k>>}
    BY <1>8
  <2>4. QED
    BY <1>10, <1>11, <2>1, <2>2, <2>3 DEF B!Cast, IsOpen, Listed
<1>13. QED
  BY <1>12 DEF B!BNext

LEMMA BallotStep ==
  ASSUME TypeInvariant, AnswerInvariant, [Next]_vars
  PROVE  [B!BNext]_B!bvars
<1>1. CASE UNCHANGED <<texts, alert, net, mainQueue, answers, shown>>
  BY <1>1 DEF B!bvars, Arriving, Unsent, Offered
<1>2. CASE UNCHANGED vars
  BY <1>1, <1>2 DEF vars, host, list, viewers
<1>3. CASE touchesBegan \/ touchesEnded \/ speechFails
  BY <1>1, <1>3 DEF touchesBegan, touchesEnded, speechFails, list, viewers
<1>4. CASE \E q \in Questions : sendCompletes(q) \/ quizTimer(q)
  BY <1>1, <1>4 DEF sendCompletes, quizTimer, list, viewers
<1>5. QED
  BY <1>2, <1>3, <1>4, HostBallots, AskBallots, ArriveBallots, ListBallots, ScreenBallots,
     ClickBallots, Devices
-----------------------------------------------------------------------------
LEMMA Inits == Init => TypeInvariant /\ LockHasTimer /\ LabelInvariant /\ AnswerInvariant
<1> SUFFICES ASSUME Init
             PROVE  TypeInvariant /\ LockHasTimer /\ LabelInvariant /\ AnswerInvariant
  OBVIOUS
<1> USE DEF Init
<1>1. << >> \in Seq(Closure) /\ << >> \in Seq(Answer) /\ DOMAIN << >> = {}
  OBVIOUS
<1>2. TypeInvariant
  <2>1. visit \in 1..MaxVisits /\ speech \in Nat
    BY IosAssumption
  <2>2. /\ timers \subseteq Questions /\ sending \subseteq Questions /\ net \subseteq Message
        /\ texts \in 0..MaxQuestions /\ {alert, label, asked} \subseteq 0..MaxQuestions
    BY IosAssumption
  <2>3. mainQueue \in Seq(Closure) /\ answers \in Seq(Answer)
    BY <1>1
  <2>4. statistics \in [total : Nat, yes : Nat, no : Nat]
    OBVIOUS
  <2>5. shown \in [Viewers -> 0..MaxQuestions] /\ alertTimers \in [Viewers -> SUBSET Questions]
    BY IosAssumption
  <2>6. {here, listening, isSelected, isAnswering} \subseteq BOOLEAN
    OBVIOUS
  <2>7. QED
    BY <2>1, <2>2, <2>3, <2>4, <2>5, <2>6 DEF TypeInvariant
<1>3. LockHasTimer /\ LabelInvariant
  BY <1>1 DEF LockHasTimer, LabelInvariant, LastShowIsAsked, LabelIsLastQuiz
<1>4. OneInNet /\ OneInQueue /\ OneAnswerEach /\ AlertOfText
  BY <1>1 DEF OneInNet, OneInQueue, OneAnswerEach, AlertOfText
<1>5. OnePlace
  BY <1>1 DEF OnePlace, Offered, InNet, InQueue, InList, Questions
<1>6. QED
  BY <1>2, <1>3, <1>4, <1>5 DEF AnswerInvariant

LEMMA Invariants ==
  Spec => [](TypeInvariant /\ LockHasTimer /\ LabelInvariant /\ AnswerInvariant)
<1>1. TypeInvariant /\ LockHasTimer /\ LabelInvariant /\ AnswerInvariant /\ [Next]_vars
        => (TypeInvariant /\ LockHasTimer /\ LabelInvariant /\ AnswerInvariant)'
  BY TypeStep, LockStep, LabelStep, AnswerStep
<1>2. QED
  BY <1>1, Inits, PTL DEF Spec

\* Every variable keeps its type.
THEOREM IosTypes == Spec => []TypeInvariant
BY Invariants, PTL

\* While the voice button is locked a closure is on its way that unlocks it, for any
\* number of quizzes whose times overlap and of visits.
THEOREM IosLock == Spec => []LockHasTimer
BY Invariants, PTL

\* The label shows the quiz this visit sent last, once its closure ran, for any number
\* of closures in the queue and of visits that left some there.
THEOREM IosLabel == Spec => []LabelIsLastQuiz
<1>1. LabelInvariant => LabelIsLastQuiz
  BY DEF LabelInvariant
<1>2. QED
  BY <1>1, Invariants, PTL

\* Each viewer is listed once at most for each quiz, for every audience and every
\* number of quizzes.
THEOREM IosAnswers == Spec => []OneAnswerEach
<1>1. AnswerInvariant => OneAnswerEach
  BY DEF AnswerInvariant
<1>2. QED
  BY <1>1, Invariants, PTL

\* Every viewer has one ballot for each quiz, which is cast, listed and thrown away once
\* at most, for every audience, every number of quizzes and of visits.
THEOREM IosBallots == Spec => ImplementsBallots
<1>1. Init => B!BInit
  <2>1. SUFFICES ASSUME Init PROVE B!BInit
    OBVIOUS
  <2>2. texts = 0 /\ net = {} /\ DOMAIN mainQueue = {} /\ DOMAIN answers = {}
    BY <2>1 DEF Init
  <2>3. \A q \in Questions : Unsent(q)
    BY <2>2 DEF Unsent, Questions
  <2>4. Arriving = {} /\ Listed = {}
    BY <2>2 DEF Arriving, Listed
  <2>5. {b \in Viewers \X Questions : IsOpen(b[1], b[2])} = Viewers \X Questions
    BY <2>3 DEF IsOpen
  <2>6. QED
    BY <2>4, <2>5 DEF B!BInit, IsOpen, Listed
<1>2. QED
  BY <1>1, BallotStep, Invariants, PTL DEF Spec, ImplementsBallots, B!Ballots
-----------------------------------------------------------------------------
(* What makes a quiz alert end: the state's half of QuizAlertEnds.         *)

AlertHasTimer ==
  \A v \in Viewers, q \in Questions : shown[v] = q => q \in alertTimers[v]

LEMMA AlertStep ==
  ASSUME TypeInvariant, AlertHasTimer, [Next]_vars
  PROVE  AlertHasTimer'
<1> USE DEF AlertHasTimer
<1>1. shown \in [Viewers -> 0..MaxQuestions] /\ alertTimers \in [Viewers -> SUBSET Questions]
  BY DEF TypeInvariant
<1>2. CASE UNCHANGED <<shown, alertTimers>>
  BY <1>2
<1>3. CASE \E v \in Viewers, q \in Questions : didReceiveQuiz(v, q)
  BY <1>1, <1>3 DEF didReceiveQuiz
<1>4. CASE \E v \in Viewers, q \in Questions : alertTimeout(v, q)
  BY <1>1, <1>4 DEF alertTimeout, Questions
<1>5. CASE \E v \in Viewers, b \in Buttons : click(v, b)
  BY <1>1, <1>5 DEF click, Questions
<1>6. CASE \/ touchesBegan \/ touchesEnded \/ speechFails \/ didReceiveResult
           \/ alertCancel \/ alertOK \/ leave \/ enter
           \/ \E q \in Questions : sendCompletes(q) \/ quizTimer(q)
  BY <1>2, <1>6 DEF touchesBegan, touchesEnded, speechFails, didReceiveResult, alertCancel,
                    alertOK, leave, enter, sendCompletes, quizTimer, viewers
<1>7. CASE (\E a \in Answer : didReceiveAnswer(a)) \/ staleClosure \/ showClosure \/ addClosure
  BY <1>2, <1>7 DEF didReceiveAnswer, staleClosure, showClosure, addClosure, viewers
<1>8. CASE UNCHANGED vars
  BY <1>2, <1>8 DEF vars, viewers
<1>9. QED
  BY <1>3, <1>4, <1>5, <1>6, <1>7, <1>8, Devices

\* The alert on a viewer's screen has a timer of its own that will dismiss it, whatever
\* alerts were not shown because of it and however many timers run.
THEOREM IosAlert == Spec => []AlertHasTimer
<1>1. Init => AlertHasTimer
  BY DEF Init, AlertHasTimer, Questions
<1>2. TypeInvariant /\ AlertHasTimer /\ [Next]_vars => AlertHasTimer'
  BY AlertStep
<1>3. QED
  BY <1>1, <1>2, IosTypes, PTL DEF Spec
=============================================================================
