-------------------------- MODULE RoomEventsProofs --------------------------
(***************************************************************************)
(* Proofs about what a viewer sees of the room, for every number of        *)
(* members, activities, reports and lines: the types for any number of     *)
(* activities at once, the rest for a user who opens one room at a time.   *)
(***************************************************************************)
EXTENDS RoomEventsProps, SeqFacts, FiniteSetTheorems, TLAPS

LEMMA Threads2 ==
  ASSUME Next
  PROVE  \/ /\ \/ onCreate \/ finish
               \/ \E u \in Members : reportJoined(u) \/ reportFrame(u) \/ reportOffline(u)
               \/ checkCallback \/ callCallback \/ postScreenChange
               \/ runNext \/ doSendMsg
               \/ \E a \in Activities : onMessageReceived(a)
            /\ UNCHANGED crashed
         \/ callNull
BY DEF Next, Step
-----------------------------------------------------------------------------
(* Types.                                                                  *)

Checked == [at : {"checked"}, event : Event]
Posting == [at : {"posting"}, event : Event, to : Activities]

LEMMA SdkTypes ==
  ASSUME TypeInvariant
  PROVE  /\ sdk.at = "checked" => sdk.event \in Event
         /\ sdk.at = "posting" => sdk.event \in Event /\ sdk.to \in Activities
         /\ sdk.at \in {"idle", "checked", "posting"}
         /\ sdk.at = "idle" => sdk = Idle
BY DEF TypeInvariant, Idle

LEMMA EventTypes ==
  ASSUME NEW e \in Event
  PROVE  e.kind \in Kinds /\ e.uid \in Members /\ e.of \in Activities
BY DEF Event

LEMMA RunnableTypes ==
  ASSUME NEW r \in Runnable
  PROVE  /\ r.to \in Activities
         /\ r.run \in Kinds \cup {"line"}
         /\ r.run = "line" => r.line \in Line
         /\ r.run # "line" => r.uid \in Members
<1>1. CASE r \in [to : Activities, run : {"line"}, line : Line]
  BY <1>1
<1>2. CASE r \in [to : Activities, run : Kinds, uid : Members]
  BY <1>2 DEF Kinds
<1>3. QED
  BY <1>1, <1>2 DEF Runnable

\* What the SDK's thread posts.
LEMMA PostTypes ==
  ASSUME NEW a \in Activities, NEW e \in Event
  PROVE  presenceLine(a, e) \in Runnable /\ screenChange(a, e) \in Runnable
<1>1. e.kind \in Kinds /\ e.uid \in Members
  BY EventTypes
<1>2. [who |-> e.uid, says |-> IF e.kind = "joined" THEN "online" ELSE "offline"] \in Line
  BY <1>1 DEF Line
<1>3. QED
  BY <1>1, <1>2 DEF presenceLine, screenChange, Runnable

LEMMA ShowTypes ==
  ASSUME TypeInvariant, NEW a, NEW line \in Line, show(a, line)
  PROVE  /\ lines' \in [Activities -> Seq(Line)]
         /\ \A b \in Activities : Len(lines'[b]) <= MaxMsgCount
<1>1. ASSUME NEW b \in Activities
      PROVE  lines'[b] \in Seq(Line) /\ Len(lines'[b]) <= MaxMsgCount
  <2>1. lines[b] \in Seq(Line) /\ Len(lines[b]) <= MaxMsgCount /\ Len(lines[b]) \in Nat
    BY LenProperties DEF TypeInvariant
  <2>2. MaxMsgCount \in Nat \ {0}
    BY RoomAssumption
  <2>3. /\ AddMessage(lines[b], line, MaxMsgCount) \in Seq(Line)
        /\ Len(AddMessage(lines[b], line, MaxMsgCount)) <= MaxMsgCount
    BY <2>1, <2>2, AddMessageProperties
  <2>4. lines'[b] \in {lines[b], AddMessage(lines[b], line, MaxMsgCount)}
    BY DEF show, TypeInvariant
  <2>5. QED
    BY <2>1, <2>3, <2>4
<1>2. lines' = [b \in Activities |-> lines'[b]]
  BY DEF show, TypeInvariant
<1>3. QED
  BY <1>1, <1>2

LEMMA TypeStep ==
  ASSUME TypeInvariant, [Next]_vars
  PROVE  TypeInvariant'
<1> USE DEF TypeInvariant, views, service
<1>1. CASE UNCHANGED vars
  BY <1>1 DEF vars
<1>2. CASE onCreate /\ UNCHANGED crashed
  <2>1. opened \in Nat /\ opened' = opened + 1 /\ opened' \in 1..MaxActivities
    BY <1>2, RoomAssumption DEF onCreate
  <2>2. live' \subseteq 1..opened' /\ mEventCallback' \in {0} \cup live'
    BY <1>2, <2>1 DEF onCreate
  <2>3. session' \in 0..MaxActivities
    BY <1>2, <2>1 DEF onCreate
  <2>4. QED
    BY <1>2, <2>1, <2>2, <2>3 DEF onCreate
<1>3. CASE finish /\ UNCHANGED crashed
  <2>1. live' \subseteq 1..opened /\ opened' = opened
    BY <1>3 DEF finish
  <2>2. session' \in 0..MaxActivities /\ mEventCallback' = 0
    BY <1>3, RoomAssumption DEF finish
  <2>3. << >> \in Seq(Event) /\ events \in Seq(Event)
    OBVIOUS
  <2>4. events' \in Seq(Event)
    BY <1>3, <2>3 DEF finish
  <2>5. QED
    BY <1>3, <2>1, <2>2, <2>4 DEF finish
<1>4. CASE /\ \E u \in Members : reportJoined(u) \/ reportFrame(u) \/ reportOffline(u)
           /\ UNCHANGED crashed
  <2>1. PICK u \in Members : reportJoined(u) \/ reportFrame(u) \/ reportOffline(u)
    BY <1>4
  <2>2. PICK k \in Kinds : report(k, u)
    BY <2>1 DEF reportJoined, reportFrame, reportOffline, Kinds
  <2>3. session \in Activities
    BY <2>2 DEF report, Activities
  <2>4. [kind |-> k, uid |-> u, of |-> session] \in Event
    BY <2>3 DEF Event
  <2>5. events' \in Seq(Event) /\ reports' \in 0..MaxReports
    BY <2>2, <2>4, RoomAssumption DEF report
  <2>6. decoded' \subseteq present' /\ present' \subseteq Members
    BY <2>1 DEF reportJoined, reportFrame, reportOffline
  <2>7. QED
    BY <1>4, <2>2, <2>5, <2>6 DEF report
<1>5. CASE checkCallback /\ UNCHANGED crashed
  <2>1. Head(events) \in Event /\ events' \in Seq(Event)
    BY <1>5 DEF checkCallback
  <2>2. sdk' \in {Idle} \cup Checked
    BY <1>5, <2>1 DEF checkCallback, Checked
  <2>3. QED
    BY <1>5, <2>1, <2>2 DEF checkCallback, Checked
<1>6. CASE callCallback /\ UNCHANGED crashed
  <2>1. sdk.event \in Event /\ mEventCallback \in Activities
    BY <1>6, SdkTypes, RoomAssumption DEF callCallback, Activities
  <2>2. looper' \in Seq(Runnable)
    <3>1. PICK r \in Runnable : looper' = Append(looper, r)
      BY <1>6, <2>1, PostTypes DEF callCallback
    <3>2. looper \in Seq(Runnable)
      OBVIOUS
    <3>3. QED
      BY <3>1, <3>2, AppendProperties
  <2>3. sdk' \in {Idle} \cup Posting
    BY <1>6, <2>1 DEF callCallback, Posting
  <2>4. strayed' \subseteq Activities
    BY <1>6, <2>1 DEF callCallback
  <2>5. QED
    BY <1>6, <2>2, <2>3, <2>4 DEF callCallback, Posting
<1>7. CASE postScreenChange /\ UNCHANGED crashed
  <2>1. looper' \in Seq(Runnable)
    BY <1>7, SdkTypes, PostTypes DEF postScreenChange
  <2>2. QED
    BY <1>7, <2>1 DEF postScreenChange
<1>8. CASE runNext /\ UNCHANGED crashed
  <2>1. PICK r \in Runnable : r = Head(looper)
    BY <1>8 DEF runNext
  <2>2. looper' \in Seq(Runnable)
    BY <1>8 DEF runNext
  <2>3. CASE runLine(r)
    <3>1. /\ lines' \in [Activities -> Seq(Line)]
          /\ \A b \in Activities : Len(lines'[b]) <= MaxMsgCount
      BY <2>3, RunnableTypes, ShowTypes DEF runLine
    <3>2. QED
      BY <1>8, <2>2, <2>3, <3>1 DEF runNext, runLine
  <2>4. CASE runJoined(r)
    BY <1>8, <2>2, <2>4 DEF runNext, runJoined
  <2>5. CASE runOffline(r)
    BY <1>8, <2>2, <2>5 DEF runNext, runOffline
  <2>6. CASE runFrame(r)
    BY <1>8, <2>2, <2>6 DEF runNext, runFrame
  <2>7. QED
    BY <1>8, <2>1, <2>3, <2>4, <2>5, <2>6 DEF runNext
<1>9. CASE doSendMsg /\ UNCHANGED crashed
  <2>1. [text |-> "sent"] \in Line
    BY DEF Line
  <2>2. /\ lines' \in [Activities -> Seq(Line)]
        /\ \A b \in Activities : Len(lines'[b]) <= MaxMsgCount
    BY <1>9, <2>1, ShowTypes DEF doSendMsg
  <2>3. texts' \in 0..MaxTexts
    BY <1>9, RoomAssumption DEF doSendMsg
  <2>4. QED
    BY <1>9, <2>2, <2>3 DEF doSendMsg
<1>10. CASE (\E a \in Activities : onMessageReceived(a)) /\ UNCHANGED crashed
  <2>1. PICK a \in Activities : onMessageReceived(a)
    BY <1>10
  <2>2. [to |-> a, run |-> "line", line |-> [text |-> "received"]] \in Runnable
    BY DEF Runnable, Line
  <2>3. looper' \in Seq(Runnable) /\ texts' \in 0..MaxTexts
    BY <2>1, <2>2, RoomAssumption DEF onMessageReceived
  <2>4. QED
    BY <1>10, <2>1, <2>3 DEF onMessageReceived
<1>11. CASE callNull
  BY <1>11 DEF callNull
<1>12. QED
  BY <1>1, <1>2, <1>3, <1>4, <1>5, <1>6, <1>7, <1>8, <1>9, <1>10, <1>11, Threads2

LEMMA TypeInit == Init => TypeInvariant
<1> SUFFICES ASSUME Init PROVE TypeInvariant
  OBVIOUS
<1> USE RoomAssumption DEF Init
<1>1. << >> \in Seq(Line) /\ << >> \in Seq(Runnable) /\ << >> \in Seq(Event) /\ Len(<< >>) = 0
  OBVIOUS
<1>2. /\ surface \in [Activities -> BOOLEAN] /\ notice \in [Activities -> BOOLEAN]
      /\ noticeText \in [Activities -> {"living_anchor_offline", "living_no_surfaceview"}]
  OBVIOUS
<1>3. lines \in [Activities -> Seq(Line)] /\ \A a \in Activities : Len(lines[a]) <= MaxMsgCount
  BY <1>1
<1>4. looper \in Seq(Runnable) /\ events \in Seq(Event)
  BY <1>1
<1>5. /\ opened \in 0..MaxActivities /\ session \in 0..MaxActivities
      /\ reports \in 0..MaxReports /\ texts \in 0..MaxTexts
  OBVIOUS
<1>6. /\ live \subseteq 1..opened /\ strayed \subseteq Activities /\ mEventCallback = 0
      /\ sdk = Idle /\ crashed \in BOOLEAN /\ decoded \subseteq present
      /\ present \subseteq Members
  OBVIOUS
<1>7. QED
  BY <1>2, <1>3, <1>4, <1>5, <1>6 DEF TypeInvariant

\* Every variable keeps its type, and no window ever holds more than MAX_MSG_COUNT lines,
\* for any number of activities on the stack.
THEOREM RoomTypes == Spec => []TypeInvariant
BY TypeInit, TypeStep, PTL DEF Spec
-----------------------------------------------------------------------------
(* What a sequence tells last.                                             *)

Tells(s, P)       == \E i \in DOMAIN s : s[i] \in P
LastTold(s, P, V) ==
  \A i \in DOMAIN s : s[i] \in P /\ (\A j \in DOMAIN s : j > i => s[j] \notin P) => s[i] \in V

LEMMA AppendTold ==
  ASSUME NEW S, NEW s \in Seq(S), NEW e \in S, NEW P, NEW V
  PROVE  /\ Tells(Append(s, e), P) <=> Tells(s, P) \/ e \in P
         /\ LastTold(s, P, V) /\ e \notin P => LastTold(Append(s, e), P, V)
         /\ e \in P /\ e \in V => LastTold(Append(s, e), P, V)
<1> DEFINE t == Append(s, e)
           n == Len(s)
<1>1. /\ n \in Nat
      /\ DOMAIN s = 1..n /\ DOMAIN t = 1..(n + 1)
      /\ t[n + 1] = e
      /\ \A i \in 1..n : t[i] = s[i]
  BY AppendProperties, LenProperties
<1> HIDE DEF t, n
<1>2. Tells(t, P) <=> Tells(s, P) \/ e \in P
  BY <1>1 DEF Tells
<1>3. ASSUME LastTold(s, P, V), e \notin P
      PROVE  LastTold(t, P, V)
  <2>1. SUFFICES ASSUME NEW i \in 1..(n + 1), t[i] \in P,
                        \A j \in 1..(n + 1) : j > i => t[j] \notin P
                 PROVE  t[i] \in V
    BY <1>1 DEF LastTold
  <2>2. i \in 1..n
    BY <1>1, <1>3, <2>1
  <2>3. \A j \in 1..n : j > i => s[j] \notin P
    BY <1>1, <2>1
  <2>4. QED
    BY <1>1, <1>3, <2>1, <2>2, <2>3 DEF LastTold
<1>4. ASSUME e \in P, e \in V
      PROVE  LastTold(t, P, V)
  <2>1. SUFFICES ASSUME NEW i \in 1..(n + 1), t[i] \in P,
                        \A j \in 1..(n + 1) : j > i => t[j] \notin P
                 PROVE  t[i] \in V
    BY <1>1 DEF LastTold
  <2>2. i = n + 1
    BY <1>1, <1>4, <2>1
  <2>3. QED
    BY <1>1, <1>4, <2>2
<1>5. QED
  BY <1>2, <1>3, <1>4 DEF t

LEMMA TailTold ==
  ASSUME NEW S, NEW s \in Seq(S), s # << >>, NEW P, NEW V
  PROVE  /\ Tells(s, P) <=> Head(s) \in P \/ Tells(Tail(s), P)
         /\ LastTold(s, P, V) => LastTold(Tail(s), P, V)
         /\ LastTold(s, P, V) /\ Head(s) \in P /\ ~Tells(Tail(s), P) => Head(s) \in V
<1> DEFINE t == Tail(s)
           n == Len(t)
<1>1. /\ n \in Nat
      /\ DOMAIN t = 1..n /\ DOMAIN s = 1..(n + 1)
      /\ s[1] = Head(s)
      /\ \A i \in 1..n : t[i] = s[i + 1]
  <2>1. /\ t \in Seq(S) /\ Len(t) = Len(s) - 1
        /\ \A i \in 1..Len(t) : t[i] = s[i + 1]
    BY HeadTailProperties
  <2>2. Len(s) \in Nat /\ n \in Nat /\ DOMAIN s = 1..Len(s) /\ DOMAIN t = 1..n
    BY <2>1, LenProperties
  <2>3. QED
    BY <2>1, <2>2
<1> HIDE DEF t, n
<1>2. Tells(s, P) <=> Head(s) \in P \/ Tells(t, P)
  <2>1. ASSUME Tells(s, P)
        PROVE  Head(s) \in P \/ Tells(t, P)
    <3>1. PICK i \in 1..(n + 1) : s[i] \in P
      BY <1>1, <2>1 DEF Tells
    <3>2. CASE i = 1
      BY <1>1, <3>1, <3>2
    <3>3. CASE i # 1
      <4>1. i - 1 \in 1..n /\ (i - 1) + 1 = i
        BY <1>1, <3>3
      <4>2. t[i - 1] \in P
        BY <1>1, <3>1, <4>1
      <4>3. QED
        BY <1>1, <4>1, <4>2 DEF Tells
    <3>4. QED
      BY <3>2, <3>3
  <2>2. ASSUME Head(s) \in P
        PROVE  Tells(s, P)
    BY <1>1, <2>2 DEF Tells
  <2>3. ASSUME Tells(t, P)
        PROVE  Tells(s, P)
    <3>1. PICK i \in 1..n : t[i] \in P
      BY <1>1, <2>3 DEF Tells
    <3>2. i + 1 \in 1..(n + 1) /\ s[i + 1] \in P
      BY <1>1, <3>1
    <3>3. QED
      BY <1>1, <3>2 DEF Tells
  <2>4. QED
    BY <2>1, <2>2, <2>3
<1>3. ASSUME LastTold(s, P, V)
      PROVE  LastTold(t, P, V)
  <2>1. SUFFICES ASSUME NEW i \in 1..n, t[i] \in P,
                        \A j \in 1..n : j > i => t[j] \notin P
                 PROVE  t[i] \in V
    BY <1>1 DEF LastTold
  <2>2. i + 1 \in 1..(n + 1) /\ s[i + 1] \in P
    BY <1>1, <2>1
  <2>3. ASSUME NEW j \in 1..(n + 1), j > i + 1
        PROVE  s[j] \notin P
    <3>1. j - 1 \in 1..n /\ j - 1 > i /\ (j - 1) + 1 = j
      BY <1>1, <2>3
    <3>2. t[j - 1] \notin P /\ t[j - 1] = s[j]
      BY <1>1, <2>1, <3>1
    <3>3. QED
      BY <3>2
  <2>4. s[i + 1] \in V
    BY <1>1, <1>3, <2>2, <2>3 DEF LastTold
  <2>5. QED
    BY <1>1, <2>4
<1>4. ASSUME LastTold(s, P, V), Head(s) \in P, ~Tells(t, P)
      PROVE  Head(s) \in V
  <2>1. ASSUME NEW j \in 1..(n + 1), j > 1
        PROVE  s[j] \notin P
    <3>1. j - 1 \in 1..n /\ (j - 1) + 1 = j
      BY <1>1, <2>1
    <3>2. QED
      BY <1>1, <1>4, <3>1 DEF Tells
  <2>2. 1 \in 1..(n + 1)
    BY <1>1
  <2>3. QED
    BY <1>1, <1>4, <2>1, <2>2 DEF LastTold
<1>5. QED
  BY <1>2, <1>3, <1>4 DEF t

\* A window forgets its first lines only.
LEMMA AddMessageTold ==
  ASSUME NEW S, NEW s \in Seq(S), NEW e \in S, NEW max \in Nat \ {0}, NEW P, NEW V
  PROVE  /\ LastTold(s, P, V) /\ e \notin P => LastTold(AddMessage(s, e, max), P, V)
         /\ e \in P /\ e \in V => LastTold(AddMessage(s, e, max), P, V)
<1> DEFINE t == AddMessage(s, e, max)
           n == Len(t)
           lost == IF Len(s) >= max THEN Len(s) - max + 1 ELSE 0
<1>1. PICK d \in Nat :
        /\ n \in Nat /\ Len(s) \in Nat /\ n = Len(s) + 1 - d
        /\ DOMAIN s = 1..Len(s) /\ DOMAIN t = 1..n
        /\ t[n] = e
        /\ \A i \in 1..(n - 1) : t[i] = s[d + i]
  <2>1. Len(s) \in Nat /\ DOMAIN s = 1..Len(s)
    BY LenProperties
  <2>2. /\ t \in Seq(S) /\ n = (IF Len(s) >= max THEN max ELSE Len(s) + 1) /\ t[n] = e
        /\ \A i \in 1..(n - 1) :
             t[i] = s[IF Len(s) >= max THEN Len(s) - max + 1 + i ELSE i]
    BY AddMessageProperties
  <2>3. n \in Nat /\ DOMAIN t = 1..n
    BY <2>2, LenProperties
  <2> HIDE DEF t, n
  <2>4. lost \in Nat /\ n = Len(s) + 1 - lost
    BY <2>1, <2>2
  <2>5. \A i \in 1..(n - 1) : t[i] = s[lost + i]
    BY <2>1, <2>2, <2>3
  <2>6. QED
    BY <2>1, <2>2, <2>3, <2>4, <2>5
<1> HIDE DEF t, n
<1>2. ASSUME LastTold(s, P, V), e \notin P
      PROVE  LastTold(t, P, V)
  <2>1. SUFFICES ASSUME NEW i \in 1..n, t[i] \in P,
                        \A j \in 1..n : j > i => t[j] \notin P
                 PROVE  t[i] \in V
    BY <1>1 DEF LastTold
  <2>2. i \in 1..(n - 1) /\ d + i \in 1..Len(s)
    BY <1>1, <1>2, <2>1
  <2>3. ASSUME NEW k \in 1..Len(s), k > d + i
        PROVE  s[k] \notin P
    <3>1. k - d \in 1..(n - 1) /\ k - d \in 1..n /\ k - d > i /\ d + (k - d) = k
      BY <1>1, <2>2, <2>3
    <3>2. t[k - d] = s[k] /\ t[k - d] \notin P
      BY <1>1, <2>1, <3>1
    <3>3. QED
      BY <3>2
  <2>4. QED
    BY <1>1, <1>2, <2>1, <2>2, <2>3 DEF LastTold
<1>3. ASSUME e \in P, e \in V
      PROVE  LastTold(t, P, V)
  <2>1. SUFFICES ASSUME NEW i \in 1..n, t[i] \in P,
                        \A j \in 1..n : j > i => t[j] \notin P
                 PROVE  t[i] \in V
    BY <1>1 DEF LastTold
  <2>2. i = n
    BY <1>1, <1>3, <2>1
  <2>3. QED
    BY <1>1, <1>3, <2>2
<1>4. QED
  BY <1>2, <1>3 DEF t
-----------------------------------------------------------------------------
(* One room at a time.                                                     *)

\* The activity that is open, the one RtcEngineManager knows and the one whose
\* session the device is in are the same.
OneRoom ==
  /\ live \subseteq {opened}
  /\ mEventCallback = IF live = {} THEN 0 ELSE opened
  /\ session = mEventCallback
  /\ opened = 0 => live = {}

\* What one activity was told and shows says nothing of the next.
Fresh ==
  /\ events \in Seq({e \in Event : e.of <= opened})
  /\ looper \in Seq({r \in Runnable : r.to <= opened})
  /\ sdk.at # "idle" => sdk.event.of <= opened
  /\ sdk.at = "posting" => sdk.to <= opened /\ sdk.event.kind # "frame"
  /\ \A a \in Activities : a > opened =>
       ~surface[a] /\ noticeText[a] = "living_anchor_offline" /\ lines[a] = << >>
  /\ session = 0 => present = {}

\* Two things are told of the anchor: whether his picture is there, by frames, and
\* whether he is in the room, by joins; leaving takes both back.  The lines of the
\* window tell of every member whether he is in the room.
Things   == [what : {"picture", "presence"}, uid : {ANCHOR_UID}]
            \cup [what : {"line"}, uid : Members]
Begins(x) == IF x.what = "picture" THEN "frame" ELSE "joined"
Speaks(x) == {Begins(x), "offline"}
Holds(x)  == IF x.what = "picture" THEN ANCHOR_UID \in decoded ELSE x.uid \in present

Presence     == [who : Members, says : {"online", "offline"}]
About(x)     == {l \in Presence : l.who = x.uid}
LinesTrue(x) == {l \in Presence : (l.says = "online") <=> Holds(x)}

Shown(x, a) == IF x.what = "picture" THEN surface[a]
                                     ELSE noticeText[a] = "living_no_surfaceview"
Shows(x, a) == IF x.what = "line" THEN LastTold(lines[a], About(x), LinesTrue(x))
                                  ELSE Shown(x, a) <=> Holds(x)

Reported(x, a)  == {e \in Event : e.of = a /\ e.uid = x.uid /\ e.kind \in Speaks(x)}
ReportedTrue(x) == {e \in Event : (e.kind = Begins(x)) <=> Holds(x)}
Posted(x, a) ==
  IF x.what = "line"
  THEN {r \in Runnable : r.to = a /\ r.run = "line" /\ r.line \in About(x)}
  ELSE {r \in Runnable : /\ r.to = a /\ r.run \in Speaks(x)
                         /\ r.run = "frame" => r.uid = ANCHOR_UID}
PostedTrue(x) ==
  IF x.what = "line"
  THEN {r \in Runnable : r.run = "line" /\ r.line \in LinesTrue(x)}
  ELSE {r \in Runnable : (r.run = Begins(x)) <=> Holds(x)}
Held(x, a) ==
  \/ sdk.at = "checked" /\ sdk.event \in Reported(x, a)
  \/ x.what # "line" /\ sdk.at = "posting" /\ sdk.to = a /\ sdk.event.kind \in Speaks(x)

\* The last word on it, wherever it is on its way to the screen, is true.
InLooper(x, a) ==
  /\ LastTold(looper, Posted(x, a), PostedTrue(x))
  /\ ~Tells(looper, Posted(x, a)) => Shows(x, a)
InThread(x, a) ==
  /\ Held(x, a) => ((sdk.event.kind = Begins(x)) <=> Holds(x))
  /\ ~Held(x, a) => InLooper(x, a)
Told(x, a) ==
  /\ LastTold(events, Reported(x, a), ReportedTrue(x))
  /\ ~Tells(events, Reported(x, a)) => InThread(x, a)

AllTold == session # 0 /\ session \notin strayed => \A x \in Things : Told(x, session)

Opposite == \A a \in Activities : notice[a] = ~surface[a]

RoomInvariant == TypeInvariant /\ OneRoom /\ Fresh /\ AllTold /\ Opposite

LEMMA TopIsOpened ==
  ASSUME OneRoom, live # {}
  PROVE  /\ Top = opened /\ live = {opened}
         /\ session = opened /\ mEventCallback = opened /\ opened # 0
BY DEF OneRoom, Top

\* With MaxOpen = 1 a room is opened from the list of rooms only.
LEMMA NoneOpen ==
  ASSUME MaxOpen = 1, OneRoom, onCreate
  PROVE  live = {}
<1>1. SUFFICES ASSUME live # {} PROVE FALSE
  OBVIOUS
<1>2. Cardinality(live) = 1
  BY <1>1, TopIsOpened, FS_Singleton
<1>3. QED
  BY <1>2 DEF onCreate

LEMMA OneRoomStep ==
  ASSUME MaxOpen = 1, TypeInvariant, OneRoom, [Next]_vars
  PROVE  OneRoom'
<1> USE DEF OneRoom
<1>1. CASE UNCHANGED vars
  BY <1>1 DEF vars, service
<1>2. CASE onCreate
  <2>1. live = {} /\ opened \in Nat
    BY <1>2, NoneOpen, RoomAssumption DEF TypeInvariant
  <2>2. QED
    BY <1>2, <2>1 DEF onCreate
<1>3. CASE finish
  <2>1. live # {}
    BY <1>3 DEF finish
  <2>2. live' = {}
    BY <1>3, <2>1, TopIsOpened DEF finish
  <2>3. QED
    BY <1>3, <2>2 DEF finish
<1>4. CASE \E u \in Members : reportJoined(u) \/ reportFrame(u) \/ reportOffline(u)
  BY <1>4 DEF reportJoined, reportFrame, reportOffline, report
<1>5. CASE checkCallback \/ callCallback \/ postScreenChange
  BY <1>5 DEF checkCallback, callCallback, postScreenChange, service
<1>6. CASE runNext \/ doSendMsg \/ \E a \in Activities : onMessageReceived(a)
  BY <1>6 DEF runNext, doSendMsg, onMessageReceived, service
<1>7. CASE callNull
  BY <1>7 DEF callNull, service
<1>8. QED
  BY <1>1, <1>2, <1>3, <1>4, <1>5, <1>6, <1>7, Threads2

\* A line goes into the window of an activity, and leaves the others alone.
LEMMA LineShown ==
  ASSUME TypeInvariant, NEW a \in Activities, NEW b \in Activities, NEW line \in Line,
         show(b, line), NEW P, NEW V
  PROVE  /\ a # b \/ line \notin P => (LastTold(lines[a], P, V) => LastTold(lines'[a], P, V))
         /\ a = b /\ line \in P /\ line \in V => LastTold(lines'[a], P, V)
<1>1. lines \in [Activities -> Seq(Line)] /\ lines[b] \in Seq(Line)
  BY DEF TypeInvariant
<1>2. lines'[a] = IF a = b THEN AddMessage(lines[b], line, MaxMsgCount) ELSE lines[a]
  BY <1>1 DEF show
<1>3. QED
  BY <1>1, <1>2, RoomAssumption, AddMessageTold

\* What a Runnable does to the screens.
LEMMA RunShown ==
  ASSUME TypeInvariant, runNext, NEW a \in Activities, NEW x \in Things,
         Holds(x)' <=> Holds(x), LinesTrue(x)' = LinesTrue(x)
  PROVE  LET r == Head(looper)
         IN  /\ r \in Posted(x, a) /\ r \in PostedTrue(x) => Shows(x, a)'
             /\ r \notin Posted(x, a) /\ Shows(x, a) => Shows(x, a)'
<1>1. PICK r \in Runnable : r = Head(looper)
  BY HeadTailProperties DEF runNext, TypeInvariant
<1>2. r.to \in Activities /\ (r.run = "line" => r.line \in Line)
  BY RunnableTypes
<1>3. /\ surface \in [Activities -> BOOLEAN]
      /\ noticeText \in [Activities -> {"living_anchor_offline", "living_no_surfaceview"}]
  BY DEF TypeInvariant
<1>4. CASE x.what = "line"
  <2>1. /\ Shows(x, a) <=> LastTold(lines[a], About(x), LinesTrue(x))
        /\ Shows(x, a)' <=> LastTold(lines'[a], About(x), LinesTrue(x))
    BY <1>4 DEF Shows, About
  <2>2. CASE runLine(r)
    <3>1. r.line \in Line /\ r.run = "line" /\ show(r.to, r.line)
      BY <1>2, <2>2 DEF runLine
    <3>2. /\ r \in Posted(x, a) <=> a = r.to /\ r.line \in About(x)
          /\ r \in PostedTrue(x) <=> r.line \in LinesTrue(x)
      BY <1>4, <3>1 DEF Posted, PostedTrue
    <3>3. QED
      BY <1>1, <1>2, <2>1, <3>1, <3>2, LineShown
  <2>3. CASE runJoined(r) \/ runOffline(r) \/ runFrame(r)
    BY <1>1, <1>4, <2>1, <2>3 DEF runJoined, runOffline, runFrame, Posted
  <2>4. QED
    BY <1>1, <2>2, <2>3 DEF runNext
<1>5. CASE x.what # "line"
  <2>1. x.what \in {"picture", "presence"}
    BY <1>5 DEF Things
  <2>2. /\ r \in Posted(x, a) => (Shown(x, a)' <=> r.run = Begins(x))
        /\ r \notin Posted(x, a) => (Shown(x, a)' <=> Shown(x, a))
    <3> USE DEF Shown, Posted, Speaks, Begins
    <3>1. CASE runLine(r)
      BY <1>5, <2>1, <3>1 DEF runLine
    <3>2. CASE runJoined(r)
      BY <1>2, <1>3, <1>5, <2>1, <3>2 DEF runJoined
    <3>3. CASE runOffline(r)
      BY <1>2, <1>3, <1>5, <2>1, <3>3 DEF runOffline
    <3>4. CASE runFrame(r)
      BY <1>2, <1>3, <1>5, <2>1, <3>4 DEF runFrame
    <3>5. QED
      BY <1>1, <3>1, <3>2, <3>3, <3>4 DEF runNext
  <2>3. r \in PostedTrue(x) => ((r.run = Begins(x)) <=> Holds(x))
    BY <1>5 DEF PostedTrue
  <2>4. /\ Shows(x, a) <=> (Shown(x, a) <=> Holds(x))
        /\ Shows(x, a)' <=> (Shown(x, a)' <=> Holds(x)')
    BY <1>5 DEF Shows
  <2>5. QED
    BY <1>1, <2>2, <2>3, <2>4
<1>6. QED
  BY <1>4, <1>5

LEMMA OppositeStep ==
  ASSUME TypeInvariant, Opposite, [Next]_vars
  PROVE  Opposite'
<1>1. CASE runNext
  <2>1. PICK r \in Runnable : r = Head(looper)
    BY <1>1, HeadTailProperties DEF runNext, TypeInvariant
  <2>2. /\ surface \in [Activities -> BOOLEAN] /\ notice \in [Activities -> BOOLEAN]
    BY DEF TypeInvariant
  <2>3. SUFFICES ASSUME NEW a \in Activities
                 PROVE  notice'[a] = ~surface'[a]
    BY DEF Opposite
  <2>4. notice[a] = ~surface[a]
    BY DEF Opposite
  <2>5. CASE runLine(r) \/ runJoined(r)
    BY <2>4, <2>5 DEF runLine, runJoined
  <2>6. CASE runOffline(r)
    BY <2>2, <2>4, <2>6 DEF runOffline
  <2>7. CASE runFrame(r)
    BY <2>2, <2>4, <2>7 DEF runFrame
  <2>8. QED
    BY <1>1, <2>1, <2>5, <2>6, <2>7 DEF runNext
<1>2. CASE UNCHANGED <<surface, notice>>
  BY <1>2 DEF Opposite
<1>3. QED
  <2>1. [Next]_vars => runNext \/ UNCHANGED <<surface, notice>>
    BY DEF Next, Step, vars, views, onCreate, finish, reportJoined, reportFrame,
           reportOffline, report, checkCallback, callCallback, callNull, postScreenChange,
           doSendMsg, onMessageReceived
  <2>2. QED
    BY <1>1, <1>2, <2>1

OldEvents == {e \in Event : e.of <= opened}
OldPosts  == {r \in Runnable : r.to <= opened}

LEMMA OldPostsOf ==
  ASSUME NEW a \in Activities, a <= opened, NEW e \in Event
  PROVE  presenceLine(a, e) \in OldPosts /\ screenChange(a, e) \in OldPosts
BY PostTypes DEF OldPosts, presenceLine, screenChange

LEMMA FreshStep ==
  ASSUME MaxOpen = 1, TypeInvariant, OneRoom, Fresh, [Next]_vars
  PROVE  Fresh'
<1>1. events \in Seq(OldEvents) /\ looper \in Seq(OldPosts)
  BY DEF Fresh, OldEvents, OldPosts
<1>2. SUFFICES /\ events' \in Seq(OldEvents') /\ looper' \in Seq(OldPosts')
               /\ sdk'.at # "idle" => sdk'.event.of <= opened'
               /\ sdk'.at = "posting" => sdk'.to <= opened' /\ sdk'.event.kind # "frame"
               /\ \A a \in Activities : a > opened' =>
                    ~surface'[a] /\ noticeText'[a] = "living_anchor_offline" /\ lines'[a] = << >>
               /\ session' = 0 => present' = {}
  BY DEF Fresh, OldEvents, OldPosts
<1>3. /\ sdk.at # "idle" => sdk.event.of <= opened
      /\ sdk.at = "posting" => sdk.to <= opened /\ sdk.event.kind # "frame"
      /\ \A a \in Activities : a > opened =>
           ~surface[a] /\ noticeText[a] = "living_anchor_offline" /\ lines[a] = << >>
      /\ session = 0 => present = {}
  BY DEF Fresh
<1>4. opened' = opened => OldEvents' = OldEvents /\ OldPosts' = OldPosts
  BY DEF OldEvents, OldPosts
<1>5. opened \in Nat /\ session \in Nat /\ mEventCallback \in Nat
  BY RoomAssumption DEF TypeInvariant
<1>6. session <= opened /\ mEventCallback <= opened
  BY <1>5 DEF OneRoom
<1>7. CASE UNCHANGED vars
  BY <1>1, <1>3, <1>4, <1>7 DEF vars, service, views
<1>8. CASE onCreate
  <2>1. opened' = opened + 1 /\ session' # 0
    BY <1>5, <1>8 DEF onCreate
  <2>2. OldEvents \subseteq OldEvents' /\ OldPosts \subseteq OldPosts'
    <3>1. ASSUME NEW e \in Event, e.of <= opened
          PROVE  e.of <= opened'
      <4>1. e.of \in Nat
        BY EventTypes DEF Activities
      <4>2. QED
        BY <1>5, <2>1, <3>1, <4>1
    <3>2. ASSUME NEW r \in Runnable, r.to <= opened
          PROVE  r.to <= opened'
      <4>1. r.to \in Nat
        BY RunnableTypes DEF Activities
      <4>2. QED
        BY <1>5, <2>1, <3>2, <4>1
    <3>3. QED
      BY <3>1, <3>2 DEF OldEvents, OldPosts
  <2>3. events' \in Seq(OldEvents') /\ looper' \in Seq(OldPosts')
    BY <1>1, <1>8, <2>2, SeqMonotonic DEF onCreate
  <2>4. /\ sdk.at # "idle" => sdk.event.of <= opened'
        /\ sdk.at = "posting" => sdk.to <= opened'
    <3>1. sdk.at # "idle" => sdk.event.of \in Nat
      BY SdkTypes, EventTypes DEF Activities
    <3>2. sdk.at = "posting" => sdk.to \in Nat
      BY SdkTypes DEF Activities
    <3>3. QED
      BY <1>3, <1>5, <2>1, <3>1, <3>2
  <2>5. \A a \in Activities : a > opened' => a > opened
    BY <1>5, <2>1 DEF Activities
  <2>6. QED
    BY <1>3, <1>8, <2>1, <2>3, <2>4, <2>5 DEF onCreate, views
<1>9. CASE finish
  <2>1. events' \in Seq(OldEvents)
    <3>1. << >> \in Seq(OldEvents)
      OBVIOUS
    <3>2. QED
      BY <1>1, <1>9, <3>1 DEF finish
  <2>2. QED
    BY <1>1, <1>3, <1>4, <1>9, <2>1 DEF finish, views
<1>10. CASE \E u \in Members : reportJoined(u) \/ reportFrame(u) \/ reportOffline(u)
  <2>1. PICK u \in Members, k \in Kinds : report(k, u)
    BY <1>10 DEF reportJoined, reportFrame, reportOffline, Kinds
  <2>2. session \in Activities
    BY <2>1 DEF report, TypeInvariant, Activities
  <2>3. [kind |-> k, uid |-> u, of |-> session] \in OldEvents
    BY <1>6, <2>2 DEF OldEvents, Event
  <2>4. events' \in Seq(OldEvents)
    BY <1>1, <2>1, <2>3, AppendProperties DEF report
  <2>5. QED
    BY <1>1, <1>3, <1>4, <2>1, <2>4 DEF report, views
<1>11. CASE checkCallback
  <2>1. Head(events) \in OldEvents /\ events' \in Seq(OldEvents)
    BY <1>1, <1>11, HeadTailProperties DEF checkCallback
  <2>2. sdk' = Idle \/ sdk' = [at |-> "checked", event |-> Head(events)]
    BY <1>11 DEF checkCallback
  <2>3. Head(events).of <= opened
    BY <2>1 DEF OldEvents
  <2>4. /\ sdk'.at # "idle" => sdk'.event.of <= opened
        /\ sdk'.at # "posting"
    BY <2>2, <2>3 DEF Idle
  <2>5. UNCHANGED <<opened, surface, noticeText, lines, looper, session, present>>
    BY <1>11 DEF checkCallback, views
  <2>6. QED
    BY <1>1, <1>3, <1>4, <2>1, <2>4, <2>5
<1>12. CASE callCallback
  <2>1. sdk.event \in Event /\ sdk.event.of <= opened
    BY <1>3, <1>12, SdkTypes DEF callCallback
  <2>2. mEventCallback \in Activities
    BY <1>12, RoomAssumption DEF callCallback, TypeInvariant, Activities
  <2>3. PICK r \in OldPosts : looper' = Append(looper, r)
    BY <1>6, <1>12, <2>1, <2>2, OldPostsOf DEF callCallback
  <2>4. looper' \in Seq(OldPosts)
    BY <1>1, <2>3, AppendProperties
  <2>5. \/ sdk' = Idle
        \/ /\ sdk' = [at |-> "posting", event |-> sdk.event, to |-> mEventCallback]
           /\ sdk.event.kind # "frame"
    BY <1>12 DEF callCallback
  <2>6. UNCHANGED <<opened, views, service>>
    BY <1>12 DEF callCallback
  <2>7. /\ sdk'.at # "idle" => sdk'.event.of <= opened
        /\ sdk'.at = "posting" => sdk'.to <= opened /\ sdk'.event.kind # "frame"
    BY <1>6, <2>1, <2>5 DEF Idle
  <2>8. QED
    BY <1>1, <1>3, <1>4, <2>4, <2>6, <2>7 DEF views, service
<1>13. CASE postScreenChange
  <2>1. sdk.event \in Event /\ sdk.to \in Activities /\ sdk.to <= opened
    BY <1>3, <1>13, SdkTypes DEF postScreenChange
  <2>2. looper' \in Seq(OldPosts)
    BY <1>1, <1>13, <2>1, OldPostsOf, AppendProperties DEF postScreenChange
  <2>3. QED
    BY <1>1, <1>3, <1>4, <1>13, <2>2 DEF postScreenChange, views, service, Idle
<1>14. CASE runNext
  <2>1. Head(looper) \in OldPosts /\ looper' \in Seq(OldPosts)
    BY <1>1, <1>14, HeadTailProperties DEF runNext
  <2>2. PICK r \in Runnable : r = Head(looper) /\ r.to <= opened /\ r.to \in Activities
    BY <2>1, RunnableTypes DEF OldPosts
  <2>3. /\ surface \in [Activities -> BOOLEAN]
        /\ noticeText \in [Activities -> {"living_anchor_offline", "living_no_surfaceview"}]
        /\ lines \in [Activities -> Seq(Line)]
    BY DEF TypeInvariant
  <2>4. \A a \in Activities : a # r.to =>
          surface'[a] = surface[a] /\ noticeText'[a] = noticeText[a] /\ lines'[a] = lines[a]
    BY <1>14, <2>2, <2>3 DEF runNext, runLine, runJoined, runOffline, runFrame, show
  <2>5. \A a \in Activities : a > opened => a # r.to
    BY <1>5, <2>2 DEF Activities
  <2>6. QED
    BY <1>1, <1>3, <1>4, <1>14, <2>1, <2>4, <2>5 DEF runNext, service
<1>15. CASE doSendMsg
  <2>1. Top <= opened /\ Top \in Activities /\ show(Top, [text |-> "sent"])
    BY <1>5, <1>15, TopIsOpened, RoomAssumption DEF doSendMsg, TypeInvariant, Activities
  <2>2. \A a \in Activities : a > opened => a # Top
    BY <1>5, <2>1 DEF Activities
  <2>3. \A a \in Activities : a # Top => lines'[a] = lines[a]
    BY <2>1 DEF show, TypeInvariant
  <2>4. QED
    BY <1>1, <1>3, <1>4, <1>15, <2>2, <2>3 DEF doSendMsg, service
<1>16. CASE \E a \in Activities : onMessageReceived(a)
  <2>1. PICK a \in Activities : onMessageReceived(a)
    BY <1>16
  <2>2. a <= opened
    BY <2>1, <1>5 DEF onMessageReceived, OneRoom, Activities
  <2>3. [to |-> a, run |-> "line", line |-> [text |-> "received"]] \in OldPosts
    BY <2>2 DEF OldPosts, Runnable, Line
  <2>4. looper' \in Seq(OldPosts)
    BY <1>1, <2>1, <2>3, AppendProperties DEF onMessageReceived
  <2>5. QED
    BY <1>1, <1>3, <1>4, <2>1, <2>4 DEF onMessageReceived, views, service
<1>17. CASE callNull
  BY <1>1, <1>3, <1>4, <1>17 DEF callNull, views, service
<1>18. QED
  BY <1>7, <1>8, <1>9, <1>10, <1>11, <1>12, <1>13, <1>14, <1>15, <1>16, <1>17, Threads2

LEMMA ThingFacts ==
  ASSUME NEW x \in Things
  PROVE  /\ x.what \in {"picture", "presence", "line"}
         /\ x.uid \in Members
         /\ x.what # "line" => x.uid = ANCHOR_UID
BY DEF Things, Members

\* Who is asked about what does not change with a step; whether it is true may.
LEMMA SameTruth ==
  ASSUME NEW x, Holds(x)' <=> Holds(x)
  PROVE  /\ ReportedTrue(x)' = ReportedTrue(x) /\ PostedTrue(x)' = PostedTrue(x)
         /\ LinesTrue(x)' = LinesTrue(x)
<1>1. LinesTrue(x)' = LinesTrue(x) /\ ReportedTrue(x)' = ReportedTrue(x)
  BY DEF LinesTrue, ReportedTrue
<1>2. QED
  BY <1>1 DEF PostedTrue

LEMMA SameHolds ==
  ASSUME NEW x, UNCHANGED <<present, decoded>>
  PROVE  Holds(x)' <=> Holds(x)
BY DEF Holds

LEMMA SameInLooper ==
  ASSUME NEW x, NEW a, Holds(x)' <=> Holds(x), UNCHANGED <<surface, noticeText, lines, looper>>
  PROVE  InLooper(x, a)' <=> InLooper(x, a)
<1>1. PostedTrue(x)' = PostedTrue(x) /\ LinesTrue(x)' = LinesTrue(x)
  BY SameTruth
<1>2. Shows(x, a)' <=> Shows(x, a)
  BY <1>1 DEF Shows, Shown, About
<1>3. QED
  BY <1>1, <1>2 DEF InLooper

LEMMA SameInThread ==
  ASSUME NEW x, NEW a, Holds(x)' <=> Holds(x), UNCHANGED <<surface, noticeText, lines, looper, sdk>>
  PROVE  InThread(x, a)' <=> InThread(x, a)
<1>1. InLooper(x, a)' <=> InLooper(x, a)
  BY SameInLooper
<1>2. Held(x, a)' <=> Held(x, a)
  BY DEF Held
<1>3. QED
  BY <1>1, <1>2 DEF InThread

\* A Runnable about the thing is its last word; others leave it alone.
LEMMA LooperGrows ==
  ASSUME TypeInvariant, NEW x, NEW a, NEW r \in Runnable,
         looper' = Append(looper, r), UNCHANGED <<surface, noticeText, lines, present, decoded>>
  PROVE  /\ r \notin Posted(x, a) /\ InLooper(x, a) => InLooper(x, a)'
         /\ r \in Posted(x, a) /\ r \in PostedTrue(x) => InLooper(x, a)'
<1>1. Holds(x)' <=> Holds(x)
  BY SameHolds
<1>2. PostedTrue(x)' = PostedTrue(x) /\ LinesTrue(x)' = LinesTrue(x)
  BY <1>1, SameTruth
<1>3. Shows(x, a)' <=> Shows(x, a)
  BY <1>1, <1>2 DEF Shows, Shown, About
<1>4. looper \in Seq(Runnable)
  BY DEF TypeInvariant
<1>5. /\ Tells(looper', Posted(x, a)) <=> Tells(looper, Posted(x, a)) \/ r \in Posted(x, a)
      /\ LastTold(looper, Posted(x, a), PostedTrue(x)) /\ r \notin Posted(x, a)
           => LastTold(looper', Posted(x, a), PostedTrue(x))
      /\ r \in Posted(x, a) /\ r \in PostedTrue(x)
           => LastTold(looper', Posted(x, a), PostedTrue(x))
  BY <1>4, AppendTold
<1>6. QED
  BY <1>1, <1>2, <1>3, <1>5 DEF InLooper

\* A report tells the thing it is about, and leaves the other as it was.
LEMMA ToldByReport ==
  ASSUME TypeInvariant, session # 0, NEW x \in Things, Told(x, session), NEW u \in Members,
         reportJoined(u) \/ reportFrame(u) \/ reportOffline(u)
  PROVE  Told(x, session)'
<1>1. PICK k \in Kinds :
        /\ report(k, u)
        /\ (u = x.uid /\ k \in Speaks(x)) => ((k = Begins(x)) <=> Holds(x)')
        /\ ~(u = x.uid /\ k \in Speaks(x)) => (Holds(x)' <=> Holds(x))
  <2>1. CASE reportJoined(u)
    BY <2>1, ThingFacts DEF reportJoined, Kinds, Speaks, Begins, Holds
  <2>2. CASE reportFrame(u)
    BY <2>2, ThingFacts DEF reportFrame, Kinds, Speaks, Begins, Holds
  <2>3. CASE reportOffline(u)
    BY <2>3, ThingFacts DEF reportOffline, Kinds, Speaks, Begins, Holds
  <2>4. QED
    BY <2>1, <2>2, <2>3
<1>2. PICK e \in Event : e = [kind |-> k, uid |-> u, of |-> session]
  <2>1. session \in Activities
    BY DEF TypeInvariant, Activities
  <2>2. QED
    BY <2>1 DEF Event
<1>3. /\ events' = Append(events, e) /\ events \in Seq(Event) /\ session' = session
      /\ UNCHANGED <<surface, noticeText, lines, looper, sdk>>
  BY <1>1, <1>2 DEF report, views, TypeInvariant
<1>4. e \in Reported(x, session) <=> (u = x.uid /\ k \in Speaks(x))
  BY <1>2 DEF Reported
<1>5. CASE e \in Reported(x, session)
  <2>1. e \in ReportedTrue(x)'
    BY <1>1, <1>2, <1>4, <1>5 DEF ReportedTrue
  <2>2. /\ Tells(events', Reported(x, session))
        /\ LastTold(events', Reported(x, session), ReportedTrue(x)')
    BY <1>3, <1>5, <2>1, AppendTold
  <2>3. QED
    BY <1>3, <2>2 DEF Told
<1>6. CASE e \notin Reported(x, session)
  <2>1. Holds(x)' <=> Holds(x)
    BY <1>1, <1>4, <1>6
  <2>2. ReportedTrue(x)' = ReportedTrue(x)
    BY <2>1, SameTruth
  <2>3. InThread(x, session)' <=> InThread(x, session)
    <3>1. \A a : InThread(x, a)' <=> InThread(x, a)
      BY <1>3, <2>1, SameInThread
    <3>2. QED
      BY <1>3, <3>1 DEF InThread, Held, InLooper, Shows, Shown, Reported, Posted, About
  <2>4. /\ Tells(events', Reported(x, session)) <=> Tells(events, Reported(x, session))
        /\ LastTold(events, Reported(x, session), ReportedTrue(x))
             => LastTold(events', Reported(x, session), ReportedTrue(x))
    BY <1>3, <1>6, AppendTold
  <2>5. QED
    BY <1>3, <2>2, <2>3, <2>4 DEF Told
<1>7. QED
  BY <1>5, <1>6

LEMMA ToldByCheck ==
  ASSUME TypeInvariant, mEventCallback # 0, NEW x \in Things, NEW a, Told(x, a), checkCallback
  PROVE  Told(x, a)'
<1>1. PICK e \in Event : e = Head(events)
  BY HeadTailProperties DEF checkCallback, TypeInvariant
<1>2. /\ events \in Seq(Event) /\ events # << >> /\ events' = Tail(events)
      /\ sdk.at = "idle" /\ sdk' = [at |-> "checked", event |-> e]
      /\ UNCHANGED <<surface, noticeText, lines, looper, present, decoded>>
  BY <1>1 DEF checkCallback, views, Idle, TypeInvariant
<1>3. Holds(x)' <=> Holds(x)
  BY <1>2, SameHolds
<1>4. ReportedTrue(x)' = ReportedTrue(x)
  BY <1>3, SameTruth
<1>5. InLooper(x, a)' <=> InLooper(x, a)
  BY <1>2, <1>3, SameInLooper
<1>6. ~Held(x, a) /\ (Held(x, a)' <=> e \in Reported(x, a))
  BY <1>2 DEF Held
<1>7. /\ Tells(events, Reported(x, a)) <=> e \in Reported(x, a) \/ Tells(events', Reported(x, a))
      /\ LastTold(events', Reported(x, a), ReportedTrue(x))
      /\ e \in Reported(x, a) /\ ~Tells(events', Reported(x, a)) => e \in ReportedTrue(x)
  BY <1>1, <1>2, TailTold DEF Told
<1>8. ASSUME ~Tells(events', Reported(x, a))
      PROVE  InThread(x, a)'
  <2>1. CASE e \in Reported(x, a)
    <3>1. (e.kind = Begins(x)) <=> Holds(x)
      BY <1>7, <1>8, <2>1 DEF ReportedTrue
    <3>2. QED
      BY <1>2, <1>3, <1>6, <2>1, <3>1 DEF InThread
  <2>2. CASE e \notin Reported(x, a)
    BY <1>5, <1>6, <1>7, <1>8, <2>2 DEF InThread, Told
  <2>3. QED
    BY <2>1, <2>2
<1>9. QED
  BY <1>4, <1>7, <1>8 DEF Told, Reported

\* The activity that is called is told of its own session.
LEMMA ToldByCall ==
  ASSUME TypeInvariant, NEW x \in Things, NEW a \in Activities, Told(x, a), callCallback,
         mEventCallback = a, sdk.event.of = a
  PROVE  Told(x, a)'
<1>1. PICK e \in Event : e = sdk.event
  BY SdkTypes DEF callCallback
<1>2. /\ sdk.at = "checked" /\ e.kind \in Kinds
      /\ UNCHANGED <<surface, noticeText, lines, present, decoded, events>>
  BY <1>1, EventTypes DEF callCallback, views, service
<1>3. Holds(x)' <=> Holds(x)
  BY <1>2, SameHolds
<1>4. ReportedTrue(x)' = ReportedTrue(x)
  BY <1>3, SameTruth
<1>5. Held(x, a) <=> e.uid = x.uid /\ e.kind \in Speaks(x)
  BY <1>1, <1>2 DEF Held, Reported
<1>6. SUFFICES ASSUME InThread(x, a)
               PROVE  InThread(x, a)'
  BY <1>2, <1>4 DEF Told, Reported
<1>7. CASE e.kind = "frame"
  <2>1. PICK r \in Runnable : r = screenChange(a, e)
    BY PostTypes
  <2>2. looper' = Append(looper, r) /\ sdk' = Idle
    BY <1>1, <1>7, <2>1 DEF callCallback
  <2>3. ~Held(x, a)'
    BY <2>2 DEF Held, Idle
  <2>4. r.run = "frame" /\ r.to = a /\ r.uid = e.uid
    BY <1>7, <2>1 DEF screenChange
  <2>5. r \in Posted(x, a) <=> Held(x, a)
    BY <1>5, <1>7, <2>4, ThingFacts DEF Posted, Speaks, Begins
  <2>6. x.what = "line" => ~Held(x, a)
    BY <1>5, <1>7 DEF Speaks, Begins
  <2>7. Held(x, a) => r \in PostedTrue(x)
    BY <1>1, <1>6, <1>7, <2>4, <2>6 DEF InThread, PostedTrue
  <2>8. InLooper(x, a)'
    BY <1>2, <1>6, <2>2, <2>5, <2>7, LooperGrows DEF InThread
  <2>9. QED
    BY <2>3, <2>8 DEF InThread
<1>8. CASE e.kind # "frame"
  <2>1. PICK r \in Runnable : r = presenceLine(a, e)
    BY PostTypes
  <2>2. /\ looper' = Append(looper, r)
        /\ sdk' = IF e.uid = ANCHOR_UID THEN [at |-> "posting", event |-> e, to |-> a]
                                        ELSE Idle
    BY <1>1, <1>8, <2>1 DEF callCallback
  <2>3. CASE x.what # "line"
    <3>1. r \notin Posted(x, a)
      BY <2>1, <2>3 DEF presenceLine, Posted, Speaks, Begins
    <3>2. InLooper(x, a) => InLooper(x, a)'
      BY <1>2, <2>2, <3>1, LooperGrows
    <3>3. Held(x, a)' <=> Held(x, a)
      BY <1>5, <2>2, <2>3, ThingFacts DEF Held, Idle
    <3>4. Held(x, a) => sdk'.event = e
      BY <1>5, <2>2, <2>3, ThingFacts
    <3>5. QED
      BY <1>1, <1>3, <1>6, <3>2, <3>3, <3>4 DEF InThread
  <2>4. CASE x.what = "line"
    <3>1. PICK l \in Presence :
            /\ l = [who |-> e.uid, says |-> IF e.kind = "joined" THEN "online" ELSE "offline"]
            /\ r.run = "line" /\ r.to = a /\ r.line = l
      BY <2>1, EventTypes DEF presenceLine, Presence
    <3>2. e.kind \in Speaks(x) /\ Begins(x) = "joined"
      BY <1>2, <1>8, <2>4 DEF Kinds, Speaks, Begins
    <3>3. r \in Posted(x, a) <=> Held(x, a)
      BY <1>5, <2>4, <3>1, <3>2 DEF Posted, About
    <3>4. Held(x, a) => ((l.says = "online") <=> Holds(x))
      BY <1>1, <1>6, <3>1, <3>2 DEF InThread
    <3>5. Held(x, a) => r \in PostedTrue(x)
      BY <2>4, <3>1, <3>4 DEF PostedTrue, LinesTrue
    <3>6. InLooper(x, a)'
      BY <1>2, <1>6, <2>2, <3>3, <3>5, LooperGrows DEF InThread
    <3>7. ~Held(x, a)'
      BY <2>2, <2>4 DEF Held, Idle
    <3>8. QED
      BY <3>6, <3>7 DEF InThread
  <2>5. QED
    BY <2>3, <2>4
<1>9. QED
  BY <1>7, <1>8

LEMMA ToldByPost ==
  ASSUME TypeInvariant, Fresh, NEW x \in Things, NEW a \in Activities, Told(x, a),
         postScreenChange
  PROVE  Told(x, a)'
<1>1. PICK e \in Event : e = sdk.event
  BY SdkTypes DEF postScreenChange
<1>2. PICK r \in Runnable : r = screenChange(sdk.to, e)
  BY SdkTypes, PostTypes DEF postScreenChange
<1>3. /\ sdk.at = "posting" /\ sdk' = Idle /\ looper' = Append(looper, r)
      /\ e.kind # "frame" /\ r.run = e.kind /\ r.to = sdk.to
      /\ UNCHANGED <<surface, noticeText, lines, present, decoded, events>>
  BY <1>1, <1>2 DEF postScreenChange, views, service, screenChange, Fresh
<1>4. Holds(x)' <=> Holds(x)
  BY <1>3, SameHolds
<1>5. ReportedTrue(x)' = ReportedTrue(x)
  BY <1>4, SameTruth
<1>6. ~Held(x, a)' /\ (Held(x, a) <=> r \in Posted(x, a))
  <2>1. r.run \in Kinds
    BY <1>1, <1>3, EventTypes
  <2>2. QED
    BY <1>1, <1>3, <2>1 DEF Held, Idle, Posted, Kinds
<1>7. SUFFICES ASSUME InThread(x, a)
               PROVE  InThread(x, a)'
  BY <1>3, <1>5 DEF Told, Reported
<1>8. Held(x, a) => r \in PostedTrue(x)
  BY <1>1, <1>3, <1>7 DEF InThread, PostedTrue, Held
<1>9. InLooper(x, a)'
  BY <1>3, <1>6, <1>7, <1>8, LooperGrows DEF InThread
<1>10. QED
  BY <1>6, <1>9 DEF InThread

LEMMA ToldByRun ==
  ASSUME TypeInvariant, NEW x \in Things, NEW a \in Activities, Told(x, a), runNext
  PROVE  Told(x, a)'
<1>1. PICK r \in Runnable : r = Head(looper)
  BY HeadTailProperties DEF runNext, TypeInvariant
<1>2. /\ looper \in Seq(Runnable) /\ looper # << >> /\ looper' = Tail(looper)
      /\ UNCHANGED <<sdk, present, decoded, events>>
  BY DEF runNext, service, TypeInvariant
<1>3. Holds(x)' <=> Holds(x)
  BY <1>2, SameHolds
<1>4. /\ ReportedTrue(x)' = ReportedTrue(x) /\ PostedTrue(x)' = PostedTrue(x)
      /\ LinesTrue(x)' = LinesTrue(x)
  BY <1>3, SameTruth
<1>5. Held(x, a)' <=> Held(x, a)
  BY <1>2 DEF Held, Reported
<1>6. SUFFICES ASSUME InLooper(x, a)
               PROVE  InLooper(x, a)'
  BY <1>2, <1>3, <1>4, <1>5 DEF Told, InThread, Reported
<1>7. /\ r \in Posted(x, a) /\ r \in PostedTrue(x) => Shows(x, a)'
      /\ r \notin Posted(x, a) /\ Shows(x, a) => Shows(x, a)'
  BY <1>1, <1>3, <1>4, RunShown
<1>8. /\ Tells(looper, Posted(x, a)) <=> r \in Posted(x, a) \/ Tells(looper', Posted(x, a))
      /\ LastTold(looper', Posted(x, a), PostedTrue(x))
      /\ r \in Posted(x, a) /\ ~Tells(looper', Posted(x, a)) => r \in PostedTrue(x)
  BY <1>1, <1>2, <1>6, TailTold DEF InLooper
<1>9. ~Tells(looper', Posted(x, a)) => Shows(x, a)'
  BY <1>6, <1>7, <1>8 DEF InLooper
<1>10. QED
  BY <1>4, <1>8, <1>9 DEF InLooper, Posted

\* A new activity shows what its XML says, and no one told it anything yet.
LEMMA ToldAtFirst ==
  ASSUME TypeInvariant, OneRoom, Fresh, live = {}, onCreate, NEW x \in Things
  PROVE  Told(x, session)'
<1>1. opened \in Nat /\ session = 0 /\ session' = opened + 1 /\ session' \in Activities
  BY RoomAssumption DEF OneRoom, onCreate, TypeInvariant, Activities
<1>2. PICK a \in Activities : a = session'
  BY <1>1
<1>3. present = {} /\ decoded = {}
  BY <1>1 DEF Fresh, TypeInvariant
<1>4. UNCHANGED <<present, decoded, surface, noticeText, lines, looper, events, sdk>>
  BY DEF onCreate, views
<1>5. a > opened
  BY <1>1, <1>2
<1>6. Shows(x, a)'
  <2>1. ~surface[a] /\ noticeText[a] = "living_anchor_offline" /\ lines[a] = << >>
    BY <1>5 DEF Fresh
  <2>2. CASE x.what = "line"
    BY <1>4, <2>1, <2>2 DEF Shows, LastTold
  <2>3. CASE x.what # "line"
    BY <1>3, <1>4, <2>1, <2>3 DEF Shows, Shown, Holds
  <2>4. QED
    BY <2>2, <2>3
<1>7. \A i \in DOMAIN events : events[i] \notin Reported(x, a)
  <2>1. ASSUME NEW i \in DOMAIN events
        PROVE  events[i].of <= opened
    <3>1. events[i] \in {e \in Event : e.of <= opened}
      BY <2>1, ElementOfSeq, LenProperties DEF Fresh
    <3>2. QED
      BY <3>1
  <2>2. QED
    BY <1>1, <1>2, <2>1 DEF Reported
<1>8. \A i \in DOMAIN looper : looper[i] \notin Posted(x, a)
  <2>1. ASSUME NEW i \in DOMAIN looper
        PROVE  looper[i].to <= opened
    <3>1. looper[i] \in {r \in Runnable : r.to <= opened}
      BY <2>1, ElementOfSeq, LenProperties DEF Fresh
    <3>2. QED
      BY <3>1
  <2>2. QED
    BY <1>1, <1>2, <2>1 DEF Posted
<1>9. ~Held(x, a)
  <2>1. sdk.at # "idle" => sdk.event.of <= opened
    BY DEF Fresh
  <2>2. sdk.at = "posting" => sdk.to <= opened
    BY DEF Fresh
  <2>3. QED
    BY <1>1, <1>2, <2>1, <2>2 DEF Held, Reported
<1>10. ~Held(x, a)'
  BY <1>4, <1>9 DEF Held, Reported
<1>11. InLooper(x, a)'
  <2>1. Posted(x, a)' = Posted(x, a)
    BY DEF Posted, About
  <2>2. QED
    BY <1>4, <1>6, <1>8, <2>1 DEF InLooper, LastTold, Tells
<1>12. QED
  BY <1>2, <1>4, <1>7, <1>10, <1>11 DEF Told, InThread, LastTold, Tells, Reported

LEMMA AllToldStep ==
  ASSUME MaxOpen = 1, TypeInvariant, OneRoom, Fresh, AllTold, [Next]_vars
  PROVE  AllTold'
<1>1. SUFFICES ASSUME session' # 0, session' \notin strayed', NEW x \in Things
               PROVE  Told(x, session)'
  BY DEF AllTold
<1>2. CASE onCreate
  BY <1>2, NoneOpen, ToldAtFirst
<1>3. CASE finish
  BY <1>1, <1>3 DEF finish
<1>4. CASE ~onCreate /\ ~finish
  <2>1. session' = session /\ strayed \subseteq strayed'
    BY <1>4 DEF Next, Step, reportJoined, reportFrame, reportOffline, report, checkCallback,
       callCallback, postScreenChange, runNext, doSendMsg, onMessageReceived, callNull,
       service, vars
  <2>2. session # 0 /\ session \in Activities /\ mEventCallback = session
    BY <1>1, <2>1, RoomAssumption DEF TypeInvariant, OneRoom, Activities
  <2>3. PICK a \in Activities : a = session /\ a = session'
    BY <2>1, <2>2
  <2>4. Told(x, a)
    BY <1>1, <2>1, <2>2, <2>3 DEF AllTold
  <2>5. SUFFICES Told(x, a)'
    BY <2>3 DEF Told, InThread, InLooper, Held, Shows, Shown, Reported, Posted, About
  <2>6. CASE UNCHANGED <<surface, noticeText, lines, looper, sdk, present, decoded, events>>
    <3>1. Holds(x)' <=> Holds(x)
      BY <2>6, SameHolds
    <3>2. QED
      BY <2>4, <2>6, <3>1, SameInThread, SameTruth DEF Told, Reported
  <2>7. CASE \E u \in Members : reportJoined(u) \/ reportFrame(u) \/ reportOffline(u)
    <3>1. PICK u \in Members : reportJoined(u) \/ reportFrame(u) \/ reportOffline(u)
      BY <2>7
    <3>2. Told(x, session)'
      BY <2>2, <2>3, <2>4, <3>1, ToldByReport
    <3>3. QED
      BY <2>1, <2>3, <3>2
  <2>8. CASE checkCallback
    BY <2>2, <2>4, <2>8, ToldByCheck
  <2>9. CASE callCallback
    <3>1. sdk.event.of = a
      BY <1>1, <2>2, <2>3, <2>9 DEF callCallback
    <3>2. QED
      BY <2>2, <2>3, <2>4, <2>9, <3>1, ToldByCall
  <2>10. CASE postScreenChange
    BY <2>4, <2>10, ToldByPost
  <2>11. CASE runNext
    BY <2>4, <2>11, ToldByRun
  <2>12. CASE \E b \in Activities : onMessageReceived(b)
    <3>1. PICK b \in Activities : onMessageReceived(b)
      BY <2>12
    <3>2. PICK r \in Runnable :
            r = [to |-> b, run |-> "line", line |-> [text |-> "received"]]
      BY DEF Runnable, Line
    <3>3. /\ looper' = Append(looper, r)
          /\ UNCHANGED <<surface, noticeText, lines, sdk, present, decoded, events>>
      BY <3>1, <3>2 DEF onMessageReceived, views, service
    <3>4. r \notin Posted(x, a)
      BY <3>2 DEF Posted, Speaks, Begins, About, Presence
    <3>5. InLooper(x, a) => InLooper(x, a)'
      BY <3>3, <3>4, LooperGrows
    <3>6. Holds(x)' <=> Holds(x)
      BY <3>3, SameHolds
    <3>7. Held(x, a)' <=> Held(x, a)
      BY <3>3 DEF Held, Reported
    <3>8. QED
      BY <2>4, <3>3, <3>5, <3>6, <3>7, SameTruth DEF Told, InThread, Reported
  <2>13. CASE doSendMsg
    <3>1. PICK l \in Line, b \in Activities : l = [text |-> "sent"] /\ show(b, l)
      BY <2>2, <2>13, TopIsOpened DEF doSendMsg, Line, OneRoom
    <3>2. UNCHANGED <<surface, noticeText, looper, sdk, present, decoded, events>>
      BY <2>13 DEF doSendMsg, service
    <3>3. Holds(x)' <=> Holds(x)
      BY <3>2, SameHolds
    <3>4. /\ ReportedTrue(x)' = ReportedTrue(x) /\ PostedTrue(x)' = PostedTrue(x)
          /\ LinesTrue(x)' = LinesTrue(x)
      BY <3>3, SameTruth
    <3>5. l \notin About(x)
      BY <3>1 DEF About, Presence
    <3>6. LastTold(lines[a], About(x), LinesTrue(x))
            => LastTold(lines'[a], About(x), LinesTrue(x))
      BY <3>1, <3>5, LineShown
    <3>7. Shows(x, a) => Shows(x, a)'
      BY <3>2, <3>3, <3>4, <3>6 DEF Shows, Shown, About
    <3>8. InLooper(x, a) => InLooper(x, a)'
      BY <3>2, <3>4, <3>7 DEF InLooper, Posted, About
    <3>9. Held(x, a)' <=> Held(x, a)
      BY <3>2 DEF Held, Reported
    <3>10. QED
      BY <2>4, <3>2, <3>3, <3>4, <3>8, <3>9 DEF Told, InThread, Reported
  <2>14. QED
    <3>1. callNull \/ UNCHANGED vars =>
            UNCHANGED <<surface, noticeText, lines, looper, sdk, present, decoded, events>>
      BY DEF callNull, vars, views, service
    <3>2. QED
      BY <1>4, <2>6, <2>7, <2>8, <2>9, <2>10, <2>11, <2>12, <2>13, <3>1, Threads2
<1>5. QED
  BY <1>2, <1>3, <1>4

LEMMA RoomInvariantInit == Init => RoomInvariant
<1> SUFFICES ASSUME Init PROVE RoomInvariant
  OBVIOUS
<1>1. TypeInvariant
  BY TypeInit
<1>2. OneRoom
  BY DEF Init, OneRoom
<1>3. Fresh
  <2>1. << >> \in Seq({e \in Event : e.of <= opened})
    OBVIOUS
  <2>2. << >> \in Seq({r \in Runnable : r.to <= opened})
    OBVIOUS
  <2>3. QED
    BY <2>1, <2>2 DEF Init, Fresh, Idle
<1>4. AllTold /\ Opposite
  BY DEF Init, AllTold, Opposite
<1>5. QED
  BY <1>1, <1>2, <1>3, <1>4 DEF RoomInvariant

LEMMA RoomInvariantStep ==
  ASSUME MaxOpen = 1, RoomInvariant, [Next]_vars
  PROVE  RoomInvariant'
BY TypeStep, OneRoomStep, FreshStep, AllToldStep, OppositeStep DEF RoomInvariant

\* Nothing is on its way any more: what the screen shows is the last word.
LEMMA RoomScreen ==
  ASSUME RoomInvariant
  PROVE  SurfaceFollowsAnchor /\ NoticeIsTrue /\ PresenceLinesAreTrue
<1>1. ASSUME CaughtUp, Sound, NEW x \in Things
      PROVE  Shows(x, Top)
  <2>1. Top = session /\ session # 0 /\ session \notin strayed
    BY <1>1, TopIsOpened DEF Sound, RoomInvariant
  <2>2. PICK a : a = Top /\ a = session /\ Told(x, a)
    BY <1>1, <2>1 DEF RoomInvariant, AllTold
  <2>3. \A P : ~Tells(events, P) /\ ~Tells(looper, P)
    BY <1>1 DEF CaughtUp, Tells
  <2>4. ~Held(x, a)
    BY <1>1 DEF CaughtUp, Held, Idle
  <2>5. QED
    BY <2>2, <2>3, <2>4 DEF Told, InThread, InLooper
<1>2. ASSUME CaughtUp, Sound
      PROVE  /\ surface[Top] <=> ANCHOR_UID \in decoded
             /\ noticeText[Top] = "living_no_surfaceview" <=> ANCHOR_UID \in present
  <2>1. /\ [what |-> "picture", uid |-> ANCHOR_UID] \in Things
        /\ [what |-> "presence", uid |-> ANCHOR_UID] \in Things
    BY DEF Things
  <2>2. /\ Shows([what |-> "picture", uid |-> ANCHOR_UID], Top)
        /\ Shows([what |-> "presence", uid |-> ANCHOR_UID], Top)
    BY <1>1, <1>2, <2>1
  <2>3. QED
    BY <2>2 DEF Shows, Shown, Holds
<1>3. SurfaceFollowsAnchor
  BY <1>2 DEF SurfaceFollowsAnchor
<1>4. NoticeIsTrue
  BY <1>2 DEF NoticeIsTrue, RoomInvariant, Opposite
<1>5. ASSUME CaughtUp, Sound, NEW u \in Members, NEW i \in DOMAIN lines[Top],
             "who" \in DOMAIN lines[Top][i], lines[Top][i].who = u,
             \A j \in i + 1..Len(lines[Top]) :
               ~("who" \in DOMAIN lines[Top][j] /\ lines[Top][j].who = u)
      PROVE  lines[Top][i].says = "online" <=> u \in present
  <2>1. PICK x \in Things : x.what = "line" /\ x.uid = u
    <3>1. [what |-> "line", uid |-> u] \in Things
      BY DEF Things
    <3>2. QED
      BY <3>1
  <2>2. LastTold(lines[Top], About(x), LinesTrue(x))
    BY <1>1, <1>5, <2>1 DEF Shows
  <2>3. Top \in Activities
    BY <1>5, TopIsOpened, RoomAssumption DEF Sound, RoomInvariant, TypeInvariant, Activities
  <2>4. PICK s \in Seq(Line) : s = lines[Top]
    BY <2>3 DEF RoomInvariant, TypeInvariant
  <2>5. Len(s) \in Nat /\ DOMAIN s = 1..Len(s) /\ \A j \in 1..Len(s) : s[j] \in Line
    BY LenProperties, ElementOfSeq
  <2>6. \A l \in Line : l \in Presence <=> "who" \in DOMAIN l
    BY DEF Line, Presence
  <2>7. s[i] \in About(x)
    BY <1>5, <2>1, <2>4, <2>5, <2>6 DEF About
  <2>8. \A j \in 1..Len(s) : j > i => s[j] \notin About(x)
    BY <1>5, <2>1, <2>4, <2>5, <2>6 DEF About
  <2>9. s[i] \in LinesTrue(x)
    BY <1>5, <2>2, <2>4, <2>5, <2>7, <2>8 DEF LastTold
  <2>10. QED
    BY <2>1, <2>4, <2>9 DEF LinesTrue, Holds
<1>6. PresenceLinesAreTrue
  BY <1>5 DEF PresenceLinesAreTrue
<1>7. QED
  BY <1>3, <1>4, <1>6

\* The surface is shown just when the anchor's picture is there, once all reports
\* arrived, however many members came and went, for a user who leaves a room before
\* opening the next.
THEOREM SurfaceRight == MaxOpen = 1 => (Spec => []SurfaceFollowsAnchor)
<1>1. SUFFICES ASSUME MaxOpen = 1 PROVE Spec => []SurfaceFollowsAnchor
  OBVIOUS
<1>2. RoomInvariant /\ [Next]_vars => RoomInvariant'
  BY <1>1, RoomInvariantStep
<1>3. QED
  BY <1>2, RoomInvariantInit, RoomScreen, PTL DEF Spec

\* The notice takes the surface's place and says whether the anchor is in the room.
THEOREM NoticeRight == MaxOpen = 1 => (Spec => []NoticeIsTrue)
<1>1. SUFFICES ASSUME MaxOpen = 1 PROVE Spec => []NoticeIsTrue
  OBVIOUS
<1>2. RoomInvariant /\ [Next]_vars => RoomInvariant'
  BY <1>1, RoomInvariantStep
<1>3. QED
  BY <1>2, RoomInvariantInit, RoomScreen, PTL DEF Spec

\* The last line about a member says whether he is in the room, however short the window
\* is and however many chat lines come in between.
THEOREM LinesRight == MaxOpen = 1 => (Spec => []PresenceLinesAreTrue)
<1>1. SUFFICES ASSUME MaxOpen = 1 PROVE Spec => []PresenceLinesAreTrue
  OBVIOUS
<1>2. RoomInvariant /\ [Next]_vars => RoomInvariant'
  BY <1>1, RoomInvariantStep
<1>3. QED
  BY <1>2, RoomInvariantInit, RoomScreen, PTL DEF Spec

\* The null check that is not atomic ends the process only when no room is on the
\* screen, of a user who leaves a room before opening the next.
THEOREM RoomCrash == MaxOpen = 1 => (Spec => []CrashOffScreen)
<1>1. SUFFICES ASSUME MaxOpen = 1 PROVE Spec => []CrashOffScreen
  OBVIOUS
<1>2. RoomInvariant /\ [Next]_vars => RoomInvariant'
  BY <1>1, RoomInvariantStep
<1>3. ASSUME RoomInvariant, CrashOffScreen, [Next]_vars
      PROVE  CrashOffScreen'
  <2>1. CASE callNull
    <3>1. mEventCallback = 0 /\ UNCHANGED live
      BY <2>1 DEF callNull
    <3>2. live = {}
      BY <1>3, <3>1 DEF RoomInvariant, OneRoom
    <3>3. QED
      BY <3>1, <3>2 DEF CrashOffScreen
  <2>2. CASE ~crashed /\ UNCHANGED crashed
    BY <2>2 DEF CrashOffScreen
  <2>3. CASE UNCHANGED vars
    BY <1>3, <2>3 DEF vars, CrashOffScreen
  <2>4. QED
    BY <1>3, <2>1, <2>2, <2>3 DEF Next
<1>4. Init => CrashOffScreen
  BY DEF Init, CrashOffScreen
<1>5. QED
  BY <1>2, <1>3, <1>4, RoomInvariantInit, PTL DEF Spec
=============================================================================
