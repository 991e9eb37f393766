-------------------------- MODULE RtmSessionProofs --------------------------
(***************************************************************************)
(* Proofs about the RTM session, for any number of activities, stacked or  *)
(* not, destroyed by the system or finished, and of changes of the         *)
(* connection state.                                                       *)
(***************************************************************************)
EXTENDS RtmSessionProps, TLAPS

LEMMA InitInvariant == Init => IInv
<1> SUFFICES ASSUME Init
             PROVE  IInv
  OBVIOUS
<1>1. 0 \in 0..MaxActivities
  BY SessionAssumption
<1>2. \A t \in Threads : thread[t] = Idle
  BY DEF Init
<1>3. thread["ui"] = Idle /\ thread["sdk"] = Idle
  BY <1>2 DEF Threads
<1>4. TypeInvariant
  <2>1. thread \in [Threads -> Steps]
    BY DEF Init, Steps, Idle
  <2>2. QED
    BY <1>1, <2>1 DEF Init, TypeInvariant, States, None
<1>5. Numbered /\ Paths
  BY <1>3 DEF Init, Numbered, Paths, Idle, None, Entering, Activities
<1>6. Channels /\ OneAtATime
  BY <1>2, <1>3 DEF Init, Channels, OneAtATime, Idle, None, Held
<1>7. Listens /\ NewLogin /\ Remembered /\ EnabledIsJoined /\ CrashAfterFinish
  BY DEF Init, Listens, NewLogin, Remembered, EnabledIsJoined, CrashAfterFinish, None
<1>8. QED
  BY <1>4, <1>5, <1>6, <1>7 DEF IInv

\* A step of one thread leaves the other where it is.
LEMMA GoesIs ==
  ASSUME TypeInvariant, NEW t \in Threads, NEW step, thread' = [thread EXCEPT ![t] = step]
  PROVE  /\ step \in Steps => thread' \in [Threads -> Steps]
         /\ thread'[t] = step
         /\ t = "ui" => thread'["ui"] = step /\ thread'["sdk"] = thread["sdk"]
         /\ t = "sdk" => thread'["sdk"] = step /\ thread'["ui"] = thread["ui"]
BY DEF TypeInvariant, Threads

\* The numbers of activities are numbers.
LEMMA Ranges ==
  ASSUME TypeInvariant
  PROVE  /\ created \in Nat /\ created <= MaxActivities
         /\ \A a \in Activities : a \in Nat /\ a # None /\ a # 0
         /\ \A a \in Activities : a <= created => a \in 1..created
         /\ None = 0 /\ None \in 0..created
         /\ opened \subseteq Activities /\ refused \subseteq Activities
         /\ exists \in Nat /\ mClientListener \in Nat
<1>1. /\ opened \subseteq Activities /\ refused \subseteq Activities
      /\ created \in 0..MaxActivities
      /\ exists \in {None} \cup Activities /\ mClientListener \in {None} \cup Activities
  BY DEF TypeInvariant
<1>2. MaxActivities \in Nat
  BY SessionAssumption
<1>3. QED
  BY <1>1, <1>2 DEF Activities, None

\* A thread on its way into the channel has an activity.
LEMMA AtAnActivity ==
  ASSUME TypeInvariant, Paths, NEW t \in Threads, thread[t].pc \in Entering
  PROVE  thread[t].at \in Activities /\ thread[t].at # None
<1>1. thread[t].at # None => thread[t].at \in Activities
  BY DEF TypeInvariant, Steps
<1>2. CASE t = "ui"
  <2>1. thread[t].at \in opened
    BY <1>2 DEF Paths, OnTop
  <2>2. QED
    BY <2>1, Ranges
<1>3. CASE t = "sdk"
  BY <1>1, <1>3 DEF Paths
<1>4. QED
  BY <1>2, <1>3 DEF Threads

\* What a thread that hears "connected" does next.
LEMMA onRtmConnectedIs ==
  ASSUME NEW a, NEW pc
  PROVE  LET step == onRtmConnected(a, pc) IN
         \/ step = Idle /\ (a \in finishing \/ a \in mIsMsgChannelEnable)
         \/ step = [pc |-> pc, at |-> a] /\ a \notin finishing \cup mRtmChannel
         \/ step = [pc |-> "join", at |-> a] /\ a \in mRtmChannel \ finishing
BY DEF onRtmConnected
-----------------------------------------------------------------------------
(* Either thread.                                                          *)


LEMMA setListenerKeeps ==
  ASSUME IInv, NEW t \in Threads, setListener(t)
  PROVE  IInv'
<1> USE DEF IInv, manager, activity, flags, network, channels, history
<1>1. /\ crashed = "no" /\ thread[t].pc = "listen" /\ thread[t].at \in {None} \cup Activities
      /\ mClientListener' = thread[t].at
      /\ thread' = [thread EXCEPT ![t] = [pc |-> "replay", at |-> thread[t].at]]
  BY DEF setListener, Goes, At, TypeInvariant, Steps
<1>2. UNCHANGED <<mConnectState, created, opened, uid, finishing, destroyed,
           mRtmChannel, mIsMsgChannelEnable, crashed, loggingIn, account, joins, joined,
           exists, changes, tried, failed, lost, refused, stacked>>
  BY DEF setListener
<1>3. TypeInvariant'
  <2>1. thread' \in [Threads -> Steps]
    BY <1>1, GoesIs DEF TypeInvariant, Steps, Entering, Idle
  <2>2. QED
    BY <1>1, <1>2, <2>1 DEF TypeInvariant
<1>4. Numbered'
  <2>1. CASE t = "ui"
    BY <1>1, <1>2, <2>1, GoesIs DEF Numbered, None, Idle
  <2>2. CASE t = "sdk"
    BY <1>1, <1>2, <2>2, GoesIs DEF Numbered, None, Idle
  <2>3. QED
    BY <2>1, <2>2 DEF Threads
<1>5. Paths'
  <2>1. CASE t = "ui"
    BY <1>1, <1>2, <2>1, GoesIs DEF Paths, Entering, OnTop, Idle, None
  <2>2. CASE t = "sdk"
    BY <1>1, <1>2, <2>2, GoesIs DEF Paths, Entering, OnTop, Idle, None
  <2>3. QED
    BY <2>1, <2>2 DEF Threads
<1>6. Channels'
  <2>1. CASE t = "ui"
    BY <1>1, <1>2, <2>1, GoesIs DEF Channels, Held, Threads, Idle
  <2>2. CASE t = "sdk"
    BY <1>1, <1>2, <2>2, GoesIs DEF Channels, Held, Threads, Idle
  <2>3. QED
    BY <2>1, <2>2 DEF Threads
<1>7. Listens'
  <2>1. CASE t = "ui"
    <3>1. /\ thread'["ui"].pc = "replay"
          /\ thread["ui"].at \in mRtmChannel \cup refused /\ thread["ui"].at # None
          /\ created # 0 /\ created \notin finishing => thread["ui"].at = created
      <4>1. OnTop(thread["ui"].at) /\ thread["ui"].at # None
        BY <1>1, <2>1, AtAnActivity DEF Paths, Entering
      <4>2. created # 0 /\ created \notin finishing => thread["ui"].at = created
        BY <4>1, Ranges DEF OnTop, Numbered
      <4>3. QED
        <5>1. thread["ui"].at \in mRtmChannel \cup refused
          BY <1>1, <2>1 DEF Channels
        <5>2. thread'[t] = [pc |-> "replay", at |-> thread[t].at]
          BY <1>1, GoesIs
        <5>3. QED
          BY <2>1, <4>1, <4>2, <5>1, <5>2
    <3>2. QED
      BY <1>1, <1>2, <2>1, <3>1 DEF Listens, ToListen, Undisturbed
  <2>2. CASE t = "sdk"
    <3>1. /\ thread'["ui"] = thread["ui"]
          /\ thread["sdk"].at \in refused /\ thread["sdk"].at # None
      BY <1>1, <2>2, GoesIs DEF Paths, Entering
    <3>2. QED
      BY <1>1, <1>2, <2>2, <3>1 DEF Listens, ToListen, Undisturbed
  <2>3. QED
    BY <2>1, <2>2 DEF Threads
<1>8. NewLogin'
  BY <1>1, <1>2 DEF NewLogin, Current
<1>9. Remembered'
  <2>1. CASE t = "ui"
    BY <1>1, <1>2, <2>1, GoesIs DEF Remembered, Current, Undisturbed, Entering, Threads, Idle
  <2>2. CASE t = "sdk"
    BY <1>1, <1>2, <2>2, GoesIs DEF Remembered, Current, Undisturbed, Entering, Threads, Idle
  <2>3. QED
    BY <2>1, <2>2 DEF Threads
<1>10. OneAtATime'
  <2>1. CASE t = "ui"
    BY <1>1, <1>2, <2>1, GoesIs DEF OneAtATime, None, Idle
  <2>2. CASE t = "sdk"
    BY <1>1, <1>2, <2>2, GoesIs DEF OneAtATime, None, Idle
  <2>3. QED
    BY <2>1, <2>2 DEF Threads
<1>11. EnabledIsJoined'
  BY <1>1, <1>2 DEF EnabledIsJoined
<1>12. CrashAfterFinish'
  BY <1>1, <1>2 DEF CrashAfterFinish, Idle
<1>13. QED
  BY <1>3, <1>4, <1>5, <1>6, <1>7, <1>8, <1>9, <1>10, <1>11, <1>12

LEMMA createChannelKeeps ==
  ASSUME IInv, NEW t \in Threads, createChannel(t)
  PROVE  IInv'
<1> USE DEF IInv, manager, activity, flags, network, channels, history
<1>1. /\ crashed = "no"
      /\ thread[t].pc \in {"create", "again"} /\ thread[t].at \in Activities \ mRtmChannel
      /\ \/ /\ exists = None /\ exists' = thread[t].at
            /\ refused' = refused /\ mRtmChannel' = mRtmChannel \cup {thread[t].at}
         \/ /\ exists # None /\ exists' = exists
            /\ refused' = refused \cup {thread[t].at} /\ mRtmChannel' = mRtmChannel
      /\ thread' = [thread EXCEPT ![t] = [pc |-> "listen", at |-> thread[t].at]]
  <2>1. crashed = "no" /\ thread[t].pc \in {"create", "again"}
    BY DEF createChannel, At
  <2>2. thread[t].at \in Activities /\ thread[t].at # None
    BY <2>1, AtAnActivity DEF Entering
  <2>3. thread[t].at \notin mRtmChannel
    BY <2>1 DEF Channels
  <2>4. mRtmChannel \ {thread[t].at} = mRtmChannel
    BY <2>3
  <2>5. QED
    BY <2>1, <2>2, <2>3, <2>4 DEF createChannel, Goes
<1>2. UNCHANGED <<mConnectState, mClientListener, created, opened, uid, finishing,
           destroyed, mIsMsgChannelEnable, crashed, loggingIn, account, joins, joined,
           changes, tried, failed, lost, stacked>>
  BY DEF createChannel
<1>3. TypeInvariant'
  <2>1. thread' \in [Threads -> Steps]
    BY <1>1, GoesIs DEF TypeInvariant, Steps, Entering, Idle
  <2>2. QED
    BY <1>1, <1>2, <2>1 DEF TypeInvariant
<1>4. Numbered'
  <2>1. thread[t].at \in 1..created
    BY <1>1 DEF Numbered, TypeInvariant, Activities, Threads, None
  <2>2. {thread'["ui"].at, thread'["sdk"].at} = {thread["ui"].at, thread["sdk"].at}
    BY <1>1, GoesIs DEF Threads
  <2>3. QED
    BY <1>1, <1>2, <2>1, <2>2 DEF Numbered
<1>5. Paths'
  <2>1. CASE t = "ui"
    BY <1>1, <1>2, <2>1, GoesIs DEF Paths, Entering, OnTop, Idle, None
  <2>2. CASE t = "sdk"
    BY <1>1, <1>2, <2>2, GoesIs DEF Paths, Entering, OnTop, Idle, None
  <2>3. QED
    BY <2>1, <2>2 DEF Threads
<1>6. Channels'
  <2> DEFINE a == thread[t].at
  <2>1. /\ thread'[t] = [pc |-> "listen", at |-> a]
        /\ \A s \in Threads \ {t} : thread'[s] = thread[s]
    BY <1>1, GoesIs DEF Threads
  <2>2. Held' = Held
    BY <1>1, <1>2, <2>1 DEF Held, Threads
  <2>3. /\ t = "ui" => OnTop(a)
        /\ t = "sdk" => a \in refused
    BY <1>1 DEF Paths, Entering
  <2>4. t = "ui" => Held = opened
    BY <1>1 DEF Held
  <2>5. CASE exists = None
    <3>1. /\ exists' = a /\ refused' = refused /\ mRtmChannel' = mRtmChannel \cup {a}
          /\ mRtmChannel \cap Held = {} /\ refused \cap opened = {}
      BY <1>1, <2>5 DEF Channels, None, TypeInvariant, Activities
    <3>2. ASSUME NEW s \in Threads, s # t, thread[s].pc \in {"create", "again"}
          PROVE  thread[s].at # a
      BY <2>3, <3>1, <3>2 DEF Paths, Entering, OnTop, Threads
    <3>3. \A s \in Threads :
            /\ thread'[s].pc \in {"create", "again"} => thread'[s].at \notin mRtmChannel'
            /\ thread'[s].pc = "listen" => thread'[s].at \in mRtmChannel' \cup refused'
            /\ thread'[s].pc = "join" => thread'[s].at \in mRtmChannel'
      BY <2>1, <3>1, <3>2 DEF Channels
    <3>4. QED
      BY <1>2, <2>2, <3>1, <3>3 DEF Channels
  <2>6. CASE exists # None
    <3>1. exists' = exists /\ refused' = refused \cup {a} /\ mRtmChannel' = mRtmChannel
      BY <1>1, <2>6
    <3>2. a \in opened => exists < a \/ exists \notin Held
      <4>1. CASE t = "ui"
        BY <1>1, <2>3, <2>4, <4>1 DEF Channels, OnTop, TypeInvariant, Activities, None
      <4>2. CASE t = "sdk"
        BY <2>3, <4>2 DEF Channels
      <4>3. QED
        BY <4>1, <4>2 DEF Threads
    <3>3. \A s \in Threads :
            /\ thread'[s].pc \in {"create", "again"} => thread'[s].at \notin mRtmChannel'
            /\ thread'[s].pc = "listen" => thread'[s].at \in mRtmChannel' \cup refused'
            /\ thread'[s].pc = "join" => thread'[s].at \in mRtmChannel'
      BY <2>1, <3>1 DEF Channels
    <3>4. QED
      BY <1>2, <2>2, <2>6, <3>1, <3>2, <3>3 DEF Channels
  <2>7. QED
    BY <2>5, <2>6
<1>7. Listens'
  <2>1. CASE t = "ui"
    BY <1>1, <1>2, <2>1, GoesIs DEF Listens, ToListen, Undisturbed, Entering, None
  <2>2. CASE t = "sdk"
    BY <1>1, <1>2, <2>2, GoesIs DEF Listens, ToListen, Undisturbed, Entering, None
  <2>3. QED
    BY <2>1, <2>2 DEF Threads
<1>8. NewLogin'
  BY <1>1, <1>2 DEF NewLogin, Current
<1>9. Remembered'
  <2>1. CASE t = "ui"
    BY <1>1, <1>2, <2>1, GoesIs DEF Remembered, Current, Undisturbed, Entering, Threads, Idle
  <2>2. CASE t = "sdk"
    BY <1>1, <1>2, <2>2, GoesIs DEF Remembered, Current, Undisturbed, Entering, Threads, Idle
  <2>3. QED
    BY <2>1, <2>2 DEF Threads
<1>10. OneAtATime'
  <2> SUFFICES ASSUME ~stacked
               PROVE  OneAtATime'
    BY <1>2 DEF OneAtATime
  <2>1. t = "ui"
    BY <1>1 DEF OneAtATime, Paths, Entering, Threads
  <2>2. thread[t].at \in opened /\ thread[t].at = created
    BY <1>1, <2>1 DEF OneAtATime, Paths, Entering, OnTop
  <2>3. exists = None
    BY <1>1, <2>1, <2>2 DEF OneAtATime
  <2>4. /\ exists' = created /\ created \in mRtmChannel' /\ refused' = {}
        /\ thread'["ui"].pc = "listen" /\ created \notin finishing
    <3>1. refused = {} /\ created \notin finishing
      BY <2>2 DEF OneAtATime, Numbered
    <3>2. thread'["ui"].pc = "listen"
      <4>1. thread'[t] = [pc |-> "listen", at |-> thread[t].at]
        BY <1>1, GoesIs
      <4>2. QED
        BY <2>1, <4>1
    <3>3. QED
      BY <1>1, <2>2, <2>3, <3>1, <3>2
  <2>5. QED
    BY <1>2, <2>4 DEF OneAtATime
<1>11. EnabledIsJoined'
  BY <1>1, <1>2 DEF EnabledIsJoined
<1>12. CrashAfterFinish'
  BY <1>1, <1>2 DEF CrashAfterFinish, Idle
<1>13. QED
  BY <1>3, <1>4, <1>5, <1>6, <1>7, <1>8, <1>9, <1>10, <1>11, <1>12

LEMMA overflowKeeps ==
  ASSUME IInv, NEW t \in Threads, overflow(t)
  PROVE  IInv'
<1> USE DEF IInv, manager, activity, flags, network, channels, history
<1>1. /\ thread[t].pc = "again" /\ exists # None /\ thread[t].at \in {None} \cup Activities
      /\ crashed' = "no end of calls"
  BY DEF overflow, At, TypeInvariant, Steps
<1>2. UNCHANGED <<mConnectState, mClientListener, created, opened, uid, finishing,
           destroyed, mRtmChannel, mIsMsgChannelEnable, thread, loggingIn, account,
           joins, joined, exists, changes, tried, failed, lost, refused, stacked>>
  BY DEF overflow
<1>3. TypeInvariant'
  BY <1>1, <1>2 DEF TypeInvariant
<1>4. Numbered'
  BY <1>1, <1>2 DEF Numbered, None, Idle
<1>5. Paths'
  BY <1>1, <1>2 DEF Paths, Entering, OnTop, Idle, None
<1>6. Channels'
  BY <1>1, <1>2 DEF Channels, Held, Threads, Idle
<1>7. Listens'
  BY <1>1, <1>2 DEF Listens, ToListen, Undisturbed, Entering, None
<1>8. NewLogin'
  BY <1>1, <1>2 DEF NewLogin, Current
<1>9. Remembered'
  BY <1>1, <1>2 DEF Remembered, Current, Undisturbed, Entering, Threads, Idle
<1>10. OneAtATime'
  <2>1. CASE t = "ui"
    BY <1>1, <1>2, <2>1, GoesIs DEF OneAtATime, None, Idle
  <2>2. CASE t = "sdk"
    BY <1>1, <1>2, <2>2, GoesIs DEF OneAtATime, None, Idle
  <2>3. QED
    BY <2>1, <2>2 DEF Threads
<1>11. EnabledIsJoined'
  BY <1>1, <1>2 DEF EnabledIsJoined
<1>12. CrashAfterFinish'
  <2>1. ASSUME ~stacked
        PROVE  FALSE
    <3>1. t = "ui"
      BY <1>1, <2>1 DEF OneAtATime, Paths, Entering, Threads
    <3>2. thread[t].at \in mRtmChannel
      BY <1>1, <2>1, <3>1 DEF OneAtATime, Paths, Entering, OnTop
    <3>3. QED
      BY <1>1, <3>2 DEF Channels
  <2>2. QED
    BY <1>1, <1>2, <2>1 DEF CrashAfterFinish
<1>13. QED
  BY <1>3, <1>4, <1>5, <1>6, <1>7, <1>8, <1>9, <1>10, <1>11, <1>12

LEMMA replayStateKeeps ==
  ASSUME IInv, NEW t \in Threads, replayState(t)
  PROVE  IInv'
<1> USE DEF IInv, manager, activity, flags, network, channels, history
<1>1. /\ crashed = "no" /\ thread[t].pc = "replay" /\ thread[t].at \in Activities
      /\ \/ /\ thread' = [thread EXCEPT ![t] = Idle]
            /\ mConnectState = "connected" => thread[t].at \in finishing \cup mIsMsgChannelEnable
         \/ /\ thread' = [thread EXCEPT ![t] = [pc |-> "again", at |-> thread[t].at]]
            /\ thread[t].at \notin mRtmChannel
         \/ /\ thread' = [thread EXCEPT ![t] = [pc |-> "join", at |-> thread[t].at]]
            /\ thread[t].at \in mRtmChannel
  BY onRtmConnectedIs DEF replayState, At, TypeInvariant, Steps, Paths, Entering, OnTop, Threads
<1>2. UNCHANGED <<mConnectState, mClientListener, created, opened, uid, finishing,
           destroyed, mRtmChannel, mIsMsgChannelEnable, crashed, loggingIn, account,
           joins, joined, exists, changes, tried, failed, lost, refused, stacked>>
  BY DEF replayState
<1>3. TypeInvariant'
  <2>1. thread' \in [Threads -> Steps]
    BY <1>1, GoesIs DEF TypeInvariant, Steps, Entering, Idle
  <2>2. QED
    BY <1>1, <1>2, <2>1 DEF TypeInvariant
<1>4. Numbered'
  <2>1. CASE t = "ui"
    BY <1>1, <1>2, <2>1, GoesIs DEF Numbered, None, Idle
  <2>2. CASE t = "sdk"
    BY <1>1, <1>2, <2>2, GoesIs DEF Numbered, None, Idle
  <2>3. QED
    BY <2>1, <2>2 DEF Threads
<1>5. Paths'
  <2>1. CASE t = "ui"
    BY <1>1, <1>2, <2>1, GoesIs DEF Paths, Entering, OnTop, Idle, None
  <2>2. CASE t = "sdk"
    BY <1>1, <1>2, <2>2, GoesIs DEF Paths, Entering, OnTop, Idle, None
  <2>3. QED
    BY <2>1, <2>2 DEF Threads
<1>6. Channels'
  <2>1. CASE t = "ui"
    BY <1>1, <1>2, <2>1, GoesIs DEF Channels, Held, Threads, Idle
  <2>2. CASE t = "sdk"
    BY <1>1, <1>2, <2>2, GoesIs DEF Channels, Held, Threads, Idle
  <2>3. QED
    BY <2>1, <2>2 DEF Threads
<1>7. Listens'
  <2>1. CASE t = "ui"
    BY <1>1, <1>2, <2>1, GoesIs DEF Listens, ToListen, Undisturbed, Entering, None
  <2>2. CASE t = "sdk"
    BY <1>1, <1>2, <2>2, GoesIs DEF Listens, ToListen, Undisturbed, Entering, None
  <2>3. QED
    BY <2>1, <2>2 DEF Threads
<1>8. NewLogin'
  BY <1>1, <1>2 DEF NewLogin, Current
<1>9. Remembered'
  <2> SUFFICES ASSUME mConnectState = "connected", NEW a \in Activities, Current(a),
                      Undisturbed(a)
               PROVE  \/ a \in joined \cup tried
                      \/ thread'["sdk"].pc \in {"look", "call"}
                      \/ \E s \in Threads : thread'[s].pc \in Entering /\ thread'[s].at = a
    BY <1>2 DEF Remembered, Current, Undisturbed
  <2>1. \A s \in Threads \ {t} : thread'[s] = thread[s]
    BY <1>1, GoesIs DEF Threads
  <2>2. CASE thread[t].at = a
    <3>1. CASE thread' = [thread EXCEPT ![t] = Idle]
      BY <1>1, <2>2, <3>1 DEF EnabledIsJoined, Current, NewLogin, Numbered, Idle, TypeInvariant,
                              Threads, Steps
    <3>2. CASE \E pc \in {"again", "join"} : thread' = [thread EXCEPT ![t] = [pc |-> pc, at |-> a]]
      <4>1. PICK pc \in {"again", "join"} : thread' = [thread EXCEPT ![t] = [pc |-> pc, at |-> a]]
        BY <3>2
      <4>2. thread'[t] = [pc |-> pc, at |-> a]
        BY <4>1, GoesIs
      <4>3. QED
        BY <4>2 DEF Entering
    <3>3. QED
      BY <1>1, <2>2, <3>1, <3>2
  <2>3. CASE thread[t].at # a
    BY <1>1, <2>1, <2>3 DEF Remembered, Entering, Threads
  <2>4. QED
    BY <2>2, <2>3
<1>10. OneAtATime'
  <2>1. CASE t = "ui"
    BY <1>1, <1>2, <2>1, GoesIs DEF OneAtATime, None, Idle
  <2>2. CASE t = "sdk"
    BY <1>1, <1>2, <2>2, GoesIs DEF OneAtATime, None, Idle
  <2>3. QED
    BY <2>1, <2>2 DEF Threads
<1>11. EnabledIsJoined'
  BY <1>1, <1>2 DEF EnabledIsJoined
<1>12. CrashAfterFinish'
  BY <1>1, <1>2 DEF CrashAfterFinish, Idle
<1>13. QED
  BY <1>3, <1>4, <1>5, <1>6, <1>7, <1>8, <1>9, <1>10, <1>11, <1>12

LEMMA joinKeeps ==
  ASSUME IInv, NEW t \in Threads, join(t)
  PROVE  IInv'
<1> USE DEF IInv, manager, activity, flags, network, channels, history
<1>1. /\ crashed = "no" /\ thread[t].pc = "join" /\ thread[t].at \in mRtmChannel
      /\ crashed' = crashed
      /\ joins' = [joins EXCEPT ![thread[t].at] = @ + 1]
      /\ tried' = tried \cup {thread[t].at}
      /\ thread' = [thread EXCEPT ![t] = Idle]
  BY DEF join, At, Channels, Stops
<1>2. UNCHANGED <<mConnectState, mClientListener, created, opened, uid, finishing,
           destroyed, mRtmChannel, mIsMsgChannelEnable, loggingIn, account, joined,
           exists, changes, failed, lost, refused, stacked>>
  BY DEF join
<1>3. TypeInvariant'
  <2>1. thread' \in [Threads -> Steps]
    BY <1>1, GoesIs DEF TypeInvariant, Steps, Entering, Idle
  <2>2. QED
    BY <1>1, <1>2, <2>1 DEF TypeInvariant
<1>4. Numbered'
  <2>1. CASE t = "ui"
    BY <1>1, <1>2, <2>1, GoesIs DEF Numbered, None, Idle
  <2>2. CASE t = "sdk"
    BY <1>1, <1>2, <2>2, GoesIs DEF Numbered, None, Idle
  <2>3. QED
    BY <2>1, <2>2 DEF Threads
<1>5. Paths'
  <2>1. CASE t = "ui"
    BY <1>1, <1>2, <2>1, GoesIs DEF Paths, Entering, OnTop, Idle, None
  <2>2. CASE t = "sdk"
    BY <1>1, <1>2, <2>2, GoesIs DEF Paths, Entering, OnTop, Idle, None
  <2>3. QED
    BY <2>1, <2>2 DEF Threads
<1>6. Channels'
  <2>1. CASE t = "ui"
    BY <1>1, <1>2, <2>1, GoesIs DEF Channels, Held, Threads, Idle
  <2>2. CASE t = "sdk"
    BY <1>1, <1>2, <2>2, GoesIs DEF Channels, Held, Threads, Idle
  <2>3. QED
    BY <2>1, <2>2 DEF Threads
<1>7. Listens'
  <2>1. CASE t = "ui"
    BY <1>1, <1>2, <2>1, GoesIs DEF Listens, ToListen, Undisturbed, Entering, None
  <2>2. CASE t = "sdk"
    BY <1>1, <1>2, <2>2, GoesIs DEF Listens, ToListen, Undisturbed, Entering, None
  <2>3. QED
    BY <2>1, <2>2 DEF Threads
<1>8. NewLogin'
  BY <1>1, <1>2 DEF NewLogin, Current
<1>9. Remembered'
  <2>1. CASE t = "ui"
    BY <1>1, <1>2, <2>1, GoesIs DEF Remembered, Current, Undisturbed, Entering, Threads, Idle
  <2>2. CASE t = "sdk"
    BY <1>1, <1>2, <2>2, GoesIs DEF Remembered, Current, Undisturbed, Entering, Threads, Idle
  <2>3. QED
    BY <2>1, <2>2 DEF Threads
<1>10. OneAtATime'
  <2>1. CASE t = "ui"
    BY <1>1, <1>2, <2>1, GoesIs DEF OneAtATime, None, Idle
  <2>2. CASE t = "sdk"
    BY <1>1, <1>2, <2>2, GoesIs DEF OneAtATime, None, Idle
  <2>3. QED
    BY <2>1, <2>2 DEF Threads
<1>11. EnabledIsJoined'
  BY <1>1, <1>2 DEF EnabledIsJoined
<1>12. CrashAfterFinish'
  BY <1>1, <1>2 DEF CrashAfterFinish, Idle
<1>13. QED
  BY <1>3, <1>4, <1>5, <1>6, <1>7, <1>8, <1>9, <1>10, <1>11, <1>12

-----------------------------------------------------------------------------
(* The UI thread.                                                          *)


LEMMA initRtmClientKeeps ==
  ASSUME IInv, NEW u \in Uids, initRtmClient(u)
  PROVE  IInv'
<1> USE DEF IInv, manager, activity, flags, network, channels, history
<1>1. /\ crashed = "no" /\ thread["ui"].pc = "idle" /\ stacked' = (stacked \/ opened # {})
      /\ created + 1 \in Activities /\ created' = created + 1 /\ created' \in 0..MaxActivities
      /\ created + 1 \in opened' /\ opened' \subseteq opened \cup {created + 1}
      /\ loggingIn' \in BOOLEAN /\ account' \in {None} \cup Uids
      /\ uid' \in [Activities -> {None} \cup Uids]
      /\ thread' = [thread EXCEPT !["ui"] = [pc |-> "create", at |-> created + 1]]
      /\ thread'["ui"] = [pc |-> "create", at |-> created + 1] /\ thread'["sdk"] = thread["sdk"]
  <2>1. crashed = "no" /\ thread["ui"].pc = "idle" /\ stacked' = (stacked \/ opened # {})
    BY DEF initRtmClient, At
  <2>2. /\ created + 1 \in Activities /\ created' = created + 1
        /\ created' \in 0..MaxActivities
    <3>1. created < MaxActivities /\ created' = created + 1
      BY DEF initRtmClient
    <3>2. QED
      BY <3>1, Ranges, SessionAssumption DEF Activities
  <2>3. created + 1 \in opened' /\ opened' \subseteq opened \cup {created + 1}
    BY DEF initRtmClient
  <2>4. /\ loggingIn' \in BOOLEAN /\ account' \in {None} \cup Uids
        /\ uid' \in [Activities -> {None} \cup Uids]
    BY <2>2 DEF initRtmClient, TypeInvariant
  <2>5. thread' = [thread EXCEPT !["ui"] = [pc |-> "create", at |-> created + 1]]
    BY DEF initRtmClient, Goes
  <2>6. QED
    BY <2>1, <2>2, <2>3, <2>4, <2>5, GoesIs DEF Threads
<1>2. UNCHANGED <<mConnectState, mClientListener, finishing, destroyed, mRtmChannel,
           mIsMsgChannelEnable, crashed, joins, joined, exists, changes, tried, failed,
           lost, refused>>
  BY DEF initRtmClient
<1>3. TypeInvariant'
  <2>1. thread' \in [Threads -> Steps]
    BY <1>1, GoesIs DEF TypeInvariant, Steps, Entering, Idle, Threads
  <2>2. QED
    BY <1>1, <1>2, <2>1 DEF TypeInvariant
<1>4. Numbered'
  BY <1>1, <1>2 DEF Numbered, None, TypeInvariant, Activities
<1>5. Paths'
  BY <1>1, <1>2 DEF Paths, Numbered, Entering, OnTop, None, TypeInvariant, Activities
<1>6. Channels'
  <2>1. created + 1 \notin mRtmChannel \cup refused /\ exists # created + 1
    BY <1>1 DEF Numbered, TypeInvariant, Activities
  <2>2. Held' = opened' /\ Held = opened
    BY <1>1 DEF Held
  <2>3. \A t \in Threads :
          /\ thread'[t].pc \in {"create", "again"} => thread'[t].at \notin mRtmChannel
          /\ thread'[t].pc = "listen" => thread'[t].at \in mRtmChannel \cup refused
          /\ thread'[t].pc = "join" => thread'[t].at \in mRtmChannel
    BY <1>1, <2>1 DEF Channels, Threads
  <2>4. QED
    BY <1>1, <1>2, <2>1, <2>2, <2>3 DEF Channels
<1>7. Listens'
  BY <1>1, <1>2 DEF Listens, ToListen, Undisturbed, Entering, None
<1>8. NewLogin'
  BY <1>1, <1>2 DEF NewLogin, Current, Numbered, TypeInvariant, Activities
<1>9. Remembered'
  BY <1>1, <1>2 DEF Remembered, Current, Undisturbed, Entering, Threads, Idle
<1>10. OneAtATime'
  <2> SUFFICES ASSUME ~stacked, opened = {}
               PROVE  OneAtATime'
    BY <1>1 DEF OneAtATime
  <2>1. exists = None
    BY <1>1 DEF OneAtATime, Numbered, None, TypeInvariant
  <2>2. created + 1 \notin finishing
    BY <1>1 DEF Numbered, TypeInvariant
  <2>3. QED
    BY <1>1, <1>2, <2>1, <2>2 DEF OneAtATime
<1>11. EnabledIsJoined'
  BY <1>1, <1>2 DEF EnabledIsJoined
<1>12. CrashAfterFinish'
  BY <1>1, <1>2 DEF CrashAfterFinish, Idle
<1>13. QED
  BY <1>3, <1>4, <1>5, <1>6, <1>7, <1>8, <1>9, <1>10, <1>11, <1>12

LEMMA doSendMsgKeeps ==
  ASSUME IInv, NEW a \in Activities, doSendMsg(a)
  PROVE  IInv'
<1> USE DEF IInv, manager, activity, flags, network, channels, history
<1>1. /\ crashed = "no" /\ thread["ui"].pc = "idle"
      /\ OnTop(a) /\ a \notin mRtmChannel
      /\ thread' = [thread EXCEPT !["ui"] = [pc |-> "create", at |-> a]]
      /\ thread'["ui"] = [pc |-> "create", at |-> a] /\ thread'["sdk"] = thread["sdk"]
  BY GoesIs DEF doSendMsg, Goes, At, TypeInvariant, Threads
<1>2. UNCHANGED <<mConnectState, mClientListener, created, opened, uid, finishing,
           destroyed, mRtmChannel, mIsMsgChannelEnable, crashed, loggingIn, account,
           joins, joined, exists, changes, tried, failed, lost, refused, stacked>>
  BY DEF doSendMsg
<1>3. TypeInvariant'
  <2>1. thread' \in [Threads -> Steps]
    BY <1>1, GoesIs DEF TypeInvariant, Steps, Entering, Idle, Threads
  <2>2. QED
    BY <1>1, <1>2, <2>1 DEF TypeInvariant
<1>4. Numbered'
  BY <1>1, <1>2 DEF Numbered, OnTop, TypeInvariant, Activities
<1>5. Paths'
  BY <1>1, <1>2 DEF Paths, Entering, OnTop, Idle, None
<1>6. Channels'
  BY <1>1, <1>2 DEF Channels, Held, Threads, Idle
<1>7. Listens'
  BY <1>1, <1>2 DEF Listens, ToListen, Undisturbed, Entering, None
<1>8. NewLogin'
  BY <1>1, <1>2 DEF NewLogin, Current
<1>9. Remembered'
  BY <1>1, <1>2 DEF Remembered, Current, Undisturbed, Entering, Threads, Idle
<1>10. OneAtATime'
  BY <1>1, <1>2 DEF OneAtATime, OnTop, Numbered
<1>11. EnabledIsJoined'
  BY <1>1, <1>2 DEF EnabledIsJoined
<1>12. CrashAfterFinish'
  BY <1>1, <1>2 DEF CrashAfterFinish, Idle
<1>13. QED
  BY <1>3, <1>4, <1>5, <1>6, <1>7, <1>8, <1>9, <1>10, <1>11, <1>12

LEMMA finishKeeps ==
  ASSUME IInv, NEW a \in Activities, finish(a)
  PROVE  IInv'
<1> USE DEF IInv, manager, activity, flags, network, channels, history
<1>1. /\ crashed = "no" /\ thread["ui"].pc = "idle"
      /\ OnTop(a)
      /\ opened' = opened \ {a} /\ finishing' = finishing \cup {a}
      /\ thread' = [thread EXCEPT !["ui"] = [pc |-> "release", at |-> a]]
      /\ thread'["ui"] = [pc |-> "release", at |-> a] /\ thread'["sdk"] = thread["sdk"]
  BY GoesIs DEF finish, Goes, At, TypeInvariant, Threads
<1>2. UNCHANGED <<mConnectState, mClientListener, created, uid, destroyed, mRtmChannel,
           mIsMsgChannelEnable, crashed, loggingIn, account, joins, joined, exists,
           changes, tried, failed, lost, refused, stacked>>
  BY DEF finish
<1>3. TypeInvariant'
  <2>1. thread' \in [Threads -> Steps]
    BY <1>1, GoesIs DEF TypeInvariant, Steps, Entering, Idle, Threads
  <2>2. QED
    BY <1>1, <1>2, <2>1 DEF TypeInvariant
<1>4. Numbered'
  BY <1>1, <1>2 DEF Numbered, OnTop, TypeInvariant, Activities
<1>5. Paths'
  BY <1>1, <1>2 DEF Paths, Entering, OnTop, TypeInvariant, Activities
<1>6. Channels'
  <2>1. a \in opened /\ Held = opened /\ Held' = opened
    BY <1>1 DEF Held, OnTop
  <2>2. \A t \in Threads :
          /\ thread'[t].pc \in {"create", "again"} => thread'[t].at \notin mRtmChannel
          /\ thread'[t].pc = "listen" => thread'[t].at \in mRtmChannel \cup refused
          /\ thread'[t].pc = "join" => thread'[t].at \in mRtmChannel
    BY <1>1 DEF Channels, Threads
  <2>3. QED
    BY <1>1, <1>2, <2>1, <2>2 DEF Channels
<1>7. Listens'
  BY <1>1, <1>2 DEF Listens, ToListen, Undisturbed, Entering, None
<1>8. NewLogin'
  BY <1>1, <1>2 DEF NewLogin, Current
<1>9. Remembered'
  BY <1>1, <1>2 DEF Remembered, Current, Undisturbed, Entering, Threads, Idle
<1>10. OneAtATime'
  BY <1>1, <1>2 DEF OneAtATime, OnTop, Numbered
<1>11. EnabledIsJoined'
  BY <1>1, <1>2 DEF EnabledIsJoined
<1>12. CrashAfterFinish'
  BY <1>1, <1>2 DEF CrashAfterFinish, Idle
<1>13. QED
  BY <1>3, <1>4, <1>5, <1>6, <1>7, <1>8, <1>9, <1>10, <1>11, <1>12

LEMMA releaseChannelKeeps ==
  ASSUME IInv, releaseChannel
  PROVE  IInv'
<1> USE DEF IInv, manager, activity, flags, network, channels, history
<1>1. /\ crashed = "no" /\ thread["ui"].pc = "release" /\ thread["ui"].at \in Activities
      /\ \/ /\ thread["ui"].at \in mRtmChannel /\ exists' = None
            /\ joined' = joined \ {thread["ui"].at}
         \/ thread["ui"].at \notin mRtmChannel /\ exists' = exists /\ joined' = joined
      /\ thread' = [thread EXCEPT !["ui"] = [pc |-> "clear", at |-> thread["ui"].at]]
      /\ thread'["ui"] = [pc |-> "clear", at |-> thread["ui"].at] /\ thread'["sdk"] = thread["sdk"]
  BY GoesIs DEF releaseChannel, Goes, At, TypeInvariant, Threads, Paths
<1>2. UNCHANGED <<mConnectState, mClientListener, created, opened, uid, finishing,
           destroyed, mRtmChannel, mIsMsgChannelEnable, crashed, loggingIn, account,
           joins, changes, tried, failed, lost, refused, stacked>>
  BY DEF releaseChannel
<1>3. TypeInvariant'
  <2>1. thread' \in [Threads -> Steps]
    BY <1>1, GoesIs DEF TypeInvariant, Steps, Entering, Idle, Threads
  <2>2. QED
    BY <1>1, <1>2, <2>1 DEF TypeInvariant
<1>4. Numbered'
  BY <1>1, <1>2 DEF Numbered, None, Idle
<1>5. Paths'
  BY <1>1, <1>2 DEF Paths, Entering, OnTop, Idle, None
<1>6. Channels'
  <2> DEFINE a == thread["ui"].at
  <2>1. a \in Held /\ opened \subseteq Held /\ Held' = opened
    <3>1. thread["ui"] = [pc |-> "release", at |-> a]
      BY <1>1 DEF TypeInvariant, Threads, Steps
    <3>2. QED
      BY <1>1, <1>2, <3>1 DEF Held
  <2>2. \A t \in Threads :
          /\ thread'[t].pc \in {"create", "again"} => thread'[t].at \notin mRtmChannel
          /\ thread'[t].pc = "listen" => thread'[t].at \in mRtmChannel \cup refused
          /\ thread'[t].pc = "join" => thread'[t].at \in mRtmChannel
    BY <1>1 DEF Channels, Threads
  <2>3. CASE a \in mRtmChannel
    <3>1. exists = a /\ exists' = None /\ a \notin opened /\ \A b \in opened : b < a
      BY <1>1, <2>1, <2>3 DEF Channels, Paths, TypeInvariant, Activities
    <3>2. mRtmChannel \cap opened = {}
      BY <2>1, <3>1 DEF Channels
    <3>3. refused \cap opened = {}
      BY <2>1, <3>1, Ranges DEF Channels
    <3>4. None \notin opened
      BY Ranges
    <3>5. QED
      BY <1>2, <2>1, <2>2, <3>1, <3>2, <3>3, <3>4 DEF Channels
  <2>4. CASE a \notin mRtmChannel
    BY <1>1, <1>2, <2>1, <2>2, <2>4 DEF Channels
  <2>5. QED
    BY <2>3, <2>4
<1>7. Listens'
  BY <1>1, <1>2 DEF Listens, ToListen, Undisturbed, Entering, None
<1>8. NewLogin'
  BY <1>1, <1>2 DEF NewLogin, Current
<1>9. Remembered'
  <2>1. \A b \in Activities : Current(b) => b # thread["ui"].at
    BY <1>1 DEF Paths, Current, Numbered
  <2>2. \A b \in Activities : (\E t \in Threads : thread[t].pc \in Entering /\ thread[t].at = b)
          => \E t \in Threads : thread'[t].pc \in Entering /\ thread'[t].at = b
    BY <1>1 DEF Entering, Threads
  <2>3. QED
    BY <1>1, <1>2, <2>1, <2>2 DEF Remembered, Current, Undisturbed
<1>10. OneAtATime'
  <2> SUFFICES ASSUME ~stacked
               PROVE  OneAtATime'
    BY <1>2 DEF OneAtATime
  <2>1. created # 0 /\ created \in Activities
    BY <1>1, SessionAssumption DEF Numbered, TypeInvariant, Activities
  <2>2. created \in finishing => exists' = None
    BY <1>1 DEF OneAtATime
  <2>3. QED
    BY <1>1, <1>2, <2>1, <2>2 DEF OneAtATime, Numbered, Paths
<1>11. EnabledIsJoined'
  BY <1>1, <1>2 DEF EnabledIsJoined, Paths
<1>12. CrashAfterFinish'
  BY <1>1, <1>2 DEF CrashAfterFinish, Idle
<1>13. QED
  BY <1>3, <1>4, <1>5, <1>6, <1>7, <1>8, <1>9, <1>10, <1>11, <1>12

LEMMA clearListenerKeeps ==
  ASSUME IInv, clearListener
  PROVE  IInv'
<1> USE DEF IInv, manager, activity, flags, network, channels, history
<1>1. /\ crashed = "no" /\ thread["ui"].pc = "clear"
      /\ mClientListener' = None
      /\ thread' = [thread EXCEPT !["ui"] = Idle]
      /\ thread'["ui"] = Idle /\ thread'["sdk"] = thread["sdk"]
  BY GoesIs DEF clearListener, Stops, At, TypeInvariant, Threads
<1>2. UNCHANGED <<mConnectState, created, opened, uid, finishing, destroyed,
           mRtmChannel, mIsMsgChannelEnable, crashed, loggingIn, account, joins, joined,
           exists, changes, tried, failed, lost, refused, stacked>>
  BY DEF clearListener
<1>3. TypeInvariant'
  <2>1. thread' \in [Threads -> Steps]
    BY <1>1, GoesIs DEF TypeInvariant, Steps, Entering, Idle, Threads
  <2>2. QED
    BY <1>1, <1>2, <2>1 DEF TypeInvariant
<1>4. Numbered'
  BY <1>1, <1>2 DEF Numbered, None, Idle
<1>5. Paths'
  BY <1>1, <1>2 DEF Paths, Entering, OnTop, Idle, None
<1>6. Channels'
  BY <1>1, <1>2 DEF Channels, Held, Threads, Idle
<1>7. Listens'
  BY <1>1, <1>2 DEF Listens, ToListen, Paths, Numbered, TypeInvariant, Activities
<1>8. NewLogin'
  BY <1>1, <1>2 DEF NewLogin, Current
<1>9. Remembered'
  BY <1>1, <1>2 DEF Remembered, Current, Undisturbed, Entering, Threads, Idle
<1>10. OneAtATime'
  BY <1>1, <1>2 DEF OneAtATime, None, Idle
<1>11. EnabledIsJoined'
  BY <1>1, <1>2 DEF EnabledIsJoined
<1>12. CrashAfterFinish'
  BY <1>1, <1>2 DEF CrashAfterFinish, Idle
<1>13. QED
  BY <1>3, <1>4, <1>5, <1>6, <1>7, <1>8, <1>9, <1>10, <1>11, <1>12

LEMMA destroyBySystemKeeps ==
  ASSUME IInv, NEW a \in Activities, destroyBySystem(a)
  PROVE  IInv'
<1> USE DEF IInv, manager, activity, flags, network, channels, history
<1>1. /\ destroyed' = destroyed \cup {a}
  BY DEF destroyBySystem
<1>2. UNCHANGED <<mConnectState, mClientListener, created, opened, uid, finishing,
           mRtmChannel, mIsMsgChannelEnable, thread, crashed, loggingIn, account, joins,
           joined, exists, changes, tried, failed, lost, refused, stacked>>
  BY DEF destroyBySystem
<1>3. TypeInvariant'
  BY <1>1, <1>2 DEF TypeInvariant, Idle, None, Threads, Entering
<1>4. Numbered'
  BY <1>1, <1>2 DEF Numbered, None, Idle
<1>5. Paths'
  BY <1>1, <1>2 DEF Paths, Entering, OnTop, Idle, None
<1>6. Channels'
  BY <1>1, <1>2 DEF Channels, Held, Threads, Idle
<1>7. Listens'
  BY <1>1, <1>2 DEF Listens, ToListen, Undisturbed, Entering, None
<1>8. NewLogin'
  BY <1>1, <1>2 DEF NewLogin, Current
<1>9. Remembered'
  BY <1>1, <1>2 DEF Remembered, Current, Undisturbed, Entering, Threads, Idle
<1>10. OneAtATime'
  BY <1>1, <1>2 DEF OneAtATime, None, Idle
<1>11. EnabledIsJoined'
  BY <1>1, <1>2 DEF EnabledIsJoined
<1>12. CrashAfterFinish'
  BY <1>1, <1>2 DEF CrashAfterFinish, Idle
<1>13. QED
  BY <1>3, <1>4, <1>5, <1>6, <1>7, <1>8, <1>9, <1>10, <1>11, <1>12

-----------------------------------------------------------------------------
(* The SDK's thread.                                                       *)


\* Only a login leads out of the states of a client that is logged out.
LEMMA SuccessorsAre ==
  ASSUME mConnectState \in States, NEW state \in Successors
  PROVE  /\ state \in States
         /\ mConnectState = "aborted" => loggingIn
BY DEF Successors, States

LEMMA storeStateKeeps ==
  ASSUME IInv, NEW state, storeState(state)
  PROVE  IInv'
<1> USE DEF IInv, manager, activity, flags, network, channels, history
<1>1. /\ crashed = "no" /\ thread["sdk"].pc = "idle"
      /\ mConnectState' = state /\ state \in States
      /\ mConnectState = "aborted" => loggingIn
      /\ loggingIn' = (loggingIn /\ state = "connecting")
      /\ changes' = changes + 1
      /\ joined' = IF state = "aborted" THEN {} ELSE joined
      /\ lost' = IF state = "aborted" THEN lost \cup mIsMsgChannelEnable ELSE lost
      /\ tried' \in {{}, tried} /\ failed' \in {{}, failed}
      /\ thread' = [thread EXCEPT !["sdk"] = [pc |-> "look", at |-> None]]
      /\ thread'["sdk"] = [pc |-> "look", at |-> None] /\ thread'["ui"] = thread["ui"]
  BY SuccessorsAre, GoesIs DEF storeState, Goes, At, TypeInvariant, Threads
<1>2. UNCHANGED <<mClientListener, created, opened, uid, finishing, destroyed,
           mRtmChannel, mIsMsgChannelEnable, crashed, account, joins, exists, refused,
           stacked>>
  BY DEF storeState
<1>3. TypeInvariant'
  <2>1. thread' \in [Threads -> Steps]
    BY <1>1, GoesIs DEF TypeInvariant, Steps, Entering, Idle, Threads
  <2>2. QED
    BY <1>1, <1>2, <2>1 DEF TypeInvariant
<1>4. Numbered'
  BY <1>1, <1>2 DEF Numbered, None, Idle
<1>5. Paths'
  BY <1>1, <1>2 DEF Paths, Entering, OnTop, Idle, None
<1>6. Channels'
  BY <1>1, <1>2 DEF Channels, Held, Threads, Idle
<1>7. Listens'
  BY <1>1, <1>2 DEF Listens, ToListen, Undisturbed, Entering, None
<1>8. NewLogin'
  BY <1>1, <1>2 DEF NewLogin, Current
<1>9. Remembered'
  BY <1>1, <1>2 DEF Remembered, Current, Undisturbed, Entering, Threads, Idle
<1>10. OneAtATime'
  BY <1>1, <1>2 DEF OneAtATime, None, Idle
<1>11. EnabledIsJoined'
  BY <1>1, <1>2 DEF EnabledIsJoined
<1>12. CrashAfterFinish'
  BY <1>1, <1>2 DEF CrashAfterFinish, Idle
<1>13. QED
  BY <1>3, <1>4, <1>5, <1>6, <1>7, <1>8, <1>9, <1>10, <1>11, <1>12

LEMMA lookForListenerKeeps ==
  ASSUME IInv, lookForListener
  PROVE  IInv'
<1> USE DEF IInv, manager, activity, flags, network, channels, history
<1>1. /\ crashed = "no" /\ thread["sdk"].pc = "look"
      /\ thread'["ui"] = thread["ui"]
      /\ \/ /\ thread' = [thread EXCEPT !["sdk"] = Idle] /\ thread'["sdk"] = Idle
            /\ mClientListener = None
         \/ /\ thread' = [thread EXCEPT !["sdk"] = [pc |-> "call", at |-> None]]
            /\ thread'["sdk"] = [pc |-> "call", at |-> None] /\ mClientListener # None
  BY GoesIs DEF lookForListener, Stops, Goes, At, TypeInvariant, Threads
<1>2. UNCHANGED <<mConnectState, mClientListener, created, opened, uid, finishing,
           destroyed, mRtmChannel, mIsMsgChannelEnable, crashed, loggingIn, account,
           joins, joined, exists, changes, tried, failed, lost, refused, stacked>>
  BY DEF lookForListener
<1>3. TypeInvariant'
  <2>1. thread' \in [Threads -> Steps]
    BY <1>1, GoesIs DEF TypeInvariant, Steps, Entering, Idle, Threads
  <2>2. QED
    BY <1>1, <1>2, <2>1 DEF TypeInvariant
<1>4. Numbered'
  BY <1>1, <1>2 DEF Numbered, None, Idle
<1>5. Paths'
  BY <1>1, <1>2 DEF Paths, Numbered, Entering, OnTop, Idle, None, TypeInvariant, Activities
<1>6. Channels'
  BY <1>1, <1>2 DEF Channels, Held, Threads, Idle
<1>7. Listens'
  BY <1>1, <1>2 DEF Listens, ToListen, Undisturbed, Entering, None
<1>8. NewLogin'
  BY <1>1, <1>2 DEF NewLogin, Current
<1>9. Remembered'
  <2> SUFFICES ASSUME mConnectState = "connected", crashed' = "no", NEW a \in Activities,
                      Current(a), Undisturbed(a)
               PROVE  \/ a \in joined \cup tried
                      \/ thread'["sdk"].pc \in {"look", "call"}
                      \/ \E s \in Threads : thread'[s].pc \in Entering /\ thread'[s].at = a
    BY <1>2 DEF Remembered, Current, Undisturbed
  <2>1. a = created /\ created # 0 /\ created \notin finishing
    BY DEF Current, Numbered, Activities
  <2>2. CASE ToListen(a)
    BY <1>1, <2>2 DEF ToListen, Entering, Threads
  <2>3. CASE ~ToListen(a)
    <3>1. mClientListener = a /\ mClientListener # None
      BY <2>1, <2>3 DEF Listens
    <3>2. QED
      BY <1>1, <3>1
  <2>4. QED
    BY <2>2, <2>3
<1>10. OneAtATime'
  BY <1>1, <1>2 DEF OneAtATime, None, Idle
<1>11. EnabledIsJoined'
  BY <1>1, <1>2 DEF EnabledIsJoined
<1>12. CrashAfterFinish'
  BY <1>1, <1>2 DEF CrashAfterFinish, Idle
<1>13. QED
  BY <1>3, <1>4, <1>5, <1>6, <1>7, <1>8, <1>9, <1>10, <1>11, <1>12

LEMMA callListenerKeeps ==
  ASSUME IInv, callListener
  PROVE  IInv'
<1> USE DEF IInv, manager, activity, flags, network, channels, history
<1>1. /\ crashed = "no" /\ thread["sdk"].pc = "call"
      /\ thread'["ui"] = thread["ui"]
      /\ \E step : thread' = [thread EXCEPT !["sdk"] = step] /\ thread'["sdk"] = step
      /\ \/ mClientListener = None /\ crashed' = "no listener" /\ thread'["sdk"] = Idle
         \/ /\ mClientListener \in Activities /\ crashed' = crashed
            /\ \/ /\ thread'["sdk"] = Idle
                  /\ mConnectState = "connected" => mClientListener \in finishing \cup mIsMsgChannelEnable
               \/ /\ thread'["sdk"] = [pc |-> "create", at |-> mClientListener]
                  /\ mClientListener \notin mRtmChannel
               \/ /\ thread'["sdk"] = [pc |-> "join", at |-> mClientListener]
                  /\ mClientListener \in mRtmChannel
  BY onRtmConnectedIs, GoesIs DEF callListener, Stops, At, TypeInvariant, Threads
<1>2. UNCHANGED <<mConnectState, mClientListener, created, opened, uid, finishing,
           destroyed, mRtmChannel, mIsMsgChannelEnable, loggingIn, account, joins,
           joined, exists, changes, tried, failed, lost, refused, stacked>>
  BY DEF callListener
<1>3. TypeInvariant'
  <2>1. thread'["sdk"] \in Steps
    <3>1. mClientListener \in {None} \cup Activities
      BY DEF TypeInvariant
    <3>2. \/ thread'["sdk"] = Idle
          \/ thread'["sdk"] = [pc |-> "create", at |-> mClientListener]
          \/ thread'["sdk"] = [pc |-> "join", at |-> mClientListener]
      BY <1>1
    <3>3. QED
      BY <3>1, <3>2 DEF Steps, Entering, Idle
  <2>2. thread' \in [Threads -> Steps]
    BY <1>1, <2>1, GoesIs DEF TypeInvariant, Threads
  <2>3. crashed' \in {"no", "no listener", "no channel", "no end of calls"}
    BY <1>1
  <2>4. QED
    BY <1>1, <1>2, <2>2, <2>3 DEF TypeInvariant
<1>4. Numbered'
  <2>1. thread'["sdk"].at \in {None, mClientListener}
    <3>1. \/ thread'["sdk"] = Idle
          \/ thread'["sdk"] = [pc |-> "create", at |-> mClientListener]
          \/ thread'["sdk"] = [pc |-> "join", at |-> mClientListener]
      BY <1>1
    <3>2. QED
      BY <3>1 DEF Idle
  <2>2. None \in 0..created
    BY Ranges
  <2>3. QED
    BY <1>1, <1>2, <2>1, <2>2 DEF Numbered
<1>5. Paths'
  <2>1. \/ thread'["sdk"] = Idle
        \/ thread'["sdk"] = [pc |-> "join", at |-> mClientListener]
        \/ /\ thread'["sdk"] = [pc |-> "create", at |-> mClientListener]
           /\ mClientListener \in refused
    BY <1>1, Ranges DEF Listens
  <2>2. thread'["sdk"] # Idle => mClientListener # None
    BY <1>1, Ranges
  <2>3. /\ thread'["sdk"].pc \in {"create", "join", "idle"}
        /\ thread'["sdk"].pc # "idle" <=> thread'["sdk"].at # None
        /\ thread'["sdk"].pc = "create" => thread'["sdk"].at \in refused
    BY <2>1, <2>2 DEF Idle
  <2>4. QED
    BY <1>1, <1>2, <2>3 DEF Paths, OnTop, Entering
<1>6. Channels'
  <2>1. Held' = Held
    BY <1>1, <1>2 DEF Held
  <2>2. /\ thread'["sdk"].pc \in {"create", "again"} => thread'["sdk"].at \notin mRtmChannel
        /\ thread'["sdk"].pc # "listen"
        /\ thread'["sdk"].pc = "join" => thread'["sdk"].at \in mRtmChannel
    <3>1. \/ thread'["sdk"] = Idle
          \/ /\ thread'["sdk"] = [pc |-> "create", at |-> mClientListener]
             /\ mClientListener \notin mRtmChannel
          \/ /\ thread'["sdk"] = [pc |-> "join", at |-> mClientListener]
             /\ mClientListener \in mRtmChannel
      BY <1>1
    <3>2. QED
      BY <3>1 DEF Idle
  <2>3. \A t \in Threads :
          /\ thread'[t].pc \in {"create", "again"} => thread'[t].at \notin mRtmChannel
          /\ thread'[t].pc = "listen" => thread'[t].at \in mRtmChannel \cup refused
          /\ thread'[t].pc = "join" => thread'[t].at \in mRtmChannel
    BY <1>1, <2>2 DEF Channels, Threads
  <2>4. QED
    BY <1>2, <2>1, <2>3 DEF Channels
<1>7. Listens'
  BY <1>1, <1>2 DEF Listens, ToListen, Undisturbed, Entering, None
<1>8. NewLogin'
  BY <1>1, <1>2 DEF NewLogin, Current
<1>9. Remembered'
  <2> SUFFICES ASSUME mConnectState = "connected", crashed' = "no", NEW a \in Activities,
                      Current(a), Undisturbed(a)
               PROVE  \/ a \in joined \cup tried
                      \/ thread'["sdk"].pc \in {"look", "call"}
                      \/ \E s \in Threads : thread'[s].pc \in Entering /\ thread'[s].at = a
    BY <1>2 DEF Remembered, Current, Undisturbed
  <2>1. a = created /\ created # 0 /\ created \notin finishing
    BY DEF Current, Numbered, Activities
  <2>2. CASE ToListen(a)
    BY <1>1, <2>2 DEF ToListen, Entering, Threads
  <2>3. CASE ~ToListen(a)
    <3>1. mClientListener = a /\ mClientListener # None
      BY <2>1, <2>3 DEF Listens
    <3>2. CASE thread'["sdk"] = Idle
      <4>1. a \in mIsMsgChannelEnable
        BY <1>1, <2>1, <3>1, <3>2 DEF Idle
      <4>2. a \notin lost
        BY DEF NewLogin
      <4>3. QED
        BY <2>1, <4>1, <4>2 DEF EnabledIsJoined
    <3>3. CASE thread'["sdk"].pc \in {"create", "join"} /\ thread'["sdk"].at = a
      BY <3>3 DEF Entering, Threads
    <3>4. QED
      BY <1>1, <3>1, <3>2, <3>3
  <2>4. QED
    BY <2>2, <2>3
<1>10. OneAtATime'
  BY <1>1, <1>2 DEF OneAtATime, None, Idle
<1>11. EnabledIsJoined'
  BY <1>1, <1>2 DEF EnabledIsJoined
<1>12. CrashAfterFinish'
  <2>1. created # 0
    BY <1>1 DEF Paths
  <2>2. mClientListener = None => created \in finishing \/ ToListen(created)
    BY <2>1 DEF Listens
  <2>3. QED
    BY <1>1, <1>2, <2>2 DEF CrashAfterFinish, ToListen
<1>13. QED
  BY <1>3, <1>4, <1>5, <1>6, <1>7, <1>8, <1>9, <1>10, <1>11, <1>12

LEMMA joinSucceedsKeeps ==
  ASSUME IInv, NEW a \in Activities, joinSucceeds(a)
  PROVE  IInv'
<1> USE DEF IInv, manager, activity, flags, network, channels, history
<1>1. /\ mConnectState = "connected" /\ joins[a] > 0
      /\ joins' = [joins EXCEPT ![a] = @ - 1]
      /\ joined' = joined \cup {a} /\ mIsMsgChannelEnable' = mIsMsgChannelEnable \cup {a}
      /\ lost' = lost \ {a}
  BY DEF joinSucceeds
<1>2. UNCHANGED <<mConnectState, mClientListener, created, opened, uid, finishing,
           destroyed, mRtmChannel, thread, crashed, loggingIn, account, exists, changes,
           tried, failed, refused, stacked>>
  BY DEF joinSucceeds
<1>3. TypeInvariant'
  <2>1. joins' \in [Activities -> Nat]
    <3>1. joins \in [Activities -> Nat] /\ joins[a] \in Nat
      BY DEF TypeInvariant
    <3>2. joins[a] - 1 \in Nat
      BY <1>1, <3>1
    <3>3. QED
      BY <1>1, <3>1, <3>2
  <2>2. QED
    BY <1>1, <1>2, <2>1 DEF TypeInvariant
<1>4. Numbered'
  <2>1. a \in 1..created
    BY <1>1, Ranges DEF Numbered
  <2>2. \A b \in Activities : joins'[b] > 0 => joins[b] > 0
    BY <1>1 DEF TypeInvariant
  <2>3. QED
    BY <1>1, <1>2, <2>1, <2>2 DEF Numbered
<1>5. Paths'
  BY <1>1, <1>2 DEF Paths, Entering, OnTop, Idle, None
<1>6. Channels'
  BY <1>1, <1>2 DEF Channels, Held, Threads, Idle
<1>7. Listens'
  BY <1>1, <1>2 DEF Listens, ToListen, Undisturbed, Entering, None
<1>8. NewLogin'
  BY <1>1, <1>2 DEF NewLogin, Current
<1>9. Remembered'
  BY <1>1, <1>2 DEF Remembered, Current, Undisturbed, Entering, Threads, Idle
<1>10. OneAtATime'
  BY <1>1, <1>2 DEF OneAtATime, None, Idle
<1>11. EnabledIsJoined'
  BY <1>1, <1>2 DEF EnabledIsJoined
<1>12. CrashAfterFinish'
  BY <1>1, <1>2 DEF CrashAfterFinish, Idle
<1>13. QED
  BY <1>3, <1>4, <1>5, <1>6, <1>7, <1>8, <1>9, <1>10, <1>11, <1>12

LEMMA joinFailsKeeps ==
  ASSUME IInv, NEW a \in Activities, joinFails(a)
  PROVE  IInv'
<1> USE DEF IInv, manager, activity, flags, network, channels, history
<1>1. /\ joins[a] > 0
      /\ joins' = [joins EXCEPT ![a] = @ - 1]
      /\ mIsMsgChannelEnable' = mIsMsgChannelEnable \ {a}
      /\ failed' = failed \cup {a}
  BY DEF joinFails
<1>2. UNCHANGED <<mConnectState, mClientListener, created, opened, uid, finishing,
           destroyed, mRtmChannel, thread, crashed, loggingIn, account, joined, exists,
           changes, tried, lost, refused, stacked>>
  BY DEF joinFails
<1>3. TypeInvariant'
  <2>1. joins' \in [Activities -> Nat]
    <3>1. joins \in [Activities -> Nat] /\ joins[a] \in Nat
      BY DEF TypeInvariant
    <3>2. joins[a] - 1 \in Nat
      BY <1>1, <3>1
    <3>3. QED
      BY <1>1, <3>1, <3>2
  <2>2. QED
    BY <1>1, <1>2, <2>1 DEF TypeInvariant
<1>4. Numbered'
  BY <1>1, <1>2 DEF Numbered, None, Idle
<1>5. Paths'
  BY <1>1, <1>2 DEF Paths, Entering, OnTop, Idle, None
<1>6. Channels'
  BY <1>1, <1>2 DEF Channels, Held, Threads, Idle
<1>7. Listens'
  BY <1>1, <1>2 DEF Listens, ToListen, Undisturbed, Entering, None
<1>8. NewLogin'
  BY <1>1, <1>2 DEF NewLogin, Current
<1>9. Remembered'
  BY <1>1, <1>2 DEF Remembered, Current, Undisturbed, Entering, Threads, Idle
<1>10. OneAtATime'
  BY <1>1, <1>2 DEF OneAtATime, None, Idle
<1>11. EnabledIsJoined'
  BY <1>1, <1>2 DEF EnabledIsJoined
<1>12. CrashAfterFinish'
  BY <1>1, <1>2 DEF CrashAfterFinish, Idle
<1>13. QED
  BY <1>3, <1>4, <1>5, <1>6, <1>7, <1>8, <1>9, <1>10, <1>11, <1>12

-----------------------------------------------------------------------------
LEMMA StutterKeeps ==
  ASSUME IInv, UNCHANGED vars
  PROVE  IInv'
<1> USE DEF vars, manager, activity, flags, network, channels, history
<1>1. TypeInvariant' /\ Numbered'
  BY DEF IInv, TypeInvariant, Numbered
<1>2. Paths'
  BY DEF IInv, Paths, OnTop
<1>3. Channels' /\ Listens' /\ NewLogin'
  BY DEF IInv, Channels, Held, Listens, ToListen, Undisturbed, NewLogin, Current
<1>4. Remembered' /\ OneAtATime'
  BY DEF IInv, Remembered, Current, Undisturbed, OneAtATime
<1>5. EnabledIsJoined' /\ CrashAfterFinish'
  BY DEF IInv, EnabledIsJoined, CrashAfterFinish
<1>6. QED
  BY <1>1, <1>2, <1>3, <1>4, <1>5 DEF IInv

\* The invariant holds in every state of the session.
THEOREM Session == Spec => []IInv
<1>1. IInv /\ Next => IInv'
  <2> SUFFICES ASSUME IInv, Next
               PROVE  IInv'
    OBVIOUS
  <2>1. CASE \E u \in Uids : initRtmClient(u)
    BY <2>1, initRtmClientKeeps
  <2>2. CASE \E a \in Activities : doSendMsg(a) \/ finish(a) \/ destroyBySystem(a)
    BY <2>2, doSendMsgKeeps, finishKeeps, destroyBySystemKeeps
  <2>3. CASE \E t \in Threads : Either(t)
    BY <2>3, createChannelKeeps, overflowKeeps, setListenerKeeps, replayStateKeeps,
       joinKeeps DEF Either
  <2>4. CASE UiNext
    BY <2>3, <2>4, releaseChannelKeeps, clearListenerKeeps DEF UiNext, Threads
  <2>5. CASE SdkNext
    BY <2>3, <2>5, lookForListenerKeeps, callListenerKeeps DEF SdkNext, Threads
  <2>6. CASE \E a \in Activities : joinSucceeds(a) \/ joinFails(a)
    BY <2>6, joinSucceedsKeeps, joinFailsKeeps
  <2>7. QED
    BY <2>1, <2>2, <2>4, <2>5, <2>6, storeStateKeeps DEF Next
<1>2. IInv /\ [Next]_vars => IInv'
  BY <1>1, StutterKeeps
<1>3. QED
  BY <1>2, InitInvariant, PTL DEF Spec

\* Every variable has the values the code can give it, whatever the two threads do.
THEOREM SessionTypes == Spec => []TypeInvariant
<1>1. IInv => TypeInvariant
  BY DEF IInv
<1>2. QED
  BY <1>1, Session, PTL

\* The order of writes and reads in setRtmClientListener and in
\* onConnectionStateChanged loses no "connected" for the activity last created,
\* whatever is stacked below it or was destroyed by the system.
THEOREM ConnectIsNotLost == Spec => []NoLostConnect
<1>1. IInv => NoLostConnect
  <2>1. Quiet => /\ thread["sdk"].pc = "idle"
                 /\ \A t \in Threads : thread[t].pc = "idle"
    BY DEF Quiet, Idle, Threads
  <2>2. QED
    BY <2>1 DEF IInv, Remembered, NoLostConnect, Entering
<1>2. QED
  BY <1>1, Session, PTL

\* The flag of the message service is true, although both threads may join.
THEOREM FlagIsTrue == Spec => []EnabledIsJoined
<1>1. IInv => EnabledIsJoined
  BY DEF IInv
<1>2. QED
  BY <1>1, Session, PTL

\* The null check that is not atomic ends the process only after finish() of the
\* activity last created and before the next one listens; the other check of a field
\* that both threads write never does; and only two activities at once make
\* createChannel call itself without end.
THEOREM SessionCrash == Spec => []CrashAfterFinish
<1>1. IInv => CrashAfterFinish
  BY DEF IInv
<1>2. QED
  BY <1>1, Session, PTL
=============================================================================
