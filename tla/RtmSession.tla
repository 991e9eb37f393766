----------------------------- MODULE RtmSession -----------------------------
(***************************************************************************)
(* How a live activity gets into the RTM channel: RtmClientManager (the    *)
(* connection state and the one listener it keeps), RtmEnventCallback      *)
(* (which passes "connected" on) and the part of BaseLiveActivity that     *)
(* logs in, creates and joins the channel, and leaves in finish().         *)
(*                                                                         *)
(* Activities stack up when a room is tapped twice, and the system may     *)
(* destroy one, without finish(), and create it anew.  All of them share   *)
(* the one client, which gives out one channel of a name at a time.        *)
(*                                                                         *)
(* Two threads run this code without a lock: the UI thread, and the SDK's, *)
(* which reports connection states and the ends of joins.  Each is         *)
(* modelled with a program counter that stops wherever the other thread    *)
(* can get between two accesses to what they share.  Accesses take effect  *)
(* in program order: the SDK's side logs, which takes a system call,       *)
(* between its write and its read.                                         *)
(***************************************************************************)
EXTENDS Naturals, FiniteSets

CONSTANTS
  MaxActivities,   \* bound: activities created
  MaxOpen,         \* bound: activities on the stack at once
  MaxChanges,      \* bound: changes of the connection state
  Uids,            \* what getRtcUid() can be: ANCHOR_UID or a viewer's number
  ANCHOR_UID

ASSUME SessionAssumption ==
  MaxActivities \in Nat /\ MaxOpen \in Nat /\ MaxChanges \in Nat

None == 0                      \* null, where an activity could be
Activities == 1..MaxActivities

VARIABLES
  \* RtmClientManager
  mConnectState,        \* "none" before the first report
  mClientListener,      \* the activity behind the RtmEnventCallback, or None
  \* the activities
  created,              \* how many there have been
  opened,               \* those on the stack, numbered from the bottom up
  uid,                  \* getRtcUid() of each, None before it is created
  finishing,            \* isFinishing()
  destroyed,            \* those the system destroyed: finish() was not called
  mRtmChannel,          \* those where it is not null
  mIsMsgChannelEnable,  \* those where it is true
  \* the threads
  thread,               \* what each does next, and for which activity
  crashed,              \* the exception nobody caught, or "no"
  \* the SDK
  loggingIn,            \* a login is under way
  account,              \* the uid of the login
  joins,                \* joins of each channel that have not ended
  joined,               \* the activities whose channel is joined
  exists,               \* whose channel it has given out and not taken back, or None
  changes,              \* connection states reported, for the bound
  \* history, read by no action
  tried,                \* activities that joined since the last "connected"
  failed,               \* activities with a join that failed since then
  lost,                 \* those whose session was aborted after they joined
  refused,              \* those to whom createChannel returned null
  stacked               \* an activity was created while another one was open

manager  == <<mConnectState, mClientListener>>
activity == <<created, opened, uid, finishing, destroyed>>
flags    == <<mRtmChannel, mIsMsgChannelEnable>>
network  == <<loggingIn, account, changes>>
channels == <<joins, joined, exists>>
history  == <<tried, failed, lost, refused, stacked>>
vars == <<manager, activity, flags, thread, crashed, network, channels, history>>

Threads == {"ui", "sdk"}
Idle == [pc |-> "idle", at |-> None]
Goes(t, pc, a) == thread' = [thread EXCEPT ![t] = [pc |-> pc, at |-> a]]
Stops(t)       == thread' = [thread EXCEPT ![t] = Idle]
At(t, pc)      == crashed = "no" /\ thread[t].pc = pc

Init ==
  /\ mConnectState = "none" /\ mClientListener = None
  /\ created = 0
  /\ uid = [a \in Activities |-> None]
  /\ opened = {} /\ finishing = {} /\ destroyed = {}
  /\ mRtmChannel = {} /\ mIsMsgChannelEnable = {}
  /\ thread = [t \in Threads |-> Idle]
  /\ crashed = "no"
  /\ loggingIn = FALSE /\ account = None
  /\ joins = [a \in Activities |-> 0]
  /\ joined = {} /\ exists = None
  /\ changes = 0
  /\ tried = {} /\ failed = {} /\ lost = {} /\ refused = {} /\ stacked = FALSE

\* The one the user sees.
OnTop(a) == a \in opened /\ \A b \in opened : b <= a

\* The activity last created, while it is on the screen.
Current(a) == a = created /\ a \in opened \ destroyed

\* Mutant: one flag for the process.
onRtmConnectedOnce(a, retry) ==
  CASE a \in finishing -> Idle
    [] a \notin finishing \cup mRtmChannel -> [pc |-> retry, at |-> a]
    [] a \in mRtmChannel \ finishing ->
         IF mIsMsgChannelEnable # {} THEN Idle ELSE [pc |-> "join", at |-> a]

\* onRtmConnected up to join(): what the thread reads decides whether it gives
\* up, tries to create the channel again, or joins.
onRtmConnected(a, retry) ==
  CASE a \in finishing -> Idle
    [] a \notin finishing \cup mRtmChannel -> [pc |-> retry, at |-> a]
    [] a \in mRtmChannel \ finishing ->
         IF a \in mIsMsgChannelEnable THEN Idle ELSE [pc |-> "join", at |-> a]
-----------------------------------------------------------------------------
(* checkChannelEnable and join, on either thread.                          *)

\* createChannel gives null while the channel of another call exists, and the field
\* is written whatever it gives.  onRtmConnected asks again as long as it gets null
\* and the client is connected, each time one call deeper ("again").
createChannel(t) ==
  LET a == thread[t].at IN
  /\ At(t, "create") \/ At(t, "again")
  /\ \/ /\ exists = None
        /\ exists' = a
        /\ mRtmChannel' = mRtmChannel \cup {a}
        /\ UNCHANGED refused
     \/ /\ exists # None
        /\ refused' = refused \cup {a}
        /\ mRtmChannel' = mRtmChannel \ {a}
        /\ UNCHANGED exists
  /\ Goes(t, "listen", a)
  /\ UNCHANGED <<manager, activity, mIsMsgChannelEnable, crashed, network, joins, joined,
                 tried, failed, lost, stacked>>

\* A stack is finite.
overflow(t) ==
  /\ At(t, "again")
  /\ exists # None
  /\ crashed' = "no end of calls"
  /\ UNCHANGED <<manager, activity, flags, thread, network, channels, history>>

\* The first half of setRtmClientListener.
setListener(t) ==
  /\ At(t, "listen")
  /\ mClientListener' = thread[t].at
  /\ Goes(t, "replay", thread[t].at)
  /\ UNCHANGED <<mConnectState, activity, flags, crashed, network, channels, history>>

\* Mutant: the new listener is not told the state.
noReplay(t) ==
  /\ At(t, "replay")
  /\ Stops(t)
  /\ UNCHANGED <<manager, activity, flags, crashed, network, channels, history>>

\* The second half: the new listener is told the state.
replayState(t) ==
  /\ At(t, "replay")
  /\ thread' = [thread EXCEPT ![t] = IF mConnectState = "connected"
                                     THEN onRtmConnected(@.at, "again") ELSE Idle]
  /\ UNCHANGED <<manager, activity, flags, crashed, network, channels, history>>

\* The field is read again.
join(t) ==
  LET a == thread[t].at IN
  /\ At(t, "join")
  /\ IF a \in mRtmChannel
     THEN /\ joins' = [joins EXCEPT ![a] = @ + 1]
          /\ tried' = tried \cup {a}
          /\ UNCHANGED crashed
     ELSE crashed' = "no channel" /\ UNCHANGED <<joins, tried>>
  /\ Stops(t)
  /\ UNCHANGED <<manager, activity, flags, network, joined, exists, failed, lost, refused,
                 stacked>>
-----------------------------------------------------------------------------
(* The UI thread.                                                          *)

\* onCreate up to the login, which fails unless the client is logged out.  The
\* activity is a further one on the stack, in the role of those below, or takes
\* the place of the one on top, which the system destroyed.
initRtmClient(u) ==
  /\ At("ui", "idle")
  /\ created < MaxActivities
  /\ \A a \in opened : OnTop(a) => (u = ANCHOR_UID <=> uid[a] = ANCHOR_UID)
  /\ \/ /\ \A a \in destroyed : ~OnTop(a)
        /\ Cardinality(opened) < MaxOpen
        /\ opened' = opened \cup {created + 1}
     \/ \E a \in destroyed :
          OnTop(a) /\ opened' = (opened \ {a}) \cup {created + 1}
  /\ created' = created + 1
  /\ uid' = [uid EXCEPT ![created + 1] = u]
  /\ stacked' = (stacked \/ opened # {})
  /\ IF ~loggingIn /\ mConnectState \in {"none", "disconnected", "aborted"}
     THEN loggingIn' = TRUE /\ account' = u
     ELSE UNCHANGED <<loggingIn, account>>
  /\ Goes("ui", "create", created + 1)
  /\ UNCHANGED <<manager, finishing, destroyed, flags, crashed, changes, channels, tried,
                 failed, lost, refused>>

\* doSendMsg of an activity without a channel: it tries to create it.
doSendMsg(a) ==
  /\ At("ui", "idle")
  /\ OnTop(a) /\ a \notin destroyed \cup mRtmChannel
  /\ Goes("ui", "create", a)
  /\ UNCHANGED <<manager, activity, flags, crashed, network, channels, history>>

\* Mutant: finish() lets go of the manager, but super.finish() is not called.
finishStays(a) ==
  /\ At("ui", "idle")
  /\ OnTop(a) /\ a \notin destroyed
  /\ Goes("ui", "release", a)
  /\ UNCHANGED <<manager, activity, flags, crashed, network, channels, history>>

\* finish(): super.finish(), then the channel, then the listener.
finish(a) ==
  /\ At("ui", "idle")
  /\ OnTop(a) /\ a \notin destroyed
  /\ opened' = opened \ {a}
  /\ finishing' = finishing \cup {a}
  /\ Goes("ui", "release", a)
  /\ UNCHANGED <<manager, created, uid, destroyed, flags, crashed, network, channels,
                 history>>

releaseChannel ==
  LET a == thread["ui"].at IN
  /\ At("ui", "release")
  /\ IF a \in mRtmChannel
     THEN exists' = None /\ joined' = joined \ {a}
     ELSE UNCHANGED <<exists, joined>>
  /\ Goes("ui", "clear", a)
  /\ UNCHANGED <<manager, activity, flags, crashed, network, joins, history>>

\* Whoever the listener is.
clearListener ==
  /\ At("ui", "clear")
  /\ mClientListener' = None
  /\ Stops("ui")
  /\ UNCHANGED <<mConnectState, activity, flags, crashed, network, channels, history>>

\* The system destroys an activity, on the screen or below: no finish(), so the
\* channel and the listener stay.
destroyBySystem(a) ==
  /\ At("ui", "idle")
  /\ a \in opened \ destroyed
  /\ destroyed' = destroyed \cup {a}
  /\ UNCHANGED <<manager, created, opened, uid, finishing, flags, thread, crashed,
                 network, channels, history>>
-----------------------------------------------------------------------------
(* The SDK's thread: onConnectionStateChanged, and the ends of joins.      *)

\* The states the SDK can report after the last one.
Successors ==
  CASE mConnectState \in {"none", "disconnected", "aborted"} ->
         IF loggingIn THEN {"connecting"} ELSE {}
    [] mConnectState = "connecting"   -> {"connected", "disconnected"}
    [] mConnectState = "connected"    -> {"reconnecting", "aborted"}
    [] mConnectState = "reconnecting" -> {"connected", "aborted"}

\* A lost session takes the client out of its channels.
storeState(state) ==
  /\ At("sdk", "idle")
  /\ changes < MaxChanges
  /\ state \in Successors
  /\ mConnectState' = state
  /\ loggingIn' = (loggingIn /\ state = "connecting")
  /\ joined' = IF state = "aborted" THEN {} ELSE joined
  /\ lost'   = IF state = "aborted" THEN lost \cup mIsMsgChannelEnable ELSE lost
  /\ tried'  = IF state = "connected" THEN {} ELSE tried
  /\ failed' = IF state = "connected" THEN {} ELSE failed
  /\ changes' = changes + 1
  /\ Goes("sdk", "look", None)
  /\ UNCHANGED <<mClientListener, activity, flags, crashed, account, joins, exists,
                 refused, stacked>>

\* The null check.
lookForListener ==
  /\ At("sdk", "look")
  /\ IF mClientListener = None THEN Stops("sdk") ELSE Goes("sdk", "call", None)
  /\ UNCHANGED <<manager, activity, flags, crashed, network, channels, history>>

\* The call reads the field a second time.
callListener ==
  /\ At("sdk", "call")
  /\ IF mClientListener = None
     THEN crashed' = "no listener" /\ Stops("sdk")
     ELSE /\ thread' = [thread EXCEPT !["sdk"] =
                          IF mConnectState = "connected"
                          THEN onRtmConnected(mClientListener, "create") ELSE Idle]
          /\ UNCHANGED crashed
  /\ UNCHANGED <<manager, activity, flags, network, channels, history>>

\* Mutant: a failure is reported for a join that ended.
joinFailsUnasked(a) ==
  /\ At("sdk", "idle")
  /\ joins' = [joins EXCEPT ![a] = @ - 1]
  /\ mIsMsgChannelEnable' = mIsMsgChannelEnable \ {a}
  /\ failed' = failed \cup {a}
  /\ UNCHANGED <<manager, activity, mRtmChannel, thread, crashed, network, joined, exists,
                 tried, lost, refused, stacked>>

\* A join succeeds once for a channel that is not released.
joinSucceeds(a) ==
  /\ At("sdk", "idle")
  /\ joins[a] > 0
  /\ a = exists /\ a \notin joined
  /\ mConnectState = "connected"
  /\ joins' = [joins EXCEPT ![a] = @ - 1]
  /\ joined' = joined \cup {a}
  /\ mIsMsgChannelEnable' = mIsMsgChannelEnable \cup {a}
  /\ lost' = lost \ {a}
  /\ UNCHANGED <<manager, activity, mRtmChannel, thread, crashed, network, exists, tried,
                 failed, refused, stacked>>

\* Mutant: a failure leaves the flag, which was set before the answer came.
joinFailsEnabled(a) ==
  /\ At("sdk", "idle")
  /\ joins[a] > 0
  /\ joins' = [joins EXCEPT ![a] = @ - 1]
  /\ mIsMsgChannelEnable' = mIsMsgChannelEnable \cup {a}
  /\ failed' = failed \cup {a}
  /\ UNCHANGED <<manager, activity, mRtmChannel, thread, crashed, network, joined, exists,
                 tried, lost, refused, stacked>>

joinFails(a) ==
  /\ At("sdk", "idle")
  /\ joins[a] > 0
  /\ joins' = [joins EXCEPT ![a] = @ - 1]
  /\ mIsMsgChannelEnable' = mIsMsgChannelEnable \ {a}
  /\ failed' = failed \cup {a}
  /\ UNCHANGED <<manager, activity, mRtmChannel, thread, crashed, network, joined, exists,
                 tried, lost, refused, stacked>>
-----------------------------------------------------------------------------
Either(t) ==
  createChannel(t) \/ overflow(t) \/ setListener(t) \/ replayState(t) \/ join(t)

UiNext == Either("ui") \/ releaseChannel \/ clearListener

SdkNext == lookForListener \/ callListener \/ Either("sdk")

Next ==
  \/ \E u \in Uids : initRtmClient(u)
  \/ \E a \in Activities : doSendMsg(a) \/ finish(a) \/ destroyBySystem(a)
  \/ UiNext
  \/ \E s \in {"connecting", "connected", "disconnected", "reconnecting", "aborted"} :
       storeState(s)
  \/ SdkNext
  \/ \E a \in Activities : joinSucceeds(a) \/ joinFails(a)

Spec == Init /\ [][Next]_vars

\* Both threads go on, not for ever one call deeper, and the SDK ends every join.
\* Nothing is assumed of the user, of the system or of the connection.
FairSpec == /\ Spec
            /\ WF_vars(UiNext)
            /\ WF_vars(SdkNext)
            /\ \A t \in Threads : SF_vars(overflow(t))
            /\ \A a \in Activities : WF_vars(joinSucceeds(a) \/ joinFails(a))
=============================================================================
