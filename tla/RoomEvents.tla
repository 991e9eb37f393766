----------------------------- MODULE RoomEvents -----------------------------
(***************************************************************************)
(* What a viewer's activity shows of the room it is in: RtcEngineManager   *)
(* hands the events of the RTC SDK to the one activity it knows, and       *)
(* BaseLiveActivity and ViewerLiveActivity post what they make of them to  *)
(* the UI thread.  Chat lines, received and typed, share the window.       *)
(*                                                                         *)
(* Two threads: the SDK's, which reads mEventCallback twice for an event,  *)
(* and the UI thread, whose looper runs the Runnables in order.  The RTC   *)
(* service is external: it reports who is in the channel, in order, and    *)
(* what it reported before the device left may still come afterwards.      *)
(***************************************************************************)
EXTENDS Naturals, FiniteSets, Sequences, ChatWindow

CONSTANTS
  ANCHOR_UID,      \* the anchor's number
  Users,           \* the numbers of other viewers
  MaxActivities,   \* bound: activities created
  MaxOpen,         \* bound: activities on the stack at once.  The code sets
                   \* none; 1 is a user who does not tap a room twice
  MaxReports,      \* bound: events reported
  MaxTexts,        \* bound: chat lines
  MaxMsgCount      \* MAX_MSG_COUNT, 20 in the code

ASSUME RoomAssumption ==
  /\ ANCHOR_UID \notin Users
  /\ MaxActivities \in Nat /\ MaxOpen \in Nat
  /\ MaxReports \in Nat /\ MaxTexts \in Nat
  /\ MaxMsgCount \in Nat \ {0}

VARIABLES
  \* the activities
  opened,          \* how many were created
  live,            \* those created and not finished
  surface,         \* live_surfaceview is VISIBLE
  notice,          \* tvNoSurfaceNotice is VISIBLE
  noticeText,
  lines,           \* each activity's mMessageList
  looper,          \* Runnables the UI thread has still to run
  \* RtcEngineManager
  mEventCallback,  \* the activity it knows, 0 for null
  sdk,             \* what the SDK's thread is about
  crashed,         \* a NullPointerException ended the process
  \* the service
  session,         \* the activity whose joinChannel put the device in the channel
  present,         \* the members it reported
  decoded,         \* those whose first frame it reported
  events,          \* reported, and not yet taken by the SDK's thread
  \* bounds and history
  reports, texts,
  strayed          \* activities that got an event of another session

views   == <<surface, notice, noticeText, lines>>
service == <<session, present, decoded, events, reports>>
vars == <<opened, live, views, looper, mEventCallback, sdk, crashed, service, texts,
          strayed>>

Activities == 1..MaxActivities
Members    == Users \cup {ANCHOR_UID}
Kinds      == {"joined", "offline", "frame"}
Event      == [kind : Kinds, uid : Members, of : Activities]
Line       == [who : Members, says : {"online", "offline"}] \cup [text : {"sent", "received"}]
Runnable   == [to : Activities, run : {"line"}, line : Line]
              \cup [to : Activities, run : Kinds, uid : Members]
Idle       == [at |-> "idle"]

\* The activity on the screen.
Top == CHOOSE a \in live : \A b \in live : b <= a

Init ==
  /\ opened = 0 /\ live = {}
  /\ surface = [a \in Activities |-> FALSE]
  /\ notice = [a \in Activities |-> TRUE]
  /\ noticeText = [a \in Activities |-> "living_anchor_offline"]
  /\ lines = [a \in Activities |-> << >>]
  /\ looper = << >>
  /\ mEventCallback = 0
  /\ sdk = Idle
  /\ crashed = FALSE
  /\ session = 0 /\ present = {} /\ decoded = {} /\ events = << >>
  /\ reports = 0 /\ texts = 0
  /\ strayed = {}
-----------------------------------------------------------------------------
(* The life of an activity.                                                *)

\* initRtcEngine: the callback, then joinChannel, which is refused while the device
\* is in the channel.  No event of the new session can come in between.
onCreate ==
  /\ opened < MaxActivities
  /\ Cardinality(live) < MaxOpen
  /\ opened' = opened + 1
  /\ live' = live \cup {opened + 1}
  /\ mEventCallback' = opened + 1
  /\ session' = IF session = 0 THEN opened + 1 ELSE session
  /\ UNCHANGED <<views, looper, sdk, present, decoded, events, reports, texts, strayed>>

\* Mutant: the callback is cleared, but not super.finish() called.
finishStays ==
  /\ live # {}
  /\ mEventCallback' = 0
  /\ session' = 0
  /\ present' = {} /\ decoded' = {}
  /\ events' \in {events, << >>}
  /\ UNCHANGED <<opened, live, views, looper, sdk, reports, texts, strayed>>

\* leaveChannel, then setOnRtcEventCallback(null).  Whether what was already
\* reported still comes is up to the SDK.
finish ==
  /\ live # {}
  /\ live' = live \ {Top}
  /\ mEventCallback' = 0
  /\ session' = 0
  /\ present' = {} /\ decoded' = {}
  /\ events' \in {events, << >>}
  /\ UNCHANGED <<opened, views, looper, sdk, reports, texts, strayed>>
-----------------------------------------------------------------------------
(* The service reports.                                                    *)

report(kind, u) ==
  /\ session # 0
  /\ reports < MaxReports
  /\ reports' = reports + 1
  /\ events' = Append(events, [kind |-> kind, uid |-> u, of |-> session])
  /\ UNCHANGED <<opened, live, views, looper, mEventCallback, sdk, session, texts,
                 strayed>>

reportJoined(u) ==
  /\ u \notin present
  /\ present' = present \cup {u}
  /\ UNCHANGED decoded
  /\ report("joined", u)

\* Again after the member's video was off for a while.
reportFrame(u) ==
  /\ u \in present
  /\ decoded' = decoded \cup {u}
  /\ UNCHANGED present
  /\ report("frame", u)

reportOffline(u) ==
  /\ u \in present
  /\ present' = present \ {u}
  /\ decoded' = decoded \ {u}
  /\ report("offline", u)
-----------------------------------------------------------------------------
(* The SDK's thread: mRtcEventHandler.                                     *)

\* The null check.
checkCallback ==
  /\ sdk = Idle
  /\ events # << >>
  /\ events' = Tail(events)
  /\ sdk' = IF mEventCallback # 0 THEN [at |-> "checked", event |-> Head(events)]
                                  ELSE Idle
  /\ UNCHANGED <<opened, live, views, looper, mEventCallback, session, present, decoded,
                 reports, texts, strayed>>

\* Mutant: the text is mixed up.
presenceLineSame(a, e) ==
  [to |-> a, run |-> "line", line |-> [who |-> e.uid, says |-> "online"]]

presenceLine(a, e) ==
  [to |-> a, run |-> "line",
   line |-> [who |-> e.uid, says |-> IF e.kind = "joined" THEN "online" ELSE "offline"]]

screenChange(a, e) == [to |-> a, run |-> e.kind, uid |-> e.uid]

\* Mutant: whoever comes or goes changes the screen.
callAnyUid ==
  /\ sdk.at = "checked"
  /\ mEventCallback # 0
  /\ strayed' = IF sdk.event.of = mEventCallback THEN strayed
                                                 ELSE strayed \cup {mEventCallback}
  /\ IF sdk.event.kind = "frame"
     THEN /\ looper' = Append(looper, screenChange(mEventCallback, sdk.event))
          /\ sdk' = Idle
     ELSE /\ looper' = Append(looper, presenceLine(mEventCallback, sdk.event))
          /\ sdk' = [at |-> "posting", event |-> sdk.event, to |-> mEventCallback]
  /\ UNCHANGED <<opened, live, views, mEventCallback, service, texts>>

\* onUserJoined and onUserOffline post the line; those of the viewer's activity
\* then go on, about the anchor only.  onFirstRemoteVideoDecoded posts one Runnable.
callCallback ==
  /\ sdk.at = "checked"
  /\ mEventCallback # 0
  /\ strayed' = IF sdk.event.of = mEventCallback THEN strayed
                                                 ELSE strayed \cup {mEventCallback}
  /\ IF sdk.event.kind = "frame"
     THEN /\ looper' = Append(looper, screenChange(mEventCallback, sdk.event))
          /\ sdk' = Idle
     ELSE /\ looper' = Append(looper, presenceLine(mEventCallback, sdk.event))
          /\ sdk' = IF sdk.event.uid = ANCHOR_UID
                    THEN [at |-> "posting", event |-> sdk.event, to |-> mEventCallback]
                    ELSE Idle
  /\ UNCHANGED <<opened, live, views, mEventCallback, service, texts>>

\* finish() came between the check and the call.
callNull ==
  /\ sdk.at = "checked"
  /\ mEventCallback = 0
  /\ crashed' = TRUE
  /\ UNCHANGED <<opened, live, views, looper, mEventCallback, sdk, service, texts,
                 strayed>>

postScreenChange ==
  /\ sdk.at = "posting"
  /\ looper' = Append(looper, screenChange(sdk.to, sdk.event))
  /\ sdk' = Idle
  /\ UNCHANGED <<opened, live, views, mEventCallback, service, texts, strayed>>
-----------------------------------------------------------------------------
(* The UI thread and the chat.                                             *)

show(a, line) == lines' = [lines EXCEPT ![a] = AddMessage(@, line, MaxMsgCount)]

runLine(r) ==
  /\ r.run = "line"
  /\ show(r.to, r.line)
  /\ UNCHANGED <<surface, notice, noticeText>>

runJoined(r) ==
  /\ r.run = "joined"
  /\ noticeText' = [noticeText EXCEPT ![r.to] = "living_no_surfaceview"]
  /\ UNCHANGED <<surface, notice, lines>>

runOffline(r) ==
  /\ r.run = "offline"
  /\ surface' = [surface EXCEPT ![r.to] = FALSE]
  /\ notice' = [notice EXCEPT ![r.to] = TRUE]
  /\ noticeText' = [noticeText EXCEPT ![r.to] = "living_anchor_offline"]
  /\ UNCHANGED lines

\* Mutant: the number is not looked at.
runFrameAnyUid(r) ==
  /\ r.run = "frame"
  /\ surface' = [surface EXCEPT ![r.to] = TRUE]
  /\ notice' = [notice EXCEPT ![r.to] = FALSE]
  /\ UNCHANGED <<noticeText, lines>>

\* Mutant: the surface takes the place of the first notice only.
runFrameAtFirst(r) ==
  /\ r.run = "frame"
  /\ LET shown == r.uid = ANCHOR_UID /\ noticeText[r.to] = "living_anchor_offline"
     IN  /\ surface' = [surface EXCEPT ![r.to] = @ \/ shown]
         /\ notice' = [notice EXCEPT ![r.to] = @ /\ ~shown]
  /\ UNCHANGED <<noticeText, lines>>

\* Here the number is looked at only when the Runnable runs.
runFrame(r) ==
  /\ r.run = "frame"
  /\ surface' = [surface EXCEPT ![r.to] = @ \/ r.uid = ANCHOR_UID]
  /\ notice' = [notice EXCEPT ![r.to] = @ /\ r.uid # ANCHOR_UID]
  /\ UNCHANGED <<noticeText, lines>>

\* The views of a finished activity are still there.
runNext ==
  /\ looper # << >>
  /\ looper' = Tail(looper)
  /\ LET r == Head(looper)
     IN  runLine(r) \/ runJoined(r) \/ runOffline(r) \/ runFrame(r)
  /\ UNCHANGED <<opened, live, mEventCallback, sdk, service, texts, strayed>>

\* On the RTM SDK's thread; the line is one of handleMessageReceived.  Who wrote it
\* is left out.
onMessageReceived(a) ==
  /\ a \in live
  /\ texts < MaxTexts
  /\ texts' = texts + 1
  /\ looper' = Append(looper, [to |-> a, run |-> "line", line |-> [text |-> "received"]])
  /\ UNCHANGED <<opened, live, views, mEventCallback, sdk, service, strayed>>

\* A line that is not empty: it is shown whether or not it was sent.
doSendMsg ==
  /\ live # {}
  /\ texts < MaxTexts
  /\ texts' = texts + 1
  /\ show(Top, [text |-> "sent"])
  /\ UNCHANGED <<opened, live, surface, notice, noticeText, looper, mEventCallback, sdk,
                 service, strayed>>
-----------------------------------------------------------------------------
Step ==
  \/ onCreate \/ finish
  \/ \E u \in Members : reportJoined(u) \/ reportFrame(u) \/ reportOffline(u)
  \/ checkCallback \/ callCallback \/ postScreenChange
  \/ runNext \/ doSendMsg
  \/ \E a \in Activities : onMessageReceived(a)

Next == ~crashed /\ (callNull \/ (Step /\ UNCHANGED crashed))

Spec == Init /\ [][Next]_vars

\* The SDK's thread and the looper go on while the process lives.
Threads == checkCallback \/ callCallback \/ postScreenChange
FairSpec == /\ Spec
            /\ WF_vars(~crashed /\ Threads /\ UNCHANGED crashed)
            /\ WF_vars(~crashed /\ runNext /\ UNCHANGED crashed)
=============================================================================
