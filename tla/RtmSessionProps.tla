-------------------------- MODULE RtmSessionProps --------------------------
(***************************************************************************)
(* The properties of the RTM session.                                      *)
(***************************************************************************)
EXTENDS RtmSession

States == {"none", "connecting", "connected", "disconnected", "reconnecting", "aborted"}
Entering == {"create", "again", "listen", "replay", "join"}
Steps == [pc : Entering \cup {"idle", "release", "clear", "look", "call"},
          at : {None} \cup Activities]

\* Every variable has the values the code can give it.
TypeInvariant ==
  /\ mConnectState \in States
  /\ mClientListener \in {None} \cup Activities
  /\ created \in 0..MaxActivities
  /\ uid \in [Activities -> {None} \cup Uids]
  /\ opened \subseteq Activities /\ finishing \subseteq Activities
  /\ destroyed \subseteq Activities
  /\ mRtmChannel \subseteq Activities /\ mIsMsgChannelEnable \subseteq Activities
  /\ thread \in [Threads -> Steps]
  /\ crashed \in {"no", "no listener", "no channel", "no end of calls"}
  /\ loggingIn \in BOOLEAN
  /\ account \in {None} \cup Uids
  /\ joins \in [Activities -> Nat]
  /\ joined \subseteq Activities
  /\ exists \in {None} \cup Activities
  /\ changes \in Nat
  /\ tried \subseteq Activities /\ failed \subseteq Activities
  /\ lost \subseteq Activities /\ refused \subseteq Activities
  /\ stacked \in BOOLEAN

Quiet == thread["ui"] = Idle /\ thread["sdk"] = Idle

\* An activity that nobody else's refused channel can disturb: an activity that was
\* refused makes itself the listener again each time it asks for the channel.
Undisturbed(a) == refused \subseteq {a}

\* No "connected" is lost between the two threads: setRtmClientListener writes
\* the listener before it reads the state, onConnectionStateChanged the state
\* before it reads the listener.  When both are through, the activity last created,
\* if it is on the screen, is in the channel or has tried to join it, whatever is
\* stacked below it or was destroyed by the system.  (One that comes back to the
\* screen because the one above it was closed has no listener any more: finish()
\* sets it to null, whosever it is.)
NoLostConnect ==
  Quiet /\ mConnectState = "connected" /\ crashed = "no"
    => \A a \in Activities : Current(a) /\ Undisturbed(a) => a \in joined \cup tried

\* The toast "Message service OK" and the flag that goes with it are true: an
\* activity that has it is in the channel, is leaving, or has lost the session it
\* joined in, although both threads may join at once and the second join then fails.
EnabledIsJoined == mIsMsgChannelEnable \subseteq joined \cup finishing \cup lost

\* How the process ends.  mClientListener is tested and then read again on the
\* SDK's thread: the NullPointerException this allows comes only after finish() of
\* the activity last created, or while the next one is in onCreate and is not the
\* listener yet; never later in the next one, although the listener of one activity
\* may be tested and that of another called.  mRtmChannel too is tested and read
\* again, and is written by both threads, but it is there when it is joined.  And
\* createChannel calls itself without end only if two activities were open at once.
CrashAfterFinish ==
  /\ crashed = "no listener" =>
       \/ created \in finishing
       \/ thread["ui"].pc \in {"create", "listen"} /\ thread["ui"].at = created
  /\ crashed # "no channel"
  /\ crashed = "no end of calls" => stacked

\* The activity last created, if it stays on the screen of a connected client, gets
\* into the channel, unless a join fails or the process ends.
ConnectedJoins ==
  \A a \in Activities :
    (Current(a) /\ Undisturbed(a) /\ mConnectState = "connected")
      ~> \/ a \in joined \cup failed
         \/ ~Current(a) \/ ~Undisturbed(a)
         \/ mConnectState # "connected" \/ crashed # "no"
-----------------------------------------------------------------------------
(* The inductive invariant behind them.                                    *)

\* Nothing speaks of an activity to come.
Numbered ==
  /\ {mClientListener, exists, thread["ui"].at, thread["sdk"].at} \subseteq 0..created
  /\ opened \cup finishing \cup mRtmChannel \cup mIsMsgChannelEnable \cup refused
       \cup lost \subseteq 1..created
  /\ \A a \in Activities : joins[a] > 0 => a <= created
  /\ opened \cap finishing = {}
  /\ created # 0 => created \in opened \cup finishing

\* Where the two threads are, and with which activity: the UI thread enters the one
\* on top and leaves one that was.
Paths ==
  /\ thread["ui"].pc \in Entering \cup {"idle", "release", "clear"}
  /\ thread["sdk"].pc \in Entering \cup {"idle", "look", "call"}
  /\ thread["ui"].pc = "idle" => thread["ui"].at = None
  /\ thread["ui"].pc \in Entering => OnTop(thread["ui"].at)
  /\ thread["ui"].pc \in {"release", "clear"} =>
       thread["ui"].at \in finishing /\ \A b \in opened : b < thread["ui"].at
  /\ thread["sdk"].pc \in Entering <=> thread["sdk"].at # None
  /\ thread["sdk"].pc \in Entering \ {"join"} => thread["sdk"].at \in refused
  /\ thread["sdk"].pc = "call" => created # 0

Held == opened \cup {a \in Activities : thread["ui"] = [pc |-> "release", at |-> a]}

\* Which activity has the one channel, and what the others were told.
Channels ==
  /\ \A a \in mRtmChannel \cap Held : exists = a
  /\ exists \in opened => exists \in mRtmChannel
  /\ \A b \in refused \cap opened : exists # None /\ (exists < b \/ exists \notin Held)
  /\ \A t \in Threads :
       /\ thread[t].pc \in {"create", "again"} => thread[t].at \notin mRtmChannel
       /\ thread[t].pc = "listen" => thread[t].at \in mRtmChannel \cup refused
       /\ thread[t].pc = "join" => thread[t].at \in mRtmChannel

\* The first half of setRtmClientListener is still to come.
ToListen(a) == thread["ui"].pc \in {"create", "listen"} /\ thread["ui"].at = a

\* Who may be the listener, and that the activity last created is.
Listens ==
  /\ mClientListener # None => mClientListener \in mRtmChannel \cup refused
  /\ created # 0 /\ created \notin finishing /\ ~ToListen(created) =>
       /\ mClientListener # None
       /\ Undisturbed(created) => mClientListener = created

\* After a lost session only a new activity logs in.
NewLogin == \A a \in Activities : Current(a) /\ a \in lost =>
              mConnectState = "aborted" /\ ~loggingIn

\* What is still to be done for the activity last created is in the program counter
\* of one of the threads.
Remembered ==
  mConnectState = "connected" /\ crashed = "no" =>
    \A a \in Activities :
      Current(a) /\ Undisturbed(a) =>
        \/ a \in joined \cup tried
        \/ thread["sdk"].pc \in {"look", "call"}
        \/ \E t \in Threads : thread[t].pc \in Entering /\ thread[t].at = a

\* With one activity at a time createChannel gives each its channel.
OneAtATime ==
  ~stacked =>
    /\ refused = {}
    /\ opened \subseteq {created}
    /\ exists \in {None, created}
    /\ thread["ui"].pc = "create" => exists = None
    /\ thread["ui"].pc = "release" => thread["ui"].at = created
    /\ created \in opened /\ thread["ui"].pc # "create" => created \in mRtmChannel
    /\ created \in finishing =>
         IF thread["ui"].pc = "release" THEN created \in mRtmChannel ELSE exists = None

IInv ==
  /\ TypeInvariant
  /\ Numbered
  /\ Paths
  /\ Channels
  /\ Listens
  /\ NewLogin
  /\ Remembered
  /\ OneAtATime
  /\ EnabledIsJoined
  /\ CrashAfterFinish
-----------------------------------------------------------------------------
(* What the program's texts say, and the code does not keep.               *)

\* RoleSelectActivity "can switch the roles of host and audience": the room knows
\* an activity under the number it shows its user.
RoomKnowsRole == \A a \in joined : account = uid[a]
=============================================================================
