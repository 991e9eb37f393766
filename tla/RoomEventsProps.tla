-------------------------- MODULE RoomEventsProps --------------------------
(***************************************************************************)
(* The properties of what a viewer sees of the room.                       *)
(***************************************************************************)
EXTENDS RoomEvents

\* Every variable has the values the code can give it; the window is bounded.
TypeInvariant ==
  /\ opened \in 0..MaxActivities
  /\ live \subseteq 1..opened
  /\ strayed \subseteq Activities
  /\ surface \in [Activities -> BOOLEAN]
  /\ notice \in [Activities -> BOOLEAN]
  /\ noticeText \in [Activities -> {"living_anchor_offline", "living_no_surfaceview"}]
  /\ lines \in [Activities -> Seq(Line)]
  /\ \A a \in Activities : Len(lines[a]) <= MaxMsgCount
  /\ looper \in Seq(Runnable)
  /\ mEventCallback \in {0} \cup live
  /\ session \in 0..MaxActivities
  /\ sdk \in {Idle} \cup [at : {"checked"}, event : Event]
                    \cup [at : {"posting"}, event : Event, to : Activities]
  /\ crashed \in BOOLEAN
  /\ decoded \subseteq present
  /\ present \subseteq Members
  /\ events \in Seq(Event)
  /\ reports \in 0..MaxReports
  /\ texts \in 0..MaxTexts

\* Every report has reached the screen.
CaughtUp == events = << >> /\ sdk = Idle /\ looper = << >>

\* The activity on the screen heard of its own session only.
Sound == live # {} /\ Top \notin strayed

\* "Switching display screen according to the status of the host": once all reports
\* arrived, the surface is shown just when the anchor's picture is there, whatever
\* order joins, frames and leaves of several members came in.
SurfaceFollowsAnchor ==
  CaughtUp /\ Sound => (surface[Top] <=> ANCHOR_UID \in decoded)

\* The surface or the notice, never both or neither; and the notice, once all
\* reports arrived, says "no screen yet" just while the anchor is in the room
\* (the texts of onUserJoined and onUserOffline outlive the frames in between).
NoticeIsTrue ==
  /\ \A a \in Activities : notice[a] = ~surface[a]
  /\ CaughtUp /\ Sound /\ notice[Top] =>
       (noticeText[Top] = "living_no_surfaceview" <=> ANCHOR_UID \in present)

\* The window does not lie about who is there: once all reports arrived, the last
\* line about a member's coming and going says what is the case, although chat lines
\* written at once and lines that wait for the looper push each other out.
PresenceLinesAreTrue ==
  CaughtUp /\ Sound =>
    LET about(i, u) == "who" \in DOMAIN lines[Top][i] /\ lines[Top][i].who = u
    IN  \A u \in Members, i \in DOMAIN lines[Top] :
          about(i, u) /\ (\A j \in i + 1..Len(lines[Top]) : ~about(j, u))
          => (lines[Top][i].says = "online" <=> u \in present)

\* mEventCallback is tested and then read again, on a thread that finish() does not wait
\* for: the NullPointerException this allows can only meet a user who has closed the
\* room, never one who looks at it, even at the next room opened in between.
CrashOffScreen == crashed => live = {}

\* A frame of the anchor ends on the screen, unless he or the viewer leaves.
FrameIsShown ==
  \A a \in Activities :
    (a \in live /\ session = a /\ ANCHOR_UID \in decoded) ~>
      (surface[a] \/ a \notin live \/ ANCHOR_UID \notin decoded \/ crashed)
=============================================================================
