----------------------------- MODULE ImageSelect -----------------------------
(***************************************************************************)
(* How an anchor chooses the two pictures of a live: LivePrepareActivity    *)
(* and its ImageSelectHelper, which keeps one listener for both.           *)
(*                                                                         *)
(* The chooser is another app's activity: its result comes back whenever   *)
(* the user is done, to whichever instance of the activity the system has  *)
(* by then.  The activity saves nothing for a new instance but what its    *)
(* views save of themselves (the nickname).                                *)
(***************************************************************************)
EXTENDS Naturals, SequencesExt

CONSTANTS
  MaxTaps,        \* bound: taps on the two pictures
  MaxPickers,     \* bound: choosers on the screen at once.  The code sets none; a
                  \* second tap is possible until the first chooser is there
  MaxInstances    \* bound: instances of the activity

ASSUME ImageAssumption == /\ MaxTaps \in Nat /\ MaxPickers \in Nat
                          /\ MaxInstances \in Nat \ {0}

VARIABLES
  \* LivePrepareActivity
  url,                 \* mHeadImgUrl and mCoverImgUrl, 0 for none or ""
  nickname,            \* the text is not empty
  streaming,           \* an AnchorLiveActivity is on top
  \* ImageSelectHelper
  mSelectedListener,   \* the view it belongs to, or "none"
  \* the system
  granted, asking,     \* the permissions; their dialog is on the screen
  pickers,             \* the choosers, the top one last
  covered,             \* they have come on the screen
  instance,            \* the rank of the activity's instance
  \* bounds and history
  taps,
  picked,              \* the picture last picked for each view, whichever instance asked
  lost,                \* the views whose last picture reached no instance but one that
                       \* is gone
  crossed              \* one view was tapped while the other's chooser was open

vars == <<url, nickname, streaming, mSelectedListener, granted, asking, pickers, covered,
          instance, taps, picked, lost, crossed>>

Views    == {"head", "cover"}
Pictures == 1..MaxTaps             \* named by the tap that asked for it
Nothing  == [v \in Views |-> 0]
Picker   == [for : Views, by : 1..MaxInstances, picture : Pictures]

Init ==
  /\ url = Nothing /\ nickname = FALSE /\ streaming = FALSE
  /\ mSelectedListener = "none"
  /\ granted \in BOOLEAN /\ asking = FALSE
  /\ pickers = << >> /\ covered = FALSE
  /\ instance = 1
  /\ taps = 0 /\ picked = Nothing /\ lost = {} /\ crossed = FALSE
-----------------------------------------------------------------------------
\* Nothing covers the activity that would keep a tap from it.
Touchable == ~asking /\ ~streaming /\ ~covered

\* Mutant: the listener is not kept.
listenNever(v) == v \in Views /\ mSelectedListener' = mSelectedListener

\* Mutant: a listener once set is kept.
listenOnce(v) == mSelectedListener' = IF mSelectedListener = "none" THEN v
                                                                   ELSE mSelectedListener
\* startSelectImage.
listen(v) == mSelectedListener' = v

\* preStartImagePick, startImagePick: the permissions are asked for and nothing
\* more; without external storage there is a toast.
doChange(v) ==
  /\ Touchable
  /\ taps < MaxTaps /\ Len(pickers) < MaxPickers
  /\ taps' = taps + 1
  /\ listen(v)
  /\ crossed' = (crossed \/ \E i \in DOMAIN pickers : pickers[i].for # v)
  /\ \/ /\ ~granted
        /\ asking' = TRUE
        /\ UNCHANGED pickers
     \/ /\ granted
        /\ \E mounted \in BOOLEAN :
             pickers' = IF mounted
                        THEN Append(pickers, [for |-> v, by |-> instance,
                                              picture |-> taps + 1])
                        ELSE pickers
        /\ UNCHANGED asking
  /\ UNCHANGED <<url, nickname, streaming, granted, covered, instance, picked, lost>>

\* The activity does not pass the answer on to its helper.
answerPermission ==
  /\ asking
  /\ asking' = FALSE
  /\ granted' \in BOOLEAN
  /\ UNCHANGED <<url, nickname, streaming, mSelectedListener, pickers, covered, instance,
                 taps, picked, lost, crossed>>

choosersCover ==
  /\ pickers # << >> /\ ~covered
  /\ covered' = TRUE
  /\ UNCHANGED <<url, nickname, streaming, mSelectedListener, granted, asking, pickers,
                 instance, taps, picked, lost, crossed>>

\* The results come one by one; behind the last chooser is the activity again.
closeChooser ==
  /\ covered /\ ~streaming
  /\ pickers' = Front(pickers)
  /\ covered' = (pickers' # << >>)

\* onActivityResult, RESULT_OK: the path may come out empty, and compressSourceImage
\* returns the path it was given (the bounds alone give no bitmap to look at).
onImagePicked ==
  /\ closeChooser
  /\ LET top == Last(pickers)
     IN  \E path \in {top.picture, 0} :
           /\ url' = IF mSelectedListener = "none"
                     THEN url
                     ELSE [url EXCEPT ![mSelectedListener] = path]
           /\ picked' = [picked EXCEPT ![top.for] = path]
           /\ lost' = IF top.by = instance THEN lost \ {top.for}
                                           ELSE lost \cup {top.for}
  /\ UNCHANGED <<nickname, streaming, mSelectedListener, granted, asking, instance, taps,
                 crossed>>

\* onCanceled does nothing.
onPickCanceled ==
  /\ closeChooser
  /\ UNCHANGED <<url, nickname, streaming, mSelectedListener, granted, asking, instance,
                 taps, picked, lost, crossed>>

editNickname ==
  /\ Touchable
  /\ nickname' \in BOOLEAN
  /\ UNCHANGED <<url, streaming, mSelectedListener, granted, asking, pickers, covered,
                 instance, taps, picked, lost, crossed>>

doStartLive ==
  /\ Touchable
  /\ nickname
  /\ \A v \in Views : url[v] # 0
  /\ streaming' = TRUE
  /\ UNCHANGED <<url, nickname, mSelectedListener, granted, asking, pickers, covered,
                 instance, taps, picked, lost, crossed>>

comeBack ==
  /\ streaming
  /\ streaming' = FALSE
  /\ UNCHANGED <<url, nickname, mSelectedListener, granted, asking, pickers, covered,
                 instance, taps, picked, lost, crossed>>

\* The system replaces the activity (a rotation, a process it needed), also under a
\* chooser: onCreate with a new helper.  No onSaveInstanceState keeps the rest.
recreate ==
  /\ pickers # << >> => covered
  /\ instance < MaxInstances
  /\ instance' = instance + 1
  /\ url' = Nothing
  /\ mSelectedListener' = "none"
  /\ lost' = Views
  /\ crossed' = FALSE
  /\ UNCHANGED <<nickname, streaming, granted, asking, pickers, covered, taps, picked>>
-----------------------------------------------------------------------------
Next ==
  \/ \E v \in Views : doChange(v)
  \/ answerPermission \/ choosersCover \/ onImagePicked \/ onPickCanceled
  \/ editNickname \/ doStartLive \/ comeBack \/ recreate

Spec == Init /\ [][Next]_vars
=============================================================================
