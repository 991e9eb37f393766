------------------------- MODULE ImageSelectProofs -------------------------
(***************************************************************************)
(* Proofs about the picture selection, for every number of taps, choosers  *)
(* and instances of the activity.                                          *)
(***************************************************************************)
EXTENDS ImageSelectProps, SeqFacts, TLAPS

\* A picture was asked for by a tap before.
TakenPictures == \A i \in DOMAIN pickers : pickers[i].picture <= taps

\* The choosers an earlier instance opened cover the new one, which nobody can have
\* tapped yet.
OldChoosersCover ==
  (\E i \in DOMAIN pickers : pickers[i].by # instance)
    => covered /\ mSelectedListener = "none"

\* Without a tap across, every chooser of this instance is for the one listener.
OneView ==
  ~crossed => \A i \in DOMAIN pickers :
                pickers[i].by = instance => pickers[i].for = mSelectedListener

\* What an instance that has no listener shows was picked before it was created.
OldIsLost == mSelectedListener = "none" /\ instance # 1 => lost = Views

\* What covers the activity is a chooser.
CoverIsOfOne == covered => pickers # << >>

SelectInvariant == /\ TypeInvariant /\ TakenPictures /\ OldChoosersCover /\ OneView
                   /\ CoverIsOfOne /\ LastPickIsShown /\ OldIsLost
-----------------------------------------------------------------------------
LEMMA ChooserTypes ==
  ASSUME TypeInvariant, NEW i \in DOMAIN pickers
  PROVE  pickers[i] \in Picker /\ pickers[i].picture \in Nat /\ pickers[i].by \in Nat
<1>1. pickers[i] \in Picker
  BY LenProperties, ElementOfSeq DEF TypeInvariant
<1>2. QED
  BY <1>1, ImageAssumption DEF Picker, Pictures

\* What a tap adds to the choosers.
LEMMA OpenedChooser ==
  ASSUME SelectInvariant, NEW v \in Views, doChange(v)
  PROVE  /\ taps' \in 1..MaxTaps /\ taps' = taps + 1
         /\ pickers' \in Seq(Picker) /\ Len(pickers') <= MaxPickers
         /\ \A i \in DOMAIN pickers' :
              \/ i \in DOMAIN pickers /\ pickers'[i] = pickers[i]
              \/ /\ pickers'[i].for = v /\ pickers'[i].by = instance
                 /\ pickers'[i].picture = taps'
<1> DEFINE chooser == [for |-> v, by |-> instance, picture |-> taps + 1]
<1>1. taps' = taps + 1 /\ taps' \in 1..MaxTaps
  BY ImageAssumption DEF doChange, SelectInvariant, TypeInvariant
<1>2. chooser \in Picker
  BY <1>1 DEF Picker, Pictures, doChange, SelectInvariant, TypeInvariant
<1>3. pickers \in Seq(Picker) /\ Len(pickers) \in Nat /\ Len(pickers) < MaxPickers
  BY LenProperties DEF doChange, SelectInvariant, TypeInvariant
<1>4. pickers' \in {pickers, Append(pickers, chooser)}
  BY DEF doChange
<1>5. CASE pickers' = pickers
  BY <1>1, <1>3, <1>5, ImageAssumption
<1>6. CASE pickers' = Append(pickers, chooser)
  <2> HIDE DEF chooser
  <2>1. /\ pickers' \in Seq(Picker) /\ Len(pickers') = Len(pickers) + 1
        /\ \A i \in 1..Len(pickers) : pickers'[i] = pickers[i]
        /\ pickers'[Len(pickers) + 1] = chooser
    BY <1>2, <1>3, <1>6, AppendProperties
  <2>2. DOMAIN pickers' = 1..(Len(pickers) + 1) /\ DOMAIN pickers = 1..Len(pickers)
    BY <1>3, <2>1, LenProperties
  <2>3. \A i \in DOMAIN pickers' : i \in DOMAIN pickers \/ i = Len(pickers) + 1
    BY <1>3, <2>2
  <2>4. Len(pickers') <= MaxPickers
    BY <1>3, <2>1, ImageAssumption
  <2>5. chooser.for = v /\ chooser.by = instance /\ chooser.picture = taps'
    BY <1>1 DEF chooser
  <2>6. QED
    BY <1>1, <2>1, <2>2, <2>3, <2>4, <2>5
<1>7. QED
  BY <1>4, <1>5, <1>6

LEMMA TapStep ==
  ASSUME SelectInvariant, NEW v \in Views, doChange(v)
  PROVE  SelectInvariant'
<1> USE DEF SelectInvariant
<1>1. /\ ~covered /\ mSelectedListener' = v
      /\ UNCHANGED <<url, nickname, streaming, granted, covered, instance, picked, lost>>
  BY DEF doChange, listen, Touchable
<1>2. TypeInvariant'
  <2>1. url' \in [Views -> 0..taps'] /\ picked' \in [Views -> 0..taps']
    <3>1. taps \in Nat /\ 0..taps \subseteq 0..taps'
      BY OpenedChooser, ImageAssumption DEF TypeInvariant
    <3>2. QED
      BY <1>1, <3>1 DEF TypeInvariant
  <2>2. asking' \in BOOLEAN /\ crossed' \in BOOLEAN
    BY DEF doChange, TypeInvariant
  <2>3. /\ pickers' \in Seq(Picker) /\ Len(pickers') <= MaxPickers
        /\ taps' \in 0..MaxTaps
    BY OpenedChooser, ImageAssumption
  <2>4. instance \in Nat /\ mSelectedListener' # "none"
    BY <1>1, ImageAssumption DEF TypeInvariant, Views
  <2>5. \A i \in DOMAIN pickers' : pickers'[i].by <= instance
    BY <2>4, OpenedChooser DEF TypeInvariant
  <2>6. QED
    BY <1>1, <2>1, <2>2, <2>3, <2>4, <2>5 DEF TypeInvariant, Views
<1>3. TakenPictures'
  <2>1. SUFFICES ASSUME NEW i \in DOMAIN pickers'
                 PROVE  pickers'[i].picture <= taps'
    BY DEF TakenPictures
  <2>2. taps \in Nat /\ taps' = taps + 1
    BY OpenedChooser, ImageAssumption DEF TypeInvariant
  <2>3. CASE i \in DOMAIN pickers /\ pickers'[i] = pickers[i]
    BY <2>2, <2>3, ChooserTypes DEF TakenPictures
  <2>4. CASE pickers'[i].picture = taps'
    BY <2>2, <2>4
  <2>5. QED
    BY <2>3, <2>4, OpenedChooser
<1>4. \A i \in DOMAIN pickers' : pickers'[i].by = instance
  BY <1>1, OpenedChooser DEF OldChoosersCover
<1>5. OldChoosersCover'
  BY <1>1, <1>4 DEF OldChoosersCover
<1>6. ~crossed' => ~crossed /\ \A i \in DOMAIN pickers : pickers[i].for = v
  BY DEF doChange
<1>7. OneView'
  BY <1>1, <1>6, OpenedChooser DEF OneView
<1>8. LastPickIsShown'
  BY <1>1, <1>6 DEF LastPickIsShown
<1>9. CoverIsOfOne' /\ OldIsLost'
  BY <1>1 DEF CoverIsOfOne, OldIsLost, Views
<1>10. QED
  BY <1>2, <1>3, <1>5, <1>7, <1>8, <1>9

\* A chooser that closes leaves those below as they were.
LEMMA ClosedChooser ==
  ASSUME SelectInvariant, closeChooser
  PROVE  /\ pickers' \in Seq(Picker) /\ Len(pickers') <= MaxPickers
         /\ \A i \in DOMAIN pickers' : i \in DOMAIN pickers /\ pickers'[i] = pickers[i]
         /\ covered' \in BOOLEAN
         /\ covered /\ (pickers' # << >> => covered')
         /\ Last(pickers) \in Picker
         /\ \E i \in DOMAIN pickers : Last(pickers) = pickers[i]
<1>1. covered /\ pickers # << >> /\ pickers' = Front(pickers) /\ covered' = (pickers' # << >>)
  BY DEF closeChooser, SelectInvariant, TypeInvariant, CoverIsOfOne
<1>2. /\ pickers \in Seq(Picker) /\ Len(pickers) \in Nat /\ Len(pickers) <= MaxPickers
      /\ DOMAIN pickers = 1..Len(pickers)
  BY LenProperties DEF SelectInvariant, TypeInvariant
<1>3. /\ pickers' \in Seq(Picker) /\ Len(pickers') = Len(pickers) - 1
      /\ \A i \in 1..Len(pickers') : pickers'[i] = pickers[i]
      /\ Len(pickers) \in 1..Len(pickers)
      /\ Last(pickers) = pickers[Len(pickers)] /\ Last(pickers) \in Picker
  BY <1>1, <1>2, FrontLast
<1>4. DOMAIN pickers' = 1..Len(pickers') /\ Len(pickers') <= MaxPickers
  BY <1>2, <1>3, LenProperties, ImageAssumption
<1>5. \A i \in DOMAIN pickers' : i \in DOMAIN pickers /\ pickers'[i] = pickers[i]
  BY <1>2, <1>3, <1>4
<1>6. QED
  BY <1>1, <1>2, <1>3, <1>4, <1>5

\* What a closed chooser leaves of the invariant, whatever comes of its picture.
LEMMA CloseStep ==
  ASSUME SelectInvariant, closeChooser,
         UNCHANGED <<nickname, streaming, mSelectedListener, granted, asking, instance,
                     taps, crossed>>,
         url' \in [Views -> 0..taps], picked' \in [Views -> 0..taps], lost' \subseteq Views,
         LastPickIsShown', OldIsLost'
  PROVE  SelectInvariant'
<1> USE DEF SelectInvariant
<1>1. TypeInvariant'
  BY ClosedChooser DEF TypeInvariant
<1>2. TakenPictures' /\ OneView' /\ CoverIsOfOne'
  BY ClosedChooser DEF TakenPictures, OneView, CoverIsOfOne, closeChooser
<1>3. OldChoosersCover'
  <2>1. SUFFICES ASSUME NEW i \in DOMAIN pickers', pickers'[i].by # instance'
                 PROVE  covered' /\ mSelectedListener' = "none"
    BY DEF OldChoosersCover
  <2>2. i \in DOMAIN pickers /\ pickers[i].by # instance /\ pickers' # << >>
    BY <2>1, ClosedChooser
  <2>3. QED
    BY <2>2, ClosedChooser DEF OldChoosersCover
<1>4. QED
  BY <1>1, <1>2, <1>3

LEMMA PickStep ==
  ASSUME SelectInvariant, onImagePicked
  PROVE  SelectInvariant'
<1> DEFINE top == Last(pickers)
<1>1. PICK path \in {top.picture, 0} :
        /\ url' = IF mSelectedListener = "none"
                  THEN url
                  ELSE [url EXCEPT ![mSelectedListener] = path]
        /\ picked' = [picked EXCEPT ![top.for] = path]
        /\ lost' = IF top.by = instance THEN lost \ {top.for} ELSE lost \cup {top.for}
  BY DEF onImagePicked
<1>2. closeChooser /\ UNCHANGED <<mSelectedListener, instance, crossed>>
  BY DEF onImagePicked
<1>3. PICK i \in DOMAIN pickers : top = pickers[i]
  BY <1>2, ClosedChooser
<1>4. top \in Picker /\ top.for \in Views /\ taps \in Nat
  BY <1>2, ClosedChooser, ImageAssumption DEF SelectInvariant, TypeInvariant, Picker
<1>5. path \in 0..taps
  BY <1>3, <1>4, ImageAssumption DEF SelectInvariant, TakenPictures, Picker, Pictures
<1>6. url \in [Views -> 0..taps] /\ picked \in [Views -> 0..taps] /\ lost \subseteq Views
  BY DEF SelectInvariant, TypeInvariant
<1>7. /\ url' \in [Views -> 0..taps] /\ picked' \in [Views -> 0..taps]
      /\ lost' \subseteq Views
  BY <1>1, <1>4, <1>5, <1>6
<1>8. ASSUME ~crossed, NEW v \in Views
      PROVE  url'[v] = IF v \in lost' THEN 0 ELSE picked'[v]
  <2>1. url[v] = IF v \in lost THEN 0 ELSE picked[v]
    BY <1>8 DEF SelectInvariant, LastPickIsShown
  <2>2. CASE top.by = instance
    <3>1. top.for = mSelectedListener /\ mSelectedListener # "none"
      BY <1>3, <1>8, <2>2 DEF SelectInvariant, OneView, TypeInvariant
    <3>2. CASE v = top.for
      BY <1>1, <1>4, <1>6, <2>2, <3>1, <3>2
    <3>3. CASE v # top.for
      BY <1>1, <1>4, <1>6, <2>1, <2>2, <3>1, <3>3
    <3>4. QED
      BY <3>2, <3>3
  <2>3. CASE top.by # instance
    <3>1. mSelectedListener = "none" /\ url' = url
      BY <1>1, <1>3, <2>3 DEF SelectInvariant, OldChoosersCover
    <3>2. instance # 1 /\ lost = Views
      BY <1>3, <1>4, <2>3, <3>1, ImageAssumption, ChooserTypes
      DEF SelectInvariant, OldIsLost, TypeInvariant, Picker
    <3>3. QED
      BY <1>1, <2>1, <2>3, <3>1, <3>2
  <2>4. QED
    BY <2>2, <2>3
<1>9. LastPickIsShown'
  BY <1>2, <1>8 DEF LastPickIsShown
<1>10. OldIsLost'
  <2>1. SUFFICES ASSUME mSelectedListener = "none", instance # 1
                 PROVE  lost' = Views
    BY <1>2 DEF OldIsLost
  <2>2. lost = Views /\ top.by # instance
    BY <1>3, <2>1 DEF SelectInvariant, OldIsLost, TypeInvariant
  <2>3. QED
    BY <1>1, <1>4, <2>2
<1>11. QED
  BY <1>2, <1>7, <1>9, <1>10, CloseStep DEF onImagePicked

LEMMA SelectStep ==
  ASSUME SelectInvariant, [Next]_vars
  PROVE  SelectInvariant'
<1>1. CASE UNCHANGED vars
  BY <1>1 DEF vars, SelectInvariant, TypeInvariant, TakenPictures, OldChoosersCover, OneView,
              LastPickIsShown, CoverIsOfOne, OldIsLost
<1>2. CASE \E v \in Views : doChange(v)
  BY <1>2, TapStep
<1>3. CASE onImagePicked
  BY <1>3, PickStep
<1>4. CASE onPickCanceled
  BY <1>4, CloseStep
  DEF onPickCanceled, SelectInvariant, TypeInvariant, LastPickIsShown, OldIsLost
<1>5. CASE answerPermission \/ choosersCover \/ editNickname \/ doStartLive \/ comeBack
  <2>1. /\ UNCHANGED <<url, mSelectedListener, pickers, instance, taps, picked, lost,
                     crossed>>
        /\ covered => covered'
        /\ covered' => pickers # << >>
    BY <1>5 DEF answerPermission, choosersCover, editNickname, doStartLive, comeBack,
                SelectInvariant, CoverIsOfOne
  <2>2. {nickname', streaming', granted', asking', covered', crossed'} \subseteq BOOLEAN
    BY <1>5 DEF answerPermission, choosersCover, editNickname, doStartLive, comeBack,
                SelectInvariant, TypeInvariant
  <2>3. TypeInvariant'
    BY <2>1, <2>2 DEF SelectInvariant, TypeInvariant
  <2>4. TakenPictures' /\ OldChoosersCover' /\ OneView' /\ LastPickIsShown' /\ CoverIsOfOne'
        /\ OldIsLost'
    BY <2>1 DEF SelectInvariant, TakenPictures, OldChoosersCover, OneView, LastPickIsShown,
                CoverIsOfOne, OldIsLost
  <2>5. QED
    BY <2>3, <2>4 DEF SelectInvariant
<1>6. CASE recreate
  <2>1. instance' = instance + 1 /\ instance' \in 1..MaxInstances
    BY <1>6, ImageAssumption DEF recreate, SelectInvariant, TypeInvariant
  <2>2. /\ pickers' = pickers
        /\ \A i \in DOMAIN pickers : pickers[i].by \in Nat /\ pickers[i].by <= instance
    BY <1>6, ChooserTypes DEF recreate, SelectInvariant, TypeInvariant
  <2>3. \A i \in DOMAIN pickers' : pickers'[i].by <= instance' /\ pickers'[i].by # instance'
    BY <2>1, <2>2 DEF SelectInvariant, TypeInvariant
  <2>4. Nothing \in [Views -> 0..taps]
    BY ImageAssumption DEF Nothing, SelectInvariant, TypeInvariant
  <2>5. TypeInvariant'
    BY <1>6, <2>1, <2>3, <2>4 DEF recreate, SelectInvariant, TypeInvariant
  <2>6. TakenPictures' /\ LastPickIsShown' /\ CoverIsOfOne' /\ OldIsLost'
    BY <1>6 DEF recreate, SelectInvariant, TakenPictures, LastPickIsShown, CoverIsOfOne,
                OldIsLost, Nothing
  <2>7. OldChoosersCover'
    BY <1>6 DEF recreate, OldChoosersCover
  <2>8. OneView'
    BY <2>3 DEF OneView
  <2>9. QED
    BY <2>5, <2>6, <2>7, <2>8 DEF SelectInvariant
<1>7. QED
  BY <1>1, <1>2, <1>3, <1>4, <1>5, <1>6 DEF Next

LEMMA SelectInit == Init => SelectInvariant
<1> SUFFICES ASSUME Init PROVE SelectInvariant
  OBVIOUS
<1>1. << >> \in Seq(Picker) /\ Len(<< >>) = 0 /\ DOMAIN << >> = {}
  OBVIOUS
<1>2. TypeInvariant
  <2>1. url \in [Views -> 0..taps] /\ picked \in [Views -> 0..taps]
    BY DEF Init, Nothing
  <2>2. pickers \in Seq(Picker) /\ Len(pickers) <= MaxPickers /\ DOMAIN pickers = {}
    BY <1>1, ImageAssumption DEF Init
  <2>3. instance \in 1..MaxInstances /\ taps \in 0..MaxTaps
    BY ImageAssumption DEF Init
  <2>4. {nickname, streaming, granted, asking, covered, crossed} \subseteq BOOLEAN
    BY DEF Init
  <2>5. mSelectedListener \in Views \cup {"none"} /\ lost \subseteq Views
    BY DEF Init
  <2>6. QED
    BY <2>1, <2>2, <2>3, <2>4, <2>5 DEF TypeInvariant
<1>3. TakenPictures /\ OldChoosersCover /\ OneView /\ LastPickIsShown /\ CoverIsOfOne
      /\ OldIsLost
  BY <1>1 DEF Init, TakenPictures, OldChoosersCover, OneView, LastPickIsShown, CoverIsOfOne,
              OldIsLost, Nothing
<1>4. QED
  BY <1>2, <1>3 DEF SelectInvariant

LEMMA Selects == Spec => []SelectInvariant
BY SelectInit, SelectStep, PTL DEF Spec

\* Every variable keeps its type, and a chooser that this instance of the activity opened
\* finds a listener when it comes back.
THEOREM SelectTypes == Spec => []TypeInvariant
<1>1. SelectInvariant => TypeInvariant
  BY DEF SelectInvariant
<1>2. QED
  BY <1>1, Selects, PTL

\* Without a tap on one view while the other's chooser is open, each view shows the
\* picture last picked for it, or none when the activity that is to show it was created
\* after that pick was asked for.
THEOREM PicksAreShown == Spec => []LastPickIsShown
<1>1. SelectInvariant => LastPickIsShown
  BY DEF SelectInvariant
<1>2. QED
  BY <1>1, Selects, PTL
=============================================================================
