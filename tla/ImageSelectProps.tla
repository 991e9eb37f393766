-------------------------- MODULE ImageSelectProps --------------------------
(***************************************************************************)
(* The properties of the picture selection.                                *)
(***************************************************************************)
EXTENDS ImageSelect

\* Every variable has the values the code can give it; a chooser this instance opened
\* finds a listener when it comes back.
TypeInvariant ==
  /\ url \in [Views -> 0..taps]
  /\ picked \in [Views -> 0..taps]
  /\ lost \subseteq Views
  /\ {nickname, streaming, granted, asking, covered, crossed} \subseteq BOOLEAN
  /\ mSelectedListener \in Views \cup {"none"}
  /\ pickers \in Seq(Picker)
  /\ Len(pickers) <= MaxPickers
  /\ \A i \in DOMAIN pickers : /\ pickers[i].by <= instance
                               /\ pickers[i].by = instance => mSelectedListener # "none"
  /\ instance \in 1..MaxInstances
  /\ taps \in 0..MaxTaps

\* Although one listener serves both views and the choosers do not say what they were
\* opened for, each view has the picture last picked for it, unless both choosers were
\* open at once: through refused permissions, a missing storage, cancelled choosers and a
\* path that cannot be found.  When the system created the activity anew, before or while
\* the picture was picked, the view has none and the live cannot start until it is picked
\* again; it never has an older picture, or the other view's.
LastPickIsShown ==
  ~crossed => \A v \in Views : url[v] = IF v \in lost THEN 0 ELSE picked[v]
=============================================================================
