------------------------------- MODULE Ballot -------------------------------
(***************************************************************************)
(* What both apps promise a viewer about one yes/no question: a ballot.    *)
(* Each voter has one ballot for each topic.  It may be cast once, with    *)
(* one vote; a vote that was cast may be counted once, as it was cast; and *)
(* every ballot may be lost or thrown away on its way, many at a time.  A  *)
(* ballot that was cast, lost or thrown away never comes back.             *)
(***************************************************************************)
CONSTANTS
  Voters, Topics,
  Votes       \* the votes there can be: v is the vote of v.from about v.q

VARIABLES
  open,       \* the ballots <<voter, topic>> that may still be cast
  cast,       \* the votes on their way to the count
  counted     \* the votes in the count

bvars == <<open, cast, counted>>

BInit == open = Voters \X Topics /\ cast = {} /\ counted = {}

\* The first conjuncts say what moves; the rest may get lost.
Cast(v) ==
  /\ <<v.from, v.q>> \in open
  /\ open' \subseteq open \ {<<v.from, v.q>>}
  /\ cast' \subseteq cast \cup {v}
  /\ counted' \subseteq counted

Count(v) ==
  /\ v \in cast
  /\ open' \subseteq open
  /\ cast' \subseteq cast \ {v}
  /\ counted' \subseteq counted \cup {v}

Lose ==
  /\ open' \subseteq open
  /\ cast' \subseteq cast
  /\ counted' \subseteq counted

BNext == (\E v \in Votes : Cast(v) \/ Count(v)) \/ Lose

Ballots == BInit /\ [][BNext]_bvars
=============================================================================
