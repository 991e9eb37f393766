----------------------------- MODULE QuizRounds -----------------------------
(***************************************************************************)
(* What the quiz of LiveQuiz promises when one question is handled at a    *)
(* time: rounds.  A round opens with a topic that was never used before    *)
(* and closes with one result, which counts every vote received since the  *)
(* round opened exactly once.  A topic gets at most one result.            *)
(***************************************************************************)
EXTENDS Naturals, FiniteSets, Sequences

CONSTANTS
  Topics,    \* what may be asked
  Votes,     \* the votes there can be; a vote v has a choice v.choice
  NoTopic    \* no round is open

VARIABLES
  topic,     \* the topic of the open round, or NoTopic
  box,       \* the votes received since the last round opened
  results    \* the results published, in order

rvars == <<topic, box, results>>

Count(choice) == Cardinality({v \in box : v.choice = choice})

RInit == topic = NoTopic /\ box = {} /\ results = << >>

Ask(t) ==
  /\ topic = NoTopic
  /\ \A i \in DOMAIN results : results[i].q # t
  /\ topic' = t
  /\ box' = {}
  /\ UNCHANGED results

Vote(v) ==
  /\ v \notin box
  /\ box' = box \cup {v}
  /\ UNCHANGED <<topic, results>>

Publish ==
  /\ topic # NoTopic
  /\ results' = Append(results, [q |-> topic, yes |-> Count("yes"),
                                              no |-> Count("no")])
  /\ topic' = NoTopic
  /\ UNCHANGED box

RNext == (\E t \in Topics : Ask(t)) \/ (\E v \in Votes : Vote(v)) \/ Publish

Rounds == RInit /\ [][RNext]_rvars
=============================================================================
