------------------------------ MODULE SeqFacts ------------------------------
(***************************************************************************)
(* Facts about the sequence operators of the models, cited by name in the  *)
(* proofs of the modules.                                                  *)
(***************************************************************************)
EXTENDS SequencesExt, ChatWindow, SequenceTheorems, TLAPS

\* Taking the dialog on top off a stack of dialogs (onDismiss, onClick).
LEMMA FrontLast ==
  ASSUME NEW S, NEW s \in Seq(S), s # << >>
  PROVE  /\ Front(s) \in Seq(S)
         /\ Len(Front(s)) = Len(s) - 1
         /\ \A i \in 1..Len(Front(s)) : Front(s)[i] = s[i]
         /\ Len(s) \in 1..Len(s)
         /\ Last(s) = s[Len(s)]
         /\ Last(s) \in S
<1> DEFINE n == Len(s) - 1
           t == SubSeq(s, 1, n)
<1>1. Len(s) \in Nat /\ Len(s) # 0
  BY EmptySeq, LenProperties
<1>2. n \in Nat /\ Len(s) = n + 1
  BY <1>1
<1>3. \A i \in 1..n : s[i] \in S
  BY <1>1, ElementOfSeq
<1> HIDE DEF n
<1>4. /\ t \in Seq(S)
      /\ Len(t) = IF 1 <= n THEN n - 1 + 1 ELSE 0
      /\ \A i \in 1..(n - 1 + 1) : t[i] = s[1 + i - 1]
  BY <1>2, <1>3, SubSeqProperties
<1> HIDE DEF t
<1>5. Len(t) = n
  BY <1>2, <1>4
<1>6. \A i \in 1..n : t[i] = s[i]
  <2>1. SUFFICES ASSUME NEW i \in 1..n
                 PROVE  t[i] = s[i]
    OBVIOUS
  <2>2. i \in 1..(n - 1 + 1) /\ 1 + i - 1 = i
    BY <1>2
  <2>3. QED
    BY <1>4, <2>2
<1>7. Front(s) = t
  BY DEF Front, t, n
<1>8. Len(s) \in 1..Len(s) /\ Last(s) = s[Len(s)]
  BY <1>1 DEF Last
<1>9. Last(s) \in S
  BY <1>8, ElementOfSeq
<1>10. QED
  BY <1>2, <1>4, <1>5, <1>6, <1>7, <1>8, <1>9

\* A chat window never exceeds its bound, keeps the order of what it keeps and
\* ends with the new line (MessageContainer.addMessage).
LEMMA AddMessageProperties ==
  ASSUME NEW S, NEW list \in Seq(S), NEW line \in S, NEW max \in Nat \ {0}
  PROVE  /\ AddMessage(list, line, max) \in Seq(S)
         /\ Len(AddMessage(list, line, max)) =
              IF Len(list) >= max THEN max ELSE Len(list) + 1
         /\ AddMessage(list, line, max)[Len(AddMessage(list, line, max))] = line
         /\ \A i \in 1..(Len(AddMessage(list, line, max)) - 1) :
              AddMessage(list, line, max)[i] =
                list[IF Len(list) >= max THEN Len(list) - max + 1 + i ELSE i]
<1> DEFINE kept == IF Len(list) >= max
                   THEN SubSeq(list, Len(list) - max + 2, Len(list))
                   ELSE list
<1>1. Len(list) \in Nat
  BY LenProperties
<1>2. AddMessage(list, line, max) = Append(kept, line)
  BY DEF AddMessage
<1>3. /\ kept \in Seq(S)
      /\ Len(kept) = IF Len(list) >= max THEN max - 1 ELSE Len(list)
      /\ \A i \in 1..Len(kept) :
           kept[i] = list[IF Len(list) >= max THEN Len(list) - max + 1 + i ELSE i]
  <2>1. CASE Len(list) >= max
    <3>1. \A i \in (Len(list) - max + 2)..Len(list) : list[i] \in S
      BY <1>1, <2>1, ElementOfSeq
    <3>2. LET m == Len(list) - max + 2
              n == Len(list)
          IN  /\ SubSeq(list, m, n) \in Seq(S)
              /\ Len(SubSeq(list, m, n)) = IF m <= n THEN n - m + 1 ELSE 0
              /\ \A i \in 1..(n - m + 1) : SubSeq(list, m, n)[i] = list[m + i - 1]
      BY <1>1, <3>1, SubSeqProperties
    <3>3. QED
      BY <1>1, <2>1, <3>2
  <2>2. CASE ~(Len(list) >= max)
    BY <1>1, <2>2
  <2>3. QED
    BY <2>1, <2>2
<1> HIDE DEF kept
<1>4. /\ Append(kept, line) \in Seq(S)
      /\ Len(Append(kept, line)) = Len(kept) + 1
      /\ \A i \in 1..Len(kept) : Append(kept, line)[i] = kept[i]
      /\ Append(kept, line)[Len(kept) + 1] = line
  BY <1>3, AppendProperties
<1>5. QED
  BY <1>1, <1>2, <1>3, <1>4

\* The last lines of everything that was ever added.
LastLines(all, max) ==
  IF Len(all) > max THEN SubSeq(all, Len(all) - max + 1, Len(all)) ELSE all

LEMMA LastLinesProperties ==
  ASSUME NEW S, NEW all \in Seq(S), NEW max \in Nat \ {0}
  PROVE  /\ LastLines(all, max) \in Seq(S)
         /\ Len(LastLines(all, max)) = IF Len(all) > max THEN max ELSE Len(all)
         /\ \A i \in 1..Len(LastLines(all, max)) :
              LastLines(all, max)[i] = all[IF Len(all) > max THEN Len(all) - max + i ELSE i]
<1>1. Len(all) \in Nat
  BY LenProperties
<1>2. CASE Len(all) > max
  <2> DEFINE m == Len(all) - max + 1
             n == Len(all)
             t == SubSeq(all, m, n)
  <2>1. \A i \in m..n : all[i] \in S
    BY <1>1, <1>2, ElementOfSeq
  <2>2. /\ t \in Seq(S)
        /\ Len(t) = IF m <= n THEN n - m + 1 ELSE 0
        /\ \A i \in 1..(n - m + 1) : t[i] = all[m + i - 1]
    BY <1>1, <2>1, SubSeqProperties
  <2>3. LastLines(all, max) = t
    BY <1>2 DEF LastLines
  <2> HIDE DEF t
  <2>4. QED
    BY <1>1, <1>2, <2>2, <2>3
<1>3. CASE ~(Len(all) > max)
  BY <1>1, <1>3 DEF LastLines
<1>4. QED
  BY <1>2, <1>3

\* The window is the last max lines of everything that was ever added, in order: what
\* addMessage makes of the last lines are the last lines with the new one.
THEOREM WindowIsLastLines ==
  ASSUME NEW S, NEW all \in Seq(S), NEW line \in S, NEW max \in Nat \ {0}
  PROVE  AddMessage(LastLines(all, max), line, max) = LastLines(Append(all, line), max)
<1> DEFINE more == Append(all, line)
           last == LastLines(more, max)
<1>1. Len(all) \in Nat
  BY LenProperties
<1>2. PICK w \in Seq(S) :
      /\ w = LastLines(all, max)
      /\ Len(w) = IF Len(all) > max THEN max ELSE Len(all)
      /\ \A i \in 1..Len(w) : w[i] = all[IF Len(all) > max THEN Len(all) - max + i ELSE i]
  BY LastLinesProperties
<1>3. /\ more \in Seq(S) /\ Len(more) = Len(all) + 1
      /\ \A i \in 1..Len(all) : more[i] = all[i]
      /\ more[Len(all) + 1] = line
  BY AppendProperties
<1> HIDE DEF more
<1> DEFINE new == AddMessage(w, line, max)
           from(k) == IF Len(w) >= max THEN Len(w) - max + 1 + k ELSE k
<1>0. new \in Seq(S)
  BY AddMessageProperties
<1>4. /\ Len(new) = IF Len(w) >= max THEN max ELSE Len(w) + 1
      /\ new[Len(new)] = line
      /\ \A i \in 1..(Len(new) - 1) : new[i] = w[from(i)]
  BY AddMessageProperties
<1>5. /\ last \in Seq(S)
      /\ Len(last) = IF Len(more) > max THEN max ELSE Len(more)
      /\ \A i \in 1..Len(last) : last[i] = more[IF Len(more) > max THEN Len(more) - max + i ELSE i]
  BY <1>3, LastLinesProperties
<1> HIDE DEF new, last
<1>6. Len(new) = Len(last) /\ Len(new) \in Nat \ {0}
  BY <1>1, <1>2, <1>3, <1>4, <1>5
<1>7. new[Len(new)] = last[Len(new)]
  <2>1. last[Len(last)] = more[Len(more)]
    BY <1>1, <1>3, <1>5, <1>6
  <2>2. QED
    BY <1>3, <1>4, <1>6, <2>1
<1>8. ASSUME NEW i \in 1..(Len(new) - 1) PROVE new[i] = last[i]
  <2>1. CASE Len(all) > max
    <3>0. i \in Nat /\ from(i) = i + 1 /\ i + 1 \in 1..Len(w)
      BY <1>1, <1>2, <1>4, <2>1
    <3>1. new[i] = w[i + 1] /\ i + 1 \in 1..Len(w)
      BY <1>4, <3>0
    <3>2. w[i + 1] = all[Len(all) - max + i + 1]
      BY <1>1, <1>2, <2>1, <3>1
    <3>3. i \in 1..max - 1 /\ i \in 1..Len(last) /\ Len(more) > max
      BY <1>1, <1>2, <1>3, <1>4, <1>6, <2>1
    <3>4. last[i] = more[Len(more) - max + i]
      BY <1>5, <3>3
    <3>5. Len(more) - max + i \in 1..Len(all) /\ Len(more) - max + i = Len(all) - max + i + 1
      BY <1>1, <1>3, <2>1, <3>3
    <3>6. QED
      BY <1>3, <3>1, <3>2, <3>4, <3>5
  <2>2. CASE Len(all) = max
    <3>0. i \in Nat /\ from(i) = i + 1 /\ i + 1 \in 1..Len(w)
      BY <1>1, <1>2, <1>4, <2>2
    <3>1. new[i] = w[i + 1] /\ w[i + 1] = all[i + 1] /\ i + 1 \in 1..Len(all)
      BY <1>1, <1>2, <1>4, <2>2, <3>0
    <3>2. last[i] = more[i + 1]
      BY <1>1, <1>3, <1>4, <1>5, <1>6, <2>2
    <3>3. QED
      BY <1>3, <3>1, <3>2
  <2>3. CASE Len(all) < max
    <3>1. new[i] = w[i] /\ w[i] = all[i] /\ i \in 1..Len(all)
      BY <1>1, <1>2, <1>4, <2>3
    <3>2. last[i] = more[i]
      BY <1>1, <1>3, <1>4, <1>5, <1>6, <2>3
    <3>3. QED
      BY <1>3, <3>1, <3>2
  <2>4. QED
    BY <1>1, <2>1, <2>2, <2>3
<1>9. \A i \in 1..Len(new) : new[i] = last[i]
  BY <1>6, <1>7, <1>8
<1>10. new = last
  BY <1>0, <1>5, <1>6, <1>9, SeqEqual
<1>11. QED
  BY <1>2, <1>10 DEF new, last, more

\* What a chat window shows after a new line was there before, or is the line.
LEMMA AddMessageKeeps ==
  ASSUME NEW S, NEW list \in Seq(S), NEW line \in S, NEW max \in Nat \ {0},
         NEW i \in 1..Len(AddMessage(list, line, max))
  PROVE  \/ AddMessage(list, line, max)[i] = line
         \/ \E j \in 1..Len(list) : AddMessage(list, line, max)[i] = list[j]
<1> DEFINE new == AddMessage(list, line, max)
           from(k) == IF Len(list) >= max THEN Len(list) - max + 1 + k ELSE k
<1>1. Len(list) \in Nat
  BY LenProperties
<1>2. /\ Len(new) = IF Len(list) >= max THEN max ELSE Len(list) + 1
      /\ new[Len(new)] = line
      /\ \A k \in 1..(Len(new) - 1) : new[k] = list[from(k)]
  BY AddMessageProperties
<1> HIDE DEF new
<1>3. CASE i = Len(new)
  BY <1>2, <1>3 DEF new
<1>4. CASE i # Len(new)
  <2>1. i \in 1..(Len(new) - 1)
    BY <1>1, <1>2, <1>4 DEF new
  <2>2. from(i) \in 1..Len(list)
    BY <1>1, <1>2, <2>1
  <2>3. new[i] = list[from(i)]
    BY <1>2, <2>1
  <2>4. QED
    BY <2>2, <2>3 DEF new
<1>5. QED
  BY <1>3, <1>4

\* Dialogs as stacks: what is on an empty one, after a push and after a pop.
LEMMA EmptyStack == ToSet(<< >>) = {} /\ IsInjective(<< >>)
BY DEF ToSet, IsInjective

LEMMA PushOnStack ==
  ASSUME NEW S, NEW s \in Seq(S), NEW e \in S
  PROVE  /\ ToSet(Append(s, e)) = ToSet(s) \cup {e}
         /\ IsInjective(s) /\ e \notin ToSet(s) => IsInjective(Append(s, e))
<1> DEFINE t == Append(s, e)
<1>1. /\ t \in Seq(S)
      /\ Len(t) = Len(s) + 1
      /\ \A i \in 1..Len(s) : t[i] = s[i]
      /\ t[Len(s) + 1] = e
  BY AppendProperties
<1>2. Len(s) \in Nat /\ DOMAIN s = 1..Len(s) /\ DOMAIN t = 1..Len(t)
  BY <1>1, LenProperties
<1> HIDE DEF t
<1>3. ToSet(t) = ToSet(s) \cup {e}
  <2>1. ASSUME NEW x \in ToSet(t)
        PROVE  x \in ToSet(s) \cup {e}
    BY <1>1, <1>2 DEF ToSet
  <2>2. e \in ToSet(t)
    BY <1>1, <1>2 DEF ToSet
  <2>3. ASSUME NEW x \in ToSet(s)
        PROVE  x \in ToSet(t)
    BY <1>1, <1>2 DEF ToSet
  <2>4. QED
    BY <2>1, <2>2, <2>3
<1>4. ASSUME IsInjective(s), e \notin ToSet(s)
      PROVE  IsInjective(t)
  <2>1. \A i \in 1..Len(s) : s[i] # e
    BY <1>2, <1>4 DEF ToSet
  <2>2. QED
    BY <1>1, <1>2, <1>4, <2>1 DEF IsInjective
<1>5. QED
  BY <1>3, <1>4 DEF t

LEMMA PopOffStack ==
  ASSUME NEW S, NEW s \in Seq(S), s # << >>
  PROVE  /\ ToSet(Front(s)) \subseteq ToSet(s)
         /\ Last(s) \in ToSet(s)
         /\ IsInjective(s) => /\ Last(s) \notin ToSet(Front(s))
                              /\ IsInjective(Front(s))
<1> DEFINE t == Front(s)
<1>1. /\ t \in Seq(S)
      /\ Len(t) = Len(s) - 1
      /\ \A i \in 1..Len(t) : t[i] = s[i]
      /\ Len(s) \in 1..Len(s)
      /\ Last(s) = s[Len(s)]
  BY FrontLast
<1>2. Len(s) \in Nat /\ DOMAIN s = 1..Len(s) /\ DOMAIN t = 1..Len(t)
  BY <1>1, LenProperties
<1> HIDE DEF t
<1>3. \A i \in 1..Len(t) : i \in 1..Len(s) /\ i # Len(s)
  BY <1>1, <1>2
<1>4. ToSet(t) \subseteq ToSet(s)
  BY <1>1, <1>2, <1>3 DEF ToSet
<1>5. Last(s) \in ToSet(s)
  BY <1>1, <1>2 DEF ToSet
<1>6. ASSUME IsInjective(s)
      PROVE  Last(s) \notin ToSet(t) /\ IsInjective(t)
  BY <1>1, <1>2, <1>3, <1>6 DEF ToSet, IsInjective
<1>7. QED
  BY <1>4, <1>5, <1>6 DEF t
=============================================================================
