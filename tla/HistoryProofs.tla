---------------------------- MODULE HistoryProofs ----------------------------
(***************************************************************************)
(* Theorems about History, for every set of lists and of options, after    *)
(* the facts about the operators of LoopList they rest on, which hold for  *)
(* every queue and every window.                                           *)
(***************************************************************************)
EXTENDS History, SequenceTheorems, WellFoundedInduction, TLAPS

(* A non-empty set of positions has a largest one.                          *)
LEMMA LargestPosition ==
    ASSUME NEW k \in Nat, NEW S, S \subseteq 1..k, S # {}
    PROVE  \E n \in S : \A m \in S : m <= n
<1> DEFINE T == {k - n : n \in S}
<1>1. T \subseteq Nat /\ T # {}
  <2>1. \A n \in S : k - n \in Nat
    OBVIOUS
  <2>2. PICK n \in S : TRUE
    OBVIOUS
  <2>3. k - n \in T
    OBVIOUS
  <2> QED BY <2>1, <2>3
<1>2. PICK x \in T : \A y \in T : ~(<<y, x>> \in OpToRel(<, Nat))
  <2> HIDE DEF T
  <2> QED BY <1>1, WFMin, NatLessThanWellFounded, Zenon
<1>3. PICK n \in S : x = k - n
  BY <1>2
<1>4. ASSUME NEW m \in S PROVE m <= n
  <2>1. k - m \in T
    OBVIOUS
  <2>2. ~(k - m < k - n)
    BY <1>1, <1>2, <1>3, <2>1 DEF OpToRel
  <2> QED BY <2>2
<1> QED BY <1>3, <1>4

(* delTimeout leaves a prefix of the queue, and never an empty one.         *)
LEMMA DelTimeoutIsPrefix ==
    ASSUME NEW L, NEW l \in Seq(L), NEW time, NEW o, l # <<>>
    PROVE  \E n \in MayEnd(l, time, o) :
              /\ n \in 1..Len(l)
              /\ DelTimeout(l, time, o) = SubSeq(l, 1, n)
              /\ \A m \in MayEnd(l, time, o) : m <= n
<1>1. Len(l) \in Nat /\ Len(l) > 0
  BY EmptySeq, LenProperties
<1>2. 1 \in MayEnd(l, time, o) /\ MayEnd(l, time, o) \subseteq 1..Len(l)
  BY <1>1 DEF MayEnd
<1>3. \E n \in MayEnd(l, time, o) : \A m \in MayEnd(l, time, o) : m <= n
  BY <1>1, <1>2, LargestPosition
<1> DEFINE n == CHOOSE n \in MayEnd(l, time, o) : \A m \in MayEnd(l, time, o) : m <= n
<1>4. n \in MayEnd(l, time, o) /\ \A m \in MayEnd(l, time, o) : m <= n
  BY <1>3
<1> QED BY <1>2, <1>4 DEF DelTimeout

(* delTimeout keeps the front of a queue, and its type.                     *)
LEMMA DelTimeoutType ==
    ASSUME NEW L, NEW l \in Seq(L), NEW time, NEW o
    PROVE  /\ DelTimeout(l, time, o) \in Seq(L)
           /\ DelTimeout(l, time, o) = <<>> <=> l = <<>>
           /\ l # <<>> => Front(DelTimeout(l, time, o)) = Front(l)
<1>1. CASE l = <<>>
  BY <1>1 DEF DelTimeout
<1>2. CASE l # <<>>
  <2>1. PICK n \in 1..Len(l) : DelTimeout(l, time, o) = SubSeq(l, 1, n)
    BY <1>2, DelTimeoutIsPrefix
  <2>2. Len(l) \in Nat /\ \A i \in 1..n : l[i] \in L
    BY ElementOfSeq, LenProperties
  <2>3. SubSeq(l, 1, n) \in Seq(L) /\ Len(SubSeq(l, 1, n)) = n
    BY <2>2, SubSeqProperties
  <2>4. SubSeq(l, 1, n) # <<>>
    BY <2>3
  <2>5. Head(SubSeq(l, 1, n)) = l[1]
    BY <1>2, <2>2, HeadTailOfSubSeq
  <2>6. Head(l) = l[1]
    BY <1>2
  <2> QED BY <1>2, <2>1, <2>3, <2>4, <2>5, <2>6 DEF Front
<1> QED BY <1>1, <1>2

(* push puts the element in front, if need be under an older timestamp.     *)
LEMMA PushType ==
    ASSUME NEW L, NEW l \in Seq(Elem(L)), NEW e \in Elem(L), NEW o
    PROVE  /\ Push(l, e, o) \in Seq(Elem(L))
           /\ Push(l, e, o) # <<>>
           /\ Front(Push(l, e, o)) \in Elem(L)
           /\ Front(Push(l, e, o)).list = e.list
<1> DEFINE kept == DelTimeout(l, e.unixNano, o)
<1>1. kept \in Seq(Elem(L))
  BY DelTimeoutType
<1>2. CASE Overwrites(kept, e, o)
  <2> DEFINE redated == [e EXCEPT !.unixNano = Front(kept).unixNano]
  <2>1. kept # <<>>
    BY <1>2 DEF Overwrites
  <2>2. Front(kept) \in Elem(L) /\ Tail(kept) \in Seq(Elem(L))
    BY <1>1, <2>1, HeadTailProperties DEF Front
  <2>3. redated \in Elem(L) /\ redated.list = e.list
    BY <2>2 DEF Elem
  <2>4. Push(l, e, o) = <<redated>> \o Tail(kept)
    BY <1>2 DEF Push
  <2> HIDE DEF kept, redated
  <2> QED BY <2>2, <2>3, <2>4 DEF Front
<1>3. CASE ~Overwrites(kept, e, o)
  <2>1. Push(l, e, o) = <<e>> \o kept
    BY <1>3 DEF Push
  <2> HIDE DEF kept
  <2> QED BY <1>1, <2>1 DEF Front
<1> QED BY <1>2, <1>3

(* Both queues stay queues, with the very same element in front.            *)
LEMMA PushBothType ==
    ASSUME NEW L, NEW h \in Seq(Elem(L)), NEW s \in Seq(Elem(L)),
           NEW e \in Elem(L), NEW o
    PROVE  /\ PushBoth(h, s, e, o).history \in Seq(Elem(L))
           /\ PushBoth(h, s, e, o).stable \in Seq(Elem(L))
           /\ PushBoth(h, s, e, o).history # <<>>
           /\ PushBoth(h, s, e, o).stable # <<>>
           /\ Front(PushBoth(h, s, e, o).history) = Front(PushBoth(h, s, e, o).stable)
<1> DEFINE newHistory == Push(h, e, o)
           newStable == PushSecond(h, s, e, o)
<1>1. newHistory \in Seq(Elem(L)) /\ newHistory # <<>>
      /\ Front(newHistory) \in Elem(L)
  BY PushType
<1>2. newStable \in Seq(Elem(L)) /\ newStable # <<>>
      /\ Front(newStable) \in Elem(L)
  BY <1>1, PushType DEF PushSecond
<1>3. Tail(newHistory) \in Seq(Elem(L))
  BY <1>1, HeadTailProperties
<1>4. PushBoth(h, s, e, o) = [history |-> <<Front(newStable)>> \o Tail(newHistory),
                              stable |-> newStable]
  BY DEF PushBoth
<1> HIDE DEF newHistory, newStable
<1> QED BY <1>2, <1>3, <1>4 DEF Front

-----------------------------------------------------------------------------
(* What the two operations leave where.                                     *)

Intervals(o) == o.ThresholdContrastInterval \in Int /\ o.EndpointsSaveInterval \in Int

(* delTimeout leaves the newest elements: all but one of them are inside the*)
(* window, and if it drops any, the one it leaves last is outside.          *)
LEMMA DelTimeoutElements ==
    ASSUME NEW L, NEW l \in Seq(Elem(L)), l # <<>>, NEW time \in Int, NEW o, Intervals(o),
           NEW d, d = DelTimeout(l, time, o)
    PROVE  /\ d \in Seq(Elem(L)) /\ d # <<>>
           /\ Len(d) \in 1..Len(l)
           /\ \A i \in 1..Len(d) : d[i] = l[i]
           /\ Len(d) > 1 =>
                 time - l[Len(d) - 1].unixNano <= o.ThresholdContrastInterval
           /\ Len(d) < Len(l) =>
                 time - l[Len(d)].unixNano > o.ThresholdContrastInterval
<1>1. PICK n \in MayEnd(l, time, o) :
         n \in 1..Len(l) /\ d = SubSeq(l, 1, n) /\ \A m \in MayEnd(l, time, o) : m <= n
  BY DelTimeoutIsPrefix
<1>2. Len(l) \in Nat /\ \A i \in 1..Len(l) : l[i] \in Elem(L)
  BY ElementOfSeq, LenProperties
<1>3. Len(d) = n /\ \A i \in 1..n : d[i] = l[i]
  BY <1>1, <1>2, SubSeqProperties
<1>4. d \in Seq(Elem(L)) /\ d # <<>>
  BY DelTimeoutType
<1>5. n > 1 => time - l[n - 1].unixNano <= o.ThresholdContrastInterval
  BY <1>1, <1>2 DEF MayEnd
<1>6. n < Len(l) => time - l[n].unixNano > o.ThresholdContrastInterval
  <2> SUFFICES ASSUME n < Len(l)
               PROVE  ~(time - l[n].unixNano <= o.ThresholdContrastInterval)
    BY <1>1, <1>2 DEF Elem, Intervals
  <2>1. n + 1 \notin MayEnd(l, time, o)
    BY <1>1, <1>2
  <2>2. n + 1 \in 1..Len(l) /\ (n + 1) - 1 = n
    BY <1>1, <1>2
  <2> QED BY <2>1, <2>2 DEF MayEnd
<1> QED BY <1>1, <1>3, <1>4, <1>5, <1>6

(* push: the one element of an empty queue, the new front of the rest, or   *)
(* one more in front of what the window leaves.                             *)
LEMMA PushElements ==
    ASSUME NEW L, NEW l \in Seq(Elem(L)), NEW e \in Elem(L), NEW o, Intervals(o),
           NEW d, d = DelTimeout(l, e.unixNano, o), NEW p, p = Push(l, e, o)
    PROVE  \/ l = <<>> /\ Len(p) = 1 /\ p[1] = e
           \/ /\ l # <<>> /\ e.unixNano - l[1].unixNano < o.EndpointsSaveInterval
              /\ Len(p) = Len(d) /\ p[1].unixNano = l[1].unixNano
              /\ \A i \in 2..Len(d) : p[i] = d[i]
           \/ /\ l # <<>> /\ e.unixNano - l[1].unixNano >= o.EndpointsSaveInterval
              /\ Len(p) = Len(d) + 1 /\ p[1] = e
              /\ \A i \in 1..Len(d) : p[i + 1] = d[i]
<1>1. CASE l = <<>>
  <2>1. d = <<>>
    BY <1>1 DEF DelTimeout
  <2>2. p = <<e>> \o <<>>
    BY <2>1 DEF Push, Overwrites
  <2> QED BY <1>1, <2>2
<1>2. CASE l # <<>>
  <2>1. /\ d \in Seq(Elem(L)) /\ d # <<>> /\ Len(d) \in Nat /\ Len(d) >= 1
        /\ Head(d) = l[1] /\ l[1] \in Elem(L)
    <3>1. e.unixNano \in Int
      BY DEF Elem
    <3>2. d \in Seq(Elem(L)) /\ d # <<>> /\ Len(d) \in 1..Len(l) /\ d[1] = l[1]
      BY <1>2, <3>1, DelTimeoutElements, LenProperties
    <3>3. l[1] \in Elem(L)
      BY <1>2, ElementOfSeq, LenProperties, EmptySeq
    <3> QED BY <3>2, <3>3, LenProperties
  <2>2. CASE Overwrites(d, e, o)
    <3> DEFINE redated == [e EXCEPT !.unixNano = Front(d).unixNano]
    <3>1. redated.unixNano = l[1].unixNano
      BY <2>1 DEF Front, Elem
    <3>2. p = <<redated>> \o Tail(d)
      BY <2>2 DEF Push
    <3> HIDE DEF redated
    <3>3. /\ Tail(d) \in Seq(Elem(L)) /\ Len(Tail(d)) = Len(d) - 1
          /\ \A i \in 1..(Len(d) - 1) : Tail(d)[i] = d[i + 1]
      BY <2>1, HeadTailProperties
    <3>4. /\ Len(p) = Len(d) /\ p[1] = redated
          /\ \A i \in 1..(Len(d) - 1) : p[i + 1] = Tail(d)[i]
      BY <2>1, <3>2, <3>3
    <3>5. \A i \in 2..Len(d) : i - 1 \in 1..(Len(d) - 1) /\ (i - 1) + 1 = i
      BY <2>1
    <3>6. \A i \in 2..Len(d) : p[i] = d[i]
      <4> SUFFICES ASSUME NEW i \in 2..Len(d) PROVE p[i] = d[i]
        OBVIOUS
      <4> DEFINE j == i - 1
      <4>1. j \in 1..(Len(d) - 1) /\ j + 1 = i
        BY <3>5
      <4> HIDE DEF j
      <4> QED BY <3>3, <3>4, <4>1
    <3>7. e.unixNano - l[1].unixNano < o.EndpointsSaveInterval
      BY <2>1, <2>2 DEF Overwrites, Front
    <3> QED BY <1>2, <3>1, <3>4, <3>6, <3>7
  <2>3. CASE ~Overwrites(d, e, o)
    <3>1. p = <<e>> \o d
      BY <2>3 DEF Push
    <3>2. Len(p) = Len(d) + 1 /\ p[1] = e /\ \A i \in 1..Len(d) : p[i + 1] = d[i]
      BY <2>1, <3>1
    <3>3. ~(e.unixNano - l[1].unixNano < o.EndpointsSaveInterval)
      BY <2>1, <2>3 DEF Overwrites, Front
    <3>4. e.unixNano - l[1].unixNano >= o.EndpointsSaveInterval
      BY <2>1, <3>3 DEF Elem, Intervals
    <3> QED BY <1>2, <3>2, <3>4
  <2> QED BY <2>2, <2>3
<1> QED BY <1>1, <1>2

-----------------------------------------------------------------------------
(* Types, and the front the queues share                                    *)

LEMMA StampedType ==
    ASSUME TypeOK, NEW list \in List
    PROVE  Stamped(list) \in Elem(List)
BY DEF TypeOK, Stamped, Elem

LEMMA PushToKeeps ==
    ASSUME TypeOK, NEW queue \in Seq(Elem(List)), NEW list \in List, NEW o,
           PushTo(queue, list, o), UNCHANGED now
    PROVE  TypeOK' /\ SameFront'
<1>1. Stamped(list) \in Elem(List) /\ stable \in Seq(Elem(List))
  BY StampedType DEF TypeOK
<1>2. /\ history' = PushBoth(queue, stable, Stamped(list), o).history
      /\ stable' = PushBoth(queue, stable, Stamped(list), o).stable
  BY DEF PushTo
<1>3. /\ history' \in Seq(Elem(List)) /\ history' # <<>>
      /\ stable' \in Seq(Elem(List)) /\ stable' # <<>>
      /\ Front(history') = Front(stable')
  BY <1>1, <1>2, PushBothType
<1> QED BY <1>3 DEF TypeOK, SameFront

LEMMA InitKeeps == Init => TypeOK /\ SameFront
<1> SUFFICES ASSUME Init PROVE TypeOK /\ SameFront
  OBVIOUS
<1>1. now = 0 /\ now \in Nat
  BY DEF Init
<1>2. CASE history = <<>> /\ stable = <<>>
  BY <1>1, <1>2 DEF TypeOK, SameFront
<1>3. ASSUME NEW list \in InitialLists, NEW o \in Opts,
             LET elemInit == [unixNano |-> now - o.ThresholdContrastInterval, list |-> list]
                 queues == PushBoth(<<>>, <<>>, elemInit, o)
             IN  history = queues.history /\ stable = queues.stable
      PROVE  TypeOK /\ SameFront
  <2> DEFINE e == [unixNano |-> now - o.ThresholdContrastInterval, list |-> list]
  <2>1. e \in Elem(List) /\ <<>> \in Seq(Elem(List))
    BY <1>1, HistoryAssumption DEF HistoryAssumption, Elem
  <2>2. /\ history = PushBoth(<<>>, <<>>, e, o).history
        /\ stable = PushBoth(<<>>, <<>>, e, o).stable
    BY <1>3
  <2> HIDE DEF e
  <2>3. /\ history \in Seq(Elem(List)) /\ history # <<>>
        /\ stable \in Seq(Elem(List)) /\ stable # <<>>
        /\ Front(history) = Front(stable)
    BY <2>1, <2>2, PushBothType
  <2> QED BY <1>1, <2>3 DEF TypeOK, SameFront
<1> QED BY <1>2, <1>3 DEF Init

(* Trimming one queue or both takes nothing from their fronts.              *)
LEMMA TrimKeeps ==
    ASSUME TypeOK, SameFront, NEW o, Compare(o) \/ StartPing(o)
    PROVE  TypeOK' /\ SameFront'
<1>1. ASSUME NEW l \in Seq(Elem(List))
      PROVE  /\ Trim(l, now, o) \in Seq(Elem(List))
             /\ Trim(l, now, o) = <<>> <=> l = <<>>
             /\ l # <<>> => Front(Trim(l, now, o)) = Front(l)
  BY DelTimeoutType DEF Trim
<1>2. history \in Seq(Elem(List)) /\ stable \in Seq(Elem(List))
  BY DEF TypeOK
<1>3. CASE Compare(o)
  BY <1>1, <1>2, <1>3 DEF TypeOK, SameFront, Compare
<1>4. CASE StartPing(o)
  BY <1>1, <1>2, <1>4 DEF TypeOK, SameFront, StartPing
<1> QED BY <1>3, <1>4

LEMMA NextKeeps == TypeOK /\ SameFront /\ [Next]_vars => TypeOK' /\ SameFront'
<1> SUFFICES ASSUME TypeOK, SameFront, [Next]_vars PROVE TypeOK' /\ SameFront'
  OBVIOUS
<1>1. ASSUME NEW o \in Opts, Compare(o) \/ StartPing(o) PROVE TypeOK' /\ SameFront'
  BY <1>1, TrimKeeps
<1>2. ASSUME NEW list \in List, NEW o \in Opts, Accept(list, o) \/ Leave(list, o)
      PROVE  TypeOK' /\ SameFront'
  <2>1. history \in Seq(Elem(List)) /\ <<>> \in Seq(Elem(List))
    BY DEF TypeOK
  <2> QED BY <1>2, <2>1, PushToKeeps DEF Accept, Leave
<1>3. CASE Tick
  BY <1>3 DEF Tick, TypeOK, SameFront
<1>4. CASE UNCHANGED vars
  BY <1>4 DEF vars, TypeOK, SameFront
<1> QED BY <1>1, <1>2, <1>3, <1>4 DEF Next

(* The queues hold lists and timestamps.                                    *)
THEOREM HistoryTypes == Spec => []TypeOK
BY InitKeeps, NextKeeps, PTL DEF Spec

(* However updates, sessions and trims follow each other, the two queues    *)
(* start with the same element (push, reset, delTimeout).                   *)
THEOREM FrontIsShared == Spec => []SameFront
BY InitKeeps, NextKeeps, PTL DEF Spec

-----------------------------------------------------------------------------
(* Spacing and length, under one set of options                             *)

(* Any two elements are as far apart as their positions demand, the whole   *)
(* queue but its back fits the window, and nothing is dated in the future.  *)
(* With the distances only of neighbours, as in ArchivesAreSpaced, the      *)
(* length could not be bounded without an induction.                        *)
Spread(l, o) ==
    \A i, j \in 1..Len(l) : i < j =>
        l[i].unixNano - l[j].unixNano >= (j - i) * o.EndpointsSaveInterval

Archived(l, time, o) ==
    /\ Spread(l, o)
    /\ Len(l) > 1 =>
          l[1].unixNano - l[Len(l) - 1].unixNano <= o.ThresholdContrastInterval
    /\ Len(l) > 0 => l[1].unixNano <= time

LEMMA ElementsType ==
    ASSUME NEW l \in Seq(Elem(List))
    PROVE  Len(l) \in Nat /\ \A i \in 1..Len(l) : l[i].unixNano \in Int
<1>1. Len(l) \in Nat /\ \A i \in 1..Len(l) : l[i] \in Elem(List)
  BY ElementOfSeq, LenProperties
<1> QED BY <1>1 DEF Elem

(* Only the times of the elements matter.                                   *)
LEMMA SameTimesArchived ==
    ASSUME NEW l, NEW k, Len(l) \in Nat, Len(k) = Len(l),
           \A i \in 1..Len(l) : k[i].unixNano = l[i].unixNano,
           NEW time, NEW o, Archived(l, time, o)
    PROVE  Archived(k, time, o)
<1>1. Spread(k, o)
  BY DEF Archived, Spread
<1>2. Len(l) > 1 => 1 \in 1..Len(l) /\ Len(l) - 1 \in 1..Len(l)
  OBVIOUS
<1>3. Len(l) > 0 => 1 \in 1..Len(l)
  OBVIOUS
<1> QED BY <1>1, <1>2, <1>3 DEF Archived

(* delTimeout at a time no earlier than the front.                          *)
LEMMA DelTimeoutArchived ==
    ASSUME NEW l \in Seq(Elem(List)), l # <<>>, NEW time \in Int, NEW at \in Int,
           NEW o, Intervals(o), Archived(l, time, o), l[1].unixNano <= at
    PROVE  Archived(DelTimeout(l, at, o), time, o)
<1> DEFINE d == DelTimeout(l, at, o)
<1>1. /\ Len(d) \in 1..Len(l)
      /\ \A i \in 1..Len(d) : d[i] = l[i]
      /\ Len(d) > 1 => at - l[Len(d) - 1].unixNano <= o.ThresholdContrastInterval
  BY DelTimeoutElements
<1>2. Len(l) \in Nat /\ \A i \in 1..Len(l) : l[i].unixNano \in Int
  BY ElementsType
<1> HIDE DEF d
<1>3. Spread(d, o)
  <2>1. \A i \in 1..Len(d) : i \in 1..Len(l)
    BY <1>1, <1>2
  <2> QED BY <1>1, <2>1 DEF Archived, Spread
<1>4. Len(d) > 1 => d[1].unixNano - d[Len(d) - 1].unixNano <= o.ThresholdContrastInterval
  <2> SUFFICES ASSUME Len(d) > 1
               PROVE  d[1].unixNano - d[Len(d) - 1].unixNano <= o.ThresholdContrastInterval
    OBVIOUS
  <2>1. 1 \in 1..Len(d) /\ Len(d) - 1 \in 1..Len(d) /\ Len(d) - 1 \in 1..Len(l)
        /\ 1 \in 1..Len(l)
    BY <1>1, <1>2
  <2>2. d[1] = l[1] /\ d[Len(d) - 1] = l[Len(d) - 1]
    BY <1>1, <2>1
  <2>3. l[1].unixNano \in Int /\ l[Len(d) - 1].unixNano \in Int
    BY <1>2, <2>1
  <2>4. at - l[Len(d) - 1].unixNano <= o.ThresholdContrastInterval
    BY <1>1
  <2> QED BY <2>2, <2>3, <2>4 DEF Intervals
<1>5. d[1].unixNano <= time
  BY <1>1, <1>2 DEF Archived
<1> QED BY <1>3, <1>4, <1>5 DEF Archived, d

LEMMA OneMore ==
    ASSUME NEW n \in Int, NEW k \in Int
    PROVE  n * k \in Int /\ (n + 1) * k = n * k + k /\ 1 * k = k /\ 0 * k = 0
OBVIOUS

LEMMA Further ==
    ASSUME NEW a \in Int, NEW b \in Int, NEW c \in Int, NEW x \in Int, NEW y, NEW g \in Int,
           a - b >= g, b - c >= x, y = x + g
    PROVE  a - c >= y
OBVIOUS

(* push keeps a queue archived.                                             *)
LEMMA PushArchived ==
    ASSUME NEW l \in Seq(Elem(List)), NEW e \in Elem(List), NEW time \in Int,
           NEW o, Intervals(o), o.ThresholdContrastInterval >= 0,
           Archived(l, time, o), l # <<>> => l[1].unixNano <= e.unixNano, e.unixNano <= time
    PROVE  Archived(Push(l, e, o), time, o)
<1> DEFINE d == DelTimeout(l, e.unixNano, o)
           p == Push(l, e, o)
           gap == o.EndpointsSaveInterval
<1> SUFFICES Archived(p, time, o)
  OBVIOUS
<1>1. e.unixNano \in Int /\ gap \in Int
  BY DEF Elem, Intervals
<1>2. p \in Seq(Elem(List)) /\ p # <<>> /\ d \in Seq(Elem(List))
  BY PushType, DelTimeoutType
<1>3. /\ Len(p) \in Nat /\ \A i \in 1..Len(p) : p[i].unixNano \in Int
      /\ Len(d) \in Nat /\ \A i \in 1..Len(d) : d[i].unixNano \in Int
  BY <1>2, ElementsType
<1>4. \/ l = <<>> /\ Len(p) = 1 /\ p[1] = e
      \/ /\ l # <<>> /\ e.unixNano - l[1].unixNano < gap
         /\ Len(p) = Len(d) /\ p[1].unixNano = l[1].unixNano
         /\ \A i \in 2..Len(d) : p[i] = d[i]
      \/ /\ l # <<>> /\ e.unixNano - l[1].unixNano >= gap
         /\ Len(p) = Len(d) + 1 /\ p[1] = e
         /\ \A i \in 1..Len(d) : p[i + 1] = d[i]
  BY PushElements
<1>5. l # <<>> => /\ Archived(d, time, o) /\ Len(d) >= 1 /\ d[1] = l[1]
                  /\ Len(d) > 1 =>
                        e.unixNano - d[Len(d) - 1].unixNano <= o.ThresholdContrastInterval
  <2> SUFFICES ASSUME l # <<>>
               PROVE  /\ Archived(d, time, o) /\ Len(d) >= 1 /\ d[1] = l[1]
                      /\ Len(d) > 1 =>
                            e.unixNano - d[Len(d) - 1].unixNano
                               <= o.ThresholdContrastInterval
    OBVIOUS
  <2>1. Archived(d, time, o)
    BY <1>1, DelTimeoutArchived
  <2>2. /\ Len(d) \in 1..Len(l) /\ \A i \in 1..Len(d) : d[i] = l[i]
        /\ Len(d) > 1 =>
              e.unixNano - l[Len(d) - 1].unixNano <= o.ThresholdContrastInterval
    BY <1>1, DelTimeoutElements
  <2> HIDE DEF d
  <2>3. Len(d) > 1 => Len(d) - 1 \in 1..Len(d)
    BY <1>3
  <2> QED BY <2>1, <2>2, <2>3, <1>3
<1> HIDE DEF p, d
<1>6. CASE l = <<>>
  <2>1. Len(p) = 1 /\ p[1] = e
    BY <1>4, <1>6
  <2> QED BY <2>1 DEF Archived, Spread
<1>7. CASE l # <<>> /\ e.unixNano - l[1].unixNano < gap
  <2>1. Len(p) = Len(d) /\ \A i \in 1..Len(d) : p[i].unixNano = d[i].unixNano
    <3>1. \A i \in 1..Len(d) : i = 1 \/ i \in 2..Len(d)
      BY <1>3
    <3>2. /\ Len(p) = Len(d) /\ p[1].unixNano = l[1].unixNano
          /\ \A i \in 2..Len(d) : p[i] = d[i]
      <4>1. l[1].unixNano \in Int
        BY <1>3, <1>5, <1>7
      <4> QED BY <1>1, <1>4, <1>7, <4>1
    <3>3. d[1] = l[1]
      BY <1>5, <1>7
    <3> QED BY <3>1, <3>2, <3>3
  <2> QED BY <1>3, <1>5, <1>7, <2>1, SameTimesArchived
<1>8. CASE l # <<>> /\ e.unixNano - l[1].unixNano >= gap
  <2>1. /\ Len(p) = Len(d) + 1 /\ p[1] = e
        /\ \A i \in 1..Len(d) : p[i + 1] = d[i]
    <3>1. l[1].unixNano \in Int
      BY <1>3, <1>5, <1>8
    <3> QED BY <1>1, <1>4, <1>8, <3>1
  <2>2. \A i \in 2..Len(p) : i - 1 \in 1..Len(d) /\ p[i] = d[i - 1]
    <3>1. \A i \in 2..Len(p) : i - 1 \in 1..Len(d) /\ (i - 1) + 1 = i
      BY <1>3, <2>1
    <3> QED BY <2>1, <3>1
  <2>3. ASSUME NEW i \in 1..Len(p), NEW j \in 1..Len(p), i < j
        PROVE  p[i].unixNano - p[j].unixNano >= (j - i) * gap
    <3>1. j \in 2..Len(p) /\ i \in Int /\ j \in Int
      BY <1>3, <2>3
    <3>2. CASE i = 1
      <4>1. d[1].unixNano - d[j - 1].unixNano >= (j - 2) * gap
        <5>1. CASE j = 2
          BY <1>1, <1>3, <1>5, <1>8, <5>1, OneMore
        <5>2. CASE j > 2
          <6>1. 1 \in 1..Len(d) /\ j - 1 \in 1..Len(d) /\ 1 < j - 1 /\ (j - 1) - 1 = j - 2
            BY <1>3, <1>5, <1>8, <2>2, <3>1, <5>2
          <6> QED BY <1>5, <1>8, <6>1 DEF Archived, Spread
        <5> QED BY <3>1, <5>1, <5>2
      <4>2. e.unixNano - d[1].unixNano >= gap
        BY <1>5, <1>8
      <4>3. (j - 1) * gap = (j - 2) * gap + gap /\ (j - 2) * gap \in Int
        <5>1. j - 2 \in Int /\ (j - 2) + 1 = j - 1
          BY <3>1
        <5> QED BY <1>1, <5>1, OneMore
      <4>4. p[1].unixNano = e.unixNano /\ p[j].unixNano = d[j - 1].unixNano
            /\ d[1].unixNano \in Int /\ d[j - 1].unixNano \in Int
        BY <1>3, <1>5, <1>8, <2>1, <2>2, <3>1
      <4>5. e.unixNano - d[j - 1].unixNano >= (j - 1) * gap
        <5> DEFINE x == (j - 2) * gap
                   y == (j - 1) * gap
                   a == e.unixNano
                   b == d[1].unixNano
                   c == d[j - 1].unixNano
        <5>1. /\ x \in Int /\ y = x + gap /\ gap \in Int
              /\ a \in Int /\ b \in Int /\ c \in Int
              /\ a - b >= gap /\ b - c >= x
          BY <1>1, <4>1, <4>2, <4>3, <4>4
        <5> HIDE DEF x, y, a, b, c, gap
        <5>2. a - c >= y
          BY <5>1
        <5> QED BY <5>2 DEF y, a, c, gap
      <4> QED BY <3>2, <4>4, <4>5
    <3>3. CASE i # 1
      <4>1. i \in 2..Len(p)
        BY <1>3, <3>1, <3>3
      <4>2. i - 1 \in 1..Len(d) /\ j - 1 \in 1..Len(d) /\ i - 1 < j - 1
            /\ (j - 1) - (i - 1) = j - i
        BY <2>2, <2>3, <3>1, <4>1
      <4>3. d[i - 1].unixNano - d[j - 1].unixNano >= ((j - 1) - (i - 1)) * gap
        BY <1>5, <1>8, <4>2 DEF Archived, Spread
      <4> QED BY <2>2, <3>1, <4>1, <4>2, <4>3
    <3> QED BY <3>2, <3>3
  <2>4. p[1].unixNano - p[Len(p) - 1].unixNano <= o.ThresholdContrastInterval
    <3>1. CASE Len(d) = 1
      BY <1>1, <2>1, <3>1 DEF Intervals
    <3>2. CASE Len(d) > 1
      <4>1. Len(p) - 1 = Len(d) /\ Len(d) \in 2..Len(p)
        BY <1>3, <2>1, <3>2
      <4>2. p[Len(p) - 1] = d[Len(d) - 1]
        BY <2>2, <4>1
      <4>3. e.unixNano - d[Len(d) - 1].unixNano <= o.ThresholdContrastInterval
        BY <1>5, <1>8, <3>2
      <4> QED BY <1>1, <2>1, <4>2, <4>3, Zenon
    <3>3. Len(d) = 1 \/ Len(d) > 1
      <4>1. Len(d) \in Nat
        BY <1>3
      <4>2. Len(d) >= 1
        BY <1>5, <1>8
      <4>3. \A n \in Nat : n >= 1 => n = 1 \/ n > 1
        OBVIOUS
      <4> QED BY <4>1, <4>2, <4>3, Zenon
    <3> QED BY <3>1, <3>2, <3>3
  <2>5. p[1].unixNano <= time
    BY <2>1
  <2>6. Spread(p, o)
    BY <2>3 DEF Spread
  <2> QED BY <2>4, <2>5, <2>6 DEF Archived
<1>9. QED
  <2>1. l # <<>> => l[1].unixNano \in Int
    BY <1>3, <1>5
  <2> QED BY <1>1, <1>4, <1>6, <1>7, <1>8, <2>1

(* One element enters both queues: the second push leaves it the time the   *)
(* first gave it, so that also the first queue stays as its push left it.   *)
LEMMA PushBothArchived ==
    ASSUME NEW h \in Seq(Elem(List)), NEW s \in Seq(Elem(List)), NEW e \in Elem(List),
           NEW time \in Int, NEW o, Intervals(o), o.ThresholdContrastInterval >= 0,
           Archived(h, time, o), Archived(s, time, o),
           h # <<>> => s # <<>> /\ h[1] = s[1],
           s # <<>> => s[1].unixNano <= e.unixNano, e.unixNano <= time
    PROVE  /\ Archived(PushBoth(h, s, e, o).history, time, o)
           /\ Archived(PushBoth(h, s, e, o).stable, time, o)
<1> DEFINE p == Push(h, e, o)
           f == Front(p)
           q == PushSecond(h, s, e, o)
           n == <<Front(q)>> \o Tail(p)
<1>1. PushBoth(h, s, e, o) = [history |-> n, stable |-> q] /\ q = Push(s, f, o)
  BY DEF PushBoth, PushSecond
<1>2. /\ p \in Seq(Elem(List)) /\ p # <<>> /\ f \in Elem(List)
      /\ q \in Seq(Elem(List)) /\ q # <<>>
  BY PushType, <1>1
<1>3. f = p[1] /\ Front(q) = q[1]
  BY <1>2 DEF Front
<1>4. Len(n) = Len(p) /\ n[1] = q[1] /\ \A i \in 2..Len(p) : n[i] = p[i]
  <2> HIDE DEF p, q
  <2> DEFINE t == Tail(p)
  <2>1. /\ t \in Seq(Elem(List)) /\ Len(t) = Len(p) - 1
        /\ \A i \in 1..(Len(p) - 1) : t[i] = p[i + 1]
    BY <1>2, HeadTailProperties
  <2>2. Len(p) \in Nat /\ Len(p) >= 1
    BY <1>2, LenProperties, EmptySeq
  <2> HIDE DEF t
  <2>3. /\ Len(<<q[1]>> \o t) = Len(p) /\ (<<q[1]>> \o t)[1] = q[1]
        /\ \A i \in 1..(Len(p) - 1) : (<<q[1]>> \o t)[i + 1] = t[i]
    BY <2>1, <2>2
  <2>4. \A i \in 2..Len(p) : i - 1 \in 1..(Len(p) - 1) /\ (i - 1) + 1 = i
    BY <2>2
  <2> DEFINE m == <<q[1]>> \o t
  <2> HIDE DEF m
  <2>5. \A i \in 2..Len(p) : m[i] = p[i]
    BY <2>1, <2>3, <2>4 DEF m
  <2> QED BY <1>3, <2>3, <2>5 DEF m, t
<1> DEFINE gap == o.EndpointsSaveInterval
<1>5. \/ h = <<>> /\ Len(p) = 1 /\ p[1] = e
      \/ /\ h # <<>> /\ e.unixNano - h[1].unixNano < gap
         /\ p[1].unixNano = h[1].unixNano
      \/ /\ h # <<>> /\ e.unixNano - h[1].unixNano >= gap
         /\ p[1] = e
  BY PushElements
<1>6. \/ s = <<>> /\ q[1] = f
      \/ /\ s # <<>> /\ f.unixNano - s[1].unixNano < gap
         /\ q[1].unixNano = s[1].unixNano
      \/ /\ s # <<>> /\ f.unixNano - s[1].unixNano >= gap
         /\ q[1] = f
  BY <1>1, <1>2, PushElements
<1>7. /\ e.unixNano \in Int /\ gap \in Int /\ f.unixNano \in Int
      /\ s # <<>> => s[1].unixNano \in Int
  <2>1. s # <<>> => s[1] \in Elem(List)
    BY ElementOfSeq, LenProperties, EmptySeq
  <2> QED BY <1>2, <2>1 DEF Elem, Intervals
<1>8. Archived(p, time, o)
  BY PushArchived, <1>7
<1> HIDE DEF p, f, q, n, gap
<1>9. f.unixNano <= time /\ (s # <<>> => s[1].unixNano <= f.unixNano)
  BY <1>3, <1>5, <1>7, <1>8, LenProperties DEF Archived
<1>10. Archived(q, time, o)
  BY <1>1, <1>2, <1>9, PushArchived
<1>11. Archived(n, time, o)
  <2>1. CASE h = <<>>
    <3>1. Len(n) = 1 /\ n[1] = q[1]
      BY <1>4, <1>5, <2>1
    <3>2. Len(q) > 0
      BY <1>2, LenProperties, EmptySeq
    <3>3. n[1].unixNano <= time
      BY <1>10, <3>1, <3>2 DEF Archived
    <3> QED BY <3>1, <3>3 DEF Archived, Spread
  <2>2. CASE h # <<>>
    <3>1. n[1].unixNano = p[1].unixNano
      BY <1>3, <1>4, <1>5, <1>6, <1>7, <2>2
    <3>2. Len(p) \in Nat /\ Len(n) = Len(p)
      BY <1>2, <1>4, LenProperties
    <3>3. \A i \in 1..Len(p) : i = 1 \/ i \in 2..Len(p)
      BY <3>2
    <3>4. \A i \in 1..Len(p) : n[i].unixNano = p[i].unixNano
      BY <1>4, <3>1, <3>3
    <3> QED BY <1>8, <3>2, <3>4, SameTimesArchived
  <2> QED BY <2>1, <2>2
<1> QED BY <1>1, <1>10, <1>11

(* What is dated earlier than a window before now stays in a queue.         *)
LEMMA DelTimeoutKeepsOld ==
    ASSUME NEW l \in Seq(Elem(List)), NEW time \in Int, NEW at \in Int, at <= time,
           NEW o, Intervals(o), HasOld(l, time, o)
    PROVE  HasOld(DelTimeout(l, at, o), time, o)
<1> DEFINE d == DelTimeout(l, at, o)
           window == o.ThresholdContrastInterval
<1>1. PICK i \in 1..Len(l) : time - l[i].unixNano > window
  BY DEF HasOld
<1>2. Len(l) \in Nat /\ l # <<>> /\ \A k \in 1..Len(l) : l[k].unixNano \in Int
  BY <1>1, ElementsType
<1>3. /\ Len(d) \in 1..Len(l)
      /\ \A k \in 1..Len(d) : d[k] = l[k]
      /\ Len(d) < Len(l) => at - l[Len(d)].unixNano > window
  <2>1. /\ Len(d) \in 1..Len(l)
        /\ \A k \in 1..Len(d) : d[k] = l[k]
        /\ Len(d) < Len(l) =>
              at - l[Len(d)].unixNano > o.ThresholdContrastInterval
    BY <1>2, DelTimeoutElements
  <2> QED BY <2>1
<1> SUFFICES HasOld(d, time, o)
  OBVIOUS
<1> HIDE DEF d
<1>4. CASE Len(d) = Len(l)
  BY <1>1, <1>3, <1>4 DEF HasOld
<1>5. CASE Len(d) < Len(l)
  <2>1. Len(d) \in 1..Len(d) /\ Len(d) \in 1..Len(l)
    BY <1>2, <1>3
  <2>2. d[Len(d)] = l[Len(d)] /\ l[Len(d)].unixNano \in Int /\ window \in Int
    BY <1>2, <1>3, <2>1 DEF Intervals
  <2>3. time - d[Len(d)].unixNano > window
    BY <1>3, <1>5, <2>2
  <2> QED BY <2>1, <2>3 DEF HasOld
<1> QED BY <1>2, <1>3, <1>4, <1>5

LEMMA PushKeepsOld ==
    ASSUME NEW l \in Seq(Elem(List)), NEW e \in Elem(List), NEW time \in Int,
           e.unixNano <= time, NEW o, Intervals(o), HasOld(l, time, o)
    PROVE  HasOld(Push(l, e, o), time, o)
<1> DEFINE d == DelTimeout(l, e.unixNano, o)
           p == Push(l, e, o)
           window == o.ThresholdContrastInterval
<1>1. e.unixNano \in Int
  BY DEF Elem
<1>2. HasOld(d, time, o)
  BY <1>1, DelTimeoutKeepsOld
<1>3. PICK i \in 1..Len(d) : time - d[i].unixNano > window
  BY <1>2 DEF HasOld
<1>4. l # <<>>
  BY DEF HasOld
<1>5. Len(d) \in Nat /\ Len(p) \in Nat /\ d[1] = l[1]
  <2>1. Len(d) \in 1..Len(l) /\ \A k \in 1..Len(d) : d[k] = l[k]
    BY <1>1, <1>4, DelTimeoutElements
  <2>2. Len(l) \in Nat /\ p \in Seq(Elem(List))
    BY PushType, LenProperties
  <2> HIDE DEF d, p
  <2>3. Len(d) \in Nat /\ 1 \in 1..Len(d)
    BY <2>1, <2>2
  <2> QED BY <2>1, <2>2, <2>3, LenProperties
<1>6. \/ /\ Len(p) = Len(d) /\ p[1].unixNano = l[1].unixNano
         /\ \A k \in 2..Len(d) : p[k] = d[k]
      \/ Len(p) = Len(d) + 1 /\ \A k \in 1..Len(d) : p[k + 1] = d[k]
  <2>1. \/ l = <<>> /\ Len(p) = 1 /\ p[1] = e
        \/ /\ l # <<>> /\ e.unixNano - l[1].unixNano < o.EndpointsSaveInterval
           /\ Len(p) = Len(d) /\ p[1].unixNano = l[1].unixNano
           /\ \A k \in 2..Len(d) : p[k] = d[k]
        \/ /\ l # <<>> /\ e.unixNano - l[1].unixNano >= o.EndpointsSaveInterval
           /\ Len(p) = Len(d) + 1 /\ p[1] = e
           /\ \A k \in 1..Len(d) : p[k + 1] = d[k]
    BY PushElements
  <2> HIDE DEF d, p
  <2> QED BY <1>4, <2>1
<1> SUFFICES HasOld(p, time, o)
  OBVIOUS
<1> HIDE DEF d, p
<1>7. CASE /\ Len(p) = Len(d) /\ p[1].unixNano = l[1].unixNano
           /\ \A k \in 2..Len(d) : p[k] = d[k]
  <2>1. i = 1 \/ i \in 2..Len(d)
    BY <1>5
  <2>2. p[i].unixNano = d[i].unixNano
    BY <1>5, <1>7, <2>1
  <2> QED BY <1>3, <1>7, <2>2 DEF HasOld
<1>8. CASE Len(p) = Len(d) + 1 /\ \A k \in 1..Len(d) : p[k + 1] = d[k]
  <2>1. i + 1 \in 1..Len(p) /\ p[i + 1] = d[i]
    BY <1>5, <1>8
  <2> QED BY <1>3, <2>1 DEF HasOld
<1> QED BY <1>6, <1>7, <1>8

(* The intervals of one set of options judge every queue of a run, and the  *)
(* window is not negative: zero is replaced by a default (discovery.go).    *)
OneSetOfOptions ==
    /\ \A o, p \in Opts : o = p
    /\ \A o \in Opts : o.ThresholdContrastInterval >= 0

(* Both queues are archived: the inductive invariant of the three           *)
(* properties, beside their types and the front they share.                 *)
Archives == \A o \in Opts : Archived(history, now, o) /\ Archived(stable, now, o)

HInv == TypeOK /\ SameFront /\ Archives

LEMMA EmptyIsArchived ==
    ASSUME NEW time, NEW o
    PROVE  Archived(<<>>, time, o)
BY DEF Archived, Spread

LEMMA OptsIntervals == \A o \in Opts : Intervals(o)
BY HistoryAssumption DEF HistoryAssumption, Intervals

LEMMA LaterIsArchived ==
    ASSUME NEW l \in Seq(Elem(List)), NEW time \in Int, NEW later \in Int, time <= later,
           NEW o, Archived(l, time, o)
    PROVE  Archived(l, later, o)
<1>1. Len(l) > 0 => l[1].unixNano <= later
  <2> SUFFICES ASSUME Len(l) > 0 PROVE l[1].unixNano <= later
    OBVIOUS
  <2>1. l[1].unixNano \in Int /\ l[1].unixNano <= time
    BY ElementsType DEF Archived
  <2> QED BY <2>1
<1> QED BY <1>1 DEF Archived

(* Every list that enters does so no earlier than the front.                *)
LEMMA PushToArchives ==
    ASSUME OneSetOfOptions, HInv, NEW queue \in {<<>>, history}, NEW list \in List,
           NEW o \in Opts, PushTo(queue, list, o), UNCHANGED now
    PROVE  Archives'
<1>1. /\ Stamped(list) \in Elem(List) /\ Stamped(list).unixNano = now /\ now \in Int
      /\ stable \in Seq(Elem(List)) /\ queue \in Seq(Elem(List))
  <2>1. TypeOK
    BY DEF HInv
  <2>2. history \in Seq(Elem(List)) /\ <<>> \in Seq(Elem(List))
    BY <2>1 DEF TypeOK
  <2>3. stable \in Seq(Elem(List)) /\ now \in Int
    BY <2>1 DEF TypeOK
  <2>4. Stamped(list) \in Elem(List)
    BY <2>1, StampedType
  <2>5. Stamped(list).unixNano = now
    BY DEF Stamped
  <2> QED BY <2>2, <2>3, <2>4, <2>5
<1>2. Archived(queue, now, o) /\ Archived(stable, now, o)
  BY EmptyIsArchived DEF HInv, Archives
<1>3. queue # <<>> => stable # <<>> /\ queue[1] = stable[1]
  BY DEF HInv, SameFront, Front
<1>4. stable # <<>> => stable[1].unixNano <= now
  BY <1>1, <1>2, LenProperties, EmptySeq DEF Archived
<1>5. /\ Archived(PushBoth(queue, stable, Stamped(list), o).history, now, o)
      /\ Archived(PushBoth(queue, stable, Stamped(list), o).stable, now, o)
  <2>1. Intervals(o) /\ o.ThresholdContrastInterval >= 0 /\ now <= now
    BY <1>1, OptsIntervals DEF OneSetOfOptions
  <2>2. Stamped(list).unixNano <= now /\ (stable # <<>> => stable[1].unixNano <= Stamped(list).unixNano)
    BY <1>1, <1>4, <2>1
  <2> HIDE DEF Stamped
  <2> QED BY <1>1, <1>2, <1>3, <2>1, <2>2, PushBothArchived
<1>6. Archived(history', now', o) /\ Archived(stable', now', o)
  BY <1>5 DEF PushTo
<1> QED BY <1>6 DEF Archives, OneSetOfOptions

LEMMA TrimArchives ==
    ASSUME OneSetOfOptions, HInv, NEW o \in Opts, NEW l \in {history, stable}
    PROVE  Archived(Trim(l, now, o), now, o)
<1>1. l \in Seq(Elem(List)) /\ now \in Int /\ Archived(l, now, o) /\ Intervals(o)
  BY OptsIntervals DEF HInv, TypeOK, Archives
<1>2. CASE l = <<>>
  BY <1>1, <1>2 DEF Trim, DelTimeout
<1>3. CASE l # <<>>
  <2>1. l[1].unixNano <= now
    BY <1>1, <1>3, LenProperties, EmptySeq DEF Archived
  <2> QED BY <1>1, <1>3, <2>1, DelTimeoutArchived DEF Trim
<1> QED BY <1>2, <1>3

LEMMA InitArchives ==
    ASSUME OneSetOfOptions, Init
    PROVE  HInv
<1>1. TypeOK /\ SameFront
  BY InitKeeps
<1>2. ASSUME history = <<>> /\ stable = <<>> PROVE Archives
  <2>1. \A o \in Opts : Archived(<<>>, now, o)
    BY EmptyIsArchived
  <2> QED BY <1>2, <2>1 DEF Archives
<1>3. ASSUME NEW list \in InitialLists, NEW o \in Opts,
             LET elemInit == [unixNano |-> now - o.ThresholdContrastInterval, list |-> list]
                 queues == PushBoth(<<>>, <<>>, elemInit, o)
             IN  history = queues.history /\ stable = queues.stable
      PROVE  Archives
  <2> DEFINE e == [unixNano |-> now - o.ThresholdContrastInterval, list |-> list]
  <2>1. /\ now = 0 /\ Intervals(o) /\ o.ThresholdContrastInterval >= 0
    BY OptsIntervals DEF OneSetOfOptions, Init
  <2>2. e \in Elem(List) /\ e.unixNano <= now /\ now \in Int /\ <<>> \in Seq(Elem(List))
    BY <2>1, HistoryAssumption DEF HistoryAssumption, Elem, Intervals
  <2>3. /\ history = PushBoth(<<>>, <<>>, e, o).history
        /\ stable = PushBoth(<<>>, <<>>, e, o).stable
    BY <1>3
  <2> HIDE DEF e
  <2>4. Archived(<<>>, now, o)
    BY EmptyIsArchived
  <2>5. Archived(history, now, o) /\ Archived(stable, now, o)
    BY <2>1, <2>2, <2>3, <2>4, PushBothArchived
  <2> QED BY <2>5 DEF Archives, OneSetOfOptions
<1> QED BY <1>1, <1>2, <1>3 DEF Init, HInv

LEMMA NextArchives ==
    ASSUME OneSetOfOptions, HInv, [Next]_vars
    PROVE  HInv'
<1>1. TypeOK' /\ SameFront'
  BY NextKeeps DEF HInv
<1>2. ASSUME NEW o \in Opts, Compare(o) PROVE Archives'
  <2>1. Archived(history', now', o) /\ Archived(stable', now', o)
    BY <1>2, TrimArchives DEF Compare, HInv, Archives
  <2> QED BY <2>1 DEF Archives, OneSetOfOptions
<1>3. ASSUME NEW o \in Opts, StartPing(o) PROVE Archives'
  <2>1. Archived(history', now', o) /\ Archived(stable', now', o)
    BY <1>3, TrimArchives DEF StartPing
  <2> QED BY <2>1 DEF Archives, OneSetOfOptions
<1>4. ASSUME NEW list \in List, NEW o \in Opts, Accept(list, o) \/ Leave(list, o)
      PROVE  Archives'
  BY <1>4, PushToArchives DEF Accept, Leave
<1>5. ASSUME Tick PROVE Archives'
  <2>1. now \in Int /\ now' \in Int /\ now <= now'
        /\ history \in Seq(Elem(List)) /\ stable \in Seq(Elem(List))
    BY <1>5 DEF Tick, HInv, TypeOK
  <2>2. history' = history /\ stable' = stable
    BY <1>5 DEF Tick
  <2>3. ASSUME NEW o \in Opts
        PROVE  Archived(history', now', o) /\ Archived(stable', now', o)
    <3>1. Archived(history, now, o) /\ Archived(stable, now, o)
      BY DEF HInv, Archives
    <3>2. Archived(history, now', o) /\ Archived(stable, now', o)
      BY <2>1, <3>1, LaterIsArchived
    <3> QED BY <2>2, <3>2
  <2> QED BY <2>3 DEF Archives
<1>6. ASSUME UNCHANGED vars PROVE Archives'
  <2>1. history' = history /\ stable' = stable /\ now' = now
    BY <1>6 DEF vars
  <2>2. \A o \in Opts : Archived(history', now', o) /\ Archived(stable', now', o)
    BY <2>1 DEF HInv, Archives
  <2> QED BY <2>2 DEF Archives
<1> QED BY <1>1, <1>2, <1>3, <1>4, <1>5, <1>6 DEF Next, HInv

LEMMA ArchivesSuffice ==
    ASSUME OneSetOfOptions, HInv
    PROVE  ArchivesAreSpaced /\ ArchivesAreBounded
<1> SUFFICES ASSUME NEW o \in Opts, NEW l \in {history, stable}
             PROVE  /\ Spaced(l, o)
                    /\ o.EndpointsSaveInterval > 0 =>
                          (Len(l) - 2) * o.EndpointsSaveInterval
                             <= o.ThresholdContrastInterval
  BY DEF ArchivesAreSpaced, ArchivesAreBounded
<1> DEFINE gap == o.EndpointsSaveInterval
           window == o.ThresholdContrastInterval
<1>1. gap \in Int /\ window \in Int /\ window >= 0
  BY OptsIntervals DEF Intervals, OneSetOfOptions
<1>2. l \in Seq(Elem(List)) /\ Archived(l, now, o)
  BY DEF HInv, TypeOK, Archives
<1>3. Len(l) \in Nat /\ \A i \in 1..Len(l) : l[i].unixNano \in Int
  BY <1>2, ElementsType
<1>4. Spaced(l, o)
  <2> SUFFICES ASSUME NEW i \in 1..Len(l) - 1
               PROVE  l[i].unixNano - l[i + 1].unixNano >= gap
    BY DEF Spaced
  <2>1. i \in 1..Len(l) /\ i + 1 \in 1..Len(l) /\ i < i + 1 /\ (i + 1) - i = 1
    BY <1>3
  <2>2. l[i].unixNano - l[i + 1].unixNano >= ((i + 1) - i) * gap
    BY <1>2, <2>1 DEF Archived, Spread
  <2>3. ((i + 1) - i) * gap = gap
    BY <1>1, <2>1, OneMore
  <2> QED BY <2>2, <2>3
<1>5. ASSUME gap > 0 PROVE (Len(l) - 2) * gap <= window
  <2>1. CASE Len(l) > 2
    <3>1. /\ 1 \in 1..Len(l) /\ Len(l) - 1 \in 1..Len(l)
          /\ 1 < Len(l) - 1 /\ (Len(l) - 1) - 1 = Len(l) - 2 /\ Len(l) > 1
      BY <1>3, <2>1
    <3>2. l[1].unixNano - l[Len(l) - 1].unixNano >= (Len(l) - 2) * gap
      BY <1>2, <3>1 DEF Archived, Spread
    <3>3. l[1].unixNano - l[Len(l) - 1].unixNano <= window
      BY <1>2, <3>1 DEF Archived
    <3>4. l[1].unixNano - l[Len(l) - 1].unixNano \in Int /\ (Len(l) - 2) * gap \in Int
      <4>1. l[1].unixNano \in Int /\ l[Len(l) - 1].unixNano \in Int
        BY <1>3, <3>1
      <4>2. Len(l) - 2 \in Int
        BY <1>3
      <4> QED BY <1>1, <4>1, <4>2, OneMore
    <3> DEFINE between == l[1].unixNano - l[Len(l) - 1].unixNano
               x == (Len(l) - 2) * gap
    <3>5. between \in Int /\ x \in Int /\ between >= x /\ between <= window /\ window \in Int
      BY <1>1, <3>2, <3>3, <3>4
    <3> HIDE DEF between, x, window
    <3>6. x <= window
      BY <3>5
    <3> QED BY <3>6 DEF x
  <2>2. CASE Len(l) = 2
    BY <1>1, <2>2, OneMore
  <2>3. CASE Len(l) = 1
    BY <1>1, <1>5, <2>3
  <2>4. CASE Len(l) = 0
    BY <1>1, <1>5, <2>4
  <2>5. \A n \in Nat : n > 2 \/ n = 2 \/ n = 1 \/ n = 0
    OBVIOUS
  <2> QED BY <1>3, <2>1, <2>2, <2>3, <2>4, <2>5, Zenon
<1> QED BY <1>4, <1>5

(* What enters the stable queue is dated no later than now, so it pushes    *)
(* nothing out that now judges too young.                                   *)
LEMMA PushToKeepsOld ==
    ASSUME OneSetOfOptions, HInv, NEW queue \in {<<>>, history}, NEW list \in List,
           NEW o \in Opts, PushTo(queue, list, o), UNCHANGED now, HasOld(stable, now, o)
    PROVE  HasOld(stable', now', o)
<1> DEFINE e == Stamped(list)
           f == Front(Push(queue, e, o))
<1>1. e \in Elem(List) /\ e.unixNano = now /\ now \in Int
  <2>1. TypeOK
    BY DEF HInv
  <2>2. e \in Elem(List)
    BY <2>1, StampedType
  <2>3. e.unixNano = now
    BY DEF Stamped
  <2>4. now \in Int
    BY <2>1 DEF TypeOK
  <2> QED BY <2>2, <2>3, <2>4
<1>2. queue \in Seq(Elem(List)) /\ stable \in Seq(Elem(List)) /\ Archived(queue, now, o)
  <2>1. history \in Seq(Elem(List)) /\ stable \in Seq(Elem(List)) /\ <<>> \in Seq(Elem(List))
    BY DEF HInv, TypeOK
  <2>2. Archived(history, now, o) /\ Archived(<<>>, now, o)
    BY EmptyIsArchived DEF HInv, Archives
  <2> QED BY <2>1, <2>2
<1>3. Intervals(o) /\ o.ThresholdContrastInterval >= 0
  BY OptsIntervals DEF OneSetOfOptions
<1>4. queue # <<>> => queue[1].unixNano <= e.unixNano
  BY <1>1, <1>2, LenProperties, EmptySeq DEF Archived
<1>5. f \in Elem(List) /\ f.unixNano <= now
  <2> DEFINE p == Push(queue, e, o)
  <2>1. p \in Seq(Elem(List)) /\ p # <<>> /\ Front(p) \in Elem(List)
    BY <1>1, <1>2, PushType
  <2>2. Archived(p, now, o)
    BY <1>1, <1>2, <1>3, <1>4, PushArchived
  <2> HIDE DEF p
  <2>3. p[1].unixNano <= now
    BY <2>1, <2>2, LenProperties, EmptySeq DEF Archived
  <2> QED BY <2>1, <2>3 DEF Front, p
<1>6. stable' = Push(stable, f, o)
  BY DEF PushTo, PushBoth, PushSecond
<1> HIDE DEF f
<1>7. HasOld(Push(stable, f, o), now, o)
  BY <1>1, <1>2, <1>3, <1>5, PushKeepsOld
<1> QED BY <1>6, <1>7

LEMMA NextKeepsOld ==
    ASSUME OneSetOfOptions, HInv, [Next]_vars, NEW o \in Opts, HasOld(stable, now, o)
    PROVE  HasOld(stable', now', o)
<1>1. /\ stable \in Seq(Elem(List)) /\ now \in Int /\ Intervals(o) /\ now <= now
  BY OptsIntervals DEF HInv, TypeOK
<1>2. ASSUME NEW p \in Opts, Compare(p) \/ StartPing(p) PROVE HasOld(stable', now', o)
  <2>1. p = o
    BY DEF OneSetOfOptions
  <2>2. HasOld(DelTimeout(stable, now, o), now, o)
    BY <1>1, DelTimeoutKeepsOld
  <2> QED BY <1>2, <2>1, <2>2 DEF Compare, StartPing, Trim
<1>3. ASSUME NEW list \in List, NEW p \in Opts, Accept(list, p) \/ Leave(list, p)
      PROVE  HasOld(stable', now', o)
  <2>1. p = o
    BY DEF OneSetOfOptions
  <2> QED BY <1>3, <2>1, PushToKeepsOld DEF Accept, Leave
<1>4. CASE Tick
  <2>1. PICK i \in 1..Len(stable) : now - stable[i].unixNano > o.ThresholdContrastInterval
    BY DEF HasOld
  <2>2. stable[i].unixNano \in Int /\ o.ThresholdContrastInterval \in Int
    BY <1>1, ElementsType DEF Intervals
  <2>3. stable' = stable /\ now' = now + 1
    BY <1>4 DEF Tick
  <2>4. (now + 1) - stable[i].unixNano > o.ThresholdContrastInterval
    BY <1>1, <2>1, <2>2
  <2> QED BY <2>3, <2>4 DEF HasOld
<1>5. CASE UNCHANGED vars
  BY <1>5 DEF vars
<1> QED BY <1>2, <1>3, <1>4, <1>5 DEF Next

LEMMA SpecArchives == ASSUME OneSetOfOptions PROVE Spec => []HInv
BY InitArchives, NextArchives, PTL DEF Spec

(* Archived lists are EndpointsSaveInterval apart, although each element    *)
(* sits in two queues that are emptied and trimmed separately (push).       *)
THEOREM ArchivesAlwaysSpaced ==
    ASSUME OneSetOfOptions
    PROVE  Spec => []ArchivesAreSpaced
BY SpecArchives, ArchivesSuffice, PTL

(* The queues never outgrow the window divided by the interval (push,       *)
(* delTimeout), however long the service runs.                              *)
THEOREM ArchivesAlwaysBounded ==
    ASSUME OneSetOfOptions
    PROVE  Spec => []ArchivesAreBounded
BY SpecArchives, ArchivesSuffice, PTL

(* Once stable holds a list older than the window it always does            *)
(* (delTimeout, looplist.go).                                               *)
THEOREM OldDatumAlwaysKept ==
    ASSUME OneSetOfOptions
    PROVE  Spec => OldDatumIsKept
<1>1. HInv /\ [Next]_vars
         => [\A o \in Opts : HasOld(stable, now, o) => HasOld(stable', now', o)]_vars
  BY NextKeepsOld
<1> QED BY <1>1, SpecArchives, PTL DEF Spec, OldDatumIsKept

=============================================================================
