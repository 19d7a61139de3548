--------------------------- MODULE TradeSeqProofs ---------------------------
(***************************************************************************)
(* Facts about sequences of trades, for every sequence of numbers, and     *)
(* induction over numbers in a form the provers can use.                   *)
(***************************************************************************)
EXTENDS TradeSeq, SequenceTheorems, WellFoundedInduction, TLAPS

(* Any set of numbers that is not empty has a smallest one.                *)
LEMMA Least ==
    ASSUME NEW T, T \subseteq Nat, T # {}
    PROVE  \E m \in T : \A k \in T : m <= k
<1>1. IsWellFoundedOn({ss \in Nat \X Nat : ss[1] < ss[2]}, Nat)
  BY NatLessThanWellFounded DEF OpToRel
<1>2. PICK m \in T : \A k \in T : <<k, m>> \notin {ss \in Nat \X Nat : ss[1] < ss[2]}
  BY <1>1, WFMin
<1>3. ASSUME NEW k \in T PROVE m <= k
  <2>1. m \in Nat /\ k \in Nat
    OBVIOUS
  <2>2. CASE k < m
    <3>1. <<k, m>> \in {ss \in Nat \X Nat : ss[1] < ss[2]}
      BY <2>1, <2>2
    <3> QED
      BY <1>2, <3>1
  <2> QED
    BY <2>1, <2>2
<1> QED
  BY <1>3

(* Induction over the numbers, for a set of them: the form in which it     *)
(* needs no operator for a parameter.                                      *)
LEMMA NatSetInduction ==
    ASSUME NEW S, 0 \in S, \A n \in Nat : n \in S => n + 1 \in S
    PROVE  \A n \in Nat : n \in S
<1> SUFFICES ASSUME NEW n \in Nat, n \notin S PROVE FALSE
  OBVIOUS
<1>1. PICK m \in Nat \ S : \A k \in Nat \ S : m <= k
  <2> DEFINE T == Nat \ S
  <2>1. T \subseteq Nat /\ T # {}
    OBVIOUS
  <2> HIDE DEF T
  <2>2. \E m \in T : \A k \in T : m <= k
    BY <2>1, Least
  <2> QED
    BY <2>2 DEF T
<1>2. m - 1 \in Nat /\ m - 1 + 1 = m
  BY <1>1
<1>3. m - 1 \in S
  BY <1>1, <1>2
<1> QED
  BY <1>1, <1>2, <1>3

(* The trades of a concatenation are those of its parts.                   *)
LEMMA IdsConcat ==
    ASSUME NEW s \in Seq(Nat), NEW t \in Seq(Nat)
    PROVE  Ids(s \o t) = Ids(s) \cup Ids(t)
<1>1. /\ Len(s \o t) = Len(s) + Len(t)
      /\ \A i \in 1..Len(s) + Len(t) :
            (s \o t)[i] = IF i <= Len(s) THEN s[i] ELSE t[i - Len(s)]
  BY ConcatProperties
<1>2. Len(s) \in Nat /\ Len(t) \in Nat
  OBVIOUS
<1>3. Ids(s \o t) \subseteq Ids(s) \cup Ids(t)
  BY <1>1, <1>2 DEF Ids
<1>4. Ids(s) \subseteq Ids(s \o t)
  <2> SUFFICES ASSUME NEW n \in Ids(s) PROVE n \in Ids(s \o t)
    OBVIOUS
  <2>1. PICK i \in 1..Len(s) : n = s[i]
    BY DEF Ids
  <2>2. i \in 1..Len(s \o t) /\ (s \o t)[i] = n
    BY <1>1, <1>2, <2>1
  <2> QED
    BY <2>2 DEF Ids
<1>5. Ids(t) \subseteq Ids(s \o t)
  <2> SUFFICES ASSUME NEW n \in Ids(t) PROVE n \in Ids(s \o t)
    OBVIOUS
  <2>1. PICK i \in 1..Len(t) : n = t[i]
    BY DEF Ids
  <2>2. Len(s) + i \in 1..Len(s \o t) /\ (s \o t)[Len(s) + i] = n
    BY <1>1, <1>2, <2>1
  <2> QED
    BY <2>2 DEF Ids
<1> QED
  BY <1>3, <1>4, <1>5

(* Appending adds one trade.                                               *)
LEMMA IdsAppend ==
    ASSUME NEW s \in Seq(Nat), NEW x \in Nat
    PROVE  Ids(Append(s, x)) = Ids(s) \cup {x}
<1>1. /\ Len(Append(s, x)) = Len(s) + 1
      /\ \A i \in 1..Len(s) : Append(s, x)[i] = s[i]
      /\ Append(s, x)[Len(s) + 1] = x
  BY AppendProperties
<1>2. Len(s) \in Nat
  OBVIOUS
<1> DEFINE a == Append(s, x)
<1> HIDE DEF a
<1>3. Len(a) = Len(s) + 1 /\ (\A i \in 1..Len(s) : a[i] = s[i]) /\ a[Len(s) + 1] = x
  BY <1>1 DEF a
<1>4. Ids(a) = Ids(s) \cup {x}
  <2>1. Ids(a) \subseteq Ids(s) \cup {x}
    BY <1>2, <1>3 DEF Ids
  <2>2. Ids(s) \subseteq Ids(a)
    BY <1>2, <1>3 DEF Ids
  <2>3. x \in Ids(a)
    <3>1. Len(s) + 1 \in 1..Len(a)
      BY <1>2, <1>3
    <3> QED
      BY <1>3, <3>1 DEF Ids
  <2> QED
    BY <2>1, <2>2, <2>3
<1> QED
  BY <1>4 DEF a

(* Taking the head leaves the other trades; in an increasing sequence they *)
(* are newer.                                                              *)
LEMMA HeadAndTail ==
    ASSUME NEW s \in Seq(Nat), s # <<>>
    PROVE  /\ Tail(s) \in Seq(Nat)
           /\ Head(s) \in Ids(s)
           /\ Ids(s) = {Head(s)} \cup Ids(Tail(s))
           /\ Increasing(s) => /\ Increasing(Tail(s))
                               /\ Before({Head(s)}, Ids(Tail(s)))
<1> DEFINE t == Tail(s)
<1>1. /\ t \in Seq(Nat)
      /\ Len(s) \in Nat \ {0}
      /\ Len(t) = Len(s) - 1
      /\ \A i \in 1..Len(t) : t[i] = s[i + 1]
      /\ Head(s) = s[1]
  BY HeadTailProperties, LenProperties
<1> HIDE DEF t
<1>2. 1 \in 1..Len(s)
  BY <1>1
<1>3. Head(s) \in Ids(s)
  BY <1>1, <1>2 DEF Ids
<1>4. Ids(t) \subseteq Ids(s)
  BY <1>1 DEF Ids
<1>5. Ids(s) \subseteq {Head(s)} \cup Ids(t)
  <2> SUFFICES ASSUME NEW n \in Ids(s) PROVE n \in {Head(s)} \cup Ids(t)
    OBVIOUS
  <2>1. PICK i \in 1..Len(s) : n = s[i]
    BY DEF Ids
  <2>2. CASE i = 1
    BY <1>1, <2>1, <2>2
  <2>3. CASE i > 1
    <3>1. i - 1 \in 1..Len(t) /\ t[i - 1] = n
      BY <1>1, <2>1, <2>3
    <3> QED
      BY <3>1 DEF Ids
  <2> QED
    BY <1>1, <2>2, <2>3
<1>6. ASSUME Increasing(s)
      PROVE  Increasing(t) /\ Before({Head(s)}, Ids(t))
  <2>1. \A i \in 1..Len(t) : i + 1 \in 1..Len(s) /\ t[i] = s[i + 1]
    BY <1>1
  <2>2. Increasing(t)
    <3> SUFFICES ASSUME NEW i \in 1..Len(t), NEW j \in 1..Len(t), i < j
                 PROVE  t[i] < t[j]
      BY DEF Increasing
    <3>1. s[i + 1] < s[j + 1]
      BY <1>6, <2>1 DEF Increasing
    <3> QED
      BY <2>1, <3>1
  <2>3. \A i \in 1..Len(t) : Head(s) < t[i]
    BY <1>1, <1>2, <1>6, <2>1 DEF Increasing
  <2> QED
    BY <2>2, <2>3 DEF Before, Ids
<1> QED
  BY <1>1, <1>3, <1>4, <1>5, <1>6 DEF t

(* An increasing sequence continued by a newer trade is increasing.        *)
LEMMA IncreasingAppend ==
    ASSUME NEW s \in Seq(Nat), NEW x \in Nat,
           Increasing(s), Before(Ids(s), {x})
    PROVE  Increasing(Append(s, x))
<1>1. /\ Len(Append(s, x)) = Len(s) + 1
      /\ \A i \in 1..Len(s) : Append(s, x)[i] = s[i]
      /\ Append(s, x)[Len(s) + 1] = x
  BY AppendProperties
<1>2. Len(s) \in Nat
  OBVIOUS
<1>3. \A i \in 1..Len(s) : s[i] < x
  BY DEF Before, Ids
<1> QED
  BY <1>1, <1>2, <1>3 DEF Increasing

(* The same for sequences that may repeat a trade.                         *)
LEMMA NonDecreasingAppend ==
    ASSUME NEW s \in Seq(Nat), NEW x \in Nat,
           NonDecreasing(s), \A m \in Ids(s) : m <= x
    PROVE  NonDecreasing(Append(s, x))
<1>1. /\ Len(Append(s, x)) = Len(s) + 1
      /\ \A i \in 1..Len(s) : Append(s, x)[i] = s[i]
      /\ Append(s, x)[Len(s) + 1] = x
  BY AppendProperties
<1>2. Len(s) \in Nat
  OBVIOUS
<1>3. \A i \in 1..Len(s) : s[i] <= x
  BY DEF Ids
<1> QED
  BY <1>1, <1>2, <1>3 DEF NonDecreasing

(* An increasing sequence continued by newer trades in order is increasing.*)
LEMMA IncreasingConcat ==
    ASSUME NEW s \in Seq(Nat), NEW t \in Seq(Nat),
           Increasing(s), Increasing(t), Before(Ids(s), Ids(t))
    PROVE  Increasing(s \o t) /\ Extends(s \o t, s)
<1>1. /\ Len(s \o t) = Len(s) + Len(t)
      /\ \A i \in 1..Len(s) + Len(t) :
            (s \o t)[i] = IF i <= Len(s) THEN s[i] ELSE t[i - Len(s)]
  BY ConcatProperties
<1>2. Len(s) \in Nat /\ Len(t) \in Nat
  OBVIOUS
<1>3. \A i \in 1..Len(s), j \in 1..Len(t) : s[i] < t[j]
  BY DEF Before, Ids
<1>4. Increasing(s \o t)
  <2> SUFFICES ASSUME NEW i \in 1..Len(s) + Len(t), NEW j \in 1..Len(s) + Len(t),
                      i < j
               PROVE  (s \o t)[i] < (s \o t)[j]
    BY <1>1 DEF Increasing
  <2>1. CASE j <= Len(s)
    BY <1>1, <1>2, <2>1 DEF Increasing
  <2>2. CASE i <= Len(s) /\ j > Len(s)
    <3>1. j - Len(s) \in 1..Len(t)
      BY <1>2, <2>2
    <3> QED
      BY <1>1, <1>2, <1>3, <2>2, <3>1
  <2>3. CASE i > Len(s)
    <3>1. i - Len(s) \in 1..Len(t) /\ j - Len(s) \in 1..Len(t)
          /\ i - Len(s) < j - Len(s)
      BY <1>2, <2>3
    <3>2. t[i - Len(s)] < t[j - Len(s)]
      BY <3>1 DEF Increasing
    <3> QED
      BY <1>1, <1>2, <2>3, <3>2
  <2> QED
    BY <1>2, <2>1, <2>2, <2>3
<1>5. Extends(s \o t, s)
  BY <1>1, <1>2 DEF Extends
<1> QED
  BY <1>4, <1>5

(* The empty sequence holds no trade and is in order.                      *)
LEMMA EmptyFacts ==
    /\ Ids(<<>>) = {}
    /\ Increasing(<<>>)
    /\ NonDecreasing(<<>>)
    /\ <<>> \in Seq(Nat)
  BY DEF Ids, Increasing, NonDecreasing
=============================================================================
