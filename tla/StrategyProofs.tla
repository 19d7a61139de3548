--------------------------- MODULE StrategyProofs ---------------------------
(***************************************************************************)
(* Proofs about the moving-average strategy and what runs it: the backtest *)
(* and its file, the chip of the web page, and the session of the          *)
(* Streamlit page that polls prices; for all window lengths, prices and    *)
(* bounds.  First what on_trade does to any strategy.                      *)
(***************************************************************************)
EXTENDS CsvReplay, Polling, TradeSeqProofs, FiniteSetTheorems

(* A deque keeps its element type and never outgrows its maxlen.           *)
LEMMA PushType ==
    ASSUME NEW S, NEW w \in Seq(S), NEW x \in S, NEW m \in Nat \ {0}, Len(w) <= m
    PROVE  /\ Push(w, x, m) \in Seq(S)
           /\ Len(Push(w, x, m)) <= m
  BY SMTT(30) DEF Push

(* Which average is above is a truth value (moving_average.py:32).         *)
LEMMA AboveIsBoolean ==
    ASSUME NEW f, NEW s
    PROVE  AvgAbove(f, s) \in BOOLEAN
  BY DEF AvgAbove

\* w holds the last prices of p, m of them or all.
Latest(w, p, m) ==
    /\ Len(w) = IF Len(p) < m THEN Len(p) ELSE m
    /\ \A i \in 1..Len(w) : w[i] = p[Len(p) - Len(w) + i]

(* A deque with a maxlen holds the last trades of the replay.              *)
LEMMA PushLatest ==
    ASSUME NEW S, NEW p \in Seq(S), NEW w \in Seq(S), NEW x \in S,
           NEW m \in Nat \ {0}, Latest(w, p, m)
    PROVE  Latest(Push(w, x, m), Append(p, x), m)
<1> DEFINE q == Append(p, x)
<1>1. /\ q \in Seq(S) /\ Len(q) = Len(p) + 1 /\ Len(p) \in Nat /\ Len(w) \in Nat
      /\ \A i \in 1..Len(p) : q[i] = p[i]
      /\ q[Len(p) + 1] = x
  BY AppendProperties, LenProperties
<1> HIDE DEF q
<1>2. CASE Len(w) # m
  <2> DEFINE v == Append(w, x)
  <2>1. /\ Len(v) = Len(w) + 1
        /\ \A i \in 1..Len(w) : v[i] = w[i]
        /\ v[Len(w) + 1] = x
    BY AppendProperties
  <2> HIDE DEF v
  <2>2. Len(w) = Len(p) /\ Len(p) < m
    BY <1>1, <1>2 DEF Latest
  <2>3. \A i \in 1..Len(v) : v[i] = q[Len(q) - Len(v) + i]
    BY <1>1, <2>1, <2>2 DEF Latest
  <2>4. Latest(v, q, m)
    BY <1>1, <2>1, <2>2, <2>3 DEF Latest
  <2> QED
    BY <1>2, <2>4 DEF Push, q, v
<1>3. CASE Len(w) = m
  <2> DEFINE t == Tail(w)
             v == Append(t, x)
  <2>0. w # <<>>
    BY <1>3
  <2>1. t \in Seq(S) /\ Len(t) = m - 1 /\ \A i \in 1..Len(t) : t[i] = w[i + 1]
    BY <1>3, <2>0, HeadTailProperties
  <2> HIDE DEF t
  <2>2. /\ Len(v) = Len(t) + 1
        /\ \A i \in 1..Len(t) : v[i] = t[i]
        /\ v[Len(t) + 1] = x
    BY <2>1, AppendProperties
  <2> HIDE DEF v
  <2>3. Len(p) >= m
    BY <1>1, <1>3 DEF Latest
  <2>4. \A i \in 1..Len(v) : v[i] = q[Len(q) - Len(v) + i]
    <3> SUFFICES ASSUME NEW i \in 1..Len(v) PROVE v[i] = q[Len(q) - Len(v) + i]
      OBVIOUS
    <3>1. CASE i = m
      BY <1>1, <2>1, <2>2, <3>1
    <3>2. CASE i < m
      <4>1. v[i] = w[i + 1] /\ i + 1 \in 1..Len(w)
        BY <1>3, <2>1, <2>2, <3>2
      <4>2. w[i + 1] = p[Len(p) - m + (i + 1)]
        BY <1>3, <4>1 DEF Latest
      <4>3. Len(q) - Len(v) + i = Len(p) - m + (i + 1) /\ Len(p) - m + (i + 1) \in 1..Len(p)
        BY <1>1, <2>1, <2>2, <2>3, <3>2
      <4> QED
        BY <1>1, <4>1, <4>2, <4>3
    <3> QED
      BY <2>1, <2>2, <3>1, <3>2
  <2>5. Latest(v, q, m)
    BY <1>1, <2>1, <2>2, <2>3, <2>4 DEF Latest
  <2> QED
    BY <1>3, <2>5 DEF Push, q, v, t
<1> QED
  BY <1>2, <1>3

(* A full window is the end of the history.                                *)
LEMMA FullWindow ==
    ASSUME NEW S, NEW p \in Seq(S), NEW w \in Seq(S), NEW m \in Nat \ {0},
           Latest(w, p, m), Len(p) >= m
    PROVE  w = SubSeq(p, Len(p) - m + 1, Len(p))
<1>1. Len(p) \in Nat /\ Len(w) = m
  BY LenProperties DEF Latest
<1>2. \A i \in Len(p) - m + 1..Len(p) : p[i] \in S
  BY <1>1
<1> DEFINE e == SubSeq(p, Len(p) - m + 1, Len(p))
<1>3. /\ e \in Seq(S) /\ Len(e) = m
      /\ \A i \in 1..m : e[i] = p[Len(p) - m + i]
  <2>1. Len(p) - m + 1 \in Int /\ Len(p) \in Int /\ Len(p) - (Len(p) - m + 1) + 1 = m
        /\ Len(p) - m + 1 <= Len(p)
    BY <1>1
  <2>2. /\ e \in Seq(S) /\ Len(e) = m
        /\ \A i \in 1..m : e[i] = p[Len(p) - m + 1 + i - 1]
    BY <1>2, <2>1, SubSeqProperties
  <2>3. \A i \in 1..m : Len(p) - m + 1 + i - 1 = Len(p) - m + i
    BY <1>1
  <2> QED
    BY <2>2, <2>3
<1> HIDE DEF e
<1>4. \A i \in 1..m : w[i] = p[Len(p) - m + i]
  BY <1>1 DEF Latest
<1>5. w = e
  BY <1>1, <1>3, <1>4, SeqEqual
<1> QED
  BY <1>5 DEF e

(* A price that comes later changes no earlier window.                     *)
LEMMA RecentStays ==
    ASSUME NEW S, NEW p \in Seq(S), NEW x \in S, NEW k \in 1..Len(p), NEW m \in 1..k
    PROVE  SubSeq(Append(p, x), k - m + 1, k) = SubSeq(p, k - m + 1, k)
<1> DEFINE q == Append(p, x)
<1>1. /\ q \in Seq(S) /\ Len(q) = Len(p) + 1 /\ Len(p) \in Nat
      /\ \A i \in 1..Len(p) : q[i] = p[i]
  BY AppendProperties, LenProperties
<1> HIDE DEF q
<1>2. k - m + 1 \in 1..k /\ k \in Int /\ k - m + 1 <= k
  OBVIOUS
<1>3. \A i \in k - m + 1..k : p[i] \in S /\ q[i] = p[i]
  BY <1>1, <1>2
<1> DEFINE a == SubSeq(q, k - m + 1, k)
           b == SubSeq(p, k - m + 1, k)
<1>4. /\ a \in Seq(S) /\ b \in Seq(S) /\ Len(a) = Len(b)
      /\ \A i \in 1..Len(a) : a[i] = q[k - m + 1 + i - 1]
      /\ \A i \in 1..Len(a) : b[i] = p[k - m + 1 + i - 1]
      /\ Len(a) = k - (k - m + 1) + 1
  BY <1>2, <1>3, SubSeqProperties
<1> HIDE DEF a, b
<1>5. ASSUME NEW i \in 1..Len(a) PROVE a[i] = b[i]
  <2>1. k - m + 1 + i - 1 \in k - m + 1..k
    BY <1>2, <1>4
  <2> QED
    BY <1>3, <1>4, <2>1
<1>6. a = b
  BY <1>4, <1>5, SeqEqual
<1> QED
  BY <1>6 DEF a, b, q

(* What was decided, and which way, and what was a cross, stays so.        *)
LEMMA DecidedStays ==
    ASSUME NEW p \in Seq(Price), NEW x \in Price, NEW k \in 1..Len(p)
    PROVE  /\ Decided(Append(p, x), k) <=> Decided(p, k)
           /\ Decided(p, k) => AboveAt(Append(p, x), k) = AboveAt(p, k)
<1> USE StrategyAssumption
<1>1. CASE k < Slow
  BY <1>1 DEF Decided
<1>2. CASE k >= Slow
  <2>1. Fast \in 1..k /\ Slow \in 1..k
    BY <1>2
  <2>2. /\ Recent(Append(p, x), k, Fast) = Recent(p, k, Fast)
        /\ Recent(Append(p, x), k, Slow) = Recent(p, k, Slow)
    BY <2>1, RecentStays DEF Recent
  <2> QED
    BY <2>2 DEF Decided, AboveAt
<1> QED
  BY <1>1, <1>2

(* A later price makes no earlier trade a cross, and unmakes none.         *)
LEMMA CrossStays ==
    ASSUME NEW p \in Seq(Price), NEW x \in Price, NEW k \in 1..Len(p)
    PROVE  /\ CrossAt(Append(p, x), k) <=> CrossAt(p, k)
           /\ CrossAt(p, k) => SideAt(Append(p, x), k) = SideAt(p, k)
<1> DEFINE q == Append(p, x)
<1>1. k \in Nat /\ Len(p) \in Nat /\ k \in 1..k
  OBVIOUS
<1>2. \A j \in 1..k : /\ Decided(q, j) <=> Decided(p, j)
                      /\ Decided(p, j) => AboveAt(q, j) = AboveAt(p, j)
  BY <1>1, DecidedStays
<1> HIDE DEF q
<1>3. ASSUME Decided(p, k), NEW j \in 1..k - 1
      PROVE  /\ (Decided(q, j) /\ \A i \in j + 1..k - 1 : ~Decided(q, i))
                   <=> (Decided(p, j) /\ \A i \in j + 1..k - 1 : ~Decided(p, i))
             /\ Decided(p, j) => (AboveAt(q, j) # AboveAt(q, k)
                                    <=> AboveAt(p, j) # AboveAt(p, k))
  <2>1. j \in 1..k /\ j + 1..k - 1 \subseteq 1..k
    BY <1>1
  <2> QED
    BY <1>1, <1>2, <1>3, <2>1
<1>4. CrossAt(q, k) <=> CrossAt(p, k)
  BY <1>1, <1>2, <1>3 DEF CrossAt
<1>5. CrossAt(p, k) => SideAt(q, k) = SideAt(p, k)
  BY <1>1, <1>2 DEF CrossAt, SideAt
<1> QED
  BY <1>4, <1>5 DEF q

-----------------------------------------------------------------------------
(* The strategy against the whole history of prices it was given.          *)

\* The last trade of p that decided.
LastDecided(p, j) ==
    /\ j \in 1..Len(p)
    /\ Decided(p, j)
    /\ \A i \in j + 1..Len(p) : ~Decided(p, i)

\* was is the comparison of the last trade that decided, if there is one.
Remembers(p, was) ==
    \/ was = None /\ \A k \in 1..Len(p) : ~Decided(p, k)
    \/ \E j \in 1..Len(p) : LastDecided(p, j) /\ was = AboveAt(p, j)

\* A strategy that was given the prices p, and nothing else.
Follows(p, f, s, was) ==
    /\ p \in Seq(Price) /\ f \in Seq(Price) /\ s \in Seq(Price)
    /\ Latest(f, p, Fast) /\ Latest(s, p, Slow)
    /\ Remembers(p, was)

\* on_trade's new comparison, from the windows after the trade.
Compared(f, s, was) == IF Undecided(f, s) THEN was ELSE AvgAbove(f, s)

(* A strategy that was given no price.                                     *)
LEMMA StartsFollowing == Follows(<<>>, <<>>, <<>>, None)
<1>1. <<>> \in Seq(Price) /\ Len(<<>>) = 0 /\ 1..0 = {}
  BY EmptySeq
<1> QED
  BY <1>1, StrategyAssumption DEF Follows, Latest, Remembers

(* The windows after a trade are what the reference averages.              *)
LEMMA WindowsMove ==
    ASSUME NEW p \in Seq(Price), NEW f \in Seq(Price), NEW s \in Seq(Price),
           Latest(f, p, Fast), Latest(s, p, Slow), NEW x \in Price,
           NEW n \in Nat, n = Len(p) + 1
    PROVE  /\ Push(f, x, Fast) \in Seq(Price) /\ Push(s, x, Slow) \in Seq(Price)
           /\ Latest(Push(f, x, Fast), Append(p, x), Fast)
           /\ Latest(Push(s, x, Slow), Append(p, x), Slow)
           /\ Undecided(Push(f, x, Fast), Push(s, x, Slow)) <=> ~Decided(Append(p, x), n)
           /\ n >= Slow => AvgAbove(Push(f, x, Fast), Push(s, x, Slow))
                             = AboveAt(Append(p, x), n)
<1> DEFINE q == Append(p, x)
           g == Push(f, x, Fast)
           t == Push(s, x, Slow)
<1>1. Fast \in Nat \ {0} /\ Slow \in Nat \ {0} /\ Fast < Slow
  BY StrategyAssumption
<1>2. Len(f) <= Fast /\ Len(s) <= Slow /\ Len(p) \in Nat
  BY <1>1, LenProperties DEF Latest
<1>3. q \in Seq(Price) /\ Len(q) = n /\ g \in Seq(Price) /\ t \in Seq(Price)
  BY <1>1, <1>2, AppendProperties, PushType
<1>4. Latest(g, q, Fast) /\ Latest(t, q, Slow)
  BY <1>1, PushLatest
<1> HIDE DEF q, g, t
<1>5. Len(t) < Slow <=> n < Slow
  BY <1>1, <1>3, <1>4 DEF Latest
<1>6. ASSUME n >= Slow
      PROVE  g = Recent(q, n, Fast) /\ t = Recent(q, n, Slow)
  <2>1. Len(q) >= Fast /\ Len(q) >= Slow
    BY <1>1, <1>3, <1>6
  <2>2. /\ g = SubSeq(q, Len(q) - Fast + 1, Len(q))
        /\ t = SubSeq(q, Len(q) - Slow + 1, Len(q))
    BY <1>1, <1>3, <1>4, <2>1, FullWindow
  <2> QED
    BY <1>3, <2>2 DEF Recent
<1>7. Undecided(g, t) <=> ~Decided(q, n)
  <2>1. Undecided(g, t) <=> (n < Slow \/ AvgEqual(g, t))
    BY <1>5 DEF Undecided
  <2>2. CASE n < Slow
    BY <1>1, <2>1, <2>2 DEF Decided
  <2>3. CASE n >= Slow
    BY <1>1, <1>6, <2>1, <2>3 DEF Decided
  <2> QED
    BY <1>1, <2>2, <2>3
<1>8. n >= Slow => AvgAbove(g, t) = AboveAt(q, n)
  BY <1>6 DEF AboveAt
<1> QED
  BY <1>3, <1>4, <1>7, <1>8 DEF q, g, t

(* A trade that decides nothing leaves what is remembered as it was.       *)
LEMMA HoldRemembers ==
    ASSUME NEW p \in Seq(Price), NEW x \in Price, NEW was, Remembers(p, was),
           ~Decided(Append(p, x), Len(p) + 1)
    PROVE  Remembers(Append(p, x), was)
<1> DEFINE q == Append(p, x)
<1>0. PICK n \in Nat : n = Len(p)
  BY LenProperties
<1>1. Len(q) = n + 1 /\ ~Decided(q, n + 1)
  BY <1>0, AppendProperties
<1>2. \A k \in 1..n : /\ Decided(q, k) <=> Decided(p, k)
                      /\ Decided(p, k) => AboveAt(q, k) = AboveAt(p, k)
  BY <1>0, DecidedStays
<1> HIDE DEF q
<1>3. \A k \in 1..n + 1 : k \in 1..n \/ k = n + 1
  OBVIOUS
<1>4. CASE was = None /\ \A k \in 1..n : ~Decided(p, k)
  BY <1>1, <1>2, <1>3, <1>4 DEF Remembers, q
<1>5. ASSUME NEW j \in 1..n, LastDecided(p, j), was = AboveAt(p, j)
      PROVE  Remembers(q, was)
  <2>1. j \in 1..Len(q)
    BY <1>1
  <2>2. Decided(q, j) /\ was = AboveAt(q, j)
    BY <1>2, <1>5 DEF LastDecided
  <2>3. ASSUME NEW i \in j + 1..n + 1 PROVE ~Decided(q, i)
    <3>1. (i \in j + 1..n /\ i \in 1..n) \/ i = n + 1
      OBVIOUS
    <3> QED
      BY <1>0, <1>1, <1>2, <1>5, <3>1 DEF LastDecided
  <2> QED
    BY <1>1, <2>1, <2>2, <2>3 DEF Remembers, LastDecided
<1> QED
  BY <1>0, <1>4, <1>5 DEF Remembers, q

(* A trade that decides is a cross exactly when it decides otherwise than  *)
(* what is remembered.                                                     *)
LEMMA DecideIsCross ==
    ASSUME NEW p \in Seq(Price), NEW x \in Price, NEW was, Remembers(p, was),
           NEW n \in Nat, n = Len(p), Decided(Append(p, x), n + 1)
    PROVE  CrossAt(Append(p, x), n + 1) <=> AboveAt(Append(p, x), n + 1) # was
<1> DEFINE q == Append(p, x)
<1>1. \A k \in 1..n : /\ Decided(q, k) <=> Decided(p, k)
                      /\ Decided(p, k) => AboveAt(q, k) = AboveAt(p, k)
  BY DecidedStays
<1>2. Decided(q, n + 1)
  OBVIOUS
<1> HIDE DEF q
<1>3. CrossAt(q, n + 1) <=>
          \A j \in 1..n : LastDecided(p, j) => AboveAt(p, j) # AboveAt(q, n + 1)
  <2>1. n + 1 - 1 = n
    OBVIOUS
  <2>2. CrossAt(q, n + 1) <=>
            \A j \in 1..n : (Decided(q, j) /\ \A i \in j + 1..n : ~Decided(q, i))
                               => AboveAt(q, j) # AboveAt(q, n + 1)
    BY <1>2, <2>1 DEF CrossAt
  <2>3. ASSUME NEW j \in 1..n
        PROVE  (Decided(q, j) /\ \A i \in j + 1..n : ~Decided(q, i)) <=> LastDecided(p, j)
    <3>1. j + 1..n \subseteq 1..n
      OBVIOUS
    <3> QED
      BY <1>1, <3>1 DEF LastDecided
  <2>4. \A j \in 1..n : LastDecided(p, j) => AboveAt(q, j) = AboveAt(p, j)
    BY <1>1 DEF LastDecided
  <2> QED
    BY <2>2, <2>3, <2>4
<1>4. CASE was = None /\ \A k \in 1..n : ~Decided(p, k)
  <2>1. AboveAt(q, n + 1) \in BOOLEAN
    BY AboveIsBoolean DEF AboveAt
  <2>2. \A j \in 1..n : ~LastDecided(p, j)
    BY <1>4 DEF LastDecided
  <2> QED
    BY <1>3, <1>4, <2>1, <2>2, StrategyAssumption DEF q
<1>5. ASSUME NEW j \in 1..n, LastDecided(p, j), was = AboveAt(p, j)
      PROVE  CrossAt(q, n + 1) <=> AboveAt(q, n + 1) # was
  <2>1. ASSUME NEW k \in 1..n, LastDecided(p, k) PROVE k = j
    <3>1. k < j => j \in k + 1..n
      OBVIOUS
    <3>2. j < k => k \in j + 1..n
      OBVIOUS
    <3> QED
      BY <1>5, <2>1, <3>1, <3>2 DEF LastDecided
  <2> QED
    BY <1>3, <1>5, <2>1
<1> QED
  BY <1>4, <1>5 DEF Remembers, q

(* on_trade, whatever it was given before: two bounded windows and one     *)
(* remembered comparison are enough to answer each cross of the whole      *)
(* history, on its side, and nothing else.                                 *)
LEMMA OnTradeFollows ==
    ASSUME NEW p, NEW f, NEW s, NEW was, Follows(p, f, s, was), NEW x \in Price,
           NEW g, g = Push(f, x, Fast), NEW t, t = Push(s, x, Slow),
           NEW now, now = Compared(g, t, was)
    PROVE  /\ Follows(Append(p, x), g, t, now)
           /\ CrossAt(Append(p, x), Len(p) + 1) <=> now # was
           /\ now # was => /\ ~Undecided(g, t)
                           /\ Crossing(was, now) = SideAt(Append(p, x), Len(p) + 1)
<1> DEFINE q == Append(p, x)
<1>0. /\ p \in Seq(Price) /\ f \in Seq(Price) /\ s \in Seq(Price)
      /\ Latest(f, p, Fast) /\ Latest(s, p, Slow) /\ Remembers(p, was)
  BY DEF Follows
<1>1. PICK n \in Nat : n = Len(p)
  BY <1>0, LenProperties
<1>2. q \in Seq(Price) /\ Len(q) = n + 1
  BY <1>0, <1>1, AppendProperties
<1>3. /\ g \in Seq(Price) /\ t \in Seq(Price)
      /\ Latest(g, q, Fast) /\ Latest(t, q, Slow)
      /\ Undecided(g, t) <=> ~Decided(q, n + 1)
      /\ n + 1 >= Slow => AvgAbove(g, t) = AboveAt(q, n + 1)
  BY <1>0, <1>1, WindowsMove
<1>4. CASE Undecided(g, t)
  <2>1. now = was /\ ~Decided(q, n + 1)
    BY <1>3, <1>4 DEF Compared
  <2>2. Remembers(q, now)
    BY <1>0, <1>1, <2>1, HoldRemembers
  <2>3. ~CrossAt(q, n + 1)
    BY <2>1 DEF CrossAt
  <2> QED
    BY <1>1, <1>2, <1>3, <2>1, <2>2, <2>3 DEF Follows
<1>5. CASE ~Undecided(g, t)
  <2>1. Decided(q, n + 1) /\ now = AboveAt(q, n + 1)
    BY <1>3, <1>5 DEF Compared, Decided
  <2>2. CrossAt(q, n + 1) <=> now # was
    BY <1>0, <1>1, <2>1, DecideIsCross
  <2>3. Remembers(q, now)
    <3>1. n + 1 \in 1..Len(q) /\ n + 1 + 1..Len(q) = {}
      BY <1>2
    <3> HIDE DEF q
    <3> QED
      BY <2>1, <3>1 DEF Remembers, LastDecided
  <2>4. now # was => Crossing(was, now) = SideAt(q, n + 1)
    BY <2>1 DEF Crossing, SideAt
  <2> QED
    BY <1>1, <1>2, <1>3, <1>5, <2>2, <2>3, <2>4 DEF Follows
<1> QED
  BY <1>4, <1>5

-----------------------------------------------------------------------------
(* The backtest.                                                           *)

(* The windows, the remembered comparison, the position and the fills keep *)
(* their types; the windows never outgrow their maxlen.                    *)
THEOREM TypeCorrect == Spec => []TypeOK
<1> USE StrategyAssumption, BacktestAssumption
<1>1. Init => TypeOK
  BY DEF Init, TypeOK
<1>2. TypeOK /\ [Next]_vars => TypeOK'
  <2> SUFFICES ASSUME TypeOK, [Next]_vars PROVE TypeOK'
    OBVIOUS
  <2>1. ASSUME NEW price \in Price, Windows(price)
        PROVE  /\ prices' \in Seq(Price)
               /\ fast' \in Seq(Price) /\ Len(fast') <= Fast
               /\ slow' \in Seq(Price) /\ Len(slow') <= Slow
    BY <2>1, PushType DEF TypeOK, Windows
  <2>2. ASSUME NEW price \in Price, Hold(price) PROVE TypeOK'
    BY <2>1, <2>2 DEF TypeOK, Hold
  <2>3. ASSUME NEW price \in Price, Decide(price) PROVE TypeOK'
    <3>1. wasAbove' \in BOOLEAN
      BY <2>3, AboveIsBoolean DEF Decide
    <3>2. position' \in Int /\ fills' \in Seq([signal : {"BUY", "SELL"}, trade : Nat])
      <4>1. CASE Crossing(wasAbove, AvgAbove(fast', slow')) = "HOLD"
        BY <2>3, <4>1 DEF TypeOK, Decide, Execute
      <4>2. CASE Crossing(wasAbove, AvgAbove(fast', slow')) # "HOLD"
        <5>1. Crossing(wasAbove, AvgAbove(fast', slow')) \in {"BUY", "SELL"}
          BY <4>2 DEF Crossing
        <5>2. Len(prices) + 1 \in Nat
          BY DEF TypeOK
        <5> DEFINE side == Crossing(wasAbove, AvgAbove(fast', slow'))
        <5>3. /\ position' = IF side = "BUY" THEN position + OrderSize
                              ELSE position - OrderSize
              /\ fills' = Append(fills, [signal |-> side, trade |-> Len(prices) + 1])
          BY <2>3, <4>2 DEF Decide, Execute
        <5> HIDE DEF side
        <5>4. side \in {"BUY", "SELL"}
          BY <5>1 DEF side
        <5> QED
          BY <5>2, <5>3, <5>4 DEF TypeOK
      <4> QED
        BY <4>1, <4>2
    <3> QED
      BY <2>1, <2>3, <3>1, <3>2 DEF TypeOK, Decide
  <2>4. CASE UNCHANGED vars
    BY <2>4 DEF TypeOK, vars
  <2> QED
    BY <2>2, <2>3, <2>4 DEF Next
<1> QED
  BY <1>1, <1>2, PTL DEF Spec

(* The backtest is flat or holds exactly one order on the side of its      *)
(* first fill, whatever prices are replayed (moving_average.py:29-38,      *)
(* execution.py:14-29).  With TypeOK the property is inductive: the        *)
(* remembered comparison tells which of the two states the broker is in.   *)
THEOREM ExposureBounded == Spec => []Exposure
<1> USE StrategyAssumption, BacktestAssumption
<1>1. Init => Exposure
  BY DEF Init, Exposure
<1>2. TypeOK /\ Exposure /\ [Next]_vars => Exposure'
  <2> SUFFICES ASSUME TypeOK, Exposure, [Next]_vars PROVE Exposure'
    OBVIOUS
  <2>1. ASSUME NEW price \in Price, Hold(price) PROVE Exposure'
    BY <2>1 DEF Hold, Exposure
  <2>2. ASSUME NEW price \in Price, Decide(price) PROVE Exposure'
    <3> DEFINE above == AvgAbove(fast', slow')
    <3>1. above \in BOOLEAN /\ wasAbove' = above
      BY <2>2, AboveIsBoolean DEF Decide
    <3> HIDE DEF above
    <3>2. Execute(Crossing(wasAbove, above))
      BY <2>2 DEF Decide, above
    <3>3. CASE above = wasAbove
      <4>1. UNCHANGED <<position, fills>>
        BY <3>2, <3>3 DEF Execute, Crossing
      <4> QED
        BY <3>1, <3>3, <4>1 DEF Exposure
    <3>4. CASE above # wasAbove
      <4> DEFINE fill == [signal |-> Crossing(wasAbove, above), trade |-> Len(prices) + 1]
      <4>1. /\ Crossing(wasAbove, above) = IF above THEN "BUY" ELSE "SELL"
            /\ position' = IF above THEN position + OrderSize ELSE position - OrderSize
            /\ fills' = Append(fills, fill)
        BY <3>2, <3>4 DEF Execute, Crossing
      <4>2. fills' # <<>> /\ wasAbove' # None
        <5> DEFINE Fill == [signal : {"BUY", "SELL"}, trade : Nat]
        <5>1. Crossing(wasAbove, above) \in {"BUY", "SELL"} /\ Len(prices) + 1 \in Nat
          BY <4>1 DEF TypeOK
        <5>2. fill \in Fill
          BY <5>1
        <5>3. fills \in Seq(Fill)
          BY DEF TypeOK
        <5> HIDE DEF fill, Fill
        <5>4. fills' # <<>>
          BY <4>1, <5>2, <5>3, AppendProperties
        <5>5. wasAbove' # None
          BY <3>1
        <5> QED
          BY <5>4, <5>5
      <4>3. CASE fills = <<>>
        <5>1. fills'[1].signal = Crossing(wasAbove, above) /\ position = 0
          BY <4>1, <4>3 DEF Exposure
        <5> QED
          BY <3>1, <4>1, <4>2, <4>3, <5>1 DEF Exposure
      <4>4. CASE fills # <<>>
        <5>1. fills'[1] = fills[1]
          BY <4>1, <4>4 DEF TypeOK
        <5>2. wasAbove \in BOOLEAN
          BY <4>4 DEF Exposure, TypeOK
        <5>3. position \in Int /\ OrderSize \in Int
          BY DEF TypeOK
        <5> QED
          BY <3>1, <3>4, <4>1, <4>2, <4>4, <5>1, <5>2, <5>3 DEF Exposure
      <4> QED
        BY <4>3, <4>4
    <3> QED
      BY <3>3, <3>4
  <2>3. CASE UNCHANGED vars
    BY <2>3 DEF Exposure, vars
  <2> QED
    BY <2>1, <2>2, <2>3 DEF Next
<1> QED
  BY <1>1, <1>2, TypeCorrect, PTL DEF Spec

Following == Follows(prices, fast, slow, wasAbove)

Trades(f) == {f[i].trade : i \in 1..Len(f)}
Crosses(p) == {k \in 1..Len(p) : CrossAt(p, k)}
Sides(p, f) == \A i \in 1..Len(f) : f[i].signal = SideAt(p, f[i].trade)

(* A trade follows the strategy and fills if it is a cross.                *)
LEMMA TradeFollows ==
    ASSUME TypeOK, Following, NEW price \in Price, Hold(price) \/ Decide(price)
    PROVE  /\ Following'
           /\ prices' = Append(prices, price)
           /\ CrossAt(prices', Len(prices) + 1) <=> fills' # fills
           /\ fills' # fills =>
                 fills' = Append(fills, [signal |-> SideAt(prices', Len(prices) + 1),
                                         trade |-> Len(prices) + 1])
<1>1. /\ prices' = Append(prices, price)
      /\ fast' = Push(fast, price, Fast) /\ slow' = Push(slow, price, Slow)
      /\ wasAbove' = Compared(fast', slow', wasAbove)
  BY DEF Hold, Decide, Windows, Compared
<1>2. /\ Following'
      /\ CrossAt(prices', Len(prices) + 1) <=> wasAbove' # wasAbove
      /\ wasAbove' # wasAbove =>
            /\ ~Undecided(fast', slow')
            /\ Crossing(wasAbove, wasAbove') = SideAt(prices', Len(prices) + 1)
  BY <1>1, OnTradeFollows DEF Following
<1>3. CASE wasAbove' = wasAbove
  <2>1. fills' = fills
    BY <1>3 DEF Hold, Decide, Execute, Crossing
  <2> QED
    BY <1>1, <1>2, <1>3, <2>1
<1>4. CASE wasAbove' # wasAbove
  <2> DEFINE fill == [signal |-> SideAt(prices', Len(prices) + 1),
                      trade |-> Len(prices) + 1]
  <2>1. fills' = Append(fills, fill)
    <3>1. Decide(price)
      BY <1>2, <1>4 DEF Hold
    <3>2. Execute(Crossing(wasAbove, wasAbove'))
      BY <3>1 DEF Decide
    <3>3. Crossing(wasAbove, wasAbove') # "HOLD"
      BY <1>4 DEF Crossing
    <3> QED
      BY <1>2, <1>4, <3>2, <3>3 DEF Execute
  <2>2. fills' # fills
    <3>1. fill.signal \in {"BUY", "SELL"} /\ fill.trade \in Nat
      BY LenProperties DEF SideAt, TypeOK
    <3>2. fill \in [signal : {"BUY", "SELL"}, trade : Nat]
      BY <3>1
    <3> HIDE DEF fill
    <3>3. Len(fills') = Len(fills) + 1 /\ Len(fills) \in Nat
      BY <2>1, <3>2, AppendProperties, LenProperties DEF TypeOK
    <3> QED
      BY <3>3
  <2> QED
    BY <1>1, <1>2, <1>4, <2>1, <2>2
<1> QED
  BY <1>2, <1>3, <1>4

(* So the fills stay the crosses.                                          *)
LEMMA FillsStayCrosses ==
    ASSUME TypeOK, Following, FillsAreTheCrosses, NEW price \in Price,
           Hold(price) \/ Decide(price)
    PROVE  FillsAreTheCrosses'
<1>0. PICK n \in Nat : n = Len(prices)
  BY LenProperties DEF TypeOK
<1> DEFINE q == prices'
           side == SideAt(q, n + 1)
           fill == [signal |-> side, trade |-> n + 1]
           Fill == [signal : {"BUY", "SELL"}, trade : Nat]
<1>1. /\ prices \in Seq(Price) /\ q = Append(prices, price) /\ Len(q) = n + 1
      /\ CrossAt(q, n + 1) <=> fills' # fills
      /\ fills' # fills => fills' = Append(fills, fill)
  BY <1>0, TradeFollows, AppendProperties DEF TypeOK
<1>2. \A k \in 1..n : /\ CrossAt(q, k) <=> CrossAt(prices, k)
                      /\ CrossAt(prices, k) => SideAt(q, k) = SideAt(prices, k)
  BY <1>0, <1>1, CrossStays
<1>3. fill \in Fill /\ fills \in Seq(Fill) /\ Len(fills) \in Nat
  BY LenProperties DEF TypeOK, SideAt
<1>4. Trades(fills) = Crosses(prices) /\ Sides(prices, fills)
  BY DEF FillsAreTheCrosses, Trades, Crosses, Sides
<1> HIDE DEF q, side, Fill
<1>5. \A k \in 1..n + 1 : k \in 1..n \/ k = n + 1
  OBVIOUS
<1>6. \A i \in 1..Len(fills) : fills[i].trade \in Crosses(prices)
  BY <1>4 DEF Trades
<1>7. \A i \in 1..Len(fills) : fills[i].signal = SideAt(q, fills[i].trade)
  BY <1>0, <1>2, <1>4, <1>6 DEF Crosses, Sides
<1>8. CASE fills' = fills
  <2>1. Crosses(q) = Crosses(prices)
    BY <1>0, <1>1, <1>2, <1>5, <1>8 DEF Crosses
  <2> QED
    BY <1>4, <1>7, <1>8, <2>1 DEF FillsAreTheCrosses, Trades, Crosses, q
<1>9. CASE fills' # fills
  <2>1. /\ Len(fills') = Len(fills) + 1
        /\ \A i \in 1..Len(fills) : fills'[i] = fills[i]
        /\ fills'[Len(fills) + 1] = fill
    <3>1. fills' = Append(fills, fill) /\ fill \in Fill /\ fills \in Seq(Fill)
      BY <1>1, <1>3, <1>9
    <3> HIDE DEF fill
    <3> QED
      BY <3>1, AppendProperties
  <2>2. Crosses(q) = Crosses(prices) \cup {n + 1}
    BY <1>0, <1>1, <1>2, <1>5, <1>9 DEF Crosses
  <2>3. \A i \in 1..Len(fills') : i \in 1..Len(fills) \/ i = Len(fills) + 1
    BY <1>3, <2>1
  <2>4. Trades(fills') = Crosses(q)
    <3>1. fills'[Len(fills) + 1].trade = n + 1 /\ Len(fills) + 1 \in 1..Len(fills')
      BY <1>3, <2>1
    <3>2. \A k \in Crosses(prices) : \E i \in 1..Len(fills') : fills'[i].trade = k
      BY <1>3, <1>4, <2>1 DEF Trades
    <3>3. Trades(fills') \subseteq Crosses(q)
      BY <1>6, <2>1, <2>2, <2>3, <3>1 DEF Trades
    <3>4. Crosses(q) \subseteq Trades(fills')
      BY <2>2, <3>1, <3>2 DEF Trades
    <3> QED
      BY <3>3, <3>4
  <2>5. Sides(q, fills')
    BY <1>7, <2>1, <2>3 DEF Sides, side
  <2> QED
    BY <2>4, <2>5 DEF FillsAreTheCrosses, Trades, Crosses, Sides, q
<1> QED
  BY <1>8, <1>9

(* After any number of trades the strategy has followed all of them.       *)
LEMMA StrategyFollowed == Spec => [](Following /\ FillsAreTheCrosses)
<1>1. Init => Following /\ FillsAreTheCrosses
  <2> SUFFICES ASSUME Init PROVE Following /\ FillsAreTheCrosses
    OBVIOUS
  <2>1. /\ prices = <<>> /\ fast = <<>> /\ slow = <<>> /\ fills = <<>>
        /\ Len(prices) = 0 /\ Len(fills) = 0 /\ 1..0 = {} /\ wasAbove = None
    BY DEF Init
  <2> QED
    BY <2>1, StartsFollowing DEF Following, FillsAreTheCrosses
<1>2. TypeOK /\ Following /\ FillsAreTheCrosses /\ [Next]_vars
        => (Following /\ FillsAreTheCrosses)'
  <2> SUFFICES ASSUME TypeOK, Following, FillsAreTheCrosses, [Next]_vars
               PROVE  (Following /\ FillsAreTheCrosses)'
    OBVIOUS
  <2>1. ASSUME NEW price \in Price, Hold(price) \/ Decide(price)
        PROVE  (Following /\ FillsAreTheCrosses)'
    BY <2>1, TradeFollows, FillsStayCrosses
  <2>2. CASE UNCHANGED vars
    BY <2>2 DEF vars, Following, FillsAreTheCrosses
  <2> QED
    BY <2>1, <2>2 DEF Next
<1> QED
  BY <1>1, <1>2, TypeCorrect, PTL DEF Spec

(* The strategy, with two bounded windows and one remembered comparison,   *)
(* fills exactly the crosses of the whole price history, each on its side, *)
(* whatever prices are replayed (moving_average.py:19-38,                  *)
(* backtest.py:20-28).                                                     *)
THEOREM FillsMatchReference == Spec => []FillsAreTheCrosses
BY StrategyFollowed, PTL

-----------------------------------------------------------------------------
(* The chip of the web page.                                               *)

\* The page's trades are the latest prices.
PageLatest == trades \in Seq(Price) /\ Latest(trades, prices, MaxShown)

(* Pushing and then shifting keeps a list as a bounded deque does.         *)
LEMMA PushedIsPush ==
    ASSUME trades \in Seq(Price), Len(trades) <= MaxShown, NEW price \in Price
    PROVE  Pushed(price) = Push(trades, price, MaxShown)
<1> USE StrategyAssumption, BacktestAssumption, ParityAssumption
<1>1. /\ Len(Append(trades, price)) = Len(trades) + 1
      /\ Len(trades) \in Nat /\ MaxShown \in Nat \ {0}
  BY AppendProperties, LenProperties
<1>2. CASE Len(trades) = MaxShown
  <2>1. trades # <<>>
    BY <1>1, <1>2
  <2>2. Tail(Append(trades, price)) = Append(Tail(trades), price)
    BY <2>1, HeadTailAppend
  <2> QED
    BY <1>1, <1>2, <2>2 DEF Pushed, Push
<1>3. CASE Len(trades) # MaxShown
  BY <1>1, <1>3 DEF Pushed, Push
<1> QED
  BY <1>2, <1>3

(* The end of a long list of latest prices is the short one.               *)
LEMMA EndIsWindow ==
    ASSUME NEW S, NEW p \in Seq(S), NEW w \in Seq(S), NEW v \in Seq(S),
           NEW m \in Nat \ {0}, NEW l \in Nat, m <= l,
           Latest(w, p, m), Latest(v, p, l), Len(p) >= m
    PROVE  End(v, m) = w
<1>1. /\ Len(p) \in Nat /\ Len(w) = m /\ Len(v) \in Nat /\ Len(v) <= Len(p)
      /\ Len(v) >= m
  BY LenProperties DEF Latest
<1>2. Latest(w, v, m)
  <2>1. ASSUME NEW i \in 1..m PROVE w[i] = v[Len(v) - m + i]
    <3>1. w[i] = p[Len(p) - m + i]
      BY <1>1 DEF Latest
    <3>2. Len(v) - m + i \in 1..Len(v)
      BY <1>1
    <3>3. v[Len(v) - m + i] = p[Len(p) - Len(v) + (Len(v) - m + i)]
      BY <3>2 DEF Latest
    <3>4. Len(p) - Len(v) + (Len(v) - m + i) = Len(p) - m + i
      BY <1>1
    <3> QED
      BY <3>1, <3>3, <3>4
  <2>2. Len(w) = IF Len(v) < m THEN Len(v) ELSE m
    BY <1>1
  <2>3. \A i \in 1..Len(w) : w[i] = v[Len(v) - Len(w) + i]
    BY <1>1, <2>1
  <2> QED
    BY <2>2, <2>3 DEF Latest
<1> QED
  BY <1>1, <1>2, FullWindow DEF End

(* The averages the page takes are those of the strategy.                  *)
LEMMA PageAverages ==
    ASSUME TypeOK', Following', PageLatest'
    PROVE  /\ ChipUndecided(trades') <=> Undecided(fast', slow')
           /\ ~Undecided(fast', slow') =>
                 AvgAbove(End(trades', Fast), End(trades', Slow)) = AvgAbove(fast', slow')
<1> USE StrategyAssumption, BacktestAssumption, ParityAssumption
<1>1. /\ Fast \in Nat \ {0} /\ Slow \in Nat \ {0} /\ MaxShown \in Nat
      /\ Fast <= MaxShown /\ Slow <= MaxShown /\ Fast <= Slow
  OBVIOUS
<1>2. /\ prices' \in Seq(Price) /\ fast' \in Seq(Price) /\ slow' \in Seq(Price)
      /\ trades' \in Seq(Price) /\ Len(prices') \in Nat
      /\ Latest(fast', prices', Fast) /\ Latest(slow', prices', Slow)
      /\ Latest(trades', prices', MaxShown)
  BY LenProperties DEF TypeOK, Following, Follows, PageLatest, Latest
<1>3. /\ Len(trades') < Slow <=> Len(prices') < Slow
      /\ Len(slow') < Slow <=> Len(prices') < Slow
  BY <1>1, <1>2 DEF Latest
<1>4. Len(prices') >= Slow => End(trades', Fast) = fast' /\ End(trades', Slow) = slow'
  <2> SUFFICES ASSUME Len(prices') >= Slow
               PROVE  End(trades', Fast) = fast' /\ End(trades', Slow) = slow'
    OBVIOUS
  <2>1. Len(prices') >= Fast
    BY <1>1, <1>2
  <2> QED
    BY <1>1, <1>2, <2>1, EndIsWindow
<1> QED
  BY <1>1, <1>2, <1>3, <1>4 DEF ChipUndecided, Undecided

(* The first comparison of either is remembered and nothing is shown; from *)
(* there on each fill comes with a chip of its side.                       *)
LEMMA ChipFollowsFill ==
    ASSUME TypeOK, TypeOK', Exposure, PageAgrees, NEW above \in BOOLEAN,
           wasAbove' = above, Execute(Crossing(wasAbove, above)),
           chips' = IF ChipChanges(above)
                    THEN Append(chips, IF above THEN "BUY" ELSE "SELL") ELSE chips
    PROVE  chips' = IF fills' = <<>> THEN <<>>
                    ELSE [i \in 1..Len(fills') - 1 |-> fills'[i + 1].signal]
<1> USE StrategyAssumption, BacktestAssumption
<1> DEFINE Said(f) == IF f = <<>> THEN <<>>
                      ELSE [i \in 1..Len(f) - 1 |-> f[i + 1].signal]
           side == IF above THEN "BUY" ELSE "SELL"
           fill == [signal |-> side, trade |-> Len(prices) + 1]
           Fill == [signal : {"BUY", "SELL"}, trade : Nat]
<1>1. chips = Said(fills) /\ wasFastAboveSlow = wasAbove
  BY DEF PageAgrees
<1>2. CASE above = wasAbove
  <2>1. fills' = fills /\ chips' = chips
    BY <1>1, <1>2 DEF Execute, Crossing, ChipChanges
  <2> QED
    BY <1>1, <2>1
<1>3. CASE above # wasAbove
  <2>1. /\ side \in {"BUY", "SELL"}
        /\ fills' = Append(fills, fill)
        /\ chips' = IF wasAbove # None THEN Append(chips, side) ELSE chips
    BY <1>1, <1>3 DEF Execute, Crossing, ChipChanges
  <2>2. fill \in Fill /\ fills \in Seq(Fill) /\ Len(fills) \in Nat
    BY <2>1, LenProperties DEF TypeOK
  <2> HIDE DEF Fill, fill
  <2>3. /\ Len(fills') = Len(fills) + 1
        /\ \A i \in 1..Len(fills) : fills'[i] = fills[i]
        /\ fills'[Len(fills) + 1] = fill
        /\ fills' # <<>>
    BY <2>1, <2>2, AppendProperties
  <2>4. CASE wasAbove = None
    <3>1. fills = <<>> /\ chips' = <<>>
      BY <1>1, <2>1, <2>4 DEF Exposure
    <3>2. Len(fills') - 1 = 0 /\ 1..0 = {}
      BY <2>3, <3>1
    <3> QED
      BY <2>3, <3>1, <3>2
  <2>5. CASE wasAbove # None
    <3>1. fills # <<>> /\ chips' = Append(chips, side)
      BY <2>1, <2>5 DEF Exposure
    <3> DEFINE S == {"BUY", "SELL"}
               n == Len(fills)
               t == [i \in 1..n |-> fills'[i + 1].signal]
    <3>2. n \in Nat /\ n # 0
      BY <2>2, <3>1, EmptySeq
    <3>3. \A i \in 1..n : fills[i].signal \in S
      <4>1. \A i \in 1..n : fills[i] \in Fill
        BY <2>2, ElementOfSeq
      <4> QED
        BY <4>1 DEF Fill
    <3>4. chips = [i \in 1..n - 1 |-> fills[i + 1].signal]
      BY <1>1, <3>1
    <3>5. chips \in [1..n - 1 -> S]
      BY <3>2, <3>3, <3>4
    <3>6. chips \in Seq(S) /\ Len(chips) = n - 1
      BY <3>2, <3>5, SeqDef
    <3>7. /\ chips' \in Seq(S) /\ Len(chips') = n
          /\ \A i \in 1..n - 1 : chips'[i] = chips[i]
          /\ chips'[n] = side
      BY <2>1, <3>1, <3>2, <3>6, AppendProperties
    <3>8. \A i \in 1..n : fills'[i + 1].signal = IF i = n THEN side ELSE fills[i + 1].signal
      BY <2>3, <3>2 DEF fill
    <3>9. t \in Seq(S) /\ Len(t) = n
      <4>1. t \in [1..n -> S]
        BY <2>1, <3>2, <3>3, <3>8
      <4> QED
        BY <3>2, <4>1, SeqDef
    <3>10. \A i \in 1..n : chips'[i] = t[i]
      BY <3>2, <3>4, <3>7, <3>8
    <3>11. chips' = t
      BY <3>7, <3>9, <3>10, SeqEqual
    <3>12. Len(fills') - 1 = n
      BY <2>3, <3>2
    <3> QED
      BY <2>3, <3>11, <3>12
  <2> QED
    BY <2>4, <2>5
<1> QED
  BY <1>2, <1>3

(* The backtest the page is compared with is the backtest.                 *)
LEMMA ParityIsBacktest == ParitySpec => Spec
<1>1. ParityInit => Init
  BY DEF ParityInit
<1>2. [ParityNext]_<<vars, pageVars>> => [Next]_vars
  BY DEF ParityNext, Next
<1> QED
  BY <1>1, <1>2, PTL DEF ParitySpec, Spec

(* The page, which averages the end of a list that loses its oldest        *)
(* trades, remembers the comparison the strategy remembers and has shown   *)
(* what the backtest filled but for the first fill, for any list that      *)
(* holds the slow window (web/index.html:626-643,                          *)
(* moving_average.py:19-38).                                               *)
THEOREM PageFollowsStrategy == ParitySpec => []PageAgrees
<1> USE StrategyAssumption, BacktestAssumption, ParityAssumption
<1> DEFINE Strategy == TypeOK /\ Following /\ Exposure
<1>1. ParityInit => PageLatest /\ PageAgrees
  BY DEF ParityInit, Init, PageLatest, Latest, PageAgrees
<1>2. Strategy /\ Strategy' /\ PageLatest /\ PageAgrees
        /\ [ParityNext]_<<vars, pageVars>> => PageLatest' /\ PageAgrees'
  <2> SUFFICES ASSUME Strategy, Strategy', PageLatest, PageAgrees,
                      [ParityNext]_<<vars, pageVars>>
               PROVE  PageLatest' /\ PageAgrees'
    OBVIOUS
  <2>1. ASSUME NEW price \in Price, Hold(price) \/ Decide(price), OnTrade(price)
        PROVE  PageLatest' /\ PageAgrees'
    <3>1. PageLatest'
      <4>1. MaxShown \in Nat \ {0} /\ prices \in Seq(Price)
            /\ prices' = Append(prices, price)
        BY <2>1 DEF TypeOK, Hold, Decide, Windows
      <4>2. trades \in Seq(Price) /\ Len(trades) <= MaxShown
            /\ Latest(trades, prices, MaxShown)
        BY LenProperties, <4>1 DEF PageLatest, Latest
      <4>3. trades' = Push(trades, price, MaxShown)
        BY <2>1, <4>2, PushedIsPush DEF OnTrade
      <4> QED
        BY <4>1, <4>2, <4>3, PushLatest, PushType DEF PageLatest
    <3>2. /\ ChipUndecided(trades') <=> Undecided(fast', slow')
          /\ ~Undecided(fast', slow') =>
                AvgAbove(End(trades', Fast), End(trades', Slow)) = AvgAbove(fast', slow')
      BY <3>1, PageAverages
    <3>3. CASE Hold(price)
      BY <2>1, <3>1, <3>2, <3>3 DEF Hold, OnTrade, PageAgrees
    <3>4. CASE Decide(price)
      <4> DEFINE above == AvgAbove(fast', slow')
      <4>1. above \in BOOLEAN /\ wasAbove' = above /\ Execute(Crossing(wasAbove, above))
        BY <3>4, AboveIsBoolean DEF Decide
      <4>2. /\ wasFastAboveSlow' = above
            /\ chips' = IF ChipChanges(above)
                        THEN Append(chips, IF above THEN "BUY" ELSE "SELL") ELSE chips
        BY <2>1, <3>2, <3>4 DEF Decide, OnTrade
      <4> HIDE DEF above
      <4>3. PageAgrees'
        BY <4>1, <4>2, ChipFollowsFill DEF PageAgrees
      <4> QED
        BY <3>1, <4>3
    <3> QED
      BY <2>1, <3>3, <3>4
  <2>2. CASE UNCHANGED <<vars, pageVars>>
    BY <2>2 DEF vars, pageVars, PageLatest, Latest, PageAgrees
  <2> QED
    BY <2>1, <2>2 DEF ParityNext
<1>3. ParitySpec => []Strategy
  BY ParityIsBacktest, TypeCorrect, ExposureBounded, StrategyFollowed, PTL
<1> HIDE DEF Strategy
<1> QED
  BY <1>1, <1>2, <1>3, PTL DEF ParitySpec

-----------------------------------------------------------------------------
(* The replay of a file.                                                   *)

Rows == 1..MaxTrades
Read == Rows \ unread

FileTyped ==
    /\ file \in [Rows -> [ts : Time, price : Price]]
    /\ unread \subseteq Rows

(* A row's time and its number are numbers.                                *)
LEMMA RowTypes ==
    ASSUME FileTyped, NEW r \in Rows
    PROVE  file[r].ts \in Nat /\ file[r].price \in Price /\ r \in Nat
<1>1. file[r] \in [ts : Time, price : Price]
  BY DEF FileTyped
<1>2. file[r].ts \in Time /\ file[r].price \in Price
  BY <1>1
<1>3. Time \subseteq Nat
  BY ReplayAssumption
<1>4. r \in Nat
  BY StrategyAssumption, BacktestAssumption DEF Rows
<1> QED
  BY <1>2, <1>3, <1>4

(* Among rows that are left there is one the sort puts first.              *)
LEMMA FirstIsUnread ==
    ASSUME FileTyped, unread # {}
    PROVE  /\ First \in unread
           /\ \A s \in unread \ {First} : Earlier(First, s)
<1> USE StrategyAssumption, BacktestAssumption, ReplayAssumption
<1>1. \A r \in unread : file[r].ts \in Nat /\ r \in Nat
  <2>1. unread \subseteq Rows
    BY DEF FileTyped
  <2> QED
    BY <2>1, RowTypes
<1>2. PICK t \in {file[r].ts : r \in unread} : \A u \in {file[r].ts : r \in unread} : t <= u
  <2> DEFINE T == {file[r].ts : r \in unread}
  <2>1. T \subseteq Nat /\ T # {}
    BY <1>1
  <2> HIDE DEF T
  <2>2. \E t \in T : \A u \in T : t <= u
    BY <2>1, Least
  <2> QED
    BY <2>2 DEF T
<1>3. PICK r \in {r \in unread : file[r].ts = t} : \A s \in {s \in unread : file[s].ts = t} : r <= s
  <2> DEFINE T == {r \in unread : file[r].ts = t}
  <2>1. T \subseteq Nat /\ T # {}
    BY <1>1, <1>2
  <2> HIDE DEF T
  <2>2. \E r \in T : \A s \in T : r <= s
    BY <2>1, Least
  <2> QED
    BY <2>2 DEF T
<1>4. \E f \in unread : \A s \in unread :
         Key(file[f]) < Key(file[s]) \/ (Key(file[f]) = Key(file[s]) /\ f <= s)
  <2>1. ASSUME NEW s \in unread
        PROVE  file[r].ts < file[s].ts \/ (file[r].ts = file[s].ts /\ r <= s)
    BY <1>1, <1>2, <1>3
  <2> QED
    BY <1>3, <2>1 DEF Key
<1>5. First \in unread /\ \A s \in unread :
         Key(file[First]) < Key(file[s]) \/ (Key(file[First]) = Key(file[s]) /\ First <= s)
  BY <1>4 DEF First
<1> QED
  BY <1>1, <1>5 DEF Key, Earlier

\* The rows handed over come before the others, and the k-th of them is the
\* one with k - 1 rows before it.
Sorted ==
    /\ IsFiniteSet(Read) /\ Cardinality(Read) = Len(prices)
    /\ \A r \in Read, s \in unread : Earlier(r, s)
    /\ \A k \in 1..Len(prices) : \E r \in Rows :
          /\ Cardinality({s \in Rows : Earlier(s, r)}) = k - 1
          /\ prices[k] = file[r].price

(* Of two rows at most one comes before the other.                         *)
LEMMA EarlierIsStrict ==
    ASSUME FileTyped, NEW r \in Rows, NEW s \in Rows, Earlier(r, s)
    PROVE  ~Earlier(s, r)
<1>1. file[r].ts \in Nat /\ file[s].ts \in Nat /\ r \in Nat /\ s \in Nat
  BY RowTypes
<1> QED
  BY <1>1 DEF Earlier

(* The rows before the one that is first among the unread are those that   *)
(* have been handed over.                                                  *)
LEMMA RowsBeforeFirst ==
    ASSUME FileTyped, Sorted, unread # {}
    PROVE  {s \in Rows : Earlier(s, First)} = Read
<1>1. First \in unread /\ First \in Rows
  BY FirstIsUnread DEF FileTyped
<1>2. \A s \in Read : Earlier(s, First)
  BY <1>1 DEF Sorted
<1>3. ~Earlier(First, First)
  BY <1>1, EarlierIsStrict
<1>4. ASSUME NEW s \in unread PROVE ~Earlier(s, First)
  <2>1. s \in Rows
    BY DEF FileTyped
  <2>2. CASE s # First
    BY <1>1, <2>1, <2>2, FirstIsUnread, EarlierIsStrict
  <2> QED
    BY <1>3, <2>2
<1> QED
  BY <1>2, <1>4 DEF Read

(* The first unread row takes its place at the end of the replay.          *)
LEMMA ReplaySorts ==
    ASSUME TypeOK, FileTyped, Sorted, ReplayNext
    PROVE  Sorted'
<1> USE StrategyAssumption, BacktestAssumption
<1> DEFINE price == file[First].price
<1>1. /\ unread # {} /\ unread' = unread \ {First} /\ file' = file
      /\ prices' = Append(prices, price)
  BY DEF ReplayNext, Hold, Decide, Windows
<1>2. First \in unread /\ First \in Rows
  BY <1>1, FirstIsUnread DEF FileTyped
<1>3. price \in Price /\ prices \in Seq(Price)
  BY <1>2, RowTypes DEF TypeOK
<1> HIDE DEF price
<1>4. /\ Len(prices') = Len(prices) + 1 /\ Len(prices) \in Nat
      /\ \A k \in 1..Len(prices) : prices'[k] = prices[k]
      /\ prices'[Len(prices) + 1] = price
  BY <1>1, <1>3, AppendProperties, LenProperties
<1>5. Read' = Read \cup {First} /\ First \notin Read
  BY <1>1, <1>2 DEF Read, Rows
<1>6. IsFiniteSet(Read') /\ Cardinality(Read') = Len(prices')
  BY <1>4, <1>5, FS_AddElement DEF Sorted
<1>7. \A r \in Rows, s \in Rows : Earlier(r, s)' <=> Earlier(r, s)
  BY <1>1 DEF Earlier
<1>8. ASSUME NEW r \in Read', NEW s \in unread' PROVE Earlier(r, s)'
  <2>1. r \in Rows /\ s \in Rows /\ s \in unread /\ s # First
    BY <1>1, <1>2, <1>5 DEF FileTyped, Read
  <2>2. Earlier(r, s)
    BY <1>1, <1>5, <2>1, FirstIsUnread DEF Sorted
  <2> QED
    BY <1>1, <2>2 DEF Earlier
<1>9. ASSUME NEW k \in 1..Len(prices')
      PROVE  \E r \in Rows :
                /\ Cardinality({s \in Rows : Earlier(s, r)'}) = k - 1
                /\ prices'[k] = file[r].price
  <2>1. \A r \in Rows : {s \in Rows : Earlier(s, r)'} = {s \in Rows : Earlier(s, r)}
    BY <1>7
  <2>2. CASE k \in 1..Len(prices)
    BY <1>4, <2>1, <2>2 DEF Sorted
  <2>3. CASE k = Len(prices) + 1
    <3>1. Cardinality({s \in Rows : Earlier(s, First)}) = k - 1
      <4>1. {s \in Rows : Earlier(s, First)} = Read
        BY <1>1, RowsBeforeFirst
      <4>2. Cardinality(Read) = k - 1
        BY <1>4, <2>3 DEF Sorted
      <4> QED
        BY <4>1, <4>2
    <3>2. prices'[k] = file[First].price
      BY <1>4, <2>3 DEF price
    <3> QED
      BY <1>2, <2>1, <3>1, <3>2
  <2>4. k \in 1..Len(prices) \/ k = Len(prices) + 1
    BY <1>4
  <2> QED
    BY <2>2, <2>3, <2>4
<1> QED
  BY <1>1, <1>6, <1>8, <1>9 DEF Sorted, Rows, Earlier

(* Every file is replayed with its rows as they are.                       *)
LEMMA FilesTyped == ReplaySpec => []FileTyped
<1>1. ReplayInit => FileTyped
  BY DEF ReplayInit, FileTyped, Rows
<1>2. FileTyped /\ [ReplayNext]_replayVars => FileTyped'
  BY DEF FileTyped, ReplayNext, replayVars
<1> QED
  BY <1>1, <1>2, PTL DEF ReplaySpec

(* The replay of a file is a backtest on the prices of its rows, so what   *)
(* is proved of the strategy and of the page for arbitrary prices holds of *)
(* the program's replay (backtest.py:20-28, data.py:23-35).                *)
THEOREM ReplayRefinesParity == ReplaySpec => ParitySpec
<1>1. ReplayInit => ParityInit
  BY DEF ReplayInit
<1>2. FileTyped /\ [ReplayNext]_replayVars => [ParityNext]_<<vars, pageVars>>
  <2> SUFFICES ASSUME FileTyped, ReplayNext PROVE ParityNext
    BY DEF replayVars
  <2>1. First \in unread /\ First \in Rows
    BY FirstIsUnread DEF FileTyped, ReplayNext
  <2>2. file[First].price \in Price
    BY <2>1, RowTypes
  <2> QED
    BY <2>2 DEF ReplayNext, ParityNext
<1> QED
  BY <1>1, <1>2, FilesTyped, PTL DEF ReplaySpec, ParitySpec

(* For any file the position is flat or one order, the fills are the       *)
(* crosses of its prices and the page agrees with them                     *)
(* (moving_average.py:19-38, web/index.html:626-643).                      *)
THEOREM ReplayFollowsReference ==
    ReplaySpec => [](TypeOK /\ Exposure /\ FillsAreTheCrosses /\ PageAgrees)
BY ReplayRefinesParity, ParityIsBacktest, TypeCorrect, ExposureBounded,
   FillsMatchReference, PageFollowsStrategy, PTL

(* The trades of any file are replayed in the order of time, those of one  *)
(* time in the order of the file, each of them once (data.py:23-35).       *)
THEOREM ReplaySortsTheFile == ReplaySpec => []ReplayedInTime
<1> USE StrategyAssumption, BacktestAssumption
<1>1. ReplayInit => Sorted
  <2> SUFFICES ASSUME ReplayInit PROVE Sorted
    OBVIOUS
  <2>1. prices = <<>> /\ Len(prices) = 0 /\ 1..0 = {}
    BY DEF ReplayInit, ParityInit, Init
  <2>2. Read = {}
    BY DEF ReplayInit, Rows, Read
  <2>3. IsFiniteSet(Read) /\ Cardinality(Read) = 0
    BY <2>2, FS_EmptySet
  <2> QED
    BY <2>1, <2>2, <2>3 DEF Sorted
<1>2. TypeOK /\ FileTyped /\ Sorted /\ [ReplayNext]_replayVars => Sorted'
  <2> SUFFICES ASSUME TypeOK, FileTyped, Sorted, [ReplayNext]_replayVars
               PROVE  Sorted'
    OBVIOUS
  <2>1. CASE UNCHANGED replayVars
    <3>1. prices' = prices /\ unread' = unread /\ file' = file /\ Read' = Read
      BY <2>1 DEF replayVars, vars, Read, Rows
    <3>2. \A r, s : Earlier(s, r)' <=> Earlier(s, r)
      BY <3>1 DEF Earlier
    <3>3. \A r \in Rows : {s \in Rows : Earlier(s, r)'} = {s \in Rows : Earlier(s, r)}
      BY <3>2
    <3>4. Rows' = Rows
      BY DEF Rows
    <3> QED
      BY <3>1, <3>2, <3>3, <3>4 DEF Sorted
  <2> QED
    BY <2>1, ReplaySorts
<1>3. FileTyped /\ Sorted => ReplayedInTime
  <2> SUFFICES ASSUME FileTyped, Sorted PROVE ReplayedInTime
    OBVIOUS
  <2>1. unread = {} => Len(prices) = MaxTrades
    <3>1. Cardinality(Rows) = MaxTrades
      BY FS_Interval DEF Rows
    <3>2. unread = {} => Read = Rows
      BY DEF Read
    <3> QED
      BY <3>1, <3>2 DEF Sorted
  <2> QED
    BY <2>1 DEF Sorted, Rows, ReplayedInTime
<1> QED
  BY <1>1, <1>2, <1>3, FilesTyped, ReplayFollowsReference, PTL DEF ReplaySpec
-----------------------------------------------------------------------------
(* The session of the Streamlit page.                                      *)

Thing == {"history", "volumes", "strategy", "signals", "cut"}
Poll == [price : Price, done : SUBSET Thing]
Side == {"BUY", "SELL"}

\* Done and PricesOf, of the polls p of a symbol.
Numbers(p, thing) == InOrder({k \in 1..Len(p) : thing \in p[k].done})
Reads(p, thing) ==
    [i \in 1..Len(Numbers(p, thing)) |-> p[Numbers(p, thing)[i]].price]

Numbered(p) ==
    /\ p \in Seq(Poll)
    /\ \A thing \in Thing : Numbers(p, thing) \in Seq(1..Len(p))

\* The polls p with a new one, and with a thing done of the last one.
Fetch(p, price) == Append(p, [price |-> price, done |-> {}])
Noted(p, thing) == [p EXCEPT ![Len(p)].done = @ \cup {thing}]

\* The render r of the symbol x is at the last of its polls p, and has done
\* with it what comes before.
Rendering(x, p, r) ==
    /\ p # <<>> /\ p[Len(p)].price = r.price
    /\ \/ r.at = "history" /\ p[Len(p)].done = {}
       \/ r.at = "volumes" /\ p[Len(p)].done = {"history"} /\ x \in Crypto
       \/ r.at = "strategy" /\ p[Len(p)].done = Due(x) \ {"strategy"}
       \/ r.at = "signals" /\ p[Len(p)].done = Due(x)

\* Each poll but the one of the render was cut short or came to its end.
Polled(x, p, r) ==
    /\ Numbered(p)
    /\ r # Idle => Rendering(x, p, r)
    /\ \A k \in 1..Len(p) :
          "cut" \notin p[k].done /\ ~(Due(x) \subseteq p[k].done)
              => k = Len(p) /\ r # Idle

\* The entries e of a symbol hold what came of its polls p: its charts, its
\* strategy and its signals.
Charted(p, e) ==
    /\ e.history = LastOf(Reads(p, "history"))
    /\ e.volumes = LastOf(Reads(p, "volumes"))

Fed(p, e) ==
    Follows(Reads(p, "strategy"), e.strategy.fast, e.strategy.slow, e.strategy.wasAbove)

\* A decision that is not listed yet is that of the last poll.
Pending(p, r) ==
    LET fed == Numbers(p, "strategy")
    IN  r.at = "signals" =>
           /\ fed # <<>> /\ fed[Len(fed)] = Len(p)
           /\ CrossAt(Reads(p, "strategy"), Len(fed))
           /\ r.signal = SideAt(Reads(p, "strategy"), Len(fed))

IsListed(p, list) ==
    LET fed == Numbers(p, "strategy")
        path == Reads(p, "strategy")
        listed == Numbers(p, "signals")
    IN  /\ Len(list) = Len(listed)
        /\ \A i \in 1..Len(listed) : \E k \in 1..Len(fed) :
              fed[k] = listed[i] /\ CrossAt(path, k) /\ list[i] = SideAt(path, k)

NoneMissing(p, r) ==
    LET fed == Numbers(p, "strategy")
    IN  \A k \in 1..Len(fed) : CrossAt(Reads(p, "strategy"), k) =>
           \/ {"signals", "cut"} \cap p[fed[k]].done # {}
           \/ k = Len(fed) /\ r.at = "signals"

\* All of it.
Kempt(x, p, e, r) ==
    /\ Polled(x, p, r)
    /\ Charted(p, e) /\ Fed(p, e)
    /\ Pending(p, r) /\ IsListed(p, e.signals) /\ NoneMissing(p, r)

\* The render, if it is one of x.
RenderOf(x) == IF render # Idle /\ render.symbol = x THEN render ELSE Idle

Entries ==
    [history : Seq(Price), volumes : Seq(Price), signals : Seq(Side),
     strategy : [fast : Seq(Price), slow : Seq(Price), wasAbove : BOOLEAN \cup {None}]]
Render ==
    [at : Thing \ {"cut"}, symbol : Symbol, price : Price, signal : Side \cup {"HOLD"}]

SessionTyped ==
    /\ session \in [Symbol -> Entries]
    /\ polls \in [Symbol -> Seq(Poll)]
    /\ render \in Render \cup {Idle}

SessionKept ==
    /\ SessionTyped
    /\ \A x \in Symbol : Kempt(x, polls[x], session[x], RenderOf(x))

(* A later number goes to the end of the order.                            *)
LEMMA OrderGrows ==
    ASSUME NEW n \in Nat, NEW S, S \subseteq 1..n - 1
    PROVE  InOrder(S \cup {n}) = Append(InOrder(S), n)
<1> DEFINE T == S \cup {n}
           Below(U, k) == {j \in U : j <= k}
<1>1. /\ IsFiniteSet(S) /\ IsFiniteSet(T) /\ Cardinality(S) \in Nat
      /\ Cardinality(T) = Cardinality(S) + 1
      /\ n \notin S /\ \A k \in S : k \in Nat /\ k < n
  <2>1. IsFiniteSet(1..n - 1)
    BY FS_Interval
  <2>2. IsFiniteSet(S)
    BY <2>1, FS_Subset
  <2> QED
    BY <2>2, FS_CardinalityType, FS_AddElement
<1> DEFINE c == Cardinality(S)
<1>2. \A k \in S : Below(T, k) = Below(S, k) /\ Cardinality(Below(S, k)) \in 0..c
  <2> SUFFICES ASSUME NEW k \in S
               PROVE  Below(T, k) = Below(S, k) /\ Cardinality(Below(S, k)) \in 0..c
    OBVIOUS
  <2>1. Below(T, k) = Below(S, k)
    BY <1>1
  <2>2. Below(S, k) \in SUBSET S
    OBVIOUS
  <2> HIDE DEF Below
  <2> QED
    BY <1>1, <2>1, <2>2, FS_Subset, FS_CardinalityType
<1>3. Below(T, n) = T
  <2>1. \A j \in T : j <= n
    BY <1>1
  <2> QED
    BY <2>1
<1> HIDE DEF Below
<1>4. /\ \A i \in 1..c : {k \in T : Cardinality(Below(T, k)) = i}
                           = {k \in S : Cardinality(Below(S, k)) = i}
      /\ {k \in T : Cardinality(Below(T, k)) = c + 1} = {n}
  <2>1. Cardinality(Below(T, n)) = c + 1
    BY <1>1, <1>3
  <2>2. \A k \in S : Cardinality(Below(T, k)) = Cardinality(Below(S, k))
                   /\ Cardinality(Below(T, k)) # c + 1
    BY <1>1, <1>2
  <2> HIDE DEF c
  <2>3. \A i \in 1..c : i # c + 1
    BY <1>1 DEF c
  <2> QED
    BY <2>1, <2>2, <2>3
<1>5. /\ \A i \in 1..c : Nth(T, i) = Nth(S, i)
      /\ Nth(T, c + 1) = n
  BY <1>4 DEF Nth, Below
<1> DEFINE o == InOrder(S)
           t == InOrder(T)
           U == {Nth(S, i) : i \in 1..c} \cup {n}
<1>6. /\ o \in Seq(U) /\ Len(o) = c /\ \A i \in 1..c : o[i] = Nth(S, i)
      /\ t \in Seq(U) /\ Len(t) = c + 1 /\ \A i \in 1..c + 1 : t[i] = Nth(T, i)
  <2>1. o = [i \in 1..c |-> Nth(S, i)] /\ t = [i \in 1..c + 1 |-> Nth(T, i)]
    BY <1>1 DEF InOrder
  <2>2. o \in [1..c -> U]
    BY <2>1
  <2>3. t \in [1..c + 1 -> U]
    <3>1. \A i \in 1..c + 1 : i \in 1..c \/ i = c + 1
      BY <1>1
    <3>2. \A i \in 1..c + 1 : Nth(T, i) \in U
      BY <1>5, <3>1
    <3> HIDE DEF T, U
    <3> QED
      BY <2>1, <3>2
  <2>4. c + 1 \in Nat
    BY <1>1
  <2> HIDE DEF o, t, U, T, c
  <2>5. c \in Nat
    BY <1>1 DEF c
  <2>6. o \in Seq(U) /\ t \in Seq(U)
    BY <2>2, <2>3, <2>4, <2>5, SeqDef
  <2>7. Len(o) = c /\ Len(t) = c + 1
    BY <2>1, <2>4, <2>5, <2>6, LenProperties
  <2> QED
    BY <2>1, <2>6, <2>7
<1>7. n \in U
  OBVIOUS
<1> HIDE DEF o, t, U, T
<1>8. /\ Append(o, n) \in Seq(U) /\ Len(Append(o, n)) = c + 1
      /\ \A i \in 1..c : Append(o, n)[i] = o[i]
      /\ Append(o, n)[c + 1] = n
  BY <1>6, <1>7, AppendProperties
<1>9. t = Append(o, n)
  <2>1. \A i \in 1..c + 1 : i \in 1..c \/ i = c + 1
    BY <1>1
  <2>2. \A i \in 1..c + 1 : t[i] = Append(o, n)[i]
    BY <1>1, <1>5, <1>6, <1>8, <2>1
  <2> QED
    BY <1>6, <1>8, <2>2, SeqEqual
<1> QED
  BY <1>9 DEF o, t, T

(* Of no numbers there is no first one.                                    *)
LEMMA OrderOfNothing == InOrder({}) = <<>>
<1>1. Cardinality({}) = 0 /\ 1..0 = {}
  BY FS_EmptySet
<1> QED
  BY <1>1 DEF InOrder

(* A list of the charts that loses its first entry when it is too long     *)
(* holds the last entries.                                                 *)
LEMMA KeptIsLast ==
    ASSUME NEW list \in Seq(Price), NEW price \in Price
    PROVE  /\ Kept(LastOf(list), price) = LastOf(Append(list, price))
           /\ LastOf(list) \in Seq(Price)
<1> DEFINE q == Append(list, price)
           m == MaxHistory
           n == Len(list)
           a == LastOf(list)
           b == LastOf(q)
           c == Append(a, price)
           s == IF n > m THEN n - m + 1 ELSE 1
           t == IF n + 1 > m THEN n + 1 - m + 1 ELSE 1
<1>1. /\ m \in Nat /\ n \in Nat /\ q \in Seq(Price) /\ Len(q) = n + 1
      /\ \A i \in 1..n : list[i] \in Price /\ q[i] = list[i]
      /\ q[n + 1] = price
  BY PollingAssumption, AppendProperties, LenProperties, ElementOfSeq
<1>2. a = SubSeq(list, s, n) /\ b = SubSeq(q, t, n + 1)
  BY <1>1 DEF LastOf
<1>3. /\ s \in 1..n + 1 /\ n \in Int /\ t \in 1..n + 2 /\ n + 1 \in Int /\ s \in Int /\ t \in Int
      /\ n - s + 1 = (IF n > m THEN m ELSE n)
      /\ n + 1 - t + 1 = (IF n + 1 > m THEN m ELSE n + 1)
  BY <1>1
<1> HIDE DEF q, m, n, a, b, s, t
<1>4. /\ a \in Seq(Price) /\ Len(a) = n - s + 1
      /\ \A i \in 1..n - s + 1 : a[i] = list[s + i - 1]
  <2>1. \A i \in s..n : list[i] \in Price
    BY <1>1, <1>3
  <2> QED
    BY <1>1, <1>2, <1>3, <2>1, SubSeqProperties
<1>5. /\ b \in Seq(Price) /\ Len(b) = n + 1 - t + 1
      /\ \A i \in 1..n + 1 - t + 1 : b[i] = q[t + i - 1]
  <2>1. \A i \in t..n + 1 : q[i] \in Price
    BY <1>1, <1>3, ElementOfSeq
  <2> QED
    BY <1>1, <1>2, <1>3, <2>1, SubSeqProperties
<1>6. /\ c \in Seq(Price) /\ Len(c) = Len(a) + 1
      /\ \A i \in 1..Len(a) : c[i] = a[i]
      /\ c[Len(a) + 1] = price
  BY <1>4, AppendProperties
<1> HIDE DEF c
<1>7. \A i \in 1..Len(c) : c[i] = q[s + i - 1]
  <2> SUFFICES ASSUME NEW i \in 1..Len(c) PROVE c[i] = q[s + i - 1]
    OBVIOUS
  <2>1. CASE i \in 1..Len(a)
    <3>1. s + i - 1 \in 1..n
      BY <1>1, <1>3, <1>4, <2>1
    <3> QED
      BY <1>1, <1>4, <1>6, <2>1, <3>1
  <2>2. CASE i = Len(a) + 1
    <3>1. s + i - 1 = n + 1
      BY <1>1, <1>3, <1>4, <2>2
    <3> QED
      BY <1>1, <1>6, <2>2, <3>1
  <2> QED
    BY <1>1, <1>3, <1>4, <1>6, <2>1, <2>2
<1>8. CASE Len(c) > m
  <2>1. c # <<>>
    BY <1>1, <1>8, EmptySeq
  <2>2. /\ Tail(c) \in Seq(Price) /\ Len(Tail(c)) = Len(c) - 1
        /\ \A i \in 1..Len(Tail(c)) : Tail(c)[i] = c[i + 1]
    BY <1>6, <2>1, HeadTailProperties
  <2>3. t = s + 1 /\ Len(Tail(c)) = Len(b)
    <3>1. Len(c) = n - s + 1 + 1 /\ Len(b) = n + 1 - t + 1
      BY <1>4, <1>5, <1>6
    <3>2. n >= m
      BY <1>1, <1>3, <1>8, <3>1
    <3>3. t = s + 1
      BY <1>1, <3>2 DEF s, t
    <3> QED
      BY <1>1, <1>3, <2>2, <3>1, <3>3
  <2>4. \A i \in 1..Len(b) : Tail(c)[i] = b[i]
    <3> SUFFICES ASSUME NEW i \in 1..Len(b) PROVE Tail(c)[i] = b[i]
      OBVIOUS
    <3>1. i + 1 \in 1..Len(c) /\ s + (i + 1) - 1 = t + i - 1
      BY <1>1, <1>3, <1>4, <1>5, <1>6, <2>2, <2>3
    <3> QED
      BY <1>5, <1>7, <2>2, <2>3, <3>1
  <2>5. Tail(c) = b
    BY <1>5, <2>2, <2>3, <2>4, SeqEqual
  <2> QED
    BY <1>4, <1>8, <2>5 DEF Kept, a, b, c, q, m
<1>9. CASE ~(Len(c) > m)
  <2>1. t = s /\ Len(c) = Len(b)
    BY <1>1, <1>3, <1>4, <1>5, <1>6, <1>9 DEF s, t
  <2>2. \A i \in 1..Len(b) : c[i] = b[i]
    BY <1>5, <1>7, <2>1
  <2>3. c = b
    BY <1>5, <1>6, <2>1, <2>2, SeqEqual
  <2> QED
    BY <1>4, <1>9, <2>3 DEF Kept, a, b, c, q, m
<1> QED
  BY <1>8, <1>9

(* The prices of numbered polls.                                           *)
LEMMA ReadsType ==
    ASSUME NEW p, Numbered(p), NEW thing \in Thing
    PROVE  /\ Reads(p, thing) \in Seq(Price)
           /\ Len(Numbers(p, thing)) \in Nat
           /\ Len(Reads(p, thing)) = Len(Numbers(p, thing))
           /\ \A i \in 1..Len(Numbers(p, thing)) :
                 /\ Numbers(p, thing)[i] \in 1..Len(p)
                 /\ Reads(p, thing)[i] = p[Numbers(p, thing)[i]].price
<1> DEFINE N == Numbers(p, thing)
           R == Reads(p, thing)
<1>1. p \in Seq(Poll) /\ N \in Seq(1..Len(p))
  BY DEF Numbered
<1>2. R = [i \in 1..Len(N) |-> p[N[i]].price]
  BY DEF Reads
<1> HIDE DEF N, R
<1>3. Len(N) \in Nat /\ \A i \in 1..Len(N) : N[i] \in 1..Len(p)
  BY <1>1, LenProperties, ElementOfSeq
<1>4. \A i \in 1..Len(N) : p[N[i]].price \in Price
  <2>1. \A k \in 1..Len(p) : p[k] \in Poll
    BY <1>1, ElementOfSeq
  <2> QED
    BY <1>3, <2>1 DEF Poll
<1>5. R \in [1..Len(N) -> Price]
  BY <1>2, <1>4
<1>6. R \in Seq(Price)
  BY <1>3, <1>5, SeqDef
<1>7. Len(R) = Len(N)
  BY <1>3, <1>5, <1>6, LenProperties
<1> QED
  BY <1>2, <1>3, <1>6, <1>7 DEF N, R

(* More polls, or more done of them, change the prices of none.            *)
LEMMA ReadsStay ==
    ASSUME NEW p, Numbered(p), NEW thing \in Thing,
           NEW q, Len(q) \in Nat, Len(q) >= Len(p),
           \A k \in 1..Len(p) : q[k].price = p[k].price,
           Numbers(q, thing) = Numbers(p, thing)
    PROVE  /\ Numbers(q, thing) \in Seq(1..Len(q))
           /\ Reads(q, thing) = Reads(p, thing)
<1>1. Len(p) \in Nat /\ Numbers(p, thing) \in Seq(1..Len(p)) /\ 1..Len(p) \subseteq 1..Len(q)
  BY LenProperties DEF Numbered
<1>2. Numbers(q, thing) \in Seq(1..Len(q))
  BY <1>1, SeqMonotonic
<1>3. \A i \in 1..Len(Numbers(p, thing)) :
         q[Numbers(p, thing)[i]].price = p[Numbers(p, thing)[i]].price
  BY ReadsType
<1> QED
  BY <1>2, <1>3 DEF Reads

(* One more number is one more price.                                      *)
LEMMA ReadsGrow ==
    ASSUME NEW p, Numbered(p), NEW thing \in Thing,
           NEW q \in Seq(Poll), Len(q) = Len(p), NEW n \in 1..Len(p),
           \A k \in 1..Len(p) : q[k].price = p[k].price,
           Numbers(q, thing) = Append(Numbers(p, thing), n)
    PROVE  /\ Numbers(q, thing) \in Seq(1..Len(q))
           /\ Reads(q, thing) = Append(Reads(p, thing), p[n].price)
<1> DEFINE M == Numbers(p, thing)
           N == Numbers(q, thing)
           P == Reads(p, thing)
           Q == Reads(q, thing)
           price == p[n].price
<1>1. /\ P \in Seq(Price) /\ Len(M) \in Nat /\ Len(P) = Len(M)
      /\ \A i \in 1..Len(M) : M[i] \in 1..Len(p) /\ P[i] = p[M[i]].price
  BY ReadsType
<1>2. p \in Seq(Poll) /\ M \in Seq(1..Len(p)) /\ price \in Price
  <2>1. p[n] \in Poll
    BY ElementOfSeq DEF Numbered
  <2> QED
    BY <2>1 DEF Numbered, Poll
<1>3. /\ N \in Seq(1..Len(p)) /\ Len(N) = Len(M) + 1
      /\ \A i \in 1..Len(M) : N[i] = M[i]
      /\ N[Len(M) + 1] = n
  BY <1>2, AppendProperties
<1>4. Q = [i \in 1..Len(N) |-> q[N[i]].price]
  BY DEF Reads
<1> HIDE DEF M, N, P, Q, price
<1>5. /\ Append(P, price) \in Seq(Price) /\ Len(Append(P, price)) = Len(N)
      /\ \A i \in 1..Len(M) : Append(P, price)[i] = P[i]
      /\ Append(P, price)[Len(M) + 1] = price
  BY <1>1, <1>2, <1>3, AppendProperties
<1>6. \A i \in 1..Len(N) : i \in 1..Len(M) \/ i = Len(M) + 1
  BY <1>1, <1>3
<1>7. \A i \in 1..Len(N) : q[N[i]].price = Append(P, price)[i]
  BY <1>1, <1>3, <1>5, <1>6 DEF price
<1>8. Append(P, price) = [i \in 1..Len(N) |-> Append(P, price)[i]]
  BY <1>5, LenProperties
<1>9. Q = Append(P, price)
  BY <1>4, <1>7, <1>8
<1> QED
  BY <1>3, <1>9 DEF N, P, Q, M, price

(* A new poll of which nothing is done yet.                                *)
LEMMA PollsGrow ==
    ASSUME NEW p, Numbered(p), NEW price \in Price,
           NEW q, q = Fetch(p, price)
    PROVE  /\ Numbered(q) /\ Len(q) = Len(p) + 1 /\ Len(p) \in Nat
           /\ \A k \in 1..Len(p) : q[k] = p[k]
           /\ q[Len(q)].price = price /\ q[Len(q)].done = {}
           /\ \A thing \in Thing : /\ Numbers(q, thing) = Numbers(p, thing)
                                   /\ Reads(q, thing) = Reads(p, thing)
<1> DEFINE new == [price |-> price, done |-> {}]
<1>1. p \in Seq(Poll) /\ new \in Poll /\ Len(p) \in Nat
  BY LenProperties DEF Numbered, Poll
<1>2. new.price = price /\ new.done = {}
  OBVIOUS
<1> HIDE DEF new
<1>3. /\ q \in Seq(Poll) /\ Len(q) = Len(p) + 1
      /\ \A k \in 1..Len(p) : q[k] = p[k]
      /\ q[Len(q)] = new
  BY <1>1, AppendProperties DEF new, Fetch
<1>4. ASSUME NEW thing \in Thing PROVE Numbers(q, thing) = Numbers(p, thing)
  <2>1. \A k \in 1..Len(q) : k \in 1..Len(p) \/ k = Len(q)
    BY <1>1, <1>3
  <2>2. {k \in 1..Len(q) : thing \in q[k].done} = {k \in 1..Len(p) : thing \in p[k].done}
    BY <1>1, <1>2, <1>3, <2>1
  <2> QED
    BY <2>2 DEF Numbers
<1>5. ASSUME NEW thing \in Thing
      PROVE  Numbers(q, thing) \in Seq(1..Len(q)) /\ Reads(q, thing) = Reads(p, thing)
  <2>1. /\ Len(q) \in Nat /\ Len(q) >= Len(p)
        /\ \A k \in 1..Len(p) : q[k].price = p[k].price
    BY <1>1, <1>3
  <2> QED
    BY <1>4, <2>1, ReadsStay
<1> QED
  BY <1>1, <1>2, <1>3, <1>4, <1>5 DEF Numbered

(* A poll of which more is done.                                           *)
LEMMA NotedPoll ==
    ASSUME NEW r \in Poll, NEW more
    PROVE  [r EXCEPT !.done = more] = [price |-> r.price, done |-> more]
<1>1. PICK a \in Price, b \in SUBSET Thing : r = [price |-> a, done |-> b]
  BY DEF Poll
<1> QED
  BY <1>1

(* One more thing done of the last poll.                                   *)
LEMMA NotesGrow ==
    ASSUME NEW p, Numbered(p), p # <<>>, NEW thing \in Thing,
           thing \notin p[Len(p)].done, NEW q, q = Noted(p, thing)
    PROVE  /\ Numbered(q) /\ Len(q) = Len(p) /\ Len(p) \in Nat \ {0}
           /\ \A k \in 1..Len(p) : q[k].price = p[k].price /\ (k # Len(p) => q[k] = p[k])
           /\ q[Len(p)].done = p[Len(p)].done \cup {thing}
           /\ Numbers(q, thing) = Append(Numbers(p, thing), Len(p))
           /\ Reads(q, thing) = Append(Reads(p, thing), p[Len(p)].price)
           /\ \A other \in Thing \ {thing} : /\ Numbers(q, other) = Numbers(p, other)
                                             /\ Reads(q, other) = Reads(p, other)
<1>1. PICK n \in Nat \ {0} : n = Len(p)
  BY EmptySeq DEF Numbered
<1> DEFINE new == [price |-> p[n].price, done |-> p[n].done \cup {thing}]
<1>2. p \in Seq(Poll) /\ n \in 1..Len(p) /\ p[n] \in Poll
  BY <1>1, ElementOfSeq DEF Numbered
<1>3. new \in Poll /\ new.price = p[n].price /\ new.done = p[n].done \cup {thing}
  BY <1>2 DEF Poll
<1>4. q = [p EXCEPT ![n] = new]
  <2>1. [p[n] EXCEPT !.done = p[n].done \cup {thing}] = new
    BY <1>2, NotedPoll
  <2> QED
    BY <1>1, <2>1 DEF Noted
<1> HIDE DEF new
<1>5. /\ q \in Seq(Poll) /\ Len(q) = n
      /\ \A k \in 1..n : q[k] = IF k = n THEN new ELSE p[k]
  BY <1>1, <1>2, <1>3, <1>4, ExceptSeq
<1>6. /\ \A k \in 1..n : q[k].price = p[k].price /\ (k # n => q[k] = p[k])
      /\ q[n].done = p[n].done \cup {thing}
  BY <1>1, <1>3, <1>5
<1>7. Numbers(q, thing) = Append(Numbers(p, thing), n)
  <2> DEFINE S == {k \in 1..n : thing \in p[k].done}
  <2>1. S \subseteq 1..n - 1
    BY <1>1
  <2>2. {k \in 1..n : thing \in q[k].done} = S \cup {n}
    BY <1>1, <1>6
  <2> HIDE DEF S
  <2>3. InOrder(S \cup {n}) = Append(InOrder(S), n)
    BY <1>1, <2>1, OrderGrows
  <2> QED
    BY <1>1, <1>5, <2>2, <2>3 DEF Numbers, S
<1>8. ASSUME NEW other \in Thing \ {thing} PROVE Numbers(q, other) = Numbers(p, other)
  <2>1. {k \in 1..n : other \in q[k].done} = {k \in 1..n : other \in p[k].done}
    BY <1>6
  <2> QED
    BY <1>1, <1>5, <2>1 DEF Numbers
<1>9. /\ Numbers(q, thing) \in Seq(1..Len(q))
      /\ Reads(q, thing) = Append(Reads(p, thing), p[n].price)
  <2>1. Len(q) = Len(p) /\ \A k \in 1..Len(p) : q[k].price = p[k].price
    BY <1>1, <1>5, <1>6
  <2> QED
    BY <1>2, <1>5, <1>7, <2>1, ReadsGrow
<1>10. ASSUME NEW other \in Thing \ {thing}
       PROVE  Numbers(q, other) \in Seq(1..Len(q)) /\ Reads(q, other) = Reads(p, other)
  BY <1>1, <1>5, <1>6, <1>8, ReadsStay
<1>11. Numbered(q)
  BY <1>5, <1>9, <1>10 DEF Numbered
<1> QED
  BY <1>1, <1>5, <1>6, <1>7, <1>8, <1>9, <1>10, <1>11

(* A poll that comes when no script runs.                                  *)
LEMMA PollStep ==
    ASSUME NEW x \in Symbol, NEW p, NEW e, Kempt(x, p, e, Idle), NEW price \in Price,
           NEW q, q = Fetch(p, price),
           NEW s, s.at = "history", s.price = price
    PROVE  Kempt(x, q, e, s)
<1>1. /\ Numbered(p) /\ Numbered(q) /\ Len(q) = Len(p) + 1 /\ Len(p) \in Nat
      /\ \A k \in 1..Len(p) : q[k] = p[k]
      /\ q[Len(q)].price = price /\ q[Len(q)].done = {}
      /\ \A thing \in Thing : /\ Numbers(q, thing) = Numbers(p, thing)
                              /\ Reads(q, thing) = Reads(p, thing)
  <2>1. Numbered(p)
    BY DEF Kempt, Polled
  <2> QED
    BY <2>1, PollsGrow
<1>2. Idle.at # "signals" /\ Idle # s
  BY DEF Idle
<1>3. \A k \in 1..Len(q) : k \in 1..Len(p) \/ k = Len(q)
  BY <1>1
<1>4. Polled(x, q, s)
  <2>1. q # <<>>
    BY <1>1, EmptySeq
  <2>2. Rendering(x, q, s)
    BY <1>1, <2>1 DEF Rendering
  <2>3. \A k \in 1..Len(p) : "cut" \in p[k].done \/ Due(x) \subseteq p[k].done
    BY DEF Kempt, Polled
  <2> QED
    BY <1>1, <1>2, <1>3, <2>2, <2>3 DEF Polled
<1>5. {"history", "volumes", "strategy", "signals"} \subseteq Thing
  BY DEF Thing
<1>6. /\ Reads(q, "history") = Reads(p, "history")
      /\ Reads(q, "volumes") = Reads(p, "volumes")
      /\ Reads(q, "strategy") = Reads(p, "strategy")
      /\ Numbers(q, "strategy") = Numbers(p, "strategy")
      /\ Numbers(q, "signals") = Numbers(p, "signals")
  BY <1>1, <1>5
<1>7. Charted(q, e) /\ Fed(q, e) /\ Pending(q, s) /\ IsListed(q, e.signals)
  BY <1>6 DEF Kempt, Charted, Fed, Pending, IsListed
<1>8. NoneMissing(q, s)
  <2>1. \A i \in 1..Len(Numbers(p, "strategy")) : Numbers(p, "strategy")[i] \in 1..Len(p)
    BY <1>1, <1>5, ReadsType
  <2>2. NoneMissing(p, Idle)
    BY DEF Kempt
  <2> DEFINE fed == Numbers(p, "strategy")
  <2>3. \A k \in 1..Len(fed) : CrossAt(Reads(p, "strategy"), k) =>
           {"signals", "cut"} \cap p[fed[k]].done # {}
    BY <1>2, <2>2 DEF NoneMissing
  <2> HIDE DEF fed
  <2>4. \A k \in 1..Len(fed) : q[fed[k]] = p[fed[k]]
    BY <1>1, <2>1 DEF fed
  <2> QED
    BY <1>6, <2>3, <2>4 DEF NoneMissing, fed
<1> QED
  BY <1>4, <1>7, <1>8 DEF Kempt

(* The poll that is rendered, and what is not done of it.                  *)
LEMMA RenderedPoll ==
    ASSUME NEW x \in Symbol, NEW p, NEW r, Polled(x, p, r), r # Idle
    PROVE  /\ Numbered(p) /\ p # <<>> /\ Len(p) \in Nat \ {0}
           /\ p[Len(p)].price = r.price /\ r.price \in Price
           /\ r.at \in Thing \ {"cut"}
           /\ r.at \notin p[Len(p)].done /\ "cut" \notin p[Len(p)].done
           /\ r.at # "strategy" /\ r.at # "signals" =>
                 p[Len(p)].done \cup {r.at} =
                    IF r.at = "history" /\ x \in Crypto THEN Due(x) \ {"volumes", "strategy"}
                    ELSE Due(x) \ {"strategy"}
           /\ r.at = "strategy" => p[Len(p)].done \cup {"strategy"} = Due(x)
           /\ r.at = "signals" => p[Len(p)].done = Due(x)
<1>1. Numbered(p) /\ Rendering(x, p, r)
  BY DEF Polled
<1>2. p # <<>> /\ Len(p) \in Nat \ {0}
  BY <1>1, EmptySeq DEF Rendering, Numbered
<1>3. p[Len(p)] \in Poll
  BY <1>1, <1>2, ElementOfSeq DEF Numbered
<1>4. p[Len(p)].price = r.price /\ r.price \in Price
  BY <1>1, <1>3 DEF Rendering, Poll
<1>5. r.at \in Thing \ {"cut"}
  BY <1>1 DEF Rendering, Thing
<1> DEFINE done == p[Len(p)].done
<1>6. /\ r.at \in {"history", "volumes", "strategy", "signals"}
      /\ r.at = "history" => done = {}
      /\ r.at = "volumes" => done = {"history"} /\ x \in Crypto
      /\ r.at = "strategy" => done = Due(x) \ {"strategy"}
      /\ r.at = "signals" => done = Due(x)
  BY <1>1 DEF Rendering
<1> HIDE DEF done
<1>7. r.at \notin done /\ "cut" \notin done
  BY <1>6 DEF Due
<1>8. r.at = "strategy" => done \cup {"strategy"} = Due(x)
  BY <1>6 DEF Due
<1>9. /\ r.at = "history" /\ x \in Crypto =>
            done \cup {r.at} = Due(x) \ {"volumes", "strategy"}
      /\ r.at = "history" /\ x \notin Crypto => done \cup {r.at} = Due(x) \ {"strategy"}
      /\ r.at = "volumes" => done \cup {r.at} = Due(x) \ {"strategy"}
  BY <1>6 DEF Due
<1> QED
  BY <1>1, <1>2, <1>4, <1>5, <1>6, <1>7, <1>8, <1>9 DEF done

(* When a thing is done of the last poll the polls stay in their order and *)
(* what was listed, missing or cut short before stays what it was.         *)
LEMMA NoteStep ==
    ASSUME NEW x \in Symbol, NEW p, NEW r, Polled(x, p, r), r # Idle,
           NEW thing \in {r.at, "cut"}, NEW q, q = Noted(p, thing)
    PROVE  /\ thing \in Thing
           /\ Numbered(q) /\ Len(q) = Len(p)
           /\ q # <<>> /\ q[Len(q)].price = r.price
           /\ q[Len(q)].done = p[Len(p)].done \cup {thing}
           /\ \A k \in 1..Len(p) : p[k].done \subseteq q[k].done
           /\ Numbers(q, thing) = Append(Numbers(p, thing), Len(p))
           /\ Reads(q, thing) = Append(Reads(p, thing), r.price)
           /\ \A other \in Thing \ {thing} : /\ Numbers(q, other) = Numbers(p, other)
                                             /\ Reads(q, other) = Reads(p, other)
           /\ \A k \in 1..Len(q) :
                 "cut" \notin q[k].done /\ ~(Due(x) \subseteq q[k].done) => k = Len(q)
<1>1. /\ Numbered(p) /\ p # <<>> /\ thing \in Thing /\ thing \notin p[Len(p)].done
      /\ p[Len(p)].price = r.price /\ Len(p) \in Nat \ {0}
  BY RenderedPoll DEF Thing
<1>2. /\ Numbered(q) /\ Len(q) = Len(p)
      /\ \A k \in 1..Len(p) : q[k].price = p[k].price /\ (k # Len(p) => q[k] = p[k])
      /\ q[Len(p)].done = p[Len(p)].done \cup {thing}
      /\ Numbers(q, thing) = Append(Numbers(p, thing), Len(p))
      /\ Reads(q, thing) = Append(Reads(p, thing), p[Len(p)].price)
      /\ \A other \in Thing \ {thing} : /\ Numbers(q, other) = Numbers(p, other)
                                        /\ Reads(q, other) = Reads(p, other)
  BY <1>1, NotesGrow
<1>3. q # <<>> /\ q[Len(q)].price = r.price
  <2>1. Len(p) \in 1..Len(p)
    BY <1>1
  <2> QED
    BY <1>1, <1>2, <2>1, EmptySeq
<1>4. \A k \in 1..Len(p) : p[k].done \subseteq q[k].done
  BY <1>2
<1>5. \A k \in 1..Len(q) :
         "cut" \notin q[k].done /\ ~(Due(x) \subseteq q[k].done) => k = Len(q)
  <2>1. \A k \in 1..Len(p) :
           "cut" \notin p[k].done /\ ~(Due(x) \subseteq p[k].done) => k = Len(p)
    BY DEF Polled
  <2> QED
    BY <1>2, <1>4, <2>1
<1> QED
  BY <1>1, <1>2, <1>3, <1>4, <1>5

(* More done of the polls leaves no cross missing, nor does it matter what *)
(* comes of the last one when no answer is pending.                        *)
LEMMA MissingStays ==
    ASSUME NEW p, Numbered(p), NEW r, NoneMissing(p, r), r.at # "signals",
           NEW q, Len(q) = Len(p), \A k \in 1..Len(p) : p[k].done \subseteq q[k].done,
           Numbers(q, "strategy") = Numbers(p, "strategy"),
           Reads(q, "strategy") = Reads(p, "strategy"), NEW s
    PROVE  NoneMissing(q, s)
<1> DEFINE fed == Numbers(p, "strategy")
<1>1. \A k \in 1..Len(fed) : fed[k] \in 1..Len(p)
  <2>1. "strategy" \in Thing
    BY DEF Thing
  <2> QED
    BY <2>1, ReadsType
<1>2. \A k \in 1..Len(fed) : CrossAt(Reads(p, "strategy"), k) =>
         {"signals", "cut"} \cap p[fed[k]].done # {}
  BY DEF NoneMissing
<1> HIDE DEF fed
<1>3. \A k \in 1..Len(fed) : p[fed[k]].done \subseteq q[fed[k]].done
  BY <1>1
<1> QED
  BY <1>2, <1>3 DEF NoneMissing, fed

\* Of the entries e of x those of d are made, and the render goes on from r
\* to s, when the chart of a thing gets its price.
Charting(x, thing, e, d, r, s) ==
    /\ r.at = thing
    /\ \/ /\ thing = "history" /\ d.volumes = e.volumes
          /\ d.history = Kept(e.history, r.price)
       \/ /\ thing = "volumes" /\ d.history = e.history
          /\ d.volumes = Kept(e.volumes, r.price)
    /\ d.signals = e.signals /\ d.strategy = e.strategy
    /\ s.at = IF thing = "history" /\ x \in Crypto THEN "volumes" ELSE "strategy"
    /\ s.price = r.price

(* An entry of a chart is made before the strategy is run, and changes     *)
(* nothing of it.                                                          *)
LEMMA ChartStep ==
    ASSUME NEW x \in Symbol, NEW p, NEW e, NEW r, Kempt(x, p, e, r), r # Idle,
           NEW thing, NEW q, q = Noted(p, thing),
           NEW d, NEW s, Charting(x, thing, e, d, r, s)
    PROVE  Kempt(x, q, d, s)
<1>1. Polled(x, p, r)
  BY DEF Kempt
<1>2. /\ Numbered(q) /\ Len(q) = Len(p) /\ q # <<>> /\ q[Len(q)].price = r.price
      /\ q[Len(q)].done = p[Len(p)].done \cup {thing}
      /\ \A k \in 1..Len(p) : p[k].done \subseteq q[k].done
      /\ Reads(q, thing) = Append(Reads(p, thing), r.price)
      /\ \A other \in Thing \ {thing} : /\ Numbers(q, other) = Numbers(p, other)
                                       /\ Reads(q, other) = Reads(p, other)
      /\ \A k \in 1..Len(q) :
            "cut" \notin q[k].done /\ ~(Due(x) \subseteq q[k].done) => k = Len(q)
  <2>1. thing \in {r.at, "cut"}
    BY DEF Charting
  <2> QED
    BY <1>1, <2>1, NoteStep
<1>3. /\ Numbered(p) /\ r.price \in Price /\ thing \in {"history", "volumes"}
      /\ thing = "history" /\ x \in Crypto =>
            p[Len(p)].done \cup {thing} = Due(x) \ {"volumes", "strategy"}
      /\ ~(thing = "history" /\ x \in Crypto) =>
            p[Len(p)].done \cup {thing} = Due(x) \ {"strategy"}
  <2>1. thing \in {"history", "volumes"}
    BY DEF Charting
  <2> QED
    BY <1>1, <2>1, RenderedPoll DEF Charting
<1>4. s.at # "signals" /\ r.at # "signals" /\ s # Idle
  BY DEF Idle, Charting
<1>5. Polled(x, q, s)
  <2>1. /\ s.at = "volumes" => q[Len(q)].done = {"history"} /\ x \in Crypto
        /\ s.at = "strategy" => q[Len(q)].done = Due(x) \ {"strategy"}
    BY <1>2, <1>3 DEF Due, Charting
  <2>2. Rendering(x, q, s)
    BY <1>2, <2>1 DEF Rendering, Charting
  <2> QED
    BY <1>2, <1>4, <2>2 DEF Polled
<1>6. {"history", "volumes", "strategy", "signals"} \subseteq Thing
  BY DEF Thing
<1>7. /\ Reads(q, "strategy") = Reads(p, "strategy")
      /\ Numbers(q, "strategy") = Numbers(p, "strategy")
      /\ Numbers(q, "signals") = Numbers(p, "signals")
  BY <1>2, <1>3, <1>6
<1>8. Charted(q, d)
  <2>1. Reads(p, "history") \in Seq(Price) /\ Reads(p, "volumes") \in Seq(Price)
    BY <1>3, <1>6, ReadsType
  <2>2. /\ Kept(LastOf(Reads(p, "history")), r.price)
             = LastOf(Append(Reads(p, "history"), r.price))
        /\ Kept(LastOf(Reads(p, "volumes")), r.price)
             = LastOf(Append(Reads(p, "volumes"), r.price))
    BY <1>3, <2>1, KeptIsLast
  <2>3. e.history = LastOf(Reads(p, "history")) /\ e.volumes = LastOf(Reads(p, "volumes"))
    BY DEF Kempt, Charted
  <2>4. CASE thing = "history"
    <3>1. /\ Reads(q, "history") = Append(Reads(p, "history"), r.price)
          /\ Reads(q, "volumes") = Reads(p, "volumes")
      BY <1>2, <1>6, <2>4
    <3> QED
      BY <2>2, <2>3, <2>4, <3>1 DEF Charted, Charting
  <2>5. CASE thing = "volumes"
    <3>1. /\ Reads(q, "volumes") = Append(Reads(p, "volumes"), r.price)
          /\ Reads(q, "history") = Reads(p, "history")
      BY <1>2, <1>6, <2>5
    <3> QED
      BY <2>2, <2>3, <2>5, <3>1 DEF Charted, Charting
  <2> QED
    BY <2>4, <2>5 DEF Charting
<1>9. Fed(q, d) /\ Pending(q, s) /\ IsListed(q, d.signals)
  BY <1>4, <1>7 DEF Kempt, Fed, Pending, IsListed, Charting
<1>10. NoneMissing(q, s)
  BY <1>1, <1>2, <1>3, <1>4, <1>6, <1>7, MissingStays DEF Kempt
<1> QED
  BY <1>5, <1>8, <1>9, <1>10 DEF Kempt

(* The strategy is given the price of the poll, answers if that is a       *)
(* cross, and forgets no earlier one.                                      *)
LEMMA StrategyStep ==
    ASSUME NEW x \in Symbol, NEW p, NEW e, NEW r, Kempt(x, p, e, r), r # Idle,
           r.at = "strategy", NEW q, q = Noted(p, "strategy"),
           NEW d, d.signals = e.signals, d.history = e.history, d.volumes = e.volumes,
           d.strategy = AfterTrade(e.strategy, r.price),
           NEW signal, signal = Crossing(e.strategy.wasAbove, d.strategy.wasAbove),
           NEW s, signal = "HOLD" => s = Idle,
           signal # "HOLD" => s.at = "signals" /\ s.price = r.price /\ s.signal = signal
    PROVE  Kempt(x, q, d, s)
<1> DEFINE fed == Numbers(p, "strategy")
           path == Reads(p, "strategy")
           fed1 == Numbers(q, "strategy")
           path1 == Reads(q, "strategy")
<1>1. Polled(x, p, r)
  BY DEF Kempt
<1>2. /\ Numbered(q) /\ Len(q) = Len(p) /\ q # <<>> /\ q[Len(q)].price = r.price
      /\ q[Len(q)].done = p[Len(p)].done \cup {"strategy"}
      /\ \A k \in 1..Len(p) : p[k].done \subseteq q[k].done
      /\ fed1 = Append(fed, Len(p)) /\ path1 = Append(path, r.price)
      /\ \A other \in Thing \ {"strategy"} : /\ Numbers(q, other) = Numbers(p, other)
                                             /\ Reads(q, other) = Reads(p, other)
      /\ \A k \in 1..Len(q) :
            "cut" \notin q[k].done /\ ~(Due(x) \subseteq q[k].done) => k = Len(q)
  <2>1. "strategy" \in {r.at, "cut"}
    OBVIOUS
  <2> QED
    BY <1>1, <2>1, NoteStep
<1>3. /\ Numbered(p) /\ r.price \in Price /\ Len(p) \in Nat \ {0}
      /\ q[Len(q)].done = Due(x)
  BY <1>1, <1>2, RenderedPoll
<1>4. {"history", "volumes", "strategy", "signals"} \subseteq Thing
  BY DEF Thing
<1>5. PICK n \in Nat : n = Len(fed)
  BY <1>3, <1>4, ReadsType
<1>6. /\ fed \in Seq(1..Len(p)) /\ path \in Seq(Price) /\ Len(path) = n
      /\ \A k \in 1..n : fed[k] \in 1..Len(p)
  <2>1. fed \in Seq(1..Len(p))
    BY <1>3, <1>4 DEF Numbered
  <2> QED
    BY <1>3, <1>4, <1>5, <2>1, ReadsType
<1>7. /\ Len(fed1) = n + 1 /\ fed1[n + 1] = Len(p)
      /\ \A k \in 1..n : fed1[k] = fed[k]
  <2>1. Len(p) \in 1..Len(p)
    BY <1>3
  <2> QED
    BY <1>2, <1>5, <1>6, <2>1, AppendProperties
<1>8. /\ Follows(path1, d.strategy.fast, d.strategy.slow, d.strategy.wasAbove)
      /\ CrossAt(path1, n + 1) <=> signal # "HOLD"
      /\ signal # "HOLD" => signal = SideAt(path1, n + 1)
  <2> DEFINE f == e.strategy.fast
             g == e.strategy.slow
             was == e.strategy.wasAbove
             now == d.strategy.wasAbove
  <2>1. Follows(path, f, g, was)
    BY DEF Kempt, Fed
  <2>2. /\ d.strategy.fast = Push(f, r.price, Fast)
        /\ d.strategy.slow = Push(g, r.price, Slow)
        /\ now = Compared(d.strategy.fast, d.strategy.slow, was)
    BY DEF AfterTrade, Compared
  <2> HIDE DEF f, g, was, now, path
  <2>3. /\ Follows(Append(path, r.price), d.strategy.fast, d.strategy.slow, now)
        /\ CrossAt(Append(path, r.price), n + 1) <=> now # was
        /\ now # was => Crossing(was, now) = SideAt(Append(path, r.price), n + 1)
    BY <1>3, <1>6, <2>1, <2>2, OnTradeFollows
  <2>4. signal = Crossing(was, now) /\ (signal # "HOLD" <=> now # was)
    BY DEF Crossing, was, now
  <2> QED
    BY <1>2, <2>3, <2>4 DEF now, path
<1>9. /\ \A k \in 1..n : /\ CrossAt(path1, k) <=> CrossAt(path, k)
                         /\ CrossAt(path, k) => SideAt(path1, k) = SideAt(path, k)
  <2>1. path1 = Append(path, r.price) /\ path \in Seq(Price) /\ r.price \in Price
    BY <1>2, <1>3, <1>6
  <2> HIDE DEF path, path1
  <2>2. \A k \in 1..Len(path) : /\ CrossAt(path1, k) <=> CrossAt(path, k)
                                /\ CrossAt(path, k) => SideAt(path1, k) = SideAt(path, k)
    BY <2>1, CrossStays
  <2> QED
    BY <1>6, <2>2
<1>10. s.at = "signals" <=> signal # "HOLD"
  BY DEF Idle
<1>11. Polled(x, q, s)
  <2>1. \A k \in 1..Len(q) : "cut" \in q[k].done \/ Due(x) \subseteq q[k].done
    BY <1>2, <1>3
  <2>2. s # Idle => Rendering(x, q, s)
    BY <1>2, <1>3, <1>10 DEF Rendering
  <2> QED
    BY <1>2, <2>1, <2>2 DEF Polled
<1>12. Charted(q, d)
  BY <1>2, <1>4 DEF Kempt, Charted
<1>13. Fed(q, d)
  BY <1>8 DEF Fed
<1> HIDE DEF fed, path, fed1, path1
<1>14. \A k \in 1..n + 1 : k \in 1..n \/ k = n + 1
  OBVIOUS
<1>15. Pending(q, s)
  <2>1. fed1 # <<>>
    BY <1>5, <1>7, EmptySeq
  <2> QED
    BY <1>2, <1>7, <1>8, <1>10, <2>1 DEF Pending, fed1, path1
<1>16. IsListed(q, d.signals)
  <2>1. Numbers(q, "signals") = Numbers(p, "signals")
    BY <1>2, <1>4
  <2>2. /\ Len(e.signals) = Len(Numbers(p, "signals"))
        /\ \A i \in 1..Len(Numbers(p, "signals")) : \E k \in 1..n :
              /\ fed[k] = Numbers(p, "signals")[i]
              /\ CrossAt(path, k) /\ e.signals[i] = SideAt(path, k)
    BY <1>5 DEF Kempt, IsListed, fed, path
  <2>3. ASSUME NEW i \in 1..Len(Numbers(p, "signals"))
        PROVE  \E k \in 1..n + 1 :
                  /\ fed1[k] = Numbers(p, "signals")[i]
                  /\ CrossAt(path1, k) /\ e.signals[i] = SideAt(path1, k)
    <3>1. PICK k \in 1..n : /\ fed[k] = Numbers(p, "signals")[i]
                            /\ CrossAt(path, k) /\ e.signals[i] = SideAt(path, k)
      BY <2>2
    <3>2. k \in 1..n + 1
      OBVIOUS
    <3> QED
      BY <1>7, <1>9, <3>1, <3>2
  <2> QED
    BY <1>7, <2>1, <2>2, <2>3 DEF IsListed, fed1, path1
<1>17. NoneMissing(q, s)
  <2>1. \A k \in 1..n : CrossAt(path, k) => {"signals", "cut"} \cap p[fed[k]].done # {}
    BY <1>5 DEF Kempt, NoneMissing, fed, path
  <2>2. \A k \in 1..n : CrossAt(path1, k) => {"signals", "cut"} \cap q[fed1[k]].done # {}
    <3>1. \A k \in 1..n : /\ fed1[k] = fed[k] /\ (CrossAt(path1, k) <=> CrossAt(path, k))
                         /\ p[fed[k]].done \subseteq q[fed[k]].done
      BY <1>2, <1>6, <1>7, <1>9
    <3> QED
      BY <2>1, <3>1
  <2>3. CrossAt(path1, n + 1) => s.at = "signals"
    BY <1>8, <1>10
  <2> QED
    BY <1>7, <1>14, <2>2, <2>3 DEF NoneMissing, fed1, path1
<1> QED
  BY <1>11, <1>12, <1>13, <1>15, <1>16, <1>17 DEF Kempt

(* The answer of the strategy is listed under its poll.                    *)
LEMMA SignalStep ==
    ASSUME NEW x \in Symbol, NEW p, NEW e, NEW r, Kempt(x, p, e, r), r # Idle,
           r.at = "signals", e.signals \in Seq(Side), NEW q, q = Noted(p, "signals"),
           NEW d, d.history = e.history, d.volumes = e.volumes, d.strategy = e.strategy,
           d.signals = Append(e.signals, r.signal)
    PROVE  Kempt(x, q, d, Idle) /\ r.signal \in Side
<1> DEFINE fed == Numbers(p, "strategy")
           path == Reads(p, "strategy")
           listed == Numbers(p, "signals")
           listed1 == Numbers(q, "signals")
<1>1. Polled(x, p, r)
  BY DEF Kempt
<1>2. /\ Numbered(q) /\ Len(q) = Len(p)
      /\ q[Len(q)].done = p[Len(p)].done \cup {"signals"}
      /\ \A k \in 1..Len(p) : p[k].done \subseteq q[k].done
      /\ listed1 = Append(listed, Len(p))
      /\ \A other \in Thing \ {"signals"} : /\ Numbers(q, other) = Numbers(p, other)
                                            /\ Reads(q, other) = Reads(p, other)
      /\ \A k \in 1..Len(q) :
            "cut" \notin q[k].done /\ ~(Due(x) \subseteq q[k].done) => k = Len(q)
  <2>1. "signals" \in {r.at, "cut"}
    OBVIOUS
  <2> QED
    BY <1>1, <2>1, NoteStep
<1>3. /\ Numbered(p) /\ Len(p) \in Nat \ {0} /\ p[Len(p)].done = Due(x)
  BY <1>1, RenderedPoll
<1>4. {"history", "volumes", "strategy", "signals"} \subseteq Thing
  BY DEF Thing
<1>5. /\ Reads(q, "strategy") = path /\ Numbers(q, "strategy") = fed
      /\ Reads(q, "history") = Reads(p, "history")
      /\ Reads(q, "volumes") = Reads(p, "volumes")
  BY <1>2, <1>4
<1>6. /\ fed # <<>> /\ fed[Len(fed)] = Len(p) /\ CrossAt(path, Len(fed))
      /\ r.signal = SideAt(path, Len(fed)) /\ Len(fed) \in Nat \ {0}
  <2>1. fed \in Seq(1..Len(p))
    BY <1>3, <1>4 DEF Numbered
  <2>2. Pending(p, r)
    BY DEF Kempt
  <2>3. fed # <<>>
    BY <2>2 DEF Pending
  <2>4. Len(fed) \in Nat \ {0}
    BY <2>1, <2>3, EmptySeq
  <2> QED
    BY <2>2, <2>3, <2>4 DEF Pending
<1>7. Polled(x, q, Idle)
  <2>1. \A k \in 1..Len(q) : "cut" \in q[k].done \/ Due(x) \subseteq q[k].done
    BY <1>2, <1>3
  <2> QED
    BY <1>2, <2>1 DEF Polled
<1>8. Charted(q, d) /\ Fed(q, d) /\ Pending(q, Idle)
  BY <1>5 DEF Kempt, Charted, Fed, Pending, Idle
<1>9. r.signal \in Side
  BY <1>6 DEF Side, SideAt
<1> HIDE DEF fed, path, listed, listed1
<1>10. IsListed(q, d.signals)
  <2>1. PICK m \in Nat : m = Len(listed)
    BY <1>3, <1>4, ReadsType DEF listed
  <2>2. /\ Len(listed1) = m + 1 /\ listed1[m + 1] = Len(p)
        /\ \A i \in 1..m : listed1[i] = listed[i]
    <3>1. Len(p) \in 1..Len(p) /\ listed \in Seq(1..Len(p))
      BY <1>3, <1>4 DEF Numbered, listed
    <3> QED
      BY <1>2, <2>1, <3>1, AppendProperties
  <2>3. /\ Len(e.signals) = m
        /\ \A i \in 1..m : \E k \in 1..Len(fed) :
              fed[k] = listed[i] /\ CrossAt(path, k) /\ e.signals[i] = SideAt(path, k)
    BY <2>1 DEF Kempt, IsListed, listed, fed, path
  <2>4. /\ Len(d.signals) = m + 1 /\ d.signals[m + 1] = r.signal
        /\ \A i \in 1..m : d.signals[i] = e.signals[i]
    BY <1>9, <2>1, <2>3, AppendProperties
  <2>5. ASSUME NEW i \in 1..m + 1
        PROVE  \E k \in 1..Len(fed) :
                  fed[k] = listed1[i] /\ CrossAt(path, k) /\ d.signals[i] = SideAt(path, k)
    <3>1. CASE i \in 1..m
      BY <2>2, <2>3, <2>4, <3>1
    <3>2. CASE i = m + 1
      <4>1. Len(fed) \in 1..Len(fed)
        BY <1>6
      <4> QED
        BY <1>6, <2>2, <2>4, <3>2, <4>1
    <3>3. i \in 1..m \/ i = m + 1
      BY <2>1
    <3> QED
      BY <3>1, <3>2, <3>3
  <2> QED
    BY <1>5, <2>2, <2>4, <2>5 DEF IsListed, listed1
<1>11. NoneMissing(q, Idle)
  <2>1. \A k \in 1..Len(fed) : CrossAt(path, k) =>
           {"signals", "cut"} \cap p[fed[k]].done # {} \/ k = Len(fed)
    BY DEF Kempt, NoneMissing, fed, path
  <2>2. \A k \in 1..Len(fed) : p[fed[k]].done \subseteq q[fed[k]].done
    <3>1. \A k \in 1..Len(fed) : fed[k] \in 1..Len(p)
      BY <1>3, <1>4, ReadsType DEF fed
    <3> QED
      BY <1>2, <3>1
  <2>3. "signals" \in q[fed[Len(fed)]].done
    BY <1>2, <1>6
  <2> QED
    BY <1>5, <2>1, <2>2, <2>3 DEF NoneMissing
<1> QED
  BY <1>7, <1>8, <1>9, <1>10, <1>11 DEF Kempt

(* A render that is cut short leaves what it has done.                     *)
LEMMA CutStep ==
    ASSUME NEW x \in Symbol, NEW p, NEW e, NEW r, Kempt(x, p, e, r), r # Idle,
           NEW q, q = Noted(p, "cut")
    PROVE  Kempt(x, q, e, Idle)
<1>1. Polled(x, p, r)
  BY DEF Kempt
<1>2. /\ Numbered(q) /\ Len(q) = Len(p)
      /\ q[Len(q)].done = p[Len(p)].done \cup {"cut"}
      /\ \A k \in 1..Len(p) : p[k].done \subseteq q[k].done
      /\ \A other \in Thing \ {"cut"} : /\ Numbers(q, other) = Numbers(p, other)
                                        /\ Reads(q, other) = Reads(p, other)
      /\ \A k \in 1..Len(q) :
            "cut" \notin q[k].done /\ ~(Due(x) \subseteq q[k].done) => k = Len(q)
  <2>1. "cut" \in {r.at, "cut"}
    OBVIOUS
  <2> QED
    BY <1>1, <2>1, NoteStep
<1>3. {"history", "volumes", "strategy", "signals"} \subseteq Thing \ {"cut"}
  BY DEF Thing
<1>4. /\ Reads(q, "history") = Reads(p, "history")
      /\ Reads(q, "volumes") = Reads(p, "volumes")
      /\ Reads(q, "strategy") = Reads(p, "strategy")
      /\ Numbers(q, "strategy") = Numbers(p, "strategy")
      /\ Numbers(q, "signals") = Numbers(p, "signals")
  BY <1>2, <1>3
<1>5. Polled(x, q, Idle)
  <2>1. \A k \in 1..Len(q) : "cut" \in q[k].done \/ Due(x) \subseteq q[k].done
    BY <1>2
  <2> QED
    BY <1>2, <2>1 DEF Polled
<1>6. Charted(q, e) /\ Fed(q, e) /\ Pending(q, Idle) /\ IsListed(q, e.signals)
  BY <1>4 DEF Kempt, Charted, Fed, Pending, IsListed, Idle
<1>7. NoneMissing(q, Idle)
  <2> DEFINE fed == Numbers(p, "strategy")
  <2>1. \A k \in 1..Len(fed) : CrossAt(Reads(p, "strategy"), k) =>
           {"signals", "cut"} \cap p[fed[k]].done # {} \/ (k = Len(fed) /\ r.at = "signals")
    BY DEF Kempt, NoneMissing
  <2>2. \A k \in 1..Len(fed) : p[fed[k]].done \subseteq q[fed[k]].done
    <3>1. \A k \in 1..Len(fed) : fed[k] \in 1..Len(p)
      BY <1>1, <1>3, ReadsType DEF Polled
    <3> QED
      BY <1>2, <3>1
  <2>3. r.at = "signals" => "cut" \in q[fed[Len(fed)]].done
    BY <1>2 DEF Kempt, Pending
  <2> HIDE DEF fed
  <2> QED
    BY <1>4, <2>1, <2>2, <2>3 DEF NoneMissing, fed
<1> QED
  BY <1>5, <1>6, <1>7 DEF Kempt

(* What Note does to the polls.                                            *)
LEMMA NoteEffect ==
    ASSUME SessionTyped, NEW thing, Note(thing), NEW x \in Symbol, x = render.symbol
    PROVE  /\ polls'[x] = Noted(polls[x], thing)
           /\ \A y \in Symbol \ {x} : polls'[y] = polls[y]
           /\ polls' = [polls EXCEPT ![x] = Noted(polls[x], thing)]
<1>1. polls \in [Symbol -> Seq(Poll)]
  BY DEF SessionTyped
<1>2. polls' = [polls EXCEPT ![x] = Noted(polls[x], thing)]
  BY Zenon DEF Note, Noted
<1> QED
  BY <1>1, <1>2

(* A render is of one symbol.                                              *)
LEMMA OneRender ==
    ASSUME SessionTyped, render # Idle
    PROVE  /\ render.symbol \in Symbol /\ render.at \in Thing \ {"cut"}
           /\ render.price \in Price
           /\ RenderOf(render.symbol) = render
           /\ \A y \in Symbol \ {render.symbol} : RenderOf(y) = Idle
  BY DEF SessionTyped, Render, RenderOf

(* A step that concerns one symbol only.                                   *)
LEMMA OthersStay ==
    ASSUME SessionKept, NEW x \in Symbol,
           \A y \in Symbol \ {x} : /\ polls'[y] = polls[y] /\ session'[y] = session[y]
                                   /\ RenderOf(y)' = RenderOf(y),
           Kempt(x, polls'[x], session'[x], RenderOf(x)')
    PROVE  \A y \in Symbol : Kempt(y, polls'[y], session'[y], RenderOf(y)')
<1> SUFFICES ASSUME NEW y \in Symbol
             PROVE  Kempt(y, polls'[y], session'[y], RenderOf(y)')
  OBVIOUS
<1>1. CASE y = x
  BY <1>1
<1>2. CASE y # x
  <2>1. Kempt(y, polls[y], session[y], RenderOf(y))
    BY DEF SessionKept
  <2> QED
    BY <1>2, <2>1
<1> QED
  BY <1>1, <1>2

(* What an access makes of the entries of its symbol.                      *)
LEMMA EntryChanges ==
    ASSUME NEW e \in Entries, NEW d, NEW v
    PROVE  /\ d = [e EXCEPT !["history"] = v] =>
                 /\ d.history = v /\ d.volumes = e.volumes
                 /\ d.signals = e.signals /\ d.strategy = e.strategy
                 /\ v \in Seq(Price) => d \in Entries
           /\ d = [e EXCEPT !["volumes"] = v] =>
                 /\ d.volumes = v /\ d.history = e.history
                 /\ d.signals = e.signals /\ d.strategy = e.strategy
                 /\ v \in Seq(Price) => d \in Entries
           /\ d = [e EXCEPT !["signals"] = v] =>
                 /\ d.signals = v /\ d.history = e.history
                 /\ d.volumes = e.volumes /\ d.strategy = e.strategy
                 /\ v \in Seq(Side) => d \in Entries
           /\ d = [e EXCEPT !["strategy"] = v] =>
                 /\ d.strategy = v /\ d.history = e.history
                 /\ d.volumes = e.volumes /\ d.signals = e.signals
                 /\ v \in [fast : Seq(Price), slow : Seq(Price),
                           wasAbove : BOOLEAN \cup {None}] => d \in Entries
<1> DEFINE S == [fast : Seq(Price), slow : Seq(Price), wasAbove : BOOLEAN \cup {None}]
           P == Seq(Price)
           Q == Seq(Side)
<1>1. Entries = [history : P, volumes : P, signals : Q, strategy : S]
  BY DEF Entries
<1> HIDE DEF S, P, Q
<1>2. ASSUME d = [e EXCEPT !["history"] = v]
      PROVE  /\ d.history = v /\ d.volumes = e.volumes
             /\ d.signals = e.signals /\ d.strategy = e.strategy
             /\ v \in P => d \in Entries
  BY <1>1, <1>2
<1>3. ASSUME d = [e EXCEPT !["volumes"] = v]
      PROVE  /\ d.volumes = v /\ d.history = e.history
             /\ d.signals = e.signals /\ d.strategy = e.strategy
             /\ v \in P => d \in Entries
  BY <1>1, <1>3
<1>4. ASSUME d = [e EXCEPT !["signals"] = v]
      PROVE  /\ d.signals = v /\ d.history = e.history
             /\ d.volumes = e.volumes /\ d.strategy = e.strategy
             /\ v \in Q => d \in Entries
  BY <1>1, <1>4
<1>5. ASSUME d = [e EXCEPT !["strategy"] = v]
      PROVE  /\ d.strategy = v /\ d.history = e.history
             /\ d.volumes = e.volumes /\ d.signals = e.signals
             /\ v \in S => d \in Entries
  BY <1>1, <1>5
<1> QED
  BY <1>2, <1>3, <1>4, <1>5 DEF S, P, Q

(* A step of the render keeps the session if it keeps that of its symbol.  *)
LEMMA RenderStep ==
    ASSUME SessionKept, render # Idle, NEW x \in Symbol, x = render.symbol,
           NEW thing, Note(thing),
           NEW d \in Entries, session' = [session EXCEPT ![x] = d],
           render' = Idle \/ (render' \in Render /\ render'.symbol = x),
           Kempt(x, Noted(polls[x], thing), d, render')
    PROVE  SessionKept'
<1>1. /\ polls'[x] = Noted(polls[x], thing)
      /\ \A y \in Symbol \ {x} : polls'[y] = polls[y]
      /\ polls' = [polls EXCEPT ![x] = Noted(polls[x], thing)]
  BY NoteEffect DEF SessionKept
<1>2. session'[x] = d /\ \A y \in Symbol \ {x} : session'[y] = session[y]
  BY DEF SessionKept, SessionTyped
<1>3. RenderOf(x)' = render' /\ \A y \in Symbol \ {x} : RenderOf(y)' = RenderOf(y)
  BY DEF RenderOf
<1>4. Kempt(x, polls'[x], session'[x], RenderOf(x)')
  BY <1>1, <1>2, <1>3
<1>5. \A y \in Symbol : Kempt(y, polls'[y], session'[y], RenderOf(y)')
  BY <1>1, <1>2, <1>3, <1>4, OthersStay
<1>6. SessionTyped'
  <2>1. Noted(polls[x], thing) \in Seq(Poll)
    BY <1>4, <1>1 DEF Kempt, Polled, Numbered
  <2> QED
    BY <1>1, <2>1 DEF SessionKept, SessionTyped
<1> QED
  BY <1>5, <1>6 DEF SessionKept

(* Where the render is, and the session of its symbol.                     *)
LEMMA RenderKept ==
    ASSUME SessionKept, render # Idle
    PROVE  /\ render.symbol \in Symbol /\ render \in Render
           /\ session[render.symbol] \in Entries
           /\ Kempt(render.symbol, polls[render.symbol], session[render.symbol], render)
<1>1. /\ render.symbol \in Symbol /\ RenderOf(render.symbol) = render /\ render \in Render
      /\ session[render.symbol] \in Entries
  BY OneRender DEF SessionKept, SessionTyped
<1> QED
  BY <1>1 DEF SessionKept

(* Without a script running update() is at no access, so no access is      *)
(* made.                                                                   *)
LEMMA IdleIsNowhere == Idle.at \notin Thing
  BY DEF Idle, Thing

(* fetch_price: a quote starts a render of its symbol                      *)
(* (streamlit_app.py:148-156).                                             *)
LEMMA FetchKeeps ==
    ASSUME SessionKept, NEW x \in Symbol, NEW price \in Price, Fetched(x, price)
    PROVE  SessionKept'
<1>1. /\ render = Idle /\ session' = session
      /\ render' = [at |-> "history", symbol |-> x, price |-> price, signal |-> "HOLD"]
      /\ polls' = [polls EXCEPT ![x] = Fetch(polls[x], price)]
  BY DEF Fetched, Fetch
<1>2. /\ render' \in Render /\ render'.at = "history" /\ render'.price = price
      /\ render'.symbol = x
  BY <1>1 DEF Render, Thing
<1>3. render' # Idle
  BY <1>2 DEF Idle
<1>4. /\ RenderOf(x) = Idle /\ RenderOf(x)' = render'
      /\ \A y \in Symbol \ {x} : RenderOf(y)' = RenderOf(y)
  BY <1>1, <1>2, <1>3 DEF RenderOf
<1>5. /\ polls'[x] = Fetch(polls[x], price)
      /\ \A y \in Symbol \ {x} : polls'[y] = polls[y]
  BY <1>1 DEF SessionKept, SessionTyped
<1>6. Kempt(x, polls'[x], session'[x], RenderOf(x)')
  <2>1. Kempt(x, polls[x], session[x], Idle)
    BY <1>4 DEF SessionKept
  <2>2. Kempt(x, Fetch(polls[x], price), session[x], render')
    BY <1>2, <2>1, PollStep
  <2> QED
    BY <1>1, <1>4, <1>5, <2>2
<1>7. \A y \in Symbol : Kempt(y, polls'[y], session'[y], RenderOf(y)')
  BY <1>1, <1>4, <1>5, <1>6, OthersStay
<1>8. SessionTyped'
  <2>1. Fetch(polls[x], price) \in Seq(Poll)
    BY <1>5, <1>6 DEF Kempt, Polled, Numbered
  <2> QED
    BY <1>1, <1>2, <2>1 DEF SessionKept, SessionTyped
<1> QED
  BY <1>7, <1>8 DEF SessionKept

(* What is given to the charts and to the strategy is a price, so what     *)
(* they hold are prices.                                                   *)
LEMMA KeptType ==
    ASSUME NEW x, NEW p, NEW e \in Entries, NEW r \in Render, Kempt(x, p, e, r)
    PROVE  /\ Kept(e.history, r.price) \in Seq(Price)
           /\ Kept(e.volumes, r.price) \in Seq(Price)
<1>1. {"history", "volumes"} \subseteq Thing /\ Numbered(p) /\ r.price \in Price
  BY DEF Thing, Kempt, Polled, Render
<1>2. /\ Reads(p, "history") \in Seq(Price) /\ Reads(p, "volumes") \in Seq(Price)
      /\ e.history = LastOf(Reads(p, "history")) /\ e.volumes = LastOf(Reads(p, "volumes"))
  BY <1>1, ReadsType DEF Kempt, Charted
<1>3. \A list \in Seq(Price) : Kept(LastOf(list), r.price) \in Seq(Price)
  <2> SUFFICES ASSUME NEW list \in Seq(Price)
               PROVE  Kept(LastOf(list), r.price) \in Seq(Price)
    OBVIOUS
  <2>1. Append(list, r.price) \in Seq(Price)
    BY <1>1, AppendProperties
  <2>2. Kept(LastOf(list), r.price) = LastOf(Append(list, r.price))
    BY <1>1, KeptIsLast
  <2>3. LastOf(Append(list, r.price)) \in Seq(Price)
    BY <1>1, <2>1, KeptIsLast
  <2> QED
    BY <2>2, <2>3
<1> QED
  BY <1>2, <1>3

(* on_trade keeps windows of prices and a comparison or None               *)
(* (moving_average.py:19-38).                                              *)
LEMMA AfterTradeType ==
    ASSUME NEW p, NEW was \in BOOLEAN \cup {None}, NEW strategy,
           was = strategy.wasAbove,
           Follows(p, strategy.fast, strategy.slow, was), NEW price \in Price
    PROVE  AfterTrade(strategy, price) \in
              [fast : Seq(Price), slow : Seq(Price), wasAbove : BOOLEAN \cup {None}]
<1> DEFINE f == Push(strategy.fast, price, Fast)
           s == Push(strategy.slow, price, Slow)
<1>1. f \in Seq(Price) /\ s \in Seq(Price)
  <2>1. p \in Seq(Price) /\ Len(p) \in Nat
    BY LenProperties DEF Follows
  <2>2. PICK n \in Nat : n = Len(p) + 1
    BY <2>1
  <2> QED
    BY <2>1, <2>2, WindowsMove DEF Follows
<1> HIDE DEF f, s
<1>2. (IF Undecided(f, s) THEN was ELSE AvgAbove(f, s)) \in BOOLEAN \cup {None}
  BY AboveIsBoolean
<1> QED
  BY <1>1, <1>2 DEF AfterTrade, f, s

(* An access is the note of it, and a new value of one entry.              *)
LEMMA AccessIs ==
    ASSUME SessionKept, NEW entry \in Thing, NEW value, NEW next,
           Access(entry, value, next)
    PROVE  /\ render # Idle /\ render.at = entry /\ render.symbol \in Symbol
           /\ Note(entry) /\ render' = next
           /\ session' = [session EXCEPT ![render.symbol] =
                             [session[render.symbol] EXCEPT ![entry] = value]]
<1>1. render.at = entry /\ Note(entry) /\ render' = next
  BY DEF Access
<1>2. render # Idle
  BY <1>1, IdleIsNowhere
<1>3. session' = [session EXCEPT ![render.symbol] =
                     [session[render.symbol] EXCEPT ![entry] = value]]
  BY Zenon DEF Access
<1> QED
  BY <1>1, <1>2, <1>3, RenderKept

(* The history gets the price (streamlit_app.py:128-132).                  *)
LEMMA AppendPriceKeeps ==
    ASSUME SessionKept, AppendPrice
    PROVE  SessionKept'
<1> DEFINE x == render.symbol
           e == session[x]
           v == Kept(e.history, render.price)
           d == [e EXCEPT !["history"] = v]
           next == IF x \in Crypto THEN "volumes" ELSE "strategy"
<1>0. "history" \in Thing /\ {"volumes", "strategy"} \subseteq Thing \ {"cut"}
  BY DEF Thing
<1>1. /\ render # Idle /\ render.at = "history" /\ x \in Symbol /\ Note("history")
      /\ render' = [render EXCEPT !.at = next]
      /\ session' = [session EXCEPT ![x] = d]
  <2>1. Access("history", v, [render EXCEPT !.at = next])
    BY DEF AppendPrice, Entry
  <2> HIDE DEF v, next
  <2> QED
    BY <1>0, <2>1, AccessIs
<1>2. render \in Render /\ e \in Entries /\ Kempt(x, polls[x], e, render)
  BY <1>1, RenderKept
<1>3. /\ render' \in Render /\ render'.symbol = x /\ render'.price = render.price
      /\ render.at = "history" /\ x \in Crypto => render'.at = "volumes"
      /\ ~(render.at = "history" /\ x \in Crypto) => render'.at = "strategy"
  BY <1>0, <1>1, <1>2 DEF Render
<1>4. v \in Seq(Price)
  BY <1>0, <1>1, <1>2, KeptType
<1> HIDE DEF v
<1>5. /\ d.history = v /\ d.volumes = e.volumes /\ d.signals = e.signals
      /\ d.strategy = e.strategy /\ d \in Entries
  BY <1>2, <1>4, EntryChanges
<1> HIDE DEF x, e, d
<1>6. Kempt(x, Noted(polls[x], "history"), d, render')
  <2>1. Charting(x, "history", e, d, render, render')
    BY <1>1, <1>3, <1>5 DEF Charting, v
  <2> QED
    BY <1>1, <1>2, <2>1, ChartStep
<1> QED
  BY <1>1, <1>3, <1>5, <1>6, RenderStep DEF x

(* The volumes get that of a crypto quote (streamlit_app.py:134-138).      *)
LEMMA AppendVolumeKeeps ==
    ASSUME SessionKept, AppendVolume
    PROVE  SessionKept'
<1> DEFINE x == render.symbol
           e == session[x]
           v == Kept(e.volumes, render.price)
           d == [e EXCEPT !["volumes"] = v]
<1>0. "volumes" \in Thing /\ "strategy" \in Thing \ {"cut"}
  BY DEF Thing
<1>1. /\ render # Idle /\ render.at = "volumes" /\ x \in Symbol /\ Note("volumes")
      /\ render' = [render EXCEPT !.at = "strategy"]
      /\ session' = [session EXCEPT ![x] = d]
  <2>1. Access("volumes", v, [render EXCEPT !.at = "strategy"])
    BY DEF AppendVolume, Entry
  <2> HIDE DEF v
  <2> QED
    BY <1>0, <2>1, AccessIs
<1>2. render \in Render /\ e \in Entries /\ Kempt(x, polls[x], e, render)
  BY <1>1, RenderKept
<1>3. /\ render' \in Render /\ render'.symbol = x /\ render'.price = render.price
      /\ render.at = "history" /\ x \in Crypto => render'.at = "volumes"
      /\ ~(render.at = "history" /\ x \in Crypto) => render'.at = "strategy"
  BY <1>0, <1>1, <1>2 DEF Render
<1>4. v \in Seq(Price)
  BY <1>0, <1>1, <1>2, KeptType
<1> HIDE DEF v
<1>5. /\ d.volumes = v /\ d.history = e.history /\ d.signals = e.signals
      /\ d.strategy = e.strategy /\ d \in Entries
  BY <1>2, <1>4, EntryChanges
<1> HIDE DEF x, e, d
<1>6. Kempt(x, Noted(polls[x], "volumes"), d, render')
  <2>1. Charting(x, "volumes", e, d, render, render')
    BY <1>1, <1>3, <1>5 DEF Charting, v
  <2> QED
    BY <1>1, <1>2, <2>1, ChartStep
<1> QED
  BY <1>1, <1>3, <1>5, <1>6, RenderStep DEF x

(* The strategy of the symbol is given the price                           *)
(* (streamlit_app.py:140-142).                                             *)
LEMMA RunStrategyKeeps ==
    ASSUME SessionKept, RunStrategy
    PROVE  SessionKept'
<1> DEFINE x == render.symbol
           e == session[x]
           after == AfterTrade(e.strategy, render.price)
           signal == Crossing(e.strategy.wasAbove, after.wasAbove)
           next == IF signal = "HOLD" THEN Idle
                   ELSE [render EXCEPT !.at = "signals", !.signal = signal]
           d == [e EXCEPT !["strategy"] = after]
<1>0. "strategy" \in Thing /\ "signals" \in Thing \ {"cut"}
  BY DEF Thing
<1>1. /\ render # Idle /\ render.at = "strategy" /\ x \in Symbol /\ Note("strategy")
      /\ render' = next
      /\ session' = [session EXCEPT ![x] = d]
  <2>1. Access("strategy", after, next)
    BY Zenon DEF RunStrategy, Entry
  <2> HIDE DEF after, next
  <2> QED
    BY <1>0, <2>1, AccessIs
<1>2. render \in Render /\ e \in Entries /\ Kempt(x, polls[x], e, render)
  BY <1>1, RenderKept
<1>3. /\ signal = "HOLD" => render' = Idle
      /\ signal # "HOLD" => /\ render' \in Render /\ render'.symbol = x
                            /\ render'.at = "signals" /\ render'.price = render.price
                            /\ render'.signal = signal
  <2>1. signal \in Side \cup {"HOLD"}
    BY DEF Crossing, Side
  <2> HIDE DEF signal
  <2> QED
    BY <1>0, <1>1, <1>2, <2>1 DEF Render
<1>4. after \in [fast : Seq(Price), slow : Seq(Price), wasAbove : BOOLEAN \cup {None}]
  <2>1. Fed(polls[x], e) /\ render.price \in Price
    BY <1>2 DEF Kempt, Render
  <2> QED
    BY <1>2, <2>1, AfterTradeType DEF Entries, Fed
<1> HIDE DEF after
<1>5. /\ d.strategy = after /\ d.history = e.history /\ d.volumes = e.volumes
      /\ d.signals = e.signals /\ d \in Entries
  BY <1>2, <1>4, EntryChanges
<1>6. Kempt(x, Noted(polls[x], "strategy"), d, render')
  <2>1. d.strategy = AfterTrade(e.strategy, render.price)
    BY <1>5 DEF after
  <2>2. signal = Crossing(e.strategy.wasAbove, d.strategy.wasAbove)
    BY <1>5
  <2> HIDE DEF x, e, d, signal, next
  <2> QED
    BY <1>1, <1>2, <1>3, <1>5, <2>1, <2>2, StrategyStep
<1> HIDE DEF x, e, d, signal, next
<1> QED
  BY <1>1, <1>3, <1>5, <1>6, RenderStep DEF x

(* A signal that is not HOLD is listed (streamlit_app.py:143-145).         *)
LEMMA ListSignalKeeps ==
    ASSUME SessionKept, ListSignal
    PROVE  SessionKept'
<1> DEFINE x == render.symbol
           e == session[x]
           v == Append(e.signals, render.signal)
           d == [e EXCEPT !["signals"] = v]
<1>0. "signals" \in Thing
  BY DEF Thing
<1>1. /\ render # Idle /\ render.at = "signals" /\ x \in Symbol /\ Note("signals")
      /\ render' = Idle
      /\ session' = [session EXCEPT ![x] = d]
  <2>1. Access("signals", v, Idle)
    BY DEF ListSignal, Entry
  <2> HIDE DEF v
  <2> QED
    BY <1>0, <2>1, AccessIs
<1>2. /\ e \in Entries /\ e.signals \in Seq(Side) /\ Kempt(x, polls[x], e, render)
  BY <1>1, RenderKept DEF Entries
<1>2a. d = [e EXCEPT !["signals"] = v]
  OBVIOUS
<1>2b. v \in Seq(Side)
  <2>1. render.signal \in Side
    BY <1>1, <1>2 DEF Kempt, Pending, SideAt, Side
  <2> QED
    BY <1>2, <2>1, AppendProperties
<1> HIDE DEF x, e, v, d
<1>3. /\ d.signals = v /\ d.history = e.history /\ d.volumes = e.volumes
      /\ d.strategy = e.strategy
  BY <1>2, <1>2a, <1>2b, EntryChanges
<1>4. Kempt(x, Noted(polls[x], "signals"), d, Idle) /\ render.signal \in Side
  <2>1. d.signals = Append(e.signals, render.signal)
    BY <1>3 DEF v
  <2> QED
    BY <1>1, <1>2, <1>3, <2>1, SignalStep
<1>5. d \in Entries
  BY <1>2, <1>2a, <1>2b, EntryChanges
<1> QED
  BY <1>1, <1>4, <1>5, <1>2a, RenderStep DEF x

(* A click ends the script before its next access.                         *)
LEMMA CutShortKeeps ==
    ASSUME SessionKept, CutShort
    PROVE  SessionKept'
<1> DEFINE x == render.symbol
           e == session[x]
<1>1. render # Idle /\ Note("cut") /\ render' = Idle /\ session' = session
  BY DEF CutShort
<1>2. x \in Symbol /\ e \in Entries /\ Kempt(x, polls[x], e, render)
  BY <1>1, RenderKept
<1>3. session' = [session EXCEPT ![x] = e]
  BY <1>1 DEF SessionKept, SessionTyped
<1> HIDE DEF e, x
<1>4. Kempt(x, Noted(polls[x], "cut"), e, Idle)
  BY <1>1, <1>2, CutStep
<1> QED
  BY <1>1, <1>2, <1>3, <1>4, RenderStep DEF x

(* A symbol that was never polled.                                         *)
LEMMA NothingPolled ==
    ASSUME NEW x \in Symbol, NEW e,
           e.history = <<>>, e.volumes = <<>>, e.signals = <<>>,
           e.strategy.fast = <<>>, e.strategy.slow = <<>>, e.strategy.wasAbove = None
    PROVE  Kempt(x, <<>>, e, Idle)
<1>1. Len(<<>>) = 0 /\ 1..0 = {} /\ <<>> \in Seq(Poll)
  BY EmptySeq
<1>2. ASSUME NEW thing
      PROVE  Numbers(<<>>, thing) = <<>> /\ Reads(<<>>, thing) = <<>>
  <2>1. {k \in 1..Len(<<>>) : thing \in <<>>[k].done} = {}
    BY <1>1
  <2>2. Numbers(<<>>, thing) = <<>>
    BY <2>1, OrderOfNothing DEF Numbers
  <2> QED
    BY <1>1, <2>2 DEF Reads
<1>3. LastOf(<<>>) = <<>>
  BY <1>1, PollingAssumption, SubSeqEmpty DEF LastOf
<1>4. Polled(x, <<>>, Idle)
  <2>1. \A thing \in Thing : Numbers(<<>>, thing) \in Seq(1..0)
    BY <1>2, EmptySeq
  <2> QED
    BY <1>1, <2>1 DEF Polled, Numbered
<1>5. Charted(<<>>, e) /\ Fed(<<>>, e)
  BY <1>2, <1>3, StartsFollowing DEF Charted, Fed
<1>6. Pending(<<>>, Idle) /\ IsListed(<<>>, e.signals) /\ NoneMissing(<<>>, Idle)
  BY <1>1, <1>2 DEF Pending, IsListed, NoneMissing, Idle
<1> QED
  BY <1>4, <1>5, <1>6 DEF Kempt

(* Whichever symbols are polled in turn and wherever scripts are ended.    *)
LEMMA SessionStaysKept == PollingSpec => []SessionKept
<1>1. PollingInit => SessionKept
  <2> SUFFICES ASSUME PollingInit PROVE SessionKept
    OBVIOUS
  <2> DEFINE none == [history |-> <<>>, volumes |-> <<>>, signals |-> <<>>,
                      strategy |-> [fast |-> <<>>, slow |-> <<>>, wasAbove |-> None]]
  <2>1. /\ session = [x \in Symbol |-> none] /\ polls = [x \in Symbol |-> <<>>]
        /\ render = Idle
    BY DEF PollingInit
  <2>2. \A S : <<>> \in Seq(S)
    BY EmptySeq
  <2>3. none \in Entries
    BY <2>2 DEF Entries
  <2>4. \A x \in Symbol : Kempt(x, <<>>, none, Idle)
    BY NothingPolled
  <2> HIDE DEF none
  <2>5. SessionTyped
    BY <2>1, <2>2, <2>3 DEF SessionTyped
  <2>6. \A x \in Symbol : polls[x] = <<>> /\ session[x] = none /\ RenderOf(x) = Idle
    BY <2>1 DEF RenderOf
  <2> QED
    BY <2>4, <2>5, <2>6 DEF SessionKept
<1>2. SessionKept /\ [PollingNext]_pollingVars => SessionKept'
  <2> SUFFICES ASSUME SessionKept, [PollingNext]_pollingVars PROVE SessionKept'
    OBVIOUS
  <2>1. ASSUME NEW x \in Symbol, NEW price \in Price, Fetched(x, price)
        PROVE  SessionKept'
    BY <2>1, FetchKeeps
  <2>2. CASE AppendPrice
    BY <2>2, AppendPriceKeeps
  <2>3. CASE AppendVolume
    BY <2>3, AppendVolumeKeeps
  <2>4. CASE RunStrategy
    BY <2>4, RunStrategyKeeps
  <2>5. CASE ListSignal
    BY <2>5, ListSignalKeeps
  <2>6. CASE CutShort
    BY <2>6, CutShortKeeps
  <2>7. CASE UNCHANGED pollingVars
    BY <2>7 DEF pollingVars, SessionKept, SessionTyped, RenderOf
  <2> QED
    BY <2>1, <2>2, <2>3, <2>4, <2>5, <2>6, <2>7 DEF PollingNext
<1> QED
  BY <1>1, <1>2, PTL DEF PollingSpec

(* The charts of a symbol show its last polls, and charts and strategy     *)
(* have every poll but those a click cut short before they got to it, for  *)
(* any symbols, polled in any turns, any length of the charts and any      *)
(* clicks (streamlit_app.py:128-142).                                      *)
THEOREM SeriesStayInStep == PollingSpec => []SeriesKeepUp
<1>1. SessionKept => SeriesKeepUp
  <2> SUFFICES ASSUME SessionKept, NEW x \in Symbol
               PROVE  /\ session[x].history = LastOf(PricesOf(x, Done(x, "history")))
                      /\ session[x].volumes = LastOf(PricesOf(x, Done(x, "volumes")))
                      /\ \A k \in 1..Len(polls[x]) :
                            Through(x, k) => Due(x) \subseteq polls[x][k].done
    BY DEF SeriesKeepUp
  <2>1. Polled(x, polls[x], RenderOf(x)) /\ Charted(polls[x], session[x])
    BY DEF SessionKept, Kempt
  <2>2. /\ session[x].history = LastOf(PricesOf(x, Done(x, "history")))
        /\ session[x].volumes = LastOf(PricesOf(x, Done(x, "volumes")))
    BY <2>1 DEF Charted, Reads, Numbers, PricesOf, Done
  <2>3. \A k \in 1..Len(polls[x]) : Through(x, k) => Due(x) \subseteq polls[x][k].done
    BY <2>1 DEF Polled, Through, RenderOf
  <2> QED
    BY <2>2, <2>3
<1> QED
  BY <1>1, SessionStaysKept, PTL

(* The signals listed for a symbol are the crosses of the prices its own   *)
(* strategy was fed, none of them missing but by a click, for any symbols, *)
(* windows and prices: what is proved of the backtest's strategy is true   *)
(* of the one that lives in a session (streamlit_app.py:140-145, 284).     *)
THEOREM SignalsFollowReference == PollingSpec => []SignalsAreTheCrosses
<1>1. SessionKept => SignalsAreTheCrosses
  <2> SUFFICES ASSUME SessionKept, NEW x \in Symbol,
                      NEW fed, fed = Done(x, "strategy"),
                      NEW path, path = PricesOf(x, fed),
                      NEW listed, listed = Done(x, "signals")
               PROVE  /\ Len(session[x].signals) = Len(listed)
                      /\ \A i \in 1..Len(listed) : \E k \in 1..Len(fed) :
                            /\ fed[k] = listed[i]
                            /\ CrossAt(path, k)
                            /\ session[x].signals[i] = SideAt(path, k)
                      /\ \A k \in 1..Len(fed) : CrossAt(path, k) =>
                            \/ {"signals", "cut"} \cap polls[x][fed[k]].done # {}
                            \/ k = Len(fed) /\ render.at = "signals" /\ render.symbol = x
    BY DEF SignalsAreTheCrosses
  <2>1. /\ fed = Numbers(polls[x], "strategy") /\ listed = Numbers(polls[x], "signals")
        /\ path = Reads(polls[x], "strategy")
    BY DEF Numbers, Reads, Done, PricesOf
  <2>2. /\ IsListed(polls[x], session[x].signals)
        /\ NoneMissing(polls[x], RenderOf(x))
    BY DEF SessionKept, Kempt
  <2>3. RenderOf(x).at = "signals" => render.at = "signals" /\ render.symbol = x
    BY DEF RenderOf, Idle
  <2>4. /\ Len(session[x].signals) = Len(listed)
        /\ \A i \in 1..Len(listed) : \E k \in 1..Len(fed) :
              /\ fed[k] = listed[i]
              /\ CrossAt(path, k)
              /\ session[x].signals[i] = SideAt(path, k)
    BY <2>1, <2>2, Zenon DEF IsListed
  <2>5. \A k \in 1..Len(fed) : CrossAt(path, k) =>
           \/ {"signals", "cut"} \cap polls[x][fed[k]].done # {}
           \/ k = Len(fed) /\ RenderOf(x).at = "signals"
    BY <2>1, <2>2, Zenon DEF NoneMissing
  <2> QED
    BY <2>3, <2>4, <2>5
<1> QED
  BY <1>1, SessionStaysKept, PTL
=============================================================================
