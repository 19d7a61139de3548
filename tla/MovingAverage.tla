---------------------------- MODULE MovingAverage ----------------------------
(***************************************************************************)
(* strategies/moving_average.py: what MovingAverageCrossover makes of a    *)
(* trade, given its two windows and the comparison it remembers, and the   *)
(* rule it stands for, stated on a whole history of prices.  Prices are    *)
(* integers and averages are compared by cross-multiplication, where the   *)
(* code divides floats.                                                    *)
(***************************************************************************)
EXTENDS Integers, Sequences

CONSTANTS
    Fast, Slow,  \* window lengths
    Price,       \* prices a trade may have
    None         \* _was_fast_above_slow before the first comparison

ASSUME StrategyAssumption ==
    /\ Fast \in Nat \ {0} /\ Slow \in Nat
    /\ Fast < Slow
    /\ Price \subseteq Nat
    /\ None \notin BOOLEAN

\* append on a deque with a maxlen.
Push(window, price, maxlen) ==
    IF Len(window) = maxlen THEN Append(Tail(window), price)
    ELSE Append(window, price)

SumTo(window) ==
    LET sum[i \in Nat] == IF i = 0 THEN 0 ELSE sum[i - 1] + window[i]
    IN  sum

Sum(window) == SumTo(window)[Len(window)]

\* How the average of f compares with the average of s.
AvgAbove(f, s) == Sum(f) * Len(s) > Sum(s) * Len(f)
AvgEqual(f, s) == Sum(f) * Len(s) = Sum(s) * Len(f)

\* on_trade returns early, with HOLD, in these two cases.
Undecided(f, s) == Len(s) < Slow \/ AvgEqual(f, s)

\* on_trade's answer, from the value _was_fast_above_slow had and has.
Crossing(was, above) ==
    IF above = was THEN "HOLD" ELSE IF above THEN "BUY" ELSE "SELL"

-----------------------------------------------------------------------------
(* Reference: the rule stated on the whole price history p.                *)

\* The last n of the first k prices.
Recent(p, k, n) == SubSeq(p, k - n + 1, k)

\* The averages after trade k, when both windows are full and they differ.
Decided(p, k) == k >= Slow /\ ~AvgEqual(Recent(p, k, Fast), Recent(p, k, Slow))
AboveAt(p, k) == AvgAbove(Recent(p, k, Fast), Recent(p, k, Slow))
SideAt(p, k) == IF AboveAt(p, k) THEN "BUY" ELSE "SELL"

\* Trade k is a cross: the averages differ, and they did not differ before
\* or the last time they did it was the other way round.
CrossAt(p, k) ==
    /\ Decided(p, k)
    /\ \A j \in 1..k - 1 :
          (Decided(p, j) /\ \A i \in j + 1..k - 1 : ~Decided(p, i))
              => AboveAt(p, j) # AboveAt(p, k)
=============================================================================
