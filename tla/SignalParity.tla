---------------------------- MODULE SignalParity ----------------------------
(***************************************************************************)
(* The signal chip of the web page (updateSignal of web/index.html), a     *)
(* second implementation of the moving-average rule in another language,   *)
(* fed the trades the backtest replays.  It has no windows: it averages    *)
(* the end of the page's list of trades, which loses its oldest ones.      *)
(***************************************************************************)
EXTENDS Backtest

CONSTANT MaxShown  \* trades the page keeps

ASSUME ParityAssumption == MaxShown \in Nat /\ MaxShown >= Slow

VARIABLES
    trades,   \* the prices of the page's trades
    wasFastAboveSlow,
    chips     \* what the chip has said, one after the other

pageVars == <<trades, wasFastAboveSlow, chips>>

ParityInit ==
    /\ Init
    /\ trades = <<>>
    /\ wasFastAboveSlow = None
    /\ chips = <<>>

\* onTrade: push, and shift once there are too many.
Pushed(price) ==
    LET all == Append(trades, price)
    IN  IF Len(all) > MaxShown THEN Tail(all) ELSE all

End(list, n) == SubSeq(list, Len(list) - n + 1, Len(list))

\* sma is null on a list that is too short.
ChipUndecided(list) ==
    \/ Len(list) < Slow
    \/ AvgEqual(End(list, Fast), End(list, Slow))

MutChipChanges(isAbove) == isAbove # wasFastAboveSlow

\* Unlike the strategy, the page says nothing on its first comparison.
ChipChanges(isAbove) ==
    wasFastAboveSlow # None /\ isAbove # wasFastAboveSlow

\* onTrade and the updateSignal it ends in.
OnTrade(price) ==
    /\ trades' = Pushed(price)
    /\ IF ChipUndecided(trades')
       THEN UNCHANGED <<wasFastAboveSlow, chips>>
       ELSE LET isAbove == AvgAbove(End(trades', Fast), End(trades', Slow))
            IN  /\ wasFastAboveSlow' = isAbove
                /\ chips' = IF ChipChanges(isAbove)
                            THEN Append(chips, IF isAbove THEN "BUY" ELSE "SELL")
                            ELSE chips

ParityNext ==
    \E price \in Price :
        /\ Hold(price) \/ Decide(price)
        /\ OnTrade(price)

ParitySpec == ParityInit /\ [][ParityNext]_<<vars, pageVars>>

(* The page and the strategy agree: after every trade both remember the    *)
(* same comparison, and the chip has said what the backtest filled, one    *)
(* for one, but for the first fill, which needs no cross in the strategy   *)
(* (web/index.html:626-643, moving_average.py:19-38).                      *)
PageAgrees ==
    /\ wasFastAboveSlow = wasAbove
    /\ chips = IF fills = <<>> THEN <<>>
               ELSE [i \in 1..Len(fills) - 1 |-> fills[i + 1].signal]
=============================================================================
