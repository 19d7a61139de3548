------------------------------ MODULE Backtest ------------------------------
(***************************************************************************)
(* backtest.py: BacktestEngine replays trades through the strategy of      *)
(* strategies/moving_average.py and the PaperBroker of execution.py.  One  *)
(* step is one iteration of its loop.                                      *)
(***************************************************************************)
EXTENDS MovingAverage

CONSTANTS
    OrderSize,   \* order_size of the broker
    MaxTrades    \* bound on the trades replayed

ASSUME BacktestAssumption ==
    /\ OrderSize \in Int
    /\ MaxTrades \in Nat

VARIABLES
    prices,   \* prices of the trades replayed so far
    fast,     \* _fast_prices
    slow,     \* _slow_prices
    wasAbove, \* _was_fast_above_slow
    position, \* PaperBroker.position
    fills     \* the fills, each with its signal and the number of its trade

vars == <<prices, fast, slow, wasAbove, position, fills>>

Init ==
    /\ prices = <<>>
    /\ fast = <<>>
    /\ slow = <<>>
    /\ wasAbove = None
    /\ position = 0
    /\ fills = <<>>

-----------------------------------------------------------------------------
\* PaperBroker.execute, and the engine's list of fills.
Execute(signal) ==
    IF signal = "HOLD" THEN UNCHANGED <<position, fills>>
    ELSE /\ position' = IF signal = "BUY" THEN position + OrderSize
                        ELSE position - OrderSize
         /\ fills' = Append(fills, [signal |-> signal, trade |-> Len(prices) + 1])

Windows(price) ==
    /\ Len(prices) < MaxTrades
    /\ prices' = Append(prices, price)
    /\ fast' = Push(fast, price, Fast)
    /\ slow' = Push(slow, price, Slow)

MutHold(price) ==
    /\ Windows(price)
    /\ Undecided(fast', slow')
    /\ wasAbove' = None
    /\ UNCHANGED <<position, fills>>

\* A trade that leaves a window unfilled, or the averages equal.
Hold(price) ==
    /\ Windows(price)
    /\ Undecided(fast', slow')
    /\ UNCHANGED <<wasAbove, position, fills>>

MutDecide(price) ==
    /\ Windows(price)
    /\ ~Undecided(fast', slow')
    /\ wasAbove' = (IF wasAbove = None THEN AvgAbove(fast', slow') ELSE wasAbove)
    /\ Execute(Crossing(wasAbove, AvgAbove(fast', slow')))

\* A trade that decides which average is above.
Decide(price) ==
    /\ Windows(price)
    /\ ~Undecided(fast', slow')
    /\ wasAbove' = AvgAbove(fast', slow')
    /\ Execute(Crossing(wasAbove, AvgAbove(fast', slow')))

Next == \E price \in Price : Hold(price) \/ Decide(price)

Spec == Init /\ [][Next]_vars

-----------------------------------------------------------------------------
(* Type invariant. *)
TypeOK ==
    /\ prices \in Seq(Price)
    /\ fast \in Seq(Price) /\ Len(fast) <= Fast
    /\ slow \in Seq(Price) /\ Len(slow) <= Slow
    /\ wasAbove \in BOOLEAN \cup {None}
    /\ position \in Int
    /\ fills \in Seq([signal : {"BUY", "SELL"}, trade : Nat])

(* The broker is flat or holds one order on the side of the first fill,    *)
(* whatever the prices do: equal averages, whipsaws and repeated readings  *)
(* never make the strategy buy or sell twice in a row, and a position is   *)
(* never turned around (moving_average.py:29-38, execution.py:14-29).      *)
Exposure ==
    /\ fills = <<>> <=> wasAbove = None
    /\ position =
         IF fills = <<>> THEN 0
         ELSE IF fills[1].signal = "BUY"
              THEN IF wasAbove = TRUE THEN OrderSize ELSE 0
              ELSE IF wasAbove = TRUE THEN 0 ELSE 0 - OrderSize

(* The incremental strategy fills exactly the crosses of the reference,    *)
(* on the side of the cross: two bounded windows and one remembered        *)
(* comparison are enough (moving_average.py:19-38, backtest.py:20-28).     *)
FillsAreTheCrosses ==
    /\ {fills[i].trade : i \in 1..Len(fills)} = {k \in 1..Len(prices) : CrossAt(prices, k)}
    /\ \A i \in 1..Len(fills) :
          fills[i].signal = SideAt(prices, fills[i].trade)
=============================================================================
