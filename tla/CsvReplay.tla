----------------------------- MODULE CsvReplay -----------------------------
(***************************************************************************)
(* data.py: CsvTradeSource, the source of the backtest's trades.  It reads *)
(* the whole file, sorts the rows by the number in their ts column, which  *)
(* leaves rows of one time in file order, and hands them over one by one.  *)
(***************************************************************************)
EXTENDS SignalParity, FiniteSets

CONSTANT Time  \* numbers in the ts column

ASSUME ReplayAssumption == Time \subseteq Nat

VARIABLES
    file,   \* rows of the file
    unread  \* numbers of the rows not yet handed over

replayVars == <<vars, pageVars, file, unread>>

ReplayInit ==
    /\ ParityInit
    /\ file \in [1..MaxTrades -> [ts : Time, price : Price]]
    /\ unread = 1..MaxTrades

\* The text of the column, for times that differ in their first digit.
MutKey(row) == IF row.ts < 10 THEN row.ts ELSE row.ts \div 10

\* int(r["ts"])
Key(row) == row.ts

\* The row that comes first among the unread ones after the sort.
First ==
    CHOOSE r \in unread : \A s \in unread :
        Key(file[r]) < Key(file[s]) \/ (Key(file[r]) = Key(file[s]) /\ r <= s)

ReplayNext ==
    /\ unread # {}
    /\ unread' = unread \ {First}
    /\ LET price == file[First].price
       IN  /\ Hold(price) \/ Decide(price)
           /\ OnTrade(price)
    /\ UNCHANGED file

ReplaySpec == ReplayInit /\ [][ReplayNext]_replayVars

\* Row s is replayed before row r.
Earlier(s, r) == file[s].ts < file[r].ts \/ (file[s].ts = file[r].ts /\ s < r)

(* The trades are replayed in the order of time, those of one time in the  *)
(* order of the file, and none is left out or replayed twice: the k-th     *)
(* price is that of the row with k - 1 rows before it.  With a rule as     *)
(* sensitive to order as a cross, two rows the wrong way round are a fill  *)
(* too many or too few (data.py:23-35, backtest.py:23).                    *)
ReplayedInTime ==
    /\ \A k \in 1..Len(prices) : \E r \in 1..MaxTrades :
          /\ Cardinality({s \in 1..MaxTrades : Earlier(s, r)}) = k - 1
          /\ prices[k] = file[r].price
    /\ unread = {} => Len(prices) = MaxTrades
=============================================================================
