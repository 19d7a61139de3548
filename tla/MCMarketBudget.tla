--------------------------- MODULE MCMarketBudget ---------------------------
(* MarketBudget for one source.  The bucket has the proportions of         *)
(* finnhub's in half tokens: a call costs what two ticks supply.           *)
EXTENDS MarketBudget, TLC

MCSource == {"kraken"}
MCRate == [s \in Source |-> 1]
MCCapacity == [s \in Source |-> 4]
\* The sessions are interchangeable.
SessionSymmetry == Permutations(Session)
=============================================================================
