------------------------------ MODULE TradeSeq ------------------------------
(***************************************************************************)
(* Sequences of trades.  A trade is identified by its position in the      *)
(* exchange's own order of execution, a positive number: of the fields of  *)
(* types.Trade only identity and order matter to ingestion.                *)
(***************************************************************************)
EXTENDS Naturals, Sequences

\* The trades occurring in s.
Ids(s) == {s[i] : i \in 1..Len(s)}

\* In exchange order, no trade twice.
Increasing(s) == \A i, j \in 1..Len(s) : i < j => s[i] < s[j]

\* In exchange order, a trade possibly several times in a row.
NonDecreasing(s) == \A i, j \in 1..Len(s) : i < j => s[i] <= s[j]

\* Every trade of A was executed before every trade of B.
Before(A, B) == \A m \in A, n \in B : m < n

\* new continues old.
Extends(new, old) ==
    /\ Len(old) <= Len(new)
    /\ \A i \in 1..Len(old) : new[i] = old[i]
=============================================================================
