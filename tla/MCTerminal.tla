----------------------------- MODULE MCTerminal -----------------------------
(* The terminal with the program's own numbers in ticks of 10 s: buckets   *)
(* of 3 and 2 that are full again after one tick, 5 failures, 30 s to a    *)
(* trial, a refresh every 10 s.                                            *)
EXTENDS Terminal

MCSource == {"kraken", "finnhub"}
MCRate == [s \in Source |-> IF s = "kraken" THEN 10 ELSE 5]
MCCapacity == [s \in Source |-> IF s = "kraken" THEN 3 ELSE 2]
=============================================================================
