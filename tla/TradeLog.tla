------------------------------ MODULE TradeLog ------------------------------
(***************************************************************************)
(* What the ingestion service promises of the trade history: a log that    *)
(* only ever grows at its end, holding trades in exchange order, each at   *)
(* most once.  Gaps are allowed: the design accepts lost trades, never     *)
(* reordered or repeated ones.                                             *)
(***************************************************************************)
EXTENDS TradeSeq

VARIABLE log

Init == log = <<>>

Grow ==
    /\ Extends(log', log)
    /\ Increasing(log')

Spec == Init /\ [][Grow]_log
=============================================================================
