---------------------------- MODULE MCDashboard ----------------------------
(* Dashboard on a small instance: the first two trades share a second. *)
EXTENDS Dashboard

MCSecond == [n \in 1..MaxTrade |-> n \div 3]
=============================================================================
