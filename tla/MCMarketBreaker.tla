-------------------------- MODULE MCMarketBreaker --------------------------
(* MarketBreaker on small instances; tokens are whole, one per tick. *)
EXTENDS MarketBreaker

MCSource == {"kraken"}
MCRate == [s \in Source |-> 1]
MCCapacity == [s \in Source |-> 2]
=============================================================================
