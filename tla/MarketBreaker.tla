---------------------------- MODULE MarketBreaker ----------------------------
(***************************************************************************)
(* MarketTools watched for what its circuit breakers are fed: the requests *)
(* a source has failed, and the refusals of the governor's own that tools  *)
(* have recorded as failures.  The observer restricts nothing.             *)
(***************************************************************************)
EXTENDS MarketTools

VARIABLES
    broken,  \* requests the source failed since a success was last recorded
    refused  \* refusals recorded since then; both counted up to Threshold

vars == <<tokens, sinceRefill, failures, sinceOpened,
          call, redis, quoteAge, stored, upstream, broken, refused>>

Init ==
    /\ ToolsInit
    /\ broken = [s \in Source |-> 0]
    /\ refused = [s \in Source |-> 0]

OneMore(count, s) == [count EXCEPT ![s] = Smaller(@ + 1, Threshold)]

\* An answer ends the series.  Except to a quote, any JSON will do.
Succeeds(t) ==
    /\ Answered(t) \/ (Garbled(t) /\ call[t].tool # "quote")
    /\ broken' = [broken EXCEPT ![SourceFor(t)] = 0]
    /\ refused' = [refused EXCEPT ![SourceFor(t)] = 0]

\* The source fails a request.
Breaks(t) ==
    /\ Unanswered(t)
    /\ broken' = OneMore(broken, SourceFor(t))
    /\ UNCHANGED refused

\* A tool records that the governor refused it.
Refused(t) ==
    /\ RefusalRecorded(t)
    /\ refused' = OneMore(refused, SourceFor(t))
    /\ UNCHANGED broken

\* A call begins, a quote is refused, a result is saved, or a quote arrives
\* that makes no sense.
Quietly(t) ==
    /\ \/ Begin(t)
       \/ ExpiredDeleted(t)
       \/ QuoteAdmitted(t)
       \/ QuoteDenied(t)
       \/ Garbled(t) /\ call[t].tool = "quote"
       \/ SaveQuote(t)
       \/ SaveCandles(t)
    /\ UNCHANGED <<broken, refused>>

TimePasses == ToolsTick /\ UNCHANGED <<broken, refused>>

UpstreamMoves(s) == UpstreamChanges(s) /\ UNCHANGED <<broken, refused>>

Next ==
    \/ \E t \in Session : Succeeds(t) \/ Breaks(t) \/ Refused(t) \/ Quietly(t)
    \/ \E s \in Source : UpstreamMoves(s)
    \/ TimePasses

Spec == Init /\ [][Next]_vars

FairSpec == Spec /\ ToolsFairness

-----------------------------------------------------------------------------
(* A circuit is opened by a series of failures and nothing less: when it   *)
(* is not closed, the requests its source failed and the refusals that     *)
(* get_candles, get_orderbook and get_news recorded, none of them before   *)
(* the last recorded success, come to Threshold ("Opens after              *)
(* `failure_threshold` consecutive failures", ratelimit.py:47).  That      *)
(* refusals count among them is market_tools.py:100-101, 125-126, 151-152. *)
OpenedByFailures ==
    \A s \in Source :
        sinceOpened[s] # None => broken[s] + refused[s] >= Threshold

(* No failure is lost between concurrent calls: Threshold of them, and no  *)
(* success since, have the circuit open or half-open (ratelimit.py:47).    *)
(* Finnhub's is the exception: its client reports a failed quote as "no    *)
(* data" (finnhub.py:24-30).                                               *)
ConsecutiveFailuresOpen ==
    \A s \in Source \ {"finnhub"} :
        broken[s] + refused[s] >= Threshold => sinceOpened[s] # None

\* Somebody wants a quote that only a request can bring.
QuoteWanted(s) ==
    \E t \in Session :
        /\ At(t, "missed") /\ SourceFor(t) = s
        /\ call[t].symbol \in Crypto \/ HasKey

(* A healthy source whose quotes are asked for again and again gets its    *)
(* circuit back, whatever the outage left in breaker, bucket and cache and *)
(* however the calls interleave, unless refusals are recorded for ever     *)
(* ("half-opens for one trial call after `reset_after_s`",                 *)
(* ratelimit.py:47-48; market_tools.py:63-82).  Terminal shows that the    *)
(* exception happens.                                                      *)
QuotesRecover ==
    \A s \in Source :
        (/\ <>[](upstream[s] = "up")
         /\ []<>QuoteWanted(s)
         /\ <>[](\A t \in Session : ~At(t, "denied")))
            => []<>(sinceOpened[s] = None)
=============================================================================
