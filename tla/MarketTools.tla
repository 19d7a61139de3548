---------------------------- MODULE MarketTools ----------------------------
(***************************************************************************)
(* tools/market_tools.py: the calls of several sessions (Streamlit runs    *)
(* each in its own thread) on the one MarketTools of the process, the      *)
(* governor and the quote cache they share, and the two upstream APIs.     *)
(*                                                                         *)
(* A call is cut where another thread may run between two of its effects:  *)
(* the cache lookup, the guard, the HTTP exchange, the recording of the    *)
(* outcome, the write to the cache or the store.  Calls that touch no      *)
(* shared state (candles and order book of an equity, news of a crypto     *)
(* pair, query_timeseries) are pure reads and have no action.              *)
(***************************************************************************)
EXTENDS RateGovernor, FiniteSets

CONSTANTS
    Session,  \* threads calling the tools
    Crypto,   \* symbols of CRYPTO_PAIRS
    Equity,   \* any other symbol
    Tool,     \* the tools the sessions use: a subset of AllTools
    HasKey,   \* a Finnhub API key is configured
    QuoteTTL, \* QUOTE_CACHE_TTL_S, in ticks
    Outages,  \* whether an upstream may leave the state "up"
    RedisFails \* whether a command of the quote cache's Redis may fail

AllTools == {"quote", "candles", "orderbook", "news"}
Symbol == Crypto \cup Equity
SourceOf(x) == IF x \in Crypto THEN "kraken" ELSE "finnhub"

ASSUME ToolsAssumption ==
    /\ Tool \subseteq AllTools
    /\ {SourceOf(x) : x \in Symbol} \subseteq Source
    /\ Crypto \cap Equity = {}
    /\ {HasKey, Outages, RedisFails} \subseteq BOOLEAN
    /\ QuoteTTL \in Nat

VARIABLES
    call,     \* [Session -> the call it is in]
    redis,    \* whether the cache still uses Redis and not its dictionary
    quoteAge, \* [Symbol -> age of the cached quote, or None]; one above
              \* QuoteTTL is an expired entry of the dictionary
    stored,   \* symbols whose candles have been upserted
    upstream  \* [Source -> "up" | "garbled" | "down"]

toolVars == <<tokens, sinceRefill, failures, sinceOpened,
              call, redis, quoteAge, stored, upstream>>

Idle == [tool |-> None, symbol |-> None, step |-> "idle"]
Steps == {"expired", "missed", "denied", "inflight", "answered"}
Calls == [tool : Tool, symbol : Symbol, step : Steps] \cup {Idle}

ToolsInit ==
    /\ GovInit
    /\ call = [t \in Session |-> Idle]
    /\ redis \in {TRUE, ~RedisFails}
    /\ quoteAge = [x \in Symbol |-> None]
    /\ stored = {}
    /\ upstream = [s \in Source |-> "up"]

Enter(t, tool, x, step) ==
    call' = [call EXCEPT ![t] = [tool |-> tool, symbol |-> x, step |-> step]]
Move(t, step) == call' = [call EXCEPT ![t].step = step]
Return(t) == call' = [call EXCEPT ![t] = Idle]

At(t, step) == call[t].step = step
SourceFor(t) == SourceOf(call[t].symbol)

\* The symbols a tool asks an upstream API about.
Upstreamed(tool) ==
    CASE tool = "quote"                   -> Symbol
      [] tool \in {"candles", "orderbook"} -> Crypto
      [] tool = "news"                    -> IF HasKey THEN Equity ELSE {}

-----------------------------------------------------------------------------
(* get_quote *)

\* A Redis command fails: from then on, for good, the cache is a dictionary
\* of the process, which holds nothing yet.
RedisLost == RedisFails /\ redis /\ redis' = FALSE

\* A hit returns at once and changes nothing.
QuoteMiss(t, x) ==
    /\ "quote" \in Tool
    /\ At(t, "idle")
    /\ \/ quoteAge[x] = None /\ UNCHANGED <<redis, quoteAge>>
       \/ RedisLost /\ quoteAge' = [y \in Symbol |-> None]
    /\ Enter(t, "quote", x, "missed")
    /\ UNCHANGED <<govVars, stored, upstream>>

\* The entry found in the dictionary has expired; Redis drops its own.
QuoteExpired(t, x) ==
    /\ "quote" \in Tool
    /\ At(t, "idle")
    /\ quoteAge[x] = QuoteTTL + 1
    /\ Enter(t, "quote", x, "expired")
    /\ UNCHANGED <<govVars, redis, quoteAge, stored, upstream>>

\* It is deleted, or whatever has replaced it; when another session has
\* deleted it meanwhile, the KeyError leaves get_quote.
ExpiredDeleted(t) ==
    /\ At(t, "expired")
    /\ quoteAge' = [quoteAge EXCEPT ![call[t].symbol] = None]
    /\ IF quoteAge[call[t].symbol] = None THEN Return(t) ELSE Move(t, "missed")
    /\ UNCHANGED <<govVars, redis, stored, upstream>>

\* Admitted.  Without a key an equity gives up after taking its token.
QuoteAdmitted(t) ==
    /\ At(t, "missed")
    /\ GuardAdmits(SourceFor(t))
    /\ IF call[t].symbol \in Equity /\ ~HasKey
       THEN Return(t)
       ELSE Move(t, "inflight")
    /\ UNCHANGED <<redis, quoteAge, stored, upstream>>

\* Either exception of the guard: None is returned, nothing is recorded.
QuoteDenied(t) ==
    /\ At(t, "missed")
    /\ GuardRaises(SourceFor(t))
    /\ Return(t)
    /\ UNCHANGED <<redis, quoteAge, stored, upstream>>

-----------------------------------------------------------------------------
(* get_candles, get_orderbook, get_news *)

MutFetchAdmitted(t, tool, x) ==
    /\ At(t, "idle")
    /\ ~IsOpen(SourceOf(x))
    /\ UNCHANGED govVars
    /\ Enter(t, tool, x, "inflight")
    /\ UNCHANGED <<redis, quoteAge, stored, upstream>>

FetchAdmitted(t, tool, x) ==
    /\ At(t, "idle")
    /\ GuardAdmits(SourceOf(x))
    /\ Enter(t, tool, x, "inflight")
    /\ UNCHANGED <<redis, quoteAge, stored, upstream>>

\* The guard raises inside the try block ...
FetchDenied(t, tool, x) ==
    /\ At(t, "idle")
    /\ GuardRaises(SourceOf(x))
    /\ Enter(t, tool, x, "denied")
    /\ UNCHANGED <<redis, quoteAge, stored, upstream>>

\* ... so the handler records the refusal as a failure of the source.
RefusalRecorded(t) ==
    /\ At(t, "denied")
    /\ RecordFailure(SourceFor(t))
    /\ Return(t)
    /\ UNCHANGED <<redis, quoteAge, stored, upstream>>

-----------------------------------------------------------------------------
(* The HTTP exchange ends.  Every request has a timeout of 8 s. *)

\* finnhub.get_quote turns a RequestException of the request, though not of
\* the decoding of its body, into "no data".
Swallowed(t) == call[t].tool = "quote" /\ SourceFor(t) = "finnhub"

\* A well-formed answer: with data, or with an error payload or no rows.
Answered(t) ==
    /\ At(t, "inflight")
    /\ upstream[SourceFor(t)] = "up"
    /\ RecordSuccess(SourceFor(t))
    /\ IF call[t].tool \in {"quote", "candles"}
       THEN Return(t) \/ Move(t, "answered")
       ELSE Return(t)
    /\ UNCHANGED <<redis, quoteAge, stored, upstream>>

MutUnanswered(t) ==
    /\ At(t, "inflight")
    /\ upstream[SourceFor(t)] = "down"
    /\ UNCHANGED <<tokens, sinceRefill, failures, sinceOpened>>
    /\ Return(t)
    /\ UNCHANGED <<redis, quoteAge, stored, upstream>>

\* requests raises: timeout, connection error, bad status, or not JSON.
\* The last is recorded as a failure even where the others are swallowed.
Unanswered(t) ==
    /\ At(t, "inflight")
    /\ upstream[SourceFor(t)] = "down"
    /\ \/ RecordFailure(SourceFor(t))
       \/ Swallowed(t) /\ RecordSuccess(SourceFor(t))
    /\ Return(t)
    /\ UNCHANGED <<redis, quoteAge, stored, upstream>>

\* JSON of an unexpected shape: a KeyError that no handler catches.  The
\* quote parsers raise before the outcome is recorded, the others after.
Garbled(t) ==
    /\ At(t, "inflight")
    /\ upstream[SourceFor(t)] = "garbled"
    /\ IF call[t].tool = "quote"
       THEN UNCHANGED govVars
       ELSE RecordSuccess(SourceFor(t))
    /\ Return(t)
    /\ UNCHANGED <<redis, quoteAge, stored, upstream>>

SaveQuote(t) ==
    /\ At(t, "answered") /\ call[t].tool = "quote"
    /\ \/ UNCHANGED redis /\ quoteAge' = [quoteAge EXCEPT ![call[t].symbol] = 0]
       \/ RedisLost /\ quoteAge' = [y \in Symbol |->
                                      IF y = call[t].symbol THEN 0 ELSE None]
    /\ Return(t)
    /\ UNCHANGED <<govVars, stored, upstream>>

Upsert(x) == stored' = stored \cup {x}

SaveCandles(t) ==
    /\ At(t, "answered") /\ call[t].tool = "candles"
    /\ Upsert(call[t].symbol)
    /\ Return(t)
    /\ UNCHANGED <<govVars, redis, quoteAge, upstream>>

-----------------------------------------------------------------------------
(* The clock and the upstream APIs. *)

\* A cached quote is served until its age exceeds the TTL.
Older(age) ==
    CASE age = None           -> None
      [] age # None /\ redis  -> IF age < QuoteTTL THEN age + 1 ELSE None
      [] age # None /\ ~redis -> Smaller(age, QuoteTTL) + 1

ToolsTick ==
    /\ GovTick
    /\ quoteAge' = [x \in Symbol |-> Older(quoteAge[x])]
    /\ UNCHANGED <<call, redis, stored, upstream>>

UpstreamChanges(s) ==
    /\ Outages
    /\ \E h \in {"up", "garbled", "down"} \ {upstream[s]} :
          upstream' = [upstream EXCEPT ![s] = h]
    /\ UNCHANGED <<govVars, call, redis, quoteAge, stored>>

-----------------------------------------------------------------------------
Begin(t) ==
    \/ \E x \in Symbol : QuoteMiss(t, x) \/ QuoteExpired(t, x)
    \/ \E tool \in Tool \ {"quote"} : \E x \in Upstreamed(tool) :
          FetchAdmitted(t, tool, x) \/ FetchDenied(t, tool, x)

\* The guard has been passed or has refused: what is left of the call.
Finish(t) ==
    \/ RefusalRecorded(t)
    \/ Answered(t)
    \/ Unanswered(t)
    \/ Garbled(t)
    \/ SaveQuote(t)
    \/ SaveCandles(t)

Proceed(t) == QuoteAdmitted(t) \/ QuoteDenied(t) \/ ExpiredDeleted(t) \/ Finish(t)

\* The clock runs, and a call that began is carried through, since requests
\* have a timeout.  Nobody has to call anything.
ToolsFairness ==
    /\ WF_toolVars(ToolsTick)
    /\ \A t \in Session : WF_toolVars(Proceed(t))

-----------------------------------------------------------------------------
(* Type invariant. *)
ToolsTypeOK ==
    /\ GovTypeOK
    /\ call \in [Session -> Calls]
    /\ redis \in BOOLEAN
    /\ quoteAge \in [Symbol -> (0..QuoteTTL + 1) \cup {None}]
    /\ stored \subseteq Crypto
    /\ upstream \in [Source -> {"up", "garbled", "down"}]
=============================================================================
