# TLA+ models of crypto-trading-platform

Specifications, model-checking runs and machine-checked proofs for the Python
package `src/src/hft` (an ingestion service, market-data tools with rate
limiting and circuit breaking, a moving-average backtest, a web dashboard, a
Streamlit terminal and an agent layer). Every definition is translated from the
source; `PROJECT.json` maps each one to its lines. Paths below are relative to
`src/src/hft` unless they start with `src/`.

## 1. The system

| component | state it keeps | operations | talks to |
|---|---|---|---|
| Kraken connector (`connectors/kraken.py`) | the WebSocket, `backoff` | connect, subscribe, parse and put trades, sleep and reconnect | Kraken WS v2; the asyncio queue |
| ingestion core (`ingestion.py`) | queue, `TradeBatcher._buffer`, the batch being written | `_consume`, `_flush_loop` | Redis, TimescaleDB through two callables |
| Redis tick bus (`storage/redis_bus.py`) | client connection | `publish`, `subscribe` | Redis channel `ticks:<exchange>:<symbol>` |
| trade store (`storage/timescale.py`) | connection pool, table `trades` | `write_batch`, `recent_trades` | TimescaleDB |
| ingestion process (`main.py`) | none of its own | `asyncio.gather(connector, core)` | the four above |
| dashboard API (`api.py`) | none of its own | history over HTTP, live ticks over WebSocket | trade store, tick bus |
| web page (`src/web/index.html`) | `trades`, `wasFastAboveSlow` | `loadHistory`, then `connectLive`, reconnect after 3 s | dashboard API |
| rate governor (`data_plane/ratelimit.py`) | per source: tokens, `_last`, `_failures`, `_opened_at` | `guard`, `record_success`, `record_failure` | called by the tools |
| market tools (`tools/market_tools.py`) | shared cache, governor, store | `get_quote`, `get_candles`, `get_orderbook`, `get_news`, `query_timeseries` | Kraken and Finnhub REST |
| quote cache (`data_plane/cache.py`) | Redis client or fallback dictionary | `get`, `set` | Redis |
| candle store (`data_plane/timeseries.py`) | a SQLite file | upserts and reads | SQLite |
| agent layer (`agents/`) | an `AgentRun` per question; the output cache | `Supervisor.handle_nl_query`, `NLQueryAgent.run` | LLM, market tools |
| Streamlit terminal (`src/streamlit_app.py`, `ui/`) | per session and symbol: price, volume and signal lists, a strategy | rerun on every refresh, each session in a thread of its own | market tools, REST clients directly |
| backtest (`backtest.py`, `strategies/`, `execution.py`) | two price windows, last comparison, position | `run` over a trade source | a CSV file (`data.py`) |

The ingestion process is asynchronous and single-threaded: its tasks interleave
at `await`. The Streamlit process is multi-threaded: sessions share one
`MarketTools` per Finnhub key. Hard behaviour comes from those two forms of
concurrency, from servers that fail, hang or answer late, and from restarts.

### What makes each part correct

* **Rate governor.** In any window of time the admitted calls cost no more than
  a full bucket and what the rate supplied; a refusal costs nothing; a breaker
  opens on consecutive failures of its own source and a healthy source gets its
  circuit back.
* **Market tools and cache.** No request goes to an upstream API past the
  governor, however the calls of several sessions interleave.
* **Connector.** What it hands over is a log in exchange order, without a silent
  gap inside a subscription; the waits follow the backoff schedule; a lost
  connection is followed by a subscription.
* **Ingestion core and stores.** The table only grows, in exchange order and
  without a repeated trade; each accepted trade is somewhere known; each one
  reaches the table or is given up by a write that failed or by a restart.
* **Dashboard.** History and live feed fit together in time, and the list stays in
  order; a subscription has no gap; a page that lost its connection comes back.
* **Backtest and the page's signal chip.** The incremental rule finds exactly
  the crosses of the price history, the position is flat or one order, and both
  implementations of the rule agree.
* **Agents.** Guardrails bound what a question costs and what may be shown; an
  answer is whole, of its slot, and the answer to the question asked.
* **Terminal.** A page that keeps refreshing does not keep itself from recovery;
  charts, strategy and signals of a symbol agree however clicks cut renders short.

## 2. Modules and how they correspond to the code

Arrows read "is used by". A module in brackets is only an instance for TLC.

```
RateGovernor -> RateWindow
RateGovernor -> MarketTools -> MarketBreaker [MCMarketBreaker] -> MarketBreakerProofs
                            -> Terminal      [MCTerminal]
MarketTools, RateWindow -> MarketBudget [MCMarketBudget] -> MarketBudgetProofs
GuardThreads                    (the code of RateGovernor, thread by thread)
TradeSeq -> TradeLog
TradeSeq -> TradeSeqProofs      (lemmas on sequences, and induction over numbers)
TradeSeq, TradeLog -> IngestionCore -> IngestionCoreProofs
                   -> KrakenConnector
KrakenConnector, IngestionCore -> IngestionService -> IngestionServiceProofs
IngestionCore -> Dashboard [MCDashboard] -> DashboardProofs
MovingAverage -> Backtest -> SignalParity -> CsvReplay [MCBacktest]
              -> Polling
CsvReplay, Polling -> StrategyProofs
Agents [MCAgents] -> AgentsProofs
```

Definitions whose names begin with `Mut` are variants of the definition that
follows them, each with one plausible bug; they are part of no specification.
`PROJECT.json` pairs each with the property that rejects it.

**RateGovernor** (`data_plane/ratelimit.py`). Per source: `tokens` is `_tokens`,
`sinceRefill` the time since `_last`, `failures` is `_failures`, and
`sinceOpened` the time since `_opened_at`, or `None`. Time is counted in ticks
and tokens in units so small that a tick supplies `Rate` whole units. Ages stop
at `AgeCap`, by when every bucket is full and every circuit half-open, so a
greater age makes no difference to any call. `GuardAdmits` and `GuardRaises`
are the two outcomes of `guard` (breaker first; a refusal by the bucket still
refills it and moves `_last`), `RecordSuccess` and `RecordFailure` the two
methods that follow a request.

**RateWindow** drives the governor with arbitrary callers and watches it through
a window of time that may be opened at any moment. It is the abstract
specification of what a source may be asked for; `MarketBudget` implements it.

**GuardThreads** is the same file without the assumption that a method is one
step. The frame of a thread keeps what it has read of the clock and what `min()`
has returned; a step is the code between two points at which CPython may switch
threads. `RefillComputed` and `Acquired` are the two halves of `try_acquire`,
`LookAtBreaker` and `CompareOpening` the two looks at `_opened_at`.

**MarketTools** (`tools/market_tools.py`, the quote cache, the candle store and
the two REST clients). `call[t]` says in which tool session `t` is and how far.
A call is cut where another thread may run between two of its effects: lookup
(`QuoteMiss`; a hit changes nothing), guard (`QuoteAdmitted`, `QuoteDenied`,
`FetchAdmitted`, `FetchDenied`), the outcome of the request (`Answered`,
`Unanswered`, `Garbled`), the record of a refusal (`RefusalRecorded`), and the
write (`SaveQuote`, `SaveCandles`). In the dictionary the lookup of an expired
quote and its deletion are two steps (`QuoteExpired`, `ExpiredDeleted`): a second
session may have found the same entry, and then gets a `KeyError`, or deletes the
fresh quote a third has stored. `get_quote` guards outside its `try`, the
other three inside, which is why only they have `RefusalRecorded`. `redis` says
whether the cache still uses Redis; the first failing command switches to an
empty dictionary for good. `upstream[s]` is what an API is doing: answering,
failing, or answering JSON of another shape, which raises a `KeyError` nobody
catches (before the outcome is recorded in the quote parsers, after it in the
others).

**MarketBreaker** and **MarketBudget** add observers: since a success was last
recorded, the requests a source failed and the refusals that tools recorded as
failures; and the requests an API received in a window. The latter
is `RateWindow`'s window, which makes the refinement a matter of the tools' steps
and the requests a matter of one more ledger.

**Terminal** (`src/streamlit_app.py`) composes `MarketTools` with the page
script: a render asks Kraken for the price and the watchlist, then calls
`get_candles` and `get_orderbook`; with the auto-refresh on it then sleeps and
starts again, and while it sleeps it answers no click; an exception ends the
script and with it the auto-refresh.

**TradeSeq** holds the vocabulary of trade sequences, **TradeLog** the abstract
specification of a history: it grows at its end, in order, without repetition.

**IngestionCore** (`ingestion.py`, `storage/redis_bus.py`, `storage/timescale.py`
as `main.py` composes them). An action is the code between two awaits. `Take` is
`queue.get`, `batcher.add` and the start of the publish; `PublishDelivered` is
Redis handing the message on, possibly again when the client repeats it;
`PublishEnds` the end of the await, whatever its outcome. `Flush` swaps the
buffer, `Commit` is the database's, `WriteReturns` and `WriteFails` the two ends
of `write_batch`: it may fail before the commit or after it. `Restart` ends the
process at any point and starts a new one.

**KrakenConnector** (`connectors/kraken.py`) and the exchange it follows. `link`
is where `run()` is; `backoff` is its local variable; `handed` is what it has put
on the queue. `Receive(hi, s)` is a message with the trades up to `hi`, of which
the parser yields `s`: `Parsed(hi)` are the sequences in order that a choice of
malformed entries may leave. `ReceiveRaises` is a message whose shape makes the
parser raise what nobody catches; the entries around it are lost with it
(`spilled`). `SubscriptionRefused` is a subscription answered by an error, which
the parser takes for a message without trades: the link stays open and silent.

**IngestionService** (`main.py`) runs the two on one queue: a message is received
by the connector and arrives at the core in one step. An exception in the
connector ends `gather` and so the process.

**Dashboard** (`api.py`, `recent_trades`, the page's `loadHistory`, `connectLive`
and `onTrade`) runs on top of `IngestionCore`. `page` is the page's life:
loading, connecting, open (accepted, subscription not yet in effect), live,
waiting for the retry. `Closes` is a connection that fails or is lost, at any
point and any number of times. `RecentTrades` returns every answer the database
may give: rows are ordered by whole seconds only.

**MovingAverage** (`strategies/moving_average.py`) is the strategy without state of
its own: what a trade makes of two windows and a remembered comparison, and the
rule this stands for, stated on the whole history of prices (`CrossAt`). Everything
that runs the strategy extends it.

**Backtest** (`backtest.py`, `execution.py`). A step is one trade of the loop: the deques, the early returns (`Hold`) or the
comparison (`Decide`), and the broker. **SignalParity** adds the page's
`updateSignal`, a second implementation without windows, fed the same trades.
**CsvReplay** (`data.py`) feeds both from a file of rows in any order, sorted as
the source sorts it: by the number in `ts`, rows of one time in file order.

**Polling** (`update()` of `src/streamlit_app.py`) is a session that polls several
symbols, each with its lists and a strategy of its own (`AfterTrade` is its
`on_trade`). A step is the code from one access to `st.session_state` to the next,
since Streamlit ends a script there when a click asks for another run
(`CutShort`); what was done by then stays. The observer `polls` holds every price
fetched with what was done of it; `Done` puts the polls that got to a thing in
order, by the number of such polls below each.

**Agents** (`agents/supervisor.py`, `nl_query_agent.py`, `base.py`,
`llm_client.py`, `output_cache.py`). `run[t]` is the question of session `t` and
its `AgentRun`; every chat, retry pause and tool call is a step, and the clock
moves between them. The cache is keyed by the slot alone, because the console
passes no symbol hint. The lookup of an expired answer and its deletion are two
steps (`Expired`, `Deletes`): another session may have deleted the entry before
(`DeletedBefore`, a `KeyError`) or have stored a fresh one, which is then deleted.

## 3. The runs

Each passing run explores its instance completely. States are distinct ones.

| run | question | instance and why it is enough |
|---|---|---|
| MarketBreaker | Does the breaker open exactly on consecutive failures, and does a healthy source get its circuit back? | Two sessions calling `get_quote`, `get_candles` and `get_orderbook` on one pair through outages, garbled answers and a lost Redis. Threshold 3, more than the sessions have calls under way, and reset time 2: several callers pass a half-open circuit, late outcomes of old calls arrive. What opens the circuit is proved for all values. |
| MarketBudget | Do the Kraken tools use the governor only as `RateWindow` allows, is the budget kept in every window, are refusals free, do the breaker's two fields agree, and can any interleaving put a request past the bucket? | Two interchangeable sessions, three tools, one pair (sources share nothing), with Finnhub's proportions in half tokens: rate 1, capacity 4, cost 2. Windows up to 5 ticks are longer than a refill from empty; ages stop at 4, when the bucket is full. Proved for all values. |
| IngestionCore | Order, account and (as long as awaits end) progress of trades over failing writes, unacknowledged commits, repeated publishes and restarts. | Three trades: one in the table, one in the batch, one in the buffer or the queue. Bursts of two, two attempts per publish, any number of restarts. The safety part is proved for all values. |
| IngestionService | Is what the connector hands over a log without silent gaps, on the documented backoff, and does the composition deliver what the core assumes of its producer? | Three trades, messages of up to two entries with any subset malformed, refused subscriptions, drops, crashes of the connector and restarts at every point. Backoff cap 5, so that the cap is no power of two and is reached with the fourth drop, where the count of drops stops. The safety part, the schedule included, is proved for all values. |
| Backtest | Are rows replayed in time order? Are the fills the crosses of the whole history? Does the page's chip say the same? | Every file of six rows over three unevenly spaced prices and two times (2 and 10, which sort differently as text); windows 2 and 3, those of the tests and of the page; the page forgets after four trades. A shorter file is covered as the prefix of a replay. All four properties are proved for all values. |
| Polling | Do charts, strategy and signals of a symbol stay its own and in step? | One session, a pair and a share (only the pair has volumes), windows 1 and 2, lists of two entries, four polls of each symbol and two renders cut short: a window is full, a list has dropped an entry, and a cross follows a cut. Both properties are proved for all values. |
| Dashboard | Do history and feed fit together, and does a lost page come back? | Three trades of which two share a second, a history limit of two rows, a page of two trades; any number of failed attempts, lost connections, lost subscriptions and restarts of the ingestion. The safety part is proved for all values. |
| Agents | Do the guardrails hold, are answers whole and of their slot, does every question end? | Two sessions; replies of two tool calls against a step limit of one; a reply that alone exceeds the ceiling; slots shorter than a run; entries that expire inside their slot and are deleted twice. The safety part is proved for all values. |

Four runs are expected to fail, each on one property that quotes the repository;
section 5 explains them: **TerminalRecovers** (the program's own numbers in ticks
of 10 s), **GuardThreads** (two threads, a bucket of three), **IngestionSilentRedis**
and **AgentsCachedAnswer**.

Bounds on the model alone: `AgeCap` (ages make no difference beyond it),
`MaxTrade`, `MaxTrades`, `MaxDrops` (backoff has reached its cap by then),
`MaxClock`, `MaxCalls`, `MaxBurst` and `MaxMessage`, `MaxPolls` and
`MaxCuts` (what a session polls and how often a click cuts it short), `MaxNow` and
`MaxSent` (clock and requests of `GuardThreads`), `MaxWindow` (a window is reopened
before it is longer). `MaxHistory`, `MaxPoints` and `MaxShown` are the program's own
limits, made small. `CHECK_DEADLOCK FALSE` is set where the system really stops or
runs out of input: a replay at the end of its file, a session that has made its
polls, threads at the bounds of the clock and the requests, an ingestion process
that waits for ever on a silent Redis when nothing more arrives.

## 4. Fairness

* `MarketTools`: the clock runs, and a call that began is carried through, because
  each HTTP request has a timeout of 8 s. Nobody has to call anything: the page's
  auto-refresh calls `get_candles` and `get_orderbook`, and `get_quote` only the
  agent, on a click. `QuotesRecover` therefore has its callers for a premise (a quote
  of the source is asked for again and again, and no refusal is recorded for ever),
  next to a source that stays healthy.
* `Terminal`: the clock runs, scripts run and sleeps end. Users need not click.
* `IngestionCore`: the event loop runs the consumer when there is a trade, and the
  flush timer fires. Nothing is assumed of Redis and the database: neither client has
  a timeout (`redis_bus.py:20`, `timescale.py:12`), so an await of either may last for
  ever. That they end is a premise of the properties: `Settles` has both
  (`PublishesEnd`, `WritesEnd`), `SettlesWithoutRedis` only the second.
* `KrakenConnector` (`ConnectorFairness`, used by `IngestionService`): sleeps end and messages sent arrive unless the connection
  drops (weak); an endpoint tried again and again is reached and grants the
  subscription some time (strong, since each attempt may fail). That a connection
  on which the subscription was refused ends some time is the premise of
  `Resubscribes`, since nothing in `run()` ends it. Drops are not bounded. In an
  instance where trades run out the links still drop and recover for ever.
* `Dashboard`: the browser's timer fires, the history request ends, a message sent
  arrives unless the connection is lost (weak); a server tried again and again
  accepts some time, and its subscription takes effect some time (strong, since any
  number of attempts may fail). No fairness of the ingestion process is needed.
* `Agents`: requests to the LLM and to the tools' upstreams have timeouts.

## 5. Where the code and its documents differ

Each of the first four has a run whose counterexample shows it.

1. **A healthy source can be locked out for ever** (`TerminalRecovers`).
   `get_candles` and `get_orderbook` record the governor's own refusals as
   failures of the source (`tools/market_tools.py:100-101, 125-126`). A user who
   clicks quickly empties the bucket of 3; five refusals open the circuit of a
   Kraken that never failed. Each refusal by the open circuit moves `_opened_at`
   (`ratelimit.py:73-74`), and a page with auto-refresh calls every 10 s, sooner
   than the 30 s after which a trial would be let through. `get_quote` does not
   record refusals: `QuotesRecover` of the run `MarketBreaker` says that the circuit
   closes again once nobody records refusals for good and quotes are asked for.
2. **Best-effort Redis holds up the history** (`IngestionSilentRedis`). The
   consumer awaits the publish before it takes the next trade, and the client has
   no timeout (`ingestion.py:55`, `redis_bus.py:20`); the design document calls
   the publish fire-and-forget (line 69).
3. **One question gets the answer to another** (`AgentsCachedAnswer`). The key of
   a cached answer holds the slot and an empty hint (`supervisor.py:60-61`,
   `agent_console.py:47`); `output_cache.py:1-3` speaks of the same question.
4. **The budget is not kept across threads** (`GuardThreads`). `_refill` computes
   the new content of the bucket and stores it without a lock
   (`ratelimit.py:28-32`), and each Streamlit session is a thread. A thread that
   is switched out between the two gives the tokens others took meanwhile back:
   two threads send four requests at one instant from a bucket of three, where
   `ratelimit.py:3-4` has one instance shared across every call that hits the
   source. `BudgetHolds` is therefore a theorem about calls that do not overlap
   inside the governor.

Met while modelling, visible in the models, without a run of their own:

* No write is retried: `main.py:19` passes `store.write_batch`, which does not
  retry (`timescale.py:15-24`), where `ingestion.py:29-31` and the design document
  (line 68) say three attempts. `WriteFails` drops the batch at once; `Accounted` and
  `Settles` count such a trade as given up, so they hold of the code as it is and do
  not say that it does what the design asks for.
* `is_open` looks at `_opened_at` twice (`ratelimit.py:59-61`); a success recorded by
  another thread in between makes the subtraction raise a `TypeError`
  (`CompareOpening`).
* Two sessions that find the same expired quote both delete it
  (`cache.py:55-61`); the second gets a `KeyError` that nobody catches
  (`ExpiredDeleted`).
* A cached answer is not one about unchanged data. `output_cache.py:3-5` says "a cache
  hit is only ever served for genuinely unchanged data", but the version of the data is
  the number of a time slot (`supervisor.py:59`): data change within a slot, and
  `get_quote` may give the run a quote cached in the slot before
  (`market_tools.py:58-60`). `HitsKeepToSlot` says what is true: the run behind the
  answer began no earlier than the question's slot, and ended no longer ago than the
  cache's time to live.
* Two sessions that find the same expired answer both delete it
  (`output_cache.py:21-27`), with the same two outcomes as for the quote
  (`DeletedBefore`, `Deletes`).
* A click that ends a render between strategy and signal list loses the signal for
  good, since the strategy remembers the comparison (`CutShort`;
  `SignalsAreTheCrosses` states exactly this).
* A half-open circuit lets every caller through until the first outcome is
  recorded, where `ratelimit.py:47-48` says one trial call.
* `finnhub.get_quote` returns no data on a failed request (`finnhub.py:28-29`), so
  an outage of Finnhub is recorded as a success and its circuit stays closed for
  quotes (`Swallowed`).
* A WebSocket the server closes normally is reopened at once, without the backoff
  (`kraken.py:71`; `ClosedNormally`), where `kraken.py:54-55` says exponential
  backoff on a drop.
* A message of an odd shape raises what `parse_trade_message` does not catch and
  ends the process (`ReceiveRaises`): an entry whose timestamp is a number
  (`kraken.py:35, 46`) takes the well-formed entries of its message with it, where the
  design document (line 67) says that malformed input is dropped and never crashes
  the connector.
* A refused subscription goes unnoticed: to the parser the reply is a message without
  trades (`kraken.py:29-30`), and the connector stays on the silent connection
  (`SubscriptionRefused`) where `kraken.py:54-55` speaks of drops only.
* The strategy's first decided comparison counts as a cross, although there is
  none to cross from (`moving_average.py:34`); the page's chip waits for a second
  one. `PageAgrees` states exactly this difference.
* `run()` checks literal guardrails, not the configured ones
  (`nl_query_agent.py:46, 66`); tool calls check the configured ones. `Agents`
  keeps both, as `Fixed` and `Configured`.
* An LLM that cannot be reached raises through the supervisor (`supervisor.py:67`)
  into the page script, where its docstring promises that the terminal goes on.
* Trades executed between the page's history request and its subscription are not
  shown; those published but not yet written when the history is read are shown at
  most once. `NeverGoesBack` is what remains true.

## 6. Proofs

TLAPS checks these for every value of the constants that the named assumptions
allow. Each module of proofs extends the module it is about.

* **MarketBudgetProofs.** First the governor under arbitrary callers (`RateWindow`):
  `TypeCorrect`, then `BudgetHolds` by the invariant `BudgetLedger`: what was admitted
  **plus what is still in the bucket** is at most the capacity plus the supply of the
  window. `NeverOverBudget` alone is not inductive, since it does not say that a spent
  budget leaves an empty bucket. `RefusalsAreFree` is inductive as it stands, but needs
  two lemmas: a tick adds exactly the rate up to the capacity even where the age is
  capped (`TickRefills`, from the assumption on `AgeCap`), and a refusal leaves
  `Available` as it was although it rewrites both of its fields (`RefusalKeeps`).
  `BreakersConsistent` is inductive with the types.
  Then the tools. `ToolsRefineRateWindow`: every step of the tools is a step of
  `RateWindow` or leaves it alone, so the theorems above hold of the tools.
  `RequestsAdmitted`: in a window no source receives more requests than it admitted
  calls (`EachAdmitted`; the requests of a step are counted over the sessions, so
  that this needs cardinality and the lemma that at most one sends). Together they
  give `UpstreamBudgetHolds`, the promise where it matters, at the API. `BudgetTypes`
  are the types of all of it; its lemma `SessionsKeepCache` goes through what each
  tool does to cache and store.
* **MarketBreakerProofs.** `CircuitsOpenedByFailures` and `FailuresOpenTheCircuit`
  relate a breaker to what was recorded for its source, for all tools and any
  interleaving of any number of sessions. The invariant is `Fed`: the breaker's
  count is never more than what the observer counted (the source's failures and the
  tools' recorded refusals), and up to the threshold equal to it for every source but
  `finnhub`, whose client hides failures. Neither property is inductive, since they
  speak of the threshold only. The second theorem, and the property it proves, leave
  out `finnhub` for that reason. That refusals count at all is the disagreement of
  section 5, item 1.
* **TradeSeqProofs.** Lemmas about appending, concatenating and taking the head of
  ordered sequences; cited by name below. `Least` and `NatSetInduction` are induction
  over the numbers of a set: the induction theorems of the library take a predicate
  as a parameter, which the provers used here cannot instantiate, but the
  minimum of a set under a well-founded relation needs none, and a set
  `{n \in Nat : P}` stands for the predicate.
* **IngestionCoreProofs.** `TypeCorrect`; `PipelineOrdered`, the inductive heart:
  table, uncommitted batch, buffer and queue are each in order and each older than
  the next, and all are accepted, so that new arrivals are newer than all of them.
  From it `HistoryRefinesTradeLog`: initial states map to initial states, a commit
  maps to `Grow`, and every other step stutters. `FeedOrdered` uses the
  strengthening `FeedOrder` (nothing published is newer than the trade being
  published, which is older than the queue). `TradesAccounted` uses all three:
  `Accounted` needs the order to know that the stages are disjoint. `TakenOrder`
  (the table never overtakes the trade being published) is there for the page.
* **IngestionServiceProofs.** `FeedInvariant` joins the connector's types, the order
  of what it handed over and `NoGapInSubscription`; `ReceiveAppends` says that a
  message only adds newer trades at the end. From it `ConnectorRefinesTradeLog`,
  `NoSilentGap`, and `ServiceRefinesCore`: what a message adds is a burst the core
  may receive. That refinement carries the theorems of the core over
  (`ServiceHistoryIsALog`) and gives `ServiceAccounts`.
  `BackoffAsScheduled` rests on the invariant `Waiting`, which also says what the
  connector will wait if the attempt under way fails, and that the cap is reached by
  the time the count of drops is at its bound (`CapHolds`). The schedule is the
  recursive function `Doubled`. That a function with those equations exists is
  proved from below: for each `n` there is one up to `n` (`DoublesExist`), any two agree
  where both are defined (`DoublesAgree`), and their values at the diagonal are it
  (`DoubledDef`).
* **DashboardProofs.** `RunsOnCore` shows that the page leaves the ingestion process
  alone, and `BeneathHolds` draws what the page needs from the core's theorems.
  `PageInv` adds what relates page and pipeline: the feed of a live page is what was
  published since it subscribed, the stream of all connections never goes back
  (`InStream`), and the rows of the history are no newer than the stream or than
  anything still to be published (`RowsBelow`, `RowsPast`). `SubscriptionIsGapless` and `PageNeverGoesBack` follow; the latter is
  where a read that races a late write would show. `ListStaysInOrder` joins them: an
  answer of the database is in order, a tick is not older than anything in the history or the
  feed (`NeverGoesBack` of the next state), and so neither than anything in the list
  (`InTime`), whatever has been cut off its front (`CutKeepsOrder`).
* **StrategyProofs.** First the strategy, whoever runs it. `Follows(p, f, s, was)` says
  that windows and remembered comparison are those of a strategy that was given the
  prices `p`: each window is the end of `p` (`Latest`, by `PushLatest`: dropping the
  oldest price of a full window keeps it so), and the comparison is that of the last
  moment at which the averages were decided and unequal (`Remembers`, which an equal
  pair of averages must not disturb: `HoldRemembers`). `OnTradeFollows`: one more
  trade keeps this, for any history, and is answered exactly if it is a cross of the
  whole history, on its side (`DecideIsCross`); what was a cross before stays one
  (`CrossStays`). The averages themselves are left as they are: the proofs need only
  that equal windows have equal averages, not how sums are computed.
  *The backtest:* `TypeCorrect` and `ExposureBounded`, for every price history and all
  window lengths with `Fast < Slow`; `FillsMatchReference`, since the backtest's
  strategy follows its prices (`TradeFollows`) and the fills stay in step
  (`FillsStayCrosses`). `PageFollowsStrategy` adds the
  page's list, which loses its oldest trades but never those of the slow window
  (`PageLatest`, `EndIsWindow`): both implementations compare the same averages, and
  the chip changes when a fill is made, but for the first.
  `ReplayRefinesParity`: a replay of a file is a backtest with the prices of its rows,
  so that all of this holds of it (`ReplayFollowsReference`). `ReplaySortsTheFile`: the
  rows read are closed under `Earlier` (`Sorted`) and the next is the least of the
  rest, so the `k`-th price is that of the row with `k - 1` before it; `Earlier` is a
  strict order (`EarlierIsStrict`), and counting the rows before it is the sort.
  *The polling session:* `SeriesStayInStep` and `SignalsFollowReference`. Neither is
  inductive: they do not say what was already done of the poll that is being
  rendered, nor what the strategy remembers. The invariant `SessionKept` does, symbol
  by symbol (`Kempt`): the render stands at the last poll of its symbol, of which
  exactly what comes before has been done (`Rendering`); the symbol's strategy
  follows the prices that got to it (`Fed`, where `OnTradeFollows` is cited again, so
  that a price withheld by a click is simply not part of its history); and a decision
  that is not listed yet is the cross of the last poll (`Pending`). An access appends
  one number to the polls a thing was done with, and changes no other such sequence
  (`NotesGrow`, from `OrderGrows`: a later number goes to the end of the order); a list
  that drops its first entry when too long holds the last ones (`KeptIsLast`). There
  is one lemma per access, for the entries of one symbol, and `OthersStay` for the
  rest: nothing an access does is seen under another symbol.
* **AgentsProofs.** `Inv` ties each run to its guardrails (`UnderWay`: what has been
  cited and what is left make up the reply, steps and cost are within limits so
  far), each cached answer to the slot it was computed in, and each page to what
  the cache held. From it, for any guardrails and charges, `SpendIsBounded`,
  `DeliveriesKeepGuardrails`, `AnswersAreWhole` and `CachedAnswersKeepToSlot`. The
  last rests on `Slot` being monotone: a run is filed under the slot read before
  it began.

Model-checked only:

* liveness under fairness (`QuotesRecover`, `Settles`, `Resubscribes`,
  `TicksAreShown`, `ComesBack`, `EndsEventually`), which is beyond the prover;
* the runs that show a disagreement: there is nothing to prove of the terminal and of
  the governor's threads but that the property is false.

## 7. Assumptions

* In `MarketTools` and what is built on it, `guard`, `record_success` and
  `record_failure` are single steps. `GuardThreads` is what they are without it.
* In `GuardThreads`, CPython switches threads after a call or at a function's
  entry, not between two simple bytecodes; Streamlit ends a script at an access to
  `st.session_state`.
* A transaction whose `write_batch` failed, or whose process died, was committed
  before that moment or never is.
* Somebody restarts the ingestion process when it has ended.
* Kraken sends the trades of one subscription in order of execution.
* An LLM key is configured; without one the console offers no question.
* Prices are integers and averages are compared by cross-multiplication; rounding
  of floats is left out.

## 8. Not modelled

* `types.py`, `strategy.py`: data classes and an interface.
* `agents/stubs.py`: every `run` raises `NotImplementedError`. `config.py`: the
  constants. Layout, charts and the simulated order book of both pages.
* Alerts and watchlist of the candle store: nothing in the program writes them.
  Values of stored candles: each answer replaces them, in whatever order the
  answers arrive, and nothing is promised of them.
* `call_with_backoff`: nobody calls it.

## 9. Plan

Done, in the order of importance for the system: the ingestion pipeline, its
service and their proofs; the governor, the tools' use of it and their proofs, and
its threads; the market tools; the dashboard and its proofs; the agents and their
proofs; the strategy, where the backtest, its file and the polling session run it,
and their proofs; the terminal. Every safety property of a passing run is proved.

Next: a model of the supervisor with the market tools underneath, in place of tools
that return or raise freely.
