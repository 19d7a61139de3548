------------------------ MODULE MarketBreakerProofs ------------------------
(***************************************************************************)
(* Proofs about MarketBreaker: what opens a circuit, for any sources,      *)
(* sessions, symbols, tools and numbers of the governor.                   *)
(***************************************************************************)
EXTENDS MarketBreaker, TLAPS

USE GovernorAssumption, ToolsAssumption

Typed == call \in [Session -> Calls]

Counted(s) == broken[s] + refused[s]

\* The breakers as fed by the sources and the handlers: the count is never
\* ahead of the failures and refusals recorded, and behind them only where
\* the client hides failures.
Fed ==
    /\ failures \in [Source -> 0..Threshold]
    /\ broken \in [Source -> 0..Threshold]
    /\ refused \in [Source -> 0..Threshold]
    /\ sinceOpened \in [Source -> Nat \cup {None}]
    /\ BreakerConsistent
    /\ \A s \in Source :
          /\ failures[s] <= Counted(s)
          /\ s # "finnhub" => failures[s] = Smaller(Counted(s), Threshold)

(* A session in a call asks for a symbol that has a source.                *)
LEMMA CallHasSource ==
    ASSUME Typed, NEW t \in Session, call[t].step # "idle"
    PROVE  SourceFor(t) \in Source
<1>1. call[t] \in [tool : Tool, symbol : Symbol, step : Steps]
  BY DEF Typed, Calls, Idle
<1>2. call[t].symbol \in Symbol
  BY <1>1
<1> QED
  BY <1>2 DEF SourceFor

(* No step of a session leaves the types of the calls.                     *)
LEMMA SessionsKeepTypes ==
    ASSUME Typed, NEW t \in Session, Begin(t) \/ Proceed(t)
    PROVE  Typed'
<1>1. ASSUME NEW x \in Symbol, QuoteMiss(t, x) \/ QuoteExpired(t, x) PROVE Typed'
  <2>1. PICK st \in {"missed", "expired"} :
            call' = [call EXCEPT ![t] = [tool |-> "quote", symbol |-> x, step |-> st]]
    BY <1>1 DEF QuoteMiss, QuoteExpired, Enter
  <2>2. "quote" \in Tool
    BY <1>1 DEF QuoteMiss, QuoteExpired
  <2> QED
    BY <2>1, <2>2 DEF Typed, Calls, Steps
<1>2. ASSUME NEW tool \in Tool \ {"quote"}, NEW x \in Upstreamed(tool),
             FetchAdmitted(t, tool, x) \/ FetchDenied(t, tool, x)
      PROVE  Typed'
  <2>1. PICK st \in {"inflight", "denied"} :
            call' = [call EXCEPT ![t] = [tool |-> tool, symbol |-> x, step |-> st]]
    BY <1>2 DEF FetchAdmitted, FetchDenied, Enter
  <2>2. x \in Symbol
    <3>1. tool \in {"candles", "orderbook", "news"}
      BY DEF AllTools
    <3> QED
      BY <3>1 DEF Upstreamed, Symbol
  <2> QED
    BY <2>1, <2>2 DEF Typed, Calls, Steps
<1>3. CASE Proceed(t)
  <2>1. call[t].step # "idle"
    BY <1>3 DEF Proceed, QuoteAdmitted, QuoteDenied, ExpiredDeleted, Finish,
                RefusalRecorded, Answered, Unanswered, Garbled, SaveQuote,
                SaveCandles, At
  <2>2. \/ call' = [call EXCEPT ![t] = Idle]
        \/ \E st \in {"inflight", "missed", "answered"} :
              call' = [call EXCEPT ![t].step = st]
    BY <1>3 DEF Proceed, QuoteAdmitted, QuoteDenied, ExpiredDeleted, Finish,
                RefusalRecorded, Answered, Unanswered, Garbled, SaveQuote,
                SaveCandles, Return, Move
  <2> QED
    BY <2>1, <2>2 DEF Typed, Calls, Steps, Idle
<1> QED
  BY <1>1, <1>2, <1>3 DEF Begin

(* A recorded success ends the series of failures on both sides.           *)
LEMMA SuccessFeeds ==
    ASSUME Fed, NEW s \in Source, RecordSuccess(s),
           broken' = [broken EXCEPT ![s] = 0],
           refused' = [refused EXCEPT ![s] = 0]
    PROVE  Fed'
<1>1. 0 \in 0..Threshold /\ ~(0 >= Threshold) /\ 0 + 0 = 0
      /\ Smaller(0, Threshold) = 0
  BY DEF Smaller
<1> QED
  BY <1>1 DEF Fed, BreakerConsistent, RecordSuccess, Counted

(* What adding one to either count makes of their sum.                     *)
LEMMA OneMoreCounts ==
    ASSUME NEW b \in 0..Threshold, NEW r \in 0..Threshold
    PROVE  /\ Smaller(b + 1, Threshold) \in 0..Threshold
           /\ b + r <= Smaller(b + 1, Threshold) + r
           /\ Smaller(Smaller(b + 1, Threshold) + r, Threshold)
                = Smaller(Smaller(b + r, Threshold) + 1, Threshold)
           /\ \A f \in 0..Threshold : f <= b + r =>
                 Smaller(f + 1, Threshold) <= Smaller(b + 1, Threshold) + r
BY DEF Smaller

(* One more failure or refusal is counted on both sides, or hidden from    *)
(* the breaker by finnhub's client.                                        *)
LEMMA FailureFeeds ==
    ASSUME Fed, NEW s \in Source,
           RecordFailure(s) \/ (s = "finnhub" /\ RecordSuccess(s)),
           \/ broken' = OneMore(broken, s) /\ refused' = refused
           \/ broken' = broken /\ refused' = OneMore(refused, s)
    PROVE  Fed'
<1> DEFINE f == failures[s]
           n == Counted(s)
           m == Counted(s)'
<1>1. /\ broken' \in [Source -> 0..Threshold] /\ refused' \in [Source -> 0..Threshold]
      /\ \A q \in Source \ {s} : Counted(q)' = Counted(q)
      /\ n \in Nat /\ m \in Nat /\ 0 <= m
      /\ Smaller(m, Threshold) = Smaller(Smaller(n, Threshold) + 1, Threshold)
      /\ \A g \in 0..Threshold : g <= n => Smaller(g + 1, Threshold) <= m
  <2> DEFINE b == broken[s]
             r == refused[s]
  <2>1. b \in 0..Threshold /\ r \in 0..Threshold
    BY DEF Fed
  <2>2. CASE broken' = OneMore(broken, s) /\ refused' = refused
    <3>1. m = Smaller(b + 1, Threshold) + r
      BY <2>2 DEF Counted, OneMore, Fed
    <3>2. \A q \in Source \ {s} : Counted(q)' = Counted(q)
      BY <2>2 DEF Counted, OneMore, Fed
    <3>3. broken' \in [Source -> 0..Threshold]
      BY <2>1, <2>2, OneMoreCounts DEF OneMore, Fed
    <3>4. n = b + r
      BY DEF Counted
    <3> HIDE DEF b, r, m, n
    <3> QED
      BY <2>1, <2>2, <3>1, <3>2, <3>3, <3>4, OneMoreCounts DEF Fed
  <2>3. CASE broken' = broken /\ refused' = OneMore(refused, s)
    <3>1. m = b + Smaller(r + 1, Threshold)
      BY <2>3 DEF Counted, OneMore, Fed
    <3>2. \A q \in Source \ {s} : Counted(q)' = Counted(q)
      BY <2>3 DEF Counted, OneMore, Fed
    <3>3. refused' \in [Source -> 0..Threshold]
      BY <2>1, <2>3, OneMoreCounts DEF OneMore, Fed
    <3>4. n = b + r
      BY DEF Counted
    <3> HIDE DEF b, r, m, n
    <3>5. /\ Smaller(r + 1, Threshold) \in 0..Threshold
          /\ r + b <= Smaller(r + 1, Threshold) + b
          /\ Smaller(Smaller(r + 1, Threshold) + b, Threshold)
               = Smaller(Smaller(r + b, Threshold) + 1, Threshold)
          /\ \A g \in 0..Threshold : g <= r + b =>
                Smaller(g + 1, Threshold) <= Smaller(r + 1, Threshold) + b
      BY <2>1, OneMoreCounts
    <3>6. m = Smaller(r + 1, Threshold) + b /\ n = r + b
      BY <2>1, <3>1, <3>4, <3>5
    <3> QED
      BY <2>1, <2>3, <3>2, <3>3, <3>5, <3>6 DEF Fed
  <2> QED
    BY <2>2, <2>3
<1>2. /\ Threshold \in Nat \ {0} /\ f \in 0..Threshold /\ f <= n
      /\ s # "finnhub" => f = Smaller(n, Threshold)
  BY DEF Fed
<1> HIDE DEF f, n
<1>3. \A q \in Source \ {s} : failures'[q] = failures[q] /\ sinceOpened'[q] = sinceOpened[q]
  BY DEF RecordFailure, RecordSuccess, Fed
<1>4. /\ failures'[s] \in 0..Threshold
      /\ sinceOpened'[s] \in Nat \cup {None}
      /\ sinceOpened'[s] # None <=> failures'[s] >= Threshold
      /\ failures'[s] <= m
      /\ s # "finnhub" => failures'[s] = Smaller(m, Threshold)
  <2>1. CASE RecordFailure(s)
    <3> DEFINE count == Smaller(f + 1, Threshold)
    <3>1. /\ failures' = [failures EXCEPT ![s] = count]
          /\ sinceOpened' = IF count >= Threshold THEN [sinceOpened EXCEPT ![s] = 0]
                            ELSE sinceOpened
      BY <2>1 DEF RecordFailure, f
    <3>2. count >= Threshold \/ ~(f >= Threshold)
      BY <1>2 DEF Smaller
    <3>3. count \in 0..Threshold /\ count <= m
      BY <1>1, <1>2 DEF Smaller
    <3>4. s # "finnhub" => count = Smaller(m, Threshold)
      BY <1>1, <1>2
    <3>5. failures'[s] = count
      BY <3>1 DEF Fed
    <3>6. sinceOpened'[s] = IF count >= Threshold THEN 0 ELSE sinceOpened[s]
      BY <3>1 DEF Fed
    <3>7. sinceOpened[s] \in Nat \cup {None} /\ (sinceOpened[s] # None <=> f >= Threshold)
      BY DEF Fed, BreakerConsistent, f
    <3> HIDE DEF count, m
    <3> QED
      BY <3>2, <3>3, <3>4, <3>5, <3>6, <3>7
  <2>2. CASE s = "finnhub" /\ RecordSuccess(s)
    <3>1. failures'[s] = 0 /\ sinceOpened'[s] = None
      BY <2>2 DEF RecordSuccess, Fed
    <3> HIDE DEF m
    <3> QED
      BY <1>1, <1>2, <2>2, <3>1
  <2> QED
    BY <2>1, <2>2
<1>5. failures' \in [Source -> 0..Threshold] /\ sinceOpened' \in [Source -> Nat \cup {None}]
  <2>1. DOMAIN failures' = Source /\ DOMAIN sinceOpened' = Source
        /\ failures' = [q \in DOMAIN failures' |-> failures'[q]]
        /\ sinceOpened' = [q \in DOMAIN sinceOpened' |-> sinceOpened'[q]]
    BY DEF RecordFailure, RecordSuccess, Fed
  <2> QED
    BY <1>3, <1>4, <2>1 DEF Fed
<1> QED
  BY <1>1, <1>3, <1>4, <1>5 DEF Fed, BreakerConsistent

(* A breaker whose fields nobody writes stays as fed.                      *)
LEMMA Unfed ==
    ASSUME Fed, UNCHANGED <<failures, sinceOpened, broken, refused>>
    PROVE  Fed'
BY DEF Fed, BreakerConsistent, Counted

(* A tick makes the opening time older and writes nothing else.            *)
LEMMA TickFeeds ==
    ASSUME Fed, GovTick, UNCHANGED <<broken, refused>>
    PROVE  Fed'
<1>1. ResetAfter \in Nat /\ None \notin Nat
  OBVIOUS
<1>2. \A s \in Source :
         /\ sinceOpened'[s] \in Nat \cup {None}
         /\ sinceOpened'[s] = None <=> sinceOpened[s] = None
  BY <1>1 DEF Fed, GovTick, Smaller
<1>3. sinceOpened' \in [Source -> Nat \cup {None}]
  BY <1>2 DEF GovTick
<1> QED
  BY <1>2, <1>3 DEF Fed, BreakerConsistent, GovTick, Counted

(* A step of a session that records no outcome leaves the breakers alone.  *)
LEMMA QuietLeavesBreakers ==
    ASSUME NEW t \in Session, Quietly(t)
    PROVE  UNCHANGED <<failures, sinceOpened>>
<1>1. CASE Begin(t)
  BY <1>1 DEF Begin, QuoteMiss, QuoteExpired, FetchAdmitted, FetchDenied,
              GuardAdmits, GuardRaises, GuardRateLimited, GuardCircuitOpen,
              govVars, breakerVars
<1>2. CASE ExpiredDeleted(t) \/ QuoteAdmitted(t) \/ QuoteDenied(t)
  BY <1>2 DEF ExpiredDeleted, QuoteAdmitted, QuoteDenied, GuardAdmits,
              GuardRaises, GuardRateLimited, GuardCircuitOpen, govVars, breakerVars
<1>3. CASE Garbled(t) /\ call[t].tool = "quote"
  BY <1>3 DEF Garbled, govVars
<1>4. CASE SaveQuote(t) \/ SaveCandles(t)
  BY <1>4 DEF SaveQuote, SaveCandles, govVars
<1> QED
  BY <1>1, <1>2, <1>3, <1>4 DEF Quietly

-----------------------------------------------------------------------------
(* The breakers stay fed by failures and refusals in every reachable       *)
(* state.                                                                  *)
LEMMA FedHolds == Spec => [](Typed /\ Fed)
<1>1. Init => Typed /\ Fed
  <2> SUFFICES ASSUME Init PROVE Typed /\ Fed
    OBVIOUS
  <2>1. 0 \in 0..Threshold /\ ~(0 >= Threshold) /\ 0 + 0 = 0
        /\ Smaller(0, Threshold) = 0
    BY DEF Smaller
  <2> QED
    BY <2>1 DEF Init, ToolsInit, GovInit, BreakerInit, BucketInit, Typed, Calls,
                Idle, Fed, BreakerConsistent, Counted
<1>2. Typed /\ Fed /\ [Next]_vars => Typed' /\ Fed'
  <2> SUFFICES ASSUME Typed, Fed, [Next]_vars PROVE Typed' /\ Fed'
    OBVIOUS
  <2>1. ASSUME NEW t \in Session, Succeeds(t) PROVE Typed' /\ Fed'
    <3>1. (Answered(t) \/ Garbled(t)) /\ call[t].step # "idle"
      BY <2>1 DEF Succeeds, Answered, Garbled, At
    <3>2. Typed'
      BY <3>1, SessionsKeepTypes DEF Proceed, Finish
    <3>3. SourceFor(t) \in Source
      BY <3>1, CallHasSource
    <3>4. RecordSuccess(SourceFor(t))
      BY <2>1 DEF Succeeds, Answered, Garbled
    <3> QED
      BY <2>1, <3>2, <3>3, <3>4, SuccessFeeds DEF Succeeds
  <2>2. ASSUME NEW t \in Session, Breaks(t) PROVE Typed' /\ Fed'
    <3>1. Unanswered(t) /\ call[t].step # "idle"
      BY <2>2 DEF Breaks, Unanswered, At
    <3>2. Typed'
      BY <3>1, SessionsKeepTypes DEF Proceed, Finish
    <3>3. SourceFor(t) \in Source
      BY <3>1, CallHasSource
    <3> QED
      BY <2>2, <3>2, <3>3, FailureFeeds DEF Breaks, Unanswered, Swallowed
  <2>3. ASSUME NEW t \in Session, Refused(t) PROVE Typed' /\ Fed'
    <3>1. RefusalRecorded(t) /\ call[t].step # "idle"
      BY <2>3 DEF Refused, RefusalRecorded, At
    <3>2. Typed'
      BY <3>1, SessionsKeepTypes DEF Proceed, Finish
    <3>3. SourceFor(t) \in Source
      BY <3>1, CallHasSource
    <3> QED
      BY <2>3, <3>2, <3>3, FailureFeeds DEF Refused, RefusalRecorded
  <2>4. ASSUME NEW t \in Session, Quietly(t) PROVE Typed' /\ Fed'
    <3>1. Typed'
      BY <2>4, SessionsKeepTypes DEF Quietly, Proceed, Finish
    <3> QED
      BY <2>4, <3>1, QuietLeavesBreakers, Unfed DEF Quietly
  <2>5. ASSUME NEW s \in Source, UpstreamMoves(s) PROVE Typed' /\ Fed'
    BY <2>5, Unfed DEF UpstreamMoves, UpstreamChanges, govVars, Typed
  <2>6. CASE TimePasses
    BY <2>6, TickFeeds DEF TimePasses, ToolsTick, Typed
  <2>7. CASE UNCHANGED vars
    BY <2>7, Unfed DEF vars, Typed
  <2> QED
    BY <2>1, <2>2, <2>3, <2>4, <2>5, <2>6, <2>7 DEF Next
<1> QED
  BY <1>1, <1>2, PTL DEF Spec

(* A circuit that is not closed was opened by Threshold failures in a row: *)
(* requests its own source failed and refusals that tools recorded, with   *)
(* no success between, however many sessions call whatever tools           *)
(* (market_tools.py:63-153, ratelimit.py:47, 67-74).                       *)
THEOREM CircuitsOpenedByFailures == Spec => []OpenedByFailures
<1>1. Fed => OpenedByFailures
  <2> SUFFICES ASSUME Fed, NEW s \in Source, sinceOpened[s] # None
               PROVE  broken[s] + refused[s] >= Threshold
    BY DEF OpenedByFailures
  <2>1. failures[s] >= Threshold /\ failures[s] <= broken[s] + refused[s]
        /\ failures[s] \in Nat /\ broken[s] \in Nat /\ refused[s] \in Nat
        /\ Threshold \in Nat
    BY DEF Fed, BreakerConsistent, Counted
  <2> QED
    BY <2>1
<1> QED
  BY <1>1, FedHolds, PTL

(* Threshold failures and recorded refusals in a row of kraken, or of any  *)
(* source but finnhub, have its circuit open or half-open: no interleaving *)
(* of the sessions and their tools loses one (market_tools.py:63-153,      *)
(* ratelimit.py:67-74).                                                    *)
THEOREM FailuresOpenTheCircuit == Spec => []ConsecutiveFailuresOpen
<1>1. Fed => ConsecutiveFailuresOpen
  <2> SUFFICES ASSUME Fed, NEW s \in Source \ {"finnhub"},
                      broken[s] + refused[s] >= Threshold
               PROVE  sinceOpened[s] # None
    BY DEF ConsecutiveFailuresOpen
  <2>1. failures[s] = Smaller(broken[s] + refused[s], Threshold)
        /\ broken[s] \in Nat /\ refused[s] \in Nat /\ Threshold \in Nat
    BY DEF Fed, Counted
  <2>2. failures[s] >= Threshold
    BY <2>1 DEF Smaller
  <2> QED
    BY <2>2 DEF Fed, BreakerConsistent
<1> QED
  BY <1>1, FedHolds, PTL
=============================================================================
