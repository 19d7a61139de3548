------------------------------ MODULE Polling ------------------------------
(***************************************************************************)
(* update() of src/streamlit_app.py: what one session keeps of the prices  *)
(* it polls, one per render of the page, for each symbol it shows.         *)
(* Streamlit ends a running script when a click asks for another run, at   *)
(* the next access to st.session_state; what the script has done by then   *)
(* stays.  A step is the code from one such access to the next.            *)
(***************************************************************************)
EXTENDS MovingAverage, FiniteSets

CONSTANTS
    Crypto, Equity, \* symbols; only quotes of the former have a volume
    MaxHistory,     \* entries kept for the charts
    MaxPolls,       \* bound on the prices polled of a symbol
    MaxCuts         \* bound on the renders that are cut short

Symbol == Crypto \cup Equity

ASSUME PollingAssumption == {MaxHistory, MaxPolls, MaxCuts} \subseteq Nat

VARIABLES
    session, \* [Symbol -> its entries in st.session_state]; a volume is
             \*            named by the price of its quote
    render,  \* the access update() is at, its symbol, price and signal
    polls,   \* [Symbol -> the prices fetched, each with what update() did
             \*            of it]
    cuts     \* renders cut short

pollingVars == <<session, render, polls, cuts>>

Idle == [at |-> "idle"]

PollingInit ==
    /\ session = [x \in Symbol |->
          [history |-> <<>>, volumes |-> <<>>, signals |-> <<>>,
           strategy |-> [fast |-> <<>>, slow |-> <<>>, wasAbove |-> None]]]
    /\ render = Idle
    /\ polls = [x \in Symbol |-> <<>>]
    /\ cuts = 0

-----------------------------------------------------------------------------
MutKept(list, entry) ==
    IF Len(list) > MaxHistory THEN Append(Tail(list), entry)
    ELSE Append(list, entry)

\* A list of the charts after one more entry.
Kept(list, entry) ==
    LET longer == Append(list, entry)
    IN  IF Len(longer) > MaxHistory THEN Tail(longer) ELSE longer

\* fetch_price returns a quote; without one the page does not get here.
Fetched(x, price) ==
    /\ render = Idle
    /\ Len(polls[x]) < MaxPolls
    /\ polls' = [polls EXCEPT ![x] = Append(@, [price |-> price, done |-> {}])]
    /\ render' = [at |-> "history", symbol |-> x, price |-> price, signal |-> "HOLD"]
    /\ UNCHANGED <<session, cuts>>

Note(thing) ==
    LET x == render.symbol
    IN  polls' = [polls EXCEPT ![x][Len(polls[x])].done = @ \cup {thing}]

\* One access to the session state and what follows it up to the next.
Access(entry, value, next) ==
    /\ render.at = entry
    /\ session' = [session EXCEPT ![render.symbol][entry] = value]
    /\ Note(entry)
    /\ render' = next
    /\ UNCHANGED cuts

Entry(name) == session[render.symbol][name]

AppendPrice ==
    Access("history", Kept(Entry("history"), render.price),
           [render EXCEPT !.at = IF render.symbol \in Crypto THEN "volumes" ELSE "strategy"])

AppendVolume ==
    Access("volumes", Kept(Entry("volumes"), render.price),
           [render EXCEPT !.at = "strategy"])

\* on_trade: the windows after the trade and, when it decides, the
\* comparison.
AfterTrade(strategy, price) ==
    LET f == Push(strategy.fast, price, Fast)
        s == Push(strategy.slow, price, Slow)
    IN  [fast |-> f, slow |-> s,
         wasAbove |-> IF Undecided(f, s) THEN strategy.wasAbove ELSE AvgAbove(f, s)]

MutRunStrategy ==
    /\ render.at = "strategy"
    /\ LET after == AfterTrade(Entry("strategy"), render.price)
           signal == Crossing(Entry("strategy").wasAbove, after.wasAbove)
       IN  /\ session' = [x \in Symbol |-> [session[x] EXCEPT !.strategy = after]]
           /\ render' = IF signal = "HOLD" THEN Idle
                        ELSE [render EXCEPT !.at = "signals", !.signal = signal]
    /\ Note("strategy")
    /\ UNCHANGED cuts

RunStrategy ==
    /\ render.at = "strategy"
    /\ LET after == AfterTrade(Entry("strategy"), render.price)
           signal == Crossing(Entry("strategy").wasAbove, after.wasAbove)
       IN  Access("strategy", after,
                  IF signal = "HOLD" THEN Idle
                  ELSE [render EXCEPT !.at = "signals", !.signal = signal])

ListSignal ==
    Access("signals", Append(Entry("signals"), render.signal), Idle)

\* A click ends the script where it next accesses the session state.
CutShort ==
    /\ render # Idle
    /\ cuts < MaxCuts
    /\ cuts' = cuts + 1
    /\ Note("cut")
    /\ render' = Idle
    /\ UNCHANGED session

PollingNext ==
    \/ \E x \in Symbol, price \in Price : Fetched(x, price)
    \/ AppendPrice
    \/ AppendVolume
    \/ RunStrategy
    \/ ListSignal
    \/ CutShort

PollingSpec == PollingInit /\ [][PollingNext]_pollingVars

-----------------------------------------------------------------------------
\* Of a set of numbers the one that is the i-th from below.
Nth(S, i) ==
    CHOOSE k \in {k \in S : Cardinality({j \in S : j <= k}) = i} : TRUE

InOrder(S) == [i \in 1..Cardinality(S) |-> Nth(S, i)]

\* The polls of x that update() got to do a thing with, by their numbers.
Done(x, thing) == InOrder({k \in 1..Len(polls[x]) : thing \in polls[x][k].done})

PricesOf(x, numbers) == [i \in 1..Len(numbers) |-> polls[x][numbers[i]].price]

\* What a list of the charts keeps of a longer one.
LastOf(list) ==
    SubSeq(list, IF Len(list) > MaxHistory THEN Len(list) - MaxHistory + 1 ELSE 1,
           Len(list))

\* What update() has to do with a poll of x; a signal comes with a cross.
Due(x) == {"history", "strategy"} \cup (IF x \in Crypto THEN {"volumes"} ELSE {})

\* update() is through with poll k of x, to its end.
Through(x, k) ==
    /\ "cut" \notin polls[x][k].done
    /\ k = Len(polls[x]) => render = Idle \/ render.symbol # x

(* The charts of a symbol show its last polls, and both charts and the     *)
(* strategy have every poll but those a click cut short before they got    *)
(* to it: the three series of a symbol fall out of step only there, and    *)
(* no entry is listed twice or under another symbol (streamlit_app.py:     *)
(* 128-142).                                                               *)
SeriesKeepUp ==
    \A x \in Symbol :
        /\ session[x].history = LastOf(PricesOf(x, Done(x, "history")))
        /\ session[x].volumes = LastOf(PricesOf(x, Done(x, "volumes")))
        /\ \A k \in 1..Len(polls[x]) :
              Through(x, k) => Due(x) \subseteq polls[x][k].done

(* The signals listed for a symbol are crosses of the prices its own       *)
(* strategy was fed, in order and on their side, and none is missing but   *)
(* those whose render was cut short between the strategy and the list: the *)
(* table shows what "same strategy class as the backtest engine, run on    *)
(* polled prices" (streamlit_app.py:284) decided, whichever symbols are    *)
(* polled in turn and wherever clicks end the script.                      *)
SignalsAreTheCrosses ==
    \A x \in Symbol :
        LET fed == Done(x, "strategy")
            path == PricesOf(x, fed)
            listed == Done(x, "signals")
        IN  /\ Len(session[x].signals) = Len(listed)
            /\ \A i \in 1..Len(listed) : \E k \in 1..Len(fed) :
                  /\ fed[k] = listed[i]
                  /\ CrossAt(path, k)
                  /\ session[x].signals[i] = SideAt(path, k)
            /\ \A k \in 1..Len(fed) : CrossAt(path, k) =>
                  \/ {"signals", "cut"} \cap polls[x][fed[k]].done # {}
                  \/ k = Len(fed) /\ render.at = "signals" /\ render.symbol = x
=============================================================================
