------------------------------ MODULE Terminal ------------------------------
(***************************************************************************)
(* src/streamlit_app.py on top of MarketTools: sessions that show a crypto *)
(* pair.  A render of the page asks Kraken itself for the price and for    *)
(* the watchlist, then calls get_candles and get_orderbook; with the       *)
(* auto-refresh on, the script sleeps and runs again, and while it sleeps  *)
(* it answers no click.  An exception ends the script, and with it the     *)
(* auto-refresh, until the user does something.  What a render shows, and  *)
(* the strategy update() feeds with polled prices, is left out.            *)
(***************************************************************************)
EXTENDS MarketTools

CONSTANTS
    Auto,         \* sessions with the auto-refresh on, a subset of Session
    RefreshEvery  \* the 10 s a script sleeps, in ticks

VARIABLES
    page,  \* [Session -> how far the render is]
    slept  \* [Session -> ticks of its sleep]

vars == <<tokens, sinceRefill, failures, sinceOpened,
          call, redis, quoteAge, stored, upstream, page, slept>>

Init ==
    /\ ToolsInit
    /\ page = [t \in Session |-> "price"]
    /\ slept = [t \in Session |-> 0]

Shows(t, step) == page[t] = step
Turn(t, step) == page' = [page EXCEPT ![t] = step]

\* Where a render that comes to the end of the script leaves the page.
Finished(t) == IF t \in Auto THEN "asleep" ELSE "done"

-----------------------------------------------------------------------------
\* fetch_price: an exception ends the script; on an error payload the page
\* says that there is no data and skips the rest.
FetchPrice(t) ==
    /\ Shows(t, "price")
    /\ IF upstream["kraken"] = "up"
       THEN Turn(t, "watchlist")
       ELSE Turn(t, "stopped") \/ Turn(t, Finished(t))
    /\ UNCHANGED <<toolVars, slept>>

\* fetch_crypto_watchlist, cached for a while by Streamlit.
FetchWatchlist(t) ==
    /\ Shows(t, "watchlist")
    /\ \/ Turn(t, "candles")
       \/ upstream["kraken"] # "up" /\ Turn(t, "stopped")
    /\ UNCHANGED <<toolVars, slept>>

\* The page calls a tool ...
CallsTool(t) ==
    /\ page[t] \in {"candles", "orderbook"}
    /\ \E x \in Crypto : FetchAdmitted(t, page[t], x) \/ FetchDenied(t, page[t], x)
    /\ UNCHANGED <<page, slept>>

\* ... and goes on when it has returned; an exception it raises goes through.
ToolGoesOn(t) ==
    /\ Proceed(t)
    /\ IF call'[t] # Idle THEN UNCHANGED page
       ELSE IF upstream["kraken"] = "garbled" /\ At(t, "inflight") THEN Turn(t, "stopped")
       ELSE IF Shows(t, "candles") THEN Turn(t, "orderbook")
       ELSE Turn(t, Finished(t))
    /\ UNCHANGED slept

\* The sleep of the auto-refresh ends, and the script runs again.
Refresh(t) ==
    /\ Shows(t, "asleep")
    /\ slept[t] >= RefreshEvery
    /\ Turn(t, "price")
    /\ slept' = [slept EXCEPT ![t] = 0]
    /\ UNCHANGED toolVars

\* The user clicks on a page that is not running its script.
Click(t) ==
    /\ page[t] \in {"done", "stopped"}
    /\ Turn(t, "price")
    /\ UNCHANGED <<toolVars, slept>>

TimePasses ==
    /\ ToolsTick
    /\ slept' = [t \in Session |->
                   IF Shows(t, "asleep") THEN Smaller(slept[t] + 1, RefreshEvery) ELSE 0]
    /\ UNCHANGED page

UpstreamMoves == UpstreamChanges("kraken") /\ UNCHANGED <<page, slept>>

Renders(t) ==
    \/ FetchPrice(t)
    \/ FetchWatchlist(t)
    \/ CallsTool(t)
    \/ ToolGoesOn(t)
    \/ Refresh(t)

Next ==
    \/ \E t \in Session : Renders(t) \/ Click(t)
    \/ TimePasses
    \/ UpstreamMoves

\* Scripts run, requests have timeouts and sleeps end; users need not click.
FairSpec ==
    /\ Init /\ [][Next]_vars
    /\ WF_vars(TimePasses)
    /\ \A t \in Session : WF_vars(Renders(t))

-----------------------------------------------------------------------------
(* Recovery: with a page refreshing itself, a source that is healthy for   *)
(* good gets its circuit back, whatever the sessions do ("Opens after      *)
(* `failure_threshold` consecutive failures; half-opens for one trial call *)
(* after `reset_after_s`", ratelimit.py:47-48).                            *)
CircuitRecovers ==
    \A s \in Source :
        <>[](upstream[s] = "up") => []<>(sinceOpened[s] = None)
=============================================================================
