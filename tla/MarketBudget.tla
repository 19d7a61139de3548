---------------------------- MODULE MarketBudget ----------------------------
(***************************************************************************)
(* MarketTools watched from both ends: RateWindow counts the calls the     *)
(* governor admits in a window of time that may be opened at any moment,   *)
(* and this module the HTTP requests that go out in the same window.  The  *)
(* observers restrict nothing, except that a window is reopened before it  *)
(* is longer than MaxWindow.                                               *)
(***************************************************************************)
EXTENDS MarketTools, RateWindow

VARIABLE
    requests  \* HTTP requests sent to a source since its window was opened

budgetVars == <<toolVars, windowVars, requests>>

BudgetInit ==
    /\ ToolsInit
    /\ Init
    /\ requests = [s \in Source |-> 0]

\* Session t sends an HTTP request to s in this step.
Sends(t, s) ==
    /\ ~At(t, "inflight")
    /\ call'[t].step = "inflight"
    /\ SourceOf(call'[t].symbol) = s

CountRequests ==
    requests' = [s \in Source |->
            requests[s] + Cardinality({t \in Session : Sends(t, s)})]

\* The governor admits a call of session t.
SessionAdmitted(t) ==
    /\ \E s \in Source :
          /\ \/ QuoteAdmitted(t) /\ SourceFor(t) = s
             \/ \E tool \in Tool \ {"quote"} : \E x \in Upstreamed(tool) :
                   FetchAdmitted(t, tool, x) /\ SourceOf(x) = s
          /\ admitted' = [admitted EXCEPT ![s] = @ + 1]
    /\ CountRequests
    /\ UNCHANGED <<windowAge, startTokens>>

\* Any other step of a session.
SessionMoves(t) ==
    /\ \/ \E x \in Symbol : QuoteMiss(t, x) \/ QuoteExpired(t, x)
       \/ ExpiredDeleted(t)
       \/ QuoteDenied(t)
       \/ \E tool \in Tool \ {"quote"} : \E x \in Upstreamed(tool) :
             FetchDenied(t, tool, x)
       \/ Finish(t)
    /\ CountRequests
    /\ UNCHANGED windowVars

TimePasses ==
    /\ \A s \in Source : windowAge[s] < MaxWindow
    /\ ToolsTick
    /\ windowAge' = [s \in Source |-> windowAge[s] + 1]
    /\ UNCHANGED <<admitted, startTokens, requests>>

ReopenWindow(s) ==
    /\ OpenWindow(s)
    /\ requests' = [requests EXCEPT ![s] = 0]
    /\ UNCHANGED <<call, redis, quoteAge, stored, upstream>>

UpstreamMoves(s) ==
    /\ UpstreamChanges(s)
    /\ UNCHANGED <<windowVars, requests>>

BudgetNext ==
    \/ \E t \in Session : SessionAdmitted(t) \/ SessionMoves(t)
    \/ \E s \in Source : UpstreamMoves(s) \/ ReopenWindow(s)
    \/ TimePasses

BudgetSpec == BudgetInit /\ [][BudgetNext]_budgetVars

-----------------------------------------------------------------------------
(* Type invariant. *)
BudgetTypeOK ==
    /\ ToolsTypeOK
    /\ TypeOK
    /\ requests \in [Source -> Nat]

(* The tools use the governor as a governor: whatever the sessions do, and *)
(* however their calls interleave, the bucket and the breaker of a source  *)
(* only ever make the steps guard, record_success and record_failure allow *)
(* (market_tools.py:62-82, 94-102, 119-127, 145-153).  What is shown of    *)
(* RateWindow for arbitrary callers therefore holds of the program.        *)
ImplementsRateWindow == Spec

(* No upstream API receives more requests than its bucket allows, in any   *)
(* window of time, whichever tools the sessions use and however their      *)
(* calls interleave ("rate limiting ... apply uniformly",                  *)
(* market_tools.py:3-6): nothing reaches the network past the governor.    *)
UpstreamWithinBudget ==
    \A s \in Source : Cost * requests[s] <= Capacity[s] + Rate[s] * windowAge[s]
=============================================================================
