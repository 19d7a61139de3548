---------------------------- MODULE GuardThreads ----------------------------
(***************************************************************************)
(* data_plane/ratelimit.py as the threads of the Streamlit sessions run    *)
(* it: nothing is locked, and CPython 3.11 may switch threads whenever a   *)
(* call has returned or a function has been entered.  A step of a thread   *)
(* is the code between two such points; its frame keeps what it has read.  *)
(* RateGovernor is the same code with each method as one step.  One        *)
(* source; the callers are get_quote, which sends a request when the guard *)
(* admits it and records the outcome.                                      *)
(***************************************************************************)
EXTENDS Integers, FiniteSetsExt

CONSTANTS
    Thread,
    Rate, Capacity,        \* of the source's bucket
    Threshold, ResetAfter, \* of its breaker
    MaxNow,                \* bound on the clock
    MaxSent,               \* bound on the requests admitted at one time
    None                   \* _opened_at is None

VARIABLES
    now,      \* the monotonic clock
    tokens,   \* _tokens
    last,     \* _last
    failures, \* _failures
    openedAt, \* _opened_at
    at,       \* [Thread -> where it is]
    clocked,  \* [Thread -> what it has read from the clock]
    refilled, \* [Thread -> what min() has returned to it]
    sent      \* [0..MaxNow -> requests admitted by a reading of that time]

bucket == <<tokens, last>>
breaker == <<failures, openedAt>>
frame == <<clocked, refilled>>
vars == <<now, bucket, breaker, at, frame, sent>>

Init ==
    /\ now = 0
    /\ tokens = Capacity
    /\ last = 0
    /\ failures = 0
    /\ openedAt = None
    /\ at = [t \in Thread |-> "idle"]
    /\ clocked = [t \in Thread |-> 0]
    /\ refilled = [t \in Thread |-> 0]
    /\ sent = [n \in 0..MaxNow |-> 0]

\* Thread t runs from one switch point to the next.
Step(t, from, to) ==
    /\ at[t] = from
    /\ at' = [at EXCEPT ![t] = to]
    /\ UNCHANGED now

\* What it runs ends in a call of the clock.
ReadsClock(t) ==
    /\ clocked' = [clocked EXCEPT ![t] = now]
    /\ UNCHANGED refilled

-----------------------------------------------------------------------------
(* before_call and is_open *)

\* The first look at _opened_at; when there is a time, the clock is read.
LookAtBreaker(t) ==
    /\ IF openedAt = None
       THEN Step(t, "idle", "closed") /\ UNCHANGED frame
       ELSE Step(t, "idle", "comparing") /\ ReadsClock(t)
    /\ UNCHANGED <<bucket, breaker, sent>>

\* The second look.  Another thread may have set it to None: the TypeError
\* leaves guard and get_quote.  CircuitOpenError ends the call as well.
CompareOpening(t) ==
    /\ IF openedAt = None \/ clocked[t] - openedAt < ResetAfter
       THEN Step(t, "comparing", "idle")
       ELSE Step(t, "comparing", "closed")
    /\ UNCHANGED <<bucket, breaker, frame, sent>>

-----------------------------------------------------------------------------
(* try_acquire and _refill *)

ClockRead(t) ==
    /\ Step(t, "closed", "timed")
    /\ ReadsClock(t)
    /\ UNCHANGED <<bucket, breaker, sent>>

\* elapsed, _last and the new content, which min() returns ...
RefillComputed(t) ==
    /\ Step(t, "timed", "computed")
    /\ last' = clocked[t]
    /\ refilled' = [refilled EXCEPT ![t] =
                      Min({Capacity, tokens + (clocked[t] - last) * Rate})]
    /\ UNCHANGED <<tokens, breaker, clocked, sent>>

\* ... and which is stored, tested and taken from without another switch.
Acquired(t) ==
    /\ Step(t, "computed", "sent")
    /\ refilled[t] >= 1
    /\ sent[clocked[t]] < MaxSent
    /\ tokens' = refilled[t] - 1
    /\ sent' = [sent EXCEPT ![clocked[t]] = @ + 1]
    /\ UNCHANGED <<last, breaker, frame>>

RateLimited(t) ==
    /\ Step(t, "computed", "idle")
    /\ refilled[t] < 1
    /\ tokens' = refilled[t]
    /\ UNCHANGED <<last, breaker, frame, sent>>

-----------------------------------------------------------------------------
(* on_success and on_failure *)

Succeeds(t) ==
    /\ Step(t, "sent", "idle")
    /\ failures' = 0
    /\ openedAt' = None
    /\ UNCHANGED <<bucket, frame, sent>>

\* The failure is counted, and the clock read if that opens the circuit.
Fails(t) ==
    /\ failures' = Min({failures + 1, Threshold})
    /\ IF failures' < Threshold
       THEN Step(t, "sent", "idle") /\ UNCHANGED frame
       ELSE Step(t, "sent", "opening") /\ ReadsClock(t)
    /\ UNCHANGED <<bucket, openedAt, sent>>

OpeningStored(t) ==
    /\ Step(t, "opening", "idle")
    /\ openedAt' = clocked[t]
    /\ UNCHANGED <<bucket, failures, frame, sent>>

-----------------------------------------------------------------------------
Tick ==
    /\ now < MaxNow
    /\ now' = now + 1
    /\ UNCHANGED <<bucket, breaker, at, frame, sent>>

Run(t) ==
    \/ LookAtBreaker(t)
    \/ CompareOpening(t)
    \/ ClockRead(t)
    \/ RefillComputed(t)
    \/ Acquired(t)
    \/ RateLimited(t)
    \/ Succeeds(t)
    \/ Fails(t)
    \/ OpeningStored(t)

Next == Tick \/ \E t \in Thread : Run(t)

Spec == Init /\ [][Next]_vars

-----------------------------------------------------------------------------
(* In every window of time the requests sent cost no more than a full      *)
(* bucket and what the rate supplied: the limiter is "shared across every  *)
(* tool call that hits that source" (ratelimit.py:3-4), and "rate limiting *)
(* ... appl[ies] uniformly" (market_tools.py:5-6).                         *)
BudgetOverThreads ==
    \A n \in 0..MaxNow : \A m \in 0..n :
        MapThenSumSet(LAMBDA k : sent[k], m..n) <= Capacity + Rate * (n - m)
=============================================================================
