---------------------------- MODULE RateGovernor ----------------------------
(***************************************************************************)
(* The per-source guard of data_plane/ratelimit.py: a token bucket and a   *)
(* circuit breaker for every upstream API, bundled by RateGovernor.        *)
(*                                                                         *)
(* Time is counted in ticks.  The code stores instants (_last, _opened_at) *)
(* and only ever uses their distance to the clock, so the model stores     *)
(* that distance; an age stops growing where the code can no longer tell   *)
(* the difference (AgeCap for the refill, ResetAfter for the breaker).     *)
(* Tokens are counted in units that make the rate an integer: with half    *)
(* tokens, Cost = 2 and finnhub's 0.5 tokens per second are Rate = 1.      *)
(***************************************************************************)
EXTENDS Naturals

CONSTANTS
    Source,      \* names of the upstream APIs
    Rate,        \* [Source -> token units gained per tick]
    Capacity,    \* [Source -> most token units a bucket holds]
    Cost,        \* token units one call takes
    Threshold,   \* failure_threshold
    ResetAfter,  \* reset_after_s, in ticks
    AgeCap,      \* bound on sinceRefill: any bucket is full again by then
    None         \* "no instant": _opened_at is None

ASSUME GovernorAssumption ==
    /\ Rate \in [Source -> Nat]
    /\ Capacity \in [Source -> Nat]
    /\ Cost \in Nat
    /\ Threshold \in Nat \ {0}
    /\ ResetAfter \in Nat
    /\ AgeCap \in Nat
    /\ \A s \in Source : AgeCap * Rate[s] >= Capacity[s]
    /\ None \notin Nat

VARIABLES
    tokens,      \* _tokens, as of the last refill
    sinceRefill, \* clock() - _last
    failures,    \* _failures, not counted beyond Threshold
    sinceOpened  \* clock() - _opened_at, or None

bucketVars  == <<tokens, sinceRefill>>
breakerVars == <<failures, sinceOpened>>
govVars     == <<tokens, sinceRefill, failures, sinceOpened>>

Smaller(a, b) == IF a <= b THEN a ELSE b

\* TokenBucket.__init__: a bucket starts full.
BucketInit ==
    /\ tokens = Capacity
    /\ sinceRefill = [s \in Source |-> 0]

\* CircuitBreaker.__init__: a breaker starts closed.
BreakerInit ==
    /\ failures = [s \in Source |-> 0]
    /\ sinceOpened = [s \in Source |-> None]

GovInit == BucketInit /\ BreakerInit

-----------------------------------------------------------------------------
(* What the clock makes of the stored state. *)

MutAvailable(s) == tokens[s] + sinceRefill[s] * Rate[s]

\* The bucket's content if _refill ran now.
Available(s) == Smaller(Capacity[s], tokens[s] + sinceRefill[s] * Rate[s])

MutIsOpen(s) == sinceOpened[s] # None

IsOpen(s) == sinceOpened[s] # None /\ sinceOpened[s] < ResetAfter

-----------------------------------------------------------------------------
(* guard(): the breaker is asked first, then the bucket. *)

MutGuardAdmits(s) ==
    /\ ~IsOpen(s)
    /\ Available(s) >= Cost
    /\ tokens' = [tokens EXCEPT ![s] = Available(s) - Cost]
    /\ UNCHANGED <<sinceRefill, failures, sinceOpened>>

GuardAdmits(s) ==
    /\ ~IsOpen(s)
    /\ Available(s) >= Cost
    /\ tokens' = [tokens EXCEPT ![s] = Available(s) - Cost]
    /\ sinceRefill' = [sinceRefill EXCEPT ![s] = 0]
    /\ UNCHANGED breakerVars

MutGuardRateLimited(s) ==
    /\ ~IsOpen(s)
    /\ Available(s) < Cost
    /\ sinceRefill' = [sinceRefill EXCEPT ![s] = 0]
    /\ UNCHANGED <<tokens, failures, sinceOpened>>

\* RateLimitExceeded: the bucket has been refilled all the same.
GuardRateLimited(s) ==
    /\ ~IsOpen(s)
    /\ Available(s) < Cost
    /\ tokens' = [tokens EXCEPT ![s] = Available(s)]
    /\ sinceRefill' = [sinceRefill EXCEPT ![s] = 0]
    /\ UNCHANGED breakerVars

\* CircuitOpenError: the bucket is not touched.
GuardCircuitOpen(s) ==
    /\ IsOpen(s)
    /\ UNCHANGED govVars

GuardRaises(s) == GuardRateLimited(s) \/ GuardCircuitOpen(s)

MutRecordSuccess(s) ==
    /\ sinceOpened' = [sinceOpened EXCEPT ![s] = None]
    /\ UNCHANGED <<tokens, sinceRefill, failures>>

RecordSuccess(s) ==
    /\ failures' = [failures EXCEPT ![s] = 0]
    /\ sinceOpened' = [sinceOpened EXCEPT ![s] = None]
    /\ UNCHANGED bucketVars

\* Every failure at or past the threshold stamps the opening time again.
RecordFailure(s) ==
    LET count == Smaller(failures[s] + 1, Threshold)
    IN  /\ failures' = [failures EXCEPT ![s] = count]
        /\ sinceOpened' = IF count >= Threshold
                          THEN [sinceOpened EXCEPT ![s] = 0]
                          ELSE sinceOpened
        /\ UNCHANGED bucketVars

\* One tick of the monotonic clock.
GovTick ==
    /\ sinceRefill' = [s \in Source |-> Smaller(sinceRefill[s] + 1, AgeCap)]
    /\ sinceOpened' = [s \in Source |->
                         IF sinceOpened[s] = None THEN None
                         ELSE Smaller(sinceOpened[s] + 1, ResetAfter)]
    /\ UNCHANGED <<tokens, failures>>

-----------------------------------------------------------------------------
(* Buckets hold between nothing and their capacity and the breaker's       *)
(* counters stay in range (ratelimit.py:28-37, 71-74).                     *)
GovTypeOK ==
    /\ tokens \in [Source -> Nat]
    /\ \A s \in Source : tokens[s] <= Capacity[s]
    /\ sinceRefill \in [Source -> 0..AgeCap]
    /\ failures \in [Source -> 0..Threshold]
    /\ sinceOpened \in [Source -> (0..ResetAfter) \cup {None}]

(* The failure count and the opening time, two fields written by different *)
(* calls, agree: the breaker has an opening time exactly when the failures *)
(* since the last success reached the threshold.  It follows that a trial  *)
(* call that fails reopens a half-open breaker at once, and that no run of *)
(* fewer than Threshold failures ever blocks a call (ratelimit.py:67-74).  *)
BreakerConsistent ==
    \A s \in Source : sinceOpened[s] # None <=> failures[s] >= Threshold
=============================================================================
