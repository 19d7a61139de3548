----------------------------- MODULE RateWindow -----------------------------
(***************************************************************************)
(* RateGovernor driven by arbitrary callers, observed through a window of  *)
(* time that may be opened at any moment.  The observer counts the calls   *)
(* the guard admitted since the window opened and remembers what the       *)
(* bucket held then; it never influences the governor.                     *)
(***************************************************************************)
EXTENDS RateGovernor

CONSTANT MaxWindow      \* longest window observed, in ticks

ASSUME WindowAssumption == MaxWindow \in Nat

VARIABLES
    windowAge,   \* ticks since the window on a source was opened
    admitted,    \* calls admitted since then
    startTokens  \* what the bucket held when it was opened

windowVars == <<windowAge, admitted, startTokens>>
vars == <<tokens, sinceRefill, failures, sinceOpened,
          windowAge, admitted, startTokens>>

Init ==
    /\ GovInit
    /\ windowAge = [s \in Source |-> 0]
    /\ admitted = [s \in Source |-> 0]
    /\ startTokens = Capacity

\* A call the guard lets through to the upstream API.
Admit(s) ==
    /\ GuardAdmits(s)
    /\ admitted' = [admitted EXCEPT ![s] = @ + 1]
    /\ UNCHANGED <<windowAge, startTokens>>

Refuse(s) == GuardRaises(s) /\ UNCHANGED windowVars

Succeed(s) == RecordSuccess(s) /\ UNCHANGED windowVars

Fail(s) == RecordFailure(s) /\ UNCHANGED windowVars

\* Time passes; a window that is MaxWindow old must be reopened first.
Tick ==
    /\ \A s \in Source : windowAge[s] < MaxWindow
    /\ GovTick
    /\ windowAge' = [s \in Source |-> windowAge[s] + 1]
    /\ UNCHANGED <<admitted, startTokens>>

OpenWindow(s) ==
    /\ windowAge' = [windowAge EXCEPT ![s] = 0]
    /\ admitted' = [admitted EXCEPT ![s] = 0]
    /\ startTokens' = [startTokens EXCEPT ![s] = Available(s)]
    /\ UNCHANGED govVars

Next ==
    \/ \E s \in Source : Admit(s)
    \/ \E s \in Source : Refuse(s)
    \/ \E s \in Source : Succeed(s)
    \/ \E s \in Source : Fail(s)
    \/ \E s \in Source : OpenWindow(s)
    \/ Tick

Spec == Init /\ [][Next]_vars

-----------------------------------------------------------------------------
(* Type invariant of the governor and of the observer.                     *)
TypeOK ==
    /\ GovTypeOK
    /\ windowAge \in [Source -> 0..MaxWindow]
    /\ admitted \in [Source -> Nat]
    /\ startTokens \in [Source -> Nat]

(* The promise of a token bucket (ratelimit.py:28-43): whatever the        *)
(* callers do, in ANY window of time the calls admitted cost no more than  *)
(* a full bucket plus what the rate supplied during the window.            *)
NeverOverBudget ==
    \A s \in Source : Cost * admitted[s] <= Capacity[s] + Rate[s] * windowAge[s]

(* The same with what is left in the bucket: the inductive form.           *)
BudgetLedger ==
    \A s \in Source :
        Cost * admitted[s] + Available(s)
            <= Capacity[s] + Rate[s] * windowAge[s]

(* The converse promise: a refused call costs nothing.  However often the  *)
(* bucket is asked and refuses (each refusal moves _last, ratelimit.py:31),*)
(* what was in the bucket plus what the rate supplied is still there or    *)
(* was spent on admitted calls, up to the bucket's capacity.               *)
NothingForfeited ==
    \A s \in Source :
        Available(s) + Cost * admitted[s]
            >= Smaller(Capacity[s], startTokens[s] + Rate[s] * windowAge[s])
=============================================================================
