------------------------- MODULE MarketBudgetProofs -------------------------
(***************************************************************************)
(* Proofs about RateWindow and MarketBudget, for any sources, sessions,    *)
(* symbols, tools and numbers of the governor: the governor keeps its      *)
(* budget whoever calls it, the tools only ever use it as RateWindow lets  *)
(* arbitrary callers do, every request has an admission of its own, and so *)
(* the promise of the bucket reaches the upstream APIs.                    *)
(***************************************************************************)
EXTENDS MarketBudget, FiniteSetTheorems, TLAPS

USE GovernorAssumption, WindowAssumption, ToolsAssumption

-----------------------------------------------------------------------------
(* The governor under arbitrary callers.                                   *)

(* The bucket's content is a number between nothing and its capacity.      *)
LEMMA AvailableType ==
    ASSUME GovTypeOK, NEW s \in Source
    PROVE  /\ Available(s) \in Nat
           /\ Available(s) <= Capacity[s]
<1>1. tokens[s] \in Nat /\ sinceRefill[s] * Rate[s] \in Nat /\ Capacity[s] \in Nat
  BY DEF GovTypeOK
<1> QED
  BY <1>1 DEF Available, Smaller

(* A tick adds exactly the rate, up to the capacity; the cap on            *)
(* sinceRefill is never seen.                                              *)
LEMMA TickRefills ==
    ASSUME GovTypeOK, GovTick, NEW s \in Source
    PROVE  Available(s)' = Smaller(Capacity[s], Available(s) + Rate[s])
<1> DEFINE n == sinceRefill[s]
           r == Rate[s]
           c == Capacity[s]
           tk == tokens[s]
<1>1. n \in Nat /\ r \in Nat /\ c \in Nat /\ tk \in Nat /\ n <= AgeCap /\ AgeCap \in Nat
  BY DEF GovTypeOK
<1>2. AgeCap * r >= c
  OBVIOUS
<1>3. Available(s) = Smaller(c, tk + n * r)
  BY DEF Available
<1>4. Available(s)' = Smaller(c, tk + Smaller(n + 1, AgeCap) * r)
  BY DEF Available, GovTick
<1>5. (n + 1) * r = n * r + r /\ n * r \in Nat
  BY <1>1
<1> HIDE DEF n, r, c, tk
<1>6. CASE n < AgeCap
  <2>1. Available(s)' = Smaller(c, tk + (n * r + r))
    BY <1>1, <1>4, <1>5, <1>6 DEF Smaller
  <2> QED
    BY <1>1, <1>3, <1>5, <2>1 DEF Smaller, r, c
<1>7. CASE n = AgeCap
  <2>1. n * r >= c
    BY <1>2, <1>7
  <2>2. Available(s)' = Smaller(c, tk + n * r)
    BY <1>1, <1>4, <1>7 DEF Smaller
  <2> QED
    BY <1>1, <1>3, <1>5, <2>1, <2>2 DEF Smaller, r, c
<1> QED
  BY <1>1, <1>6, <1>7

(* A refusal leaves the bucket's content as it was: what the clock added   *)
(* is stored together with the new instant of refill.                      *)
LEMMA RefusalKeeps ==
    ASSUME GovTypeOK, NEW t \in Source, GuardRaises(t), NEW s \in Source
    PROVE  Available(s)' = Available(s)
<1>1. CASE GuardCircuitOpen(t)
  BY <1>1 DEF GuardCircuitOpen, govVars, Available
<1>2. CASE GuardRateLimited(t)
  <2>1. CASE s # t
    BY <1>2, <2>1 DEF GuardRateLimited, Available, GovTypeOK
  <2>2. CASE s = t
    <3>1. tokens'[s] = Available(s) /\ sinceRefill'[s] = 0
      BY <1>2, <2>2 DEF GuardRateLimited, GovTypeOK
    <3>2. Available(s)' = Smaller(Capacity[s], Available(s) + 0 * Rate[s])
      BY <3>1 DEF Available
    <3>3. 0 * Rate[s] = 0 /\ Capacity[s] \in Nat
      OBVIOUS
    <3>4. Available(s) \in Nat /\ Available(s) <= Capacity[s]
      BY AvailableType
    <3> HIDE DEF Available
    <3> QED
      BY <3>2, <3>3, <3>4 DEF Smaller
  <2> QED
    BY <2>1, <2>2
<1> QED
  BY <1>1, <1>2 DEF GuardRaises

(* An admitted call takes its cost from its own bucket and from no other.  *)
LEMMA AdmissionTakes ==
    ASSUME GovTypeOK, NEW t \in Source, GuardAdmits(t), NEW s \in Source
    PROVE  /\ Available(t) >= Cost
           /\ Available(s)' = IF s = t THEN Available(s) - Cost ELSE Available(s)
<1>1. Available(t) >= Cost
  BY DEF GuardAdmits
<1>2. CASE s # t
  BY <1>1, <1>2 DEF GuardAdmits, Available, GovTypeOK
<1>3. CASE s = t
  <2>1. tokens'[s] = Available(s) - Cost /\ sinceRefill'[s] = 0
    BY <1>3 DEF GuardAdmits, GovTypeOK
  <2>2. Available(s)' = Smaller(Capacity[s], (Available(s) - Cost) + 0 * Rate[s])
    BY <2>1 DEF Available
  <2>3. 0 * Rate[s] = 0 /\ Capacity[s] \in Nat
    OBVIOUS
  <2> QED
    BY <1>1, <1>3, <2>2, <2>3, AvailableType DEF Smaller
<1> QED
  BY <1>2, <1>3

-----------------------------------------------------------------------------
(* Buckets stay between nothing and their capacity, the breaker's fields   *)
(* and the observer in their ranges (ratelimit.py:28-37, 63-74).           *)
THEOREM TypeCorrect == Spec => []TypeOK
<1>1. Init => TypeOK
  BY DEF Init, GovInit, BucketInit, BreakerInit, TypeOK, GovTypeOK
<1>2. TypeOK /\ [Next]_vars => TypeOK'
  <2> SUFFICES ASSUME TypeOK, [Next]_vars PROVE TypeOK'
    OBVIOUS
  <2> USE DEF TypeOK
  <2>1. ASSUME NEW s \in Source, Admit(s) PROVE TypeOK'
    <3>1. Available(s) - Cost \in Nat /\ Available(s) - Cost <= Capacity[s]
      BY <2>1, AvailableType DEF Admit, GuardAdmits
    <3> QED
      BY <2>1, <3>1 DEF Admit, GuardAdmits, GovTypeOK, breakerVars
  <2>2. ASSUME NEW s \in Source, Refuse(s) PROVE TypeOK'
    <3>1. CASE GuardRateLimited(s)
      BY <2>2, <3>1, AvailableType
         DEF Refuse, GuardRateLimited, GovTypeOK, breakerVars, windowVars
    <3>2. CASE GuardCircuitOpen(s)
      BY <2>2, <3>2 DEF Refuse, GuardCircuitOpen, GovTypeOK, govVars, windowVars
    <3> QED
      BY <2>2, <3>1, <3>2 DEF Refuse, GuardRaises
  <2>3. ASSUME NEW s \in Source, Succeed(s) PROVE TypeOK'
    BY <2>3 DEF Succeed, RecordSuccess, GovTypeOK, bucketVars, windowVars
  <2>4. ASSUME NEW s \in Source, Fail(s) PROVE TypeOK'
    BY <2>4 DEF Fail, RecordFailure, Smaller, GovTypeOK, bucketVars, windowVars
  <2>5. ASSUME NEW s \in Source, OpenWindow(s) PROVE TypeOK'
    BY <2>5, AvailableType DEF OpenWindow, GovTypeOK, govVars
  <2>6. CASE Tick
    BY <2>6 DEF Tick, GovTick, Smaller, GovTypeOK
  <2>7. CASE UNCHANGED vars
    BY <2>7 DEF vars, GovTypeOK
  <2> QED
    BY <2>1, <2>2, <2>3, <2>4, <2>5, <2>6, <2>7 DEF Next
<1> QED
  BY <1>1, <1>2, PTL DEF Spec

-----------------------------------------------------------------------------
(* In no window of time does the guard admit more than a full bucket and   *)
(* what the rate supplied (ratelimit.py:28-43).  BudgetLedger, which adds  *)
(* what is left in the bucket, is the inductive form.                      *)
THEOREM BudgetHolds == Spec => []NeverOverBudget
<1>1. Init => BudgetLedger
  <2> SUFFICES ASSUME Init, NEW s \in Source
               PROVE  Cost * admitted[s] + Available(s)
                        <= Capacity[s] + Rate[s] * windowAge[s]
    BY DEF BudgetLedger
  <2>1. Cost * admitted[s] = 0 /\ Rate[s] * windowAge[s] = 0
    BY DEF Init
  <2>2. GovTypeOK
    BY DEF Init, GovInit, BucketInit, BreakerInit, GovTypeOK
  <2> QED
    BY <2>1, <2>2, AvailableType
<1>2. TypeOK /\ BudgetLedger /\ [Next]_vars => BudgetLedger'
  <2> SUFFICES ASSUME TypeOK, BudgetLedger, [Next]_vars, NEW s \in Source
               PROVE  (Cost * admitted[s] + Available(s)
                         <= Capacity[s] + Rate[s] * windowAge[s])'
    BY DEF BudgetLedger
  <2> DEFINE spent == Cost * admitted[s]
             supplied == Rate[s] * windowAge[s]
  <2>0. /\ spent \in Nat /\ supplied \in Nat /\ Capacity[s] \in Nat
        /\ Rate[s] \in Nat /\ Available(s) \in Nat /\ Available(s) <= Capacity[s]
        /\ spent + Available(s) <= Capacity[s] + supplied
    BY AvailableType DEF TypeOK, BudgetLedger
  <2>1. ASSUME NEW t \in Source, Admit(t) PROVE BudgetLedger!(s)'
    <3>1. /\ Available(t) >= Cost
          /\ Available(s)' = IF s = t THEN Available(s) - Cost ELSE Available(s)
      BY <2>1, AdmissionTakes DEF Admit, TypeOK
    <3>2. supplied' = supplied
      BY <2>1 DEF Admit
    <3>3. spent' = IF s = t THEN spent + Cost ELSE spent
      BY <2>1 DEF Admit, TypeOK
    <3> QED
      BY <2>0, <3>1, <3>2, <3>3
  <2>2. ASSUME NEW t \in Source, Refuse(t) PROVE BudgetLedger!(s)'
    BY <2>0, <2>2, RefusalKeeps DEF Refuse, windowVars, TypeOK
  <2>3. ASSUME NEW t \in Source, Succeed(t) \/ Fail(t) PROVE BudgetLedger!(s)'
    BY <2>0, <2>3 DEF Succeed, Fail, RecordSuccess, RecordFailure,
                      bucketVars, windowVars, Available
  <2>4. ASSUME NEW t \in Source, OpenWindow(t) PROVE BudgetLedger!(s)'
    <3>1. Available(s)' = Available(s)
      BY <2>4 DEF OpenWindow, govVars, Available
    <3>2. CASE s = t
      <4>1. spent' = 0 /\ supplied' = 0
        BY <2>4, <3>2 DEF OpenWindow, TypeOK
      <4> QED
        BY <2>0, <3>1, <4>1
    <3>3. CASE s # t
      <4>1. spent' = spent /\ supplied' = supplied
        BY <2>4, <3>3 DEF OpenWindow, TypeOK
      <4> QED
        BY <2>0, <3>1, <4>1
    <3> QED
      BY <3>2, <3>3
  <2>5. CASE Tick
    <3>1. Available(s)' = Smaller(Capacity[s], Available(s) + Rate[s])
      BY <2>5, TickRefills DEF Tick, TypeOK
    <3>2. spent' = spent
      BY <2>5 DEF Tick
    <3>3. windowAge'[s] = windowAge[s] + 1 /\ windowAge[s] \in Nat
      BY <2>5 DEF Tick, TypeOK
    <3>4. supplied' = supplied + Rate[s]
      BY <3>3, <2>0
    <3> QED
      BY <2>0, <3>1, <3>2, <3>4 DEF Smaller
  <2>6. CASE UNCHANGED vars
    BY <2>0, <2>6 DEF vars, Available
  <2> QED
    BY <2>1, <2>2, <2>3, <2>4, <2>5, <2>6 DEF Next
<1>3. TypeOK /\ BudgetLedger => NeverOverBudget
  <2> SUFFICES ASSUME TypeOK, BudgetLedger, NEW s \in Source
               PROVE  Cost * admitted[s] <= Capacity[s] + Rate[s] * windowAge[s]
    BY DEF NeverOverBudget
  <2>1. /\ Cost * admitted[s] \in Nat /\ Rate[s] * windowAge[s] \in Nat
        /\ Capacity[s] \in Nat /\ Available(s) \in Nat
    BY AvailableType DEF TypeOK
  <2> QED
    BY <2>1 DEF BudgetLedger
<1> QED
  BY <1>1, <1>2, <1>3, TypeCorrect, PTL DEF Spec

-----------------------------------------------------------------------------
(* A refused call costs nothing: what the bucket held when the window was  *)
(* opened and what the rate supplied since is still there, or was spent on *)
(* admitted calls, up to the capacity (ratelimit.py:28-39).                *)
THEOREM RefusalsAreFree == Spec => []NothingForfeited
<1> DEFINE Kept(s) ==
      Available(s) + Cost * admitted[s]
        >= Smaller(Capacity[s], startTokens[s] + Rate[s] * windowAge[s])
<1>1. Init => NothingForfeited
  <2> SUFFICES ASSUME Init, NEW s \in Source PROVE Kept(s)
    BY DEF NothingForfeited
  <2>1. /\ Cost * admitted[s] = 0 /\ Rate[s] * windowAge[s] = 0
        /\ startTokens[s] = Capacity[s] /\ Capacity[s] \in Nat
    BY DEF Init
  <2>2. Available(s) = Smaller(Capacity[s], Capacity[s] + 0 * Rate[s])
    BY DEF Init, GovInit, BucketInit, BreakerInit, Available
  <2>3. 0 * Rate[s] = 0
    OBVIOUS
  <2>4. Available(s) = Capacity[s]
    BY <2>1, <2>2, <2>3 DEF Smaller
  <2> QED
    BY <2>1, <2>4 DEF Smaller
<1>2. TypeOK /\ NothingForfeited /\ [Next]_vars => NothingForfeited'
  <2> SUFFICES ASSUME TypeOK, NothingForfeited, [Next]_vars, NEW s \in Source
               PROVE  Kept(s)'
    BY DEF NothingForfeited
  <2> DEFINE spent == Cost * admitted[s]
             supplied == Rate[s] * windowAge[s]
             start == startTokens[s]
  <2>0. /\ spent \in Nat /\ supplied \in Nat /\ start \in Nat
        /\ Capacity[s] \in Nat /\ Rate[s] \in Nat
        /\ Available(s) \in Nat /\ Available(s) <= Capacity[s]
        /\ Available(s) + spent >= Smaller(Capacity[s], start + supplied)
    BY AvailableType DEF TypeOK, NothingForfeited
  <2>1. ASSUME NEW t \in Source, Admit(t) PROVE Kept(s)'
    <3>1. /\ Available(t) >= Cost
          /\ Available(s)' = IF s = t THEN Available(s) - Cost ELSE Available(s)
      BY <2>1, AdmissionTakes DEF Admit, TypeOK
    <3>2. supplied' = supplied /\ start' = start
      BY <2>1 DEF Admit
    <3>3. spent' = IF s = t THEN spent + Cost ELSE spent
      BY <2>1 DEF Admit, TypeOK
    <3> QED
      BY <2>0, <3>1, <3>2, <3>3 DEF Smaller
  <2>2. ASSUME NEW t \in Source, Refuse(t) PROVE Kept(s)'
    BY <2>0, <2>2, RefusalKeeps DEF Refuse, windowVars, TypeOK
  <2>3. ASSUME NEW t \in Source, Succeed(t) \/ Fail(t) PROVE Kept(s)'
    BY <2>0, <2>3 DEF Succeed, Fail, RecordSuccess, RecordFailure,
                      bucketVars, windowVars, Available
  <2>4. ASSUME NEW t \in Source, OpenWindow(t) PROVE Kept(s)'
    <3>1. Available(s)' = Available(s)
      BY <2>4 DEF OpenWindow, govVars, Available
    <3>2. CASE s = t
      <4>1. spent' = 0 /\ supplied' = 0 /\ start' = Available(s)
        BY <2>4, <3>2 DEF OpenWindow, TypeOK
      <4> QED
        BY <2>0, <3>1, <4>1 DEF Smaller
    <3>3. CASE s # t
      <4>1. spent' = spent /\ supplied' = supplied /\ start' = start
        BY <2>4, <3>3 DEF OpenWindow, TypeOK
      <4> QED
        BY <2>0, <3>1, <4>1 DEF Smaller
    <3> QED
      BY <3>2, <3>3
  <2>5. CASE Tick
    <3>1. Available(s)' = Smaller(Capacity[s], Available(s) + Rate[s])
      BY <2>5, TickRefills DEF Tick, TypeOK
    <3>2. spent' = spent /\ start' = start
      BY <2>5 DEF Tick
    <3>3. windowAge'[s] = windowAge[s] + 1 /\ windowAge[s] \in Nat
      BY <2>5 DEF Tick, TypeOK
    <3>4. supplied' = supplied + Rate[s]
      BY <3>3, <2>0
    <3> QED
      BY <2>0, <3>1, <3>2, <3>4 DEF Smaller
  <2>6. CASE UNCHANGED vars
    BY <2>0, <2>6 DEF vars, Available
  <2> QED
    BY <2>1, <2>2, <2>3, <2>4, <2>5, <2>6 DEF Next
<1> QED
  BY <1>1, <1>2, TypeCorrect, PTL DEF Spec

(* The failure count and the opening time of every breaker agree in every  *)
(* reachable state, whatever outcomes are recorded and whenever            *)
(* (ratelimit.py:67-74).                                                   *)
THEOREM BreakersConsistent == Spec => []BreakerConsistent
<1>1. Init => BreakerConsistent
  <2> SUFFICES ASSUME Init, NEW s \in Source
               PROVE  sinceOpened[s] # None <=> failures[s] >= Threshold
    BY DEF BreakerConsistent
  <2>1. sinceOpened[s] = None /\ failures[s] = 0
    BY DEF Init, GovInit, BucketInit, BreakerInit
  <2>2. ~(0 >= Threshold)
    OBVIOUS
  <2> QED
    BY <2>1, <2>2
<1>2. TypeOK /\ BreakerConsistent /\ [Next]_vars => BreakerConsistent'
  <2> SUFFICES ASSUME TypeOK, BreakerConsistent, [Next]_vars
               PROVE  BreakerConsistent'
    OBVIOUS
  <2> USE DEF TypeOK, GovTypeOK, BreakerConsistent
  <2>1. CASE UNCHANGED breakerVars
    BY <2>1 DEF breakerVars
  <2>2. ASSUME NEW t \in Source, Succeed(t) PROVE BreakerConsistent'
    BY <2>2 DEF Succeed, RecordSuccess
  <2>3. ASSUME NEW t \in Source, Fail(t) PROVE BreakerConsistent'
    BY <2>3 DEF Fail, RecordFailure, Smaller
  <2>4. CASE Tick
    BY <2>4 DEF Tick, GovTick, Smaller
  <2>5. ASSUME NEW t \in Source, Admit(t) \/ Refuse(t) \/ OpenWindow(t)
        PROVE  UNCHANGED breakerVars
    BY <2>5 DEF Admit, GuardAdmits, Refuse, GuardRaises, GuardRateLimited,
                GuardCircuitOpen, OpenWindow, govVars, breakerVars
  <2>6. CASE UNCHANGED vars
    BY <2>1, <2>6 DEF vars, breakerVars
  <2> QED
    BY <2>1, <2>2, <2>3, <2>4, <2>5, <2>6 DEF Next
<1> QED
  BY <1>1, <1>2, TypeCorrect, PTL DEF Spec

-----------------------------------------------------------------------------
(* The tools as callers of the governor.                                   *)

CallsTyped == call \in [Session -> Calls]

(* A session that is in a call is in it for a symbol with a source.        *)
LEMMA CallHasSource ==
    ASSUME CallsTyped, NEW t \in Session, call[t].step # "idle"
    PROVE  call[t].symbol \in Symbol /\ SourceFor(t) \in Source
BY DEF CallsTyped, Calls, Idle, SourceFor

(* Every symbol a tool asks about has a source.                            *)
LEMMA UpstreamedHasSource ==
    ASSUME NEW tool \in Tool, NEW x \in Upstreamed(tool)
    PROVE  x \in Symbol /\ SourceOf(x) \in Source
<1>1. tool \in AllTools
  OBVIOUS
<1>2. x \in Symbol
  BY <1>1 DEF Upstreamed, Symbol, AllTools
<1> QED
  BY <1>2

-----------------------------------------------------------------------------
(* An admission changes the call of its session only, and what it sends    *)
(* goes to the source that admitted it.                                    *)
LEMMA AdmittedCall ==
    ASSUME CallsTyped, NEW t \in Session, SessionAdmitted(t)
    PROVE  \E s \in Source :
              /\ Admit(s)
              /\ call' \in [Session -> Calls]
              /\ \A u \in Session, r \in Source : Sends(u, r) => u = t /\ r = s
<1>1. PICK s \in Source :
          /\ \/ QuoteAdmitted(t) /\ SourceFor(t) = s
             \/ \E tool \in Tool \ {"quote"} : \E x \in Upstreamed(tool) :
                   FetchAdmitted(t, tool, x) /\ SourceOf(x) = s
          /\ admitted' = [admitted EXCEPT ![s] = @ + 1]
          /\ UNCHANGED <<windowAge, startTokens>>
  BY DEF SessionAdmitted
<1>2. CASE QuoteAdmitted(t) /\ SourceFor(t) = s
  <2>1. Admit(s)
    BY <1>1, <1>2 DEF QuoteAdmitted, Admit
  <2>2. call[t].step = "missed"
    BY <1>2 DEF QuoteAdmitted, At
  <2>3. \/ call' = [call EXCEPT ![t] = Idle]
        \/ call' = [call EXCEPT ![t].step = "inflight"]
    BY <1>2 DEF QuoteAdmitted, Return, Move
  <2>4. call' \in [Session -> Calls]
    BY <2>2, <2>3 DEF CallsTyped, Calls, Idle, Steps
  <2>5. ASSUME NEW u \in Session, NEW r \in Source, Sends(u, r) PROVE u = t /\ r = s
    BY <1>2, <2>2, <2>3, <2>5 DEF CallsTyped, Calls, Idle, Sends, At, SourceFor
  <2> QED
    BY <2>1, <2>4, <2>5
<1>3. CASE \E tool \in Tool \ {"quote"} : \E x \in Upstreamed(tool) :
              FetchAdmitted(t, tool, x) /\ SourceOf(x) = s
  <2>1. PICK tool \in Tool \ {"quote"} : \E x \in Upstreamed(tool) :
              FetchAdmitted(t, tool, x) /\ SourceOf(x) = s
    BY <1>3
  <2>2. PICK x \in Upstreamed(tool) : FetchAdmitted(t, tool, x) /\ SourceOf(x) = s
    BY <2>1
  <2>3. x \in Symbol
    BY <2>2, UpstreamedHasSource
  <2>4. call' = [call EXCEPT ![t] = [tool |-> tool, symbol |-> x, step |-> "inflight"]]
    BY <2>2 DEF FetchAdmitted, Enter
  <2>5. Admit(s)
    BY <1>1, <2>2 DEF FetchAdmitted, Admit
  <2>6. call' \in [Session -> Calls]
    BY <2>3, <2>4 DEF CallsTyped, Calls, Steps
  <2>7. ASSUME NEW u \in Session, NEW r \in Source, Sends(u, r) PROVE u = t /\ r = s
    BY <2>2, <2>4, <2>7 DEF CallsTyped, Sends, At
  <2> QED
    BY <2>5, <2>6, <2>7
<1> QED
  BY <1>1, <1>2, <1>3

(* Any other step of a session sends nothing and is one that RateWindow    *)
(* allows.                                                                 *)
LEMMA MovedCall ==
    ASSUME CallsTyped, NEW t \in Session, SessionMoves(t)
    PROVE  /\ [Next]_vars
           /\ call' \in [Session -> Calls]
           /\ \A u \in Session, r \in Source : ~Sends(u, r)
<1> DEFINE Kept == UNCHANGED vars
           Quiet == /\ call' \in [Session -> Calls]
                    /\ \A u \in Session, r \in Source : ~Sends(u, r)
<1>0. UNCHANGED windowVars
  BY DEF SessionMoves
<1>1. ASSUME NEW x \in Symbol, QuoteMiss(t, x) \/ QuoteExpired(t, x) PROVE Kept /\ Quiet
  <2>1. PICK st \in {"missed", "expired"} :
            call' = [call EXCEPT ![t] = [tool |-> "quote", symbol |-> x, step |-> st]]
    BY <1>1 DEF QuoteMiss, QuoteExpired, Enter
  <2>2. "quote" \in Tool
    BY <1>1 DEF QuoteMiss, QuoteExpired
  <2>3. Quiet
    BY <2>1, <2>2 DEF CallsTyped, Calls, Steps, Sends, At
  <2>4. Kept
    BY <1>0, <1>1 DEF QuoteMiss, QuoteExpired, govVars, windowVars, vars
  <2> QED
    BY <2>3, <2>4
<1>2. CASE ExpiredDeleted(t)
  <2>1. call[t].step = "expired"
    BY <1>2 DEF ExpiredDeleted, At
  <2>2. \/ call' = [call EXCEPT ![t] = Idle]
        \/ call' = [call EXCEPT ![t].step = "missed"]
    BY <1>2 DEF ExpiredDeleted, Return, Move
  <2>3. Quiet
    BY <2>1, <2>2 DEF CallsTyped, Calls, Idle, Steps, Sends, At
  <2>4. Kept
    BY <1>0, <1>2 DEF ExpiredDeleted, govVars, windowVars, vars
  <2> QED
    BY <2>3, <2>4
<1>3. CASE QuoteDenied(t)
  <2>1. call[t].step = "missed" /\ call' = [call EXCEPT ![t] = Idle]
    BY <1>3 DEF QuoteDenied, At, Return
  <2>2. Quiet
    BY <2>1 DEF CallsTyped, Calls, Idle, Sends, At
  <2>3. Refuse(SourceFor(t)) /\ SourceFor(t) \in Source
    BY <1>0, <1>3, <2>1, CallHasSource DEF QuoteDenied, Refuse
  <2> QED
    BY <2>2, <2>3 DEF Next
<1>4. ASSUME NEW tool \in Tool \ {"quote"}, NEW x \in Upstreamed(tool), FetchDenied(t, tool, x)
      PROVE  Quiet /\ Next
  <2>1. x \in Symbol /\ SourceOf(x) \in Source
    BY UpstreamedHasSource
  <2>2. call' = [call EXCEPT ![t] = [tool |-> tool, symbol |-> x, step |-> "denied"]]
    BY <1>4 DEF FetchDenied, Enter
  <2>3. Quiet
    BY <2>1, <2>2 DEF CallsTyped, Calls, Steps, Sends, At
  <2>4. Refuse(SourceOf(x))
    BY <1>0, <1>4 DEF FetchDenied, Refuse
  <2> QED
    BY <2>1, <2>3, <2>4 DEF Next
<1>5. CASE Finish(t)
  <2>1. /\ call[t].step # "idle"
        /\ \/ call' = [call EXCEPT ![t] = Idle]
           \/ call' = [call EXCEPT ![t].step = "answered"]
    BY <1>5 DEF Finish, RefusalRecorded, Answered, Unanswered, Garbled,
                SaveQuote, SaveCandles, At, Return, Move
  <2>2. Quiet
    BY <2>1 DEF CallsTyped, Calls, Idle, Steps, Sends, At
  <2>3. SourceFor(t) \in Source
    BY <2>1, CallHasSource
  <2>4. \/ RecordFailure(SourceFor(t))
        \/ RecordSuccess(SourceFor(t))
        \/ UNCHANGED govVars
    BY <1>5 DEF Finish, RefusalRecorded, Answered, Unanswered, Garbled,
                SaveQuote, SaveCandles
  <2>5. [Next]_vars
    BY <1>0, <2>3, <2>4 DEF Next, Fail, Succeed, vars, govVars, windowVars
  <2> QED
    BY <2>2, <2>5
<1> QED
  BY <1>1, <1>2, <1>3, <1>4, <1>5 DEF SessionMoves

-----------------------------------------------------------------------------
(* The calls keep their types.                                             *)
LEMMA CallsAreTyped == BudgetSpec => []CallsTyped
<1>1. BudgetInit => CallsTyped
  BY DEF BudgetInit, ToolsInit, CallsTyped, Calls
<1>2. CallsTyped /\ [BudgetNext]_budgetVars => CallsTyped'
  <2> SUFFICES ASSUME CallsTyped, [BudgetNext]_budgetVars PROVE CallsTyped'
    OBVIOUS
  <2>1. ASSUME NEW t \in Session, SessionAdmitted(t) \/ SessionMoves(t) PROVE CallsTyped'
    BY <2>1, AdmittedCall, MovedCall DEF CallsTyped
  <2>2. CASE UNCHANGED call
    BY <2>2 DEF CallsTyped
  <2> QED
    BY <2>1, <2>2 DEF BudgetNext, UpstreamMoves, UpstreamChanges, ReopenWindow,
                      TimePasses, ToolsTick, budgetVars, toolVars
<1> QED
  BY <1>1, <1>2, PTL DEF BudgetSpec

(* The tools implement the governor under arbitrary callers: every step of *)
(* any session is a step guard, record_success and record_failure allow,   *)
(* on the source of the session's call (market_tools.py:55-153).           *)
THEOREM ToolsRefineRateWindow == BudgetSpec => ImplementsRateWindow
<1>1. BudgetInit => Init
  BY DEF BudgetInit
<1>2. CallsTyped /\ [BudgetNext]_budgetVars => [Next]_vars
  <2> SUFFICES ASSUME CallsTyped, [BudgetNext]_budgetVars PROVE [Next]_vars
    OBVIOUS
  <2>1. ASSUME NEW t \in Session, SessionAdmitted(t) PROVE [Next]_vars
    BY <2>1, AdmittedCall DEF Next
  <2>2. ASSUME NEW t \in Session, SessionMoves(t) PROVE [Next]_vars
    BY <2>2, MovedCall
  <2>3. ASSUME NEW s \in Source, UpstreamMoves(s) PROVE UNCHANGED vars
    BY <2>3 DEF UpstreamMoves, UpstreamChanges, govVars, windowVars, vars
  <2>4. ASSUME NEW s \in Source, ReopenWindow(s) PROVE Next
    BY <2>4 DEF ReopenWindow, Next
  <2>5. CASE TimePasses
    BY <2>5 DEF TimePasses, ToolsTick, Tick, Next
  <2>6. CASE UNCHANGED budgetVars
    BY <2>6 DEF budgetVars, toolVars, windowVars, vars
  <2> QED
    BY <2>1, <2>2, <2>3, <2>4, <2>5, <2>6 DEF BudgetNext
<1> QED
  BY <1>1, <1>2, CallsAreTyped, PTL DEF BudgetSpec, Spec, ImplementsRateWindow

-----------------------------------------------------------------------------
(* Every request has an admission of its own.                              *)
EachAdmitted ==
    /\ requests \in [Source -> Nat]
    /\ \A s \in Source : requests[s] <= admitted[s]

(* The sessions that send to one source in a step are at most one, and     *)
(* none when no call is admitted there.                                    *)
LEMMA AtMostOneSends ==
    ASSUME NEW s \in Source, NEW t,
           \A u \in Session : Sends(u, s) => u = t
    PROVE  /\ Cardinality({u \in Session : Sends(u, s)}) \in {0, 1}
           /\ (\A u \in Session : ~Sends(u, s))
                 => Cardinality({u \in Session : Sends(u, s)}) = 0
<1> DEFINE Senders == {u \in Session : Sends(u, s)}
<1>1. CASE Senders = {}
  BY <1>1, FS_EmptySet
<1>2. CASE Senders # {}
  <2>1. Senders = {t}
    BY <1>2
  <2> QED
    BY <2>1, FS_Singleton
<1> QED
  BY <1>1, <1>2

(* The requests of a source are at most the calls its governor admitted,   *)
(* since whenever the window was opened: no tool sends twice on one        *)
(* admission, or without one (market_tools.py:62-67, 87-89, 114-116,       *)
(* 139-142).                                                               *)
THEOREM RequestsAdmitted == BudgetSpec => []EachAdmitted
<1>1. BudgetInit => EachAdmitted
  BY DEF BudgetInit, Init, EachAdmitted
<1>2. CallsTyped /\ TypeOK /\ EachAdmitted /\ [BudgetNext]_budgetVars => EachAdmitted'
  <2> SUFFICES ASSUME CallsTyped, TypeOK, EachAdmitted, [BudgetNext]_budgetVars
               PROVE  EachAdmitted'
    OBVIOUS
  <2>1. ASSUME NEW t \in Session, SessionAdmitted(t) PROVE EachAdmitted'
    <3>1. PICK s \in Source :
              /\ Admit(s)
              /\ \A u \in Session, r \in Source : Sends(u, r) => u = t /\ r = s
      BY <2>1, AdmittedCall
    <3>2. admitted' = [admitted EXCEPT ![s] = @ + 1]
      BY <3>1 DEF Admit
    <3>3. requests' = [r \in Source |->
              requests[r] + Cardinality({u \in Session : Sends(u, r)})]
      BY <2>1 DEF SessionAdmitted, CountRequests
    <3>4. ASSUME NEW r \in Source
          PROVE  /\ Cardinality({u \in Session : Sends(u, r)}) \in {0, 1}
                 /\ r # s => Cardinality({u \in Session : Sends(u, r)}) = 0
      BY <3>1, AtMostOneSends
    <3> QED
      BY <3>2, <3>3, <3>4 DEF EachAdmitted, TypeOK
  <2>2. ASSUME NEW t \in Session, SessionMoves(t) PROVE EachAdmitted'
    <3>1. requests' = [r \in Source |->
              requests[r] + Cardinality({u \in Session : Sends(u, r)})]
      BY <2>2 DEF SessionMoves, CountRequests
    <3>2. \A r \in Source : Cardinality({u \in Session : Sends(u, r)}) = 0
      BY <2>2, MovedCall, AtMostOneSends
    <3>3. UNCHANGED admitted
      BY <2>2 DEF SessionMoves, windowVars
    <3> QED
      BY <3>1, <3>2, <3>3 DEF EachAdmitted
  <2>3. ASSUME NEW s \in Source, ReopenWindow(s) PROVE EachAdmitted'
    BY <2>3 DEF ReopenWindow, OpenWindow, EachAdmitted, TypeOK
  <2>4. CASE UNCHANGED <<admitted, requests>>
    BY <2>4 DEF EachAdmitted
  <2> QED
    BY <2>1, <2>2, <2>3, <2>4
       DEF BudgetNext, UpstreamMoves, TimePasses, budgetVars, windowVars
<1>3. BudgetSpec => []TypeOK
  BY ToolsRefineRateWindow, TypeCorrect DEF ImplementsRateWindow
<1> QED
  BY <1>1, <1>2, <1>3, CallsAreTyped, PTL DEF BudgetSpec

(* No upstream API receives more requests in any window of time than its   *)
(* bucket allows, for any number of sessions, whichever tools they use and *)
(* however their calls interleave (market_tools.py:3-6, 55-153).           *)
THEOREM UpstreamBudgetHolds == BudgetSpec => []UpstreamWithinBudget
<1>1. TypeOK /\ EachAdmitted /\ NeverOverBudget => UpstreamWithinBudget
  <2> SUFFICES ASSUME TypeOK, EachAdmitted, NeverOverBudget, NEW s \in Source
               PROVE  Cost * requests[s] <= Capacity[s] + Rate[s] * windowAge[s]
    BY DEF UpstreamWithinBudget
  <2> DEFINE q == requests[s]
             a == admitted[s]
  <2>1. q \in Nat /\ a \in Nat /\ q <= a /\ Cost \in Nat
    BY DEF EachAdmitted, TypeOK
  <2>2. /\ Cost * a <= Capacity[s] + Rate[s] * windowAge[s]
        /\ Capacity[s] + Rate[s] * windowAge[s] \in Nat
    BY DEF NeverOverBudget, TypeOK
  <2>3. PICK d \in Nat : a = q + d
    <3>1. a - q \in Nat /\ a = q + (a - q)
      BY <2>1
    <3> QED
      BY <3>1
  <2> HIDE DEF q, a
  <2>4. Cost * a = Cost * q + Cost * d /\ Cost * d \in Nat /\ Cost * q \in Nat
    BY <2>1, <2>3
  <2>5. Cost * q <= Capacity[s] + Rate[s] * windowAge[s]
    BY <2>2, <2>4
  <2> QED
    BY <2>5 DEF q
<1>2. BudgetSpec => []TypeOK /\ []NeverOverBudget
  BY ToolsRefineRateWindow, TypeCorrect, BudgetHolds DEF ImplementsRateWindow
<1> QED
  BY <1>1, <1>2, RequestsAdmitted, PTL

-----------------------------------------------------------------------------
\* What is known of the cache, the store and the upstreams; candles are only
\* ever asked for of a crypto pair.
CacheTyped ==
    /\ redis \in BOOLEAN
    /\ quoteAge \in [Symbol -> (0..QuoteTTL + 1) \cup {None}]
    /\ stored \subseteq Crypto
    /\ upstream \in [Source -> {"up", "garbled", "down"}]
    /\ \A t \in Session :
          call[t].step # "idle" /\ call[t].tool = "candles" => call[t].symbol \in Crypto

(* A call that is entered or moved on keeps its symbol.                    *)
LEMMA CallKeepsSymbol ==
    ASSUME CallsTyped, CacheTyped, NEW t \in Session,
           \/ call' = [call EXCEPT ![t] = Idle]
           \/ \E step \in Steps : call[t].step # "idle"
                                  /\ call' = [call EXCEPT ![t].step = step]
           \/ \E tool \in Tool, x \in Symbol, step \in Steps :
                 /\ tool = "candles" => x \in Crypto
                 /\ call' = [call EXCEPT ![t] =
                               [tool |-> tool, symbol |-> x, step |-> step]]
    PROVE  \A u \in Session :
              call'[u].step # "idle" /\ call'[u].tool = "candles"
                  => call'[u].symbol \in Crypto
<1> USE DEF CallsTyped, CacheTyped
<1>1. CASE call' = [call EXCEPT ![t] = Idle]
  BY <1>1 DEF Idle
<1>2. ASSUME NEW step \in Steps, call[t].step # "idle",
             call' = [call EXCEPT ![t].step = step]
      PROVE  \A u \in Session :
                /\ call'[u].tool = call[u].tool /\ call'[u].symbol = call[u].symbol
                /\ call'[u].step # "idle" => call[u].step # "idle"
  BY <1>2 DEF Calls
<1>3. ASSUME NEW tool \in Tool, NEW x \in Symbol, NEW step \in Steps,
             tool = "candles" => x \in Crypto,
             call' = [call EXCEPT ![t] = [tool |-> tool, symbol |-> x, step |-> step]]
      PROVE  \A u \in Session :
                call'[u].step # "idle" /\ call'[u].tool = "candles"
                    => call'[u].symbol \in Crypto
  BY <1>3
<1> QED
  BY <1>1, <1>2, <1>3

(* Whatever a session does, a cached quote has an age within the TTL or    *)
(* one above it, and only candles of crypto pairs are stored.              *)
LEMMA SessionsKeepCache ==
    ASSUME CallsTyped, CacheTyped, NEW t \in Session,
           SessionAdmitted(t) \/ SessionMoves(t)
    PROVE  CacheTyped'
<1> DEFINE Saved == /\ redis' \in BOOLEAN
                    /\ quoteAge' \in [Symbol -> (0..QuoteTTL + 1) \cup {None}]
                    /\ stored' \subseteq Crypto
                    /\ upstream' \in [Source -> {"up", "garbled", "down"}]
           Asked == \A u \in Session :
                       call'[u].step # "idle" /\ call'[u].tool = "candles"
                           => call'[u].symbol \in Crypto
<1>0. QuoteTTL \in Nat /\ Steps = {"expired", "missed", "denied", "inflight", "answered"}
  BY DEF Steps
<1>1. UNCHANGED <<redis, quoteAge, stored, upstream>> => Saved
  BY DEF CacheTyped
<1>2. ASSUME NEW x \in Symbol, QuoteMiss(t, x) \/ QuoteExpired(t, x) PROVE Saved /\ Asked
  <2>1. Saved
    BY <1>2 DEF QuoteMiss, QuoteExpired, RedisLost, CacheTyped
  <2>2. PICK step \in Steps :
            call' = [call EXCEPT ![t] = [tool |-> "quote", symbol |-> x, step |-> step]]
    BY <1>0, <1>2 DEF QuoteMiss, QuoteExpired, Enter
  <2>3. "quote" \in Tool
    BY <1>2 DEF QuoteMiss, QuoteExpired
  <2>4. Asked
    BY <2>2, <2>3, CallKeepsSymbol
  <2> QED
    BY <2>1, <2>4
<1>3. ASSUME ExpiredDeleted(t) PROVE Saved /\ Asked
  <2>1. Saved
    BY <1>3 DEF ExpiredDeleted, CacheTyped
  <2>2. \/ call' = [call EXCEPT ![t] = Idle]
        \/ \E step \in Steps : call[t].step # "idle"
                               /\ call' = [call EXCEPT ![t].step = step]
    BY <1>0, <1>3 DEF ExpiredDeleted, At, Return, Move
  <2> QED
    BY <2>1, <2>2, CallKeepsSymbol
<1>4. ASSUME QuoteAdmitted(t) \/ QuoteDenied(t) PROVE Saved /\ Asked
  <2>1. UNCHANGED <<redis, quoteAge, stored, upstream>>
    BY <1>4 DEF QuoteAdmitted, QuoteDenied
  <2>2. \/ call' = [call EXCEPT ![t] = Idle]
        \/ \E step \in Steps : call[t].step # "idle"
                               /\ call' = [call EXCEPT ![t].step = step]
    BY <1>0, <1>4 DEF QuoteAdmitted, QuoteDenied, At, Return, Move
  <2>3. Saved
    BY <1>1, <2>1
  <2> QED
    BY <2>2, <2>3, CallKeepsSymbol
<1>5. ASSUME NEW tool \in Tool \ {"quote"}, NEW x \in Upstreamed(tool),
             FetchAdmitted(t, tool, x) \/ FetchDenied(t, tool, x)
      PROVE  Saved /\ Asked
  <2>1. UNCHANGED <<redis, quoteAge, stored, upstream>>
    BY <1>5 DEF FetchAdmitted, FetchDenied
  <2>2. x \in Symbol
    BY UpstreamedHasSource
  <2>3. tool = "candles" => x \in Crypto
    BY DEF Upstreamed
  <2>4. PICK step \in Steps :
            call' = [call EXCEPT ![t] = [tool |-> tool, symbol |-> x, step |-> step]]
    BY <1>0, <1>5 DEF FetchAdmitted, FetchDenied, Enter
  <2>5. Asked
    BY <2>2, <2>3, <2>4, CallKeepsSymbol
  <2> QED
    BY <1>1, <2>1, <2>5
<1>6. ASSUME Finish(t) PROVE Saved /\ Asked
  <2>1. call[t].step # "idle"
    BY <1>6 DEF Finish, RefusalRecorded, Answered, Unanswered, Garbled,
                SaveQuote, SaveCandles, At
  <2>2. \/ call' = [call EXCEPT ![t] = Idle]
        \/ \E step \in Steps : call[t].step # "idle"
                               /\ call' = [call EXCEPT ![t].step = step]
    BY <1>0, <1>6, <2>1 DEF Finish, RefusalRecorded, Answered, Unanswered, Garbled,
                SaveQuote, SaveCandles, Return, Move
  <2>3. ASSUME SaveQuote(t) PROVE Saved
    <3>1. stored' = stored /\ upstream' = upstream
      BY <2>3 DEF SaveQuote
    <3>2. redis' \in BOOLEAN
      BY <2>3 DEF SaveQuote, RedisLost, CacheTyped
    <3>3. quoteAge' \in [Symbol -> (0..QuoteTTL + 1) \cup {None}]
      <4>1. 0 \in 0..QuoteTTL + 1
        BY <1>0
      <4> DEFINE Age == (0..QuoteTTL + 1) \cup {None}
      <4>2. 0 \in Age /\ None \in Age /\ quoteAge \in [Symbol -> Age]
        BY <4>1 DEF CacheTyped
      <4> HIDE DEF Age
      <4>3. quoteAge' \in [Symbol -> Age]
        BY <2>3, <4>2 DEF SaveQuote, RedisLost
      <4> QED
        BY <4>3 DEF Age
    <3> QED
      BY <3>1, <3>2, <3>3 DEF CacheTyped
  <2>4. ASSUME SaveCandles(t) PROVE Saved
    <3>1. call[t].tool = "candles" /\ stored' = stored \cup {call[t].symbol}
          /\ redis' = redis /\ quoteAge' = quoteAge /\ upstream' = upstream
      BY <2>4 DEF SaveCandles, Upsert
    <3>2. call[t].symbol \in Crypto
      BY <2>1, <3>1 DEF CacheTyped
    <3> QED
      BY <3>1, <3>2 DEF CacheTyped
  <2>5. \/ SaveQuote(t) \/ SaveCandles(t)
        \/ UNCHANGED <<redis, quoteAge, stored, upstream>>
    BY <1>6 DEF Finish, RefusalRecorded, Answered, Unanswered, Garbled
  <2> QED
    BY <1>1, <2>2, <2>3, <2>4, <2>5, CallKeepsSymbol
<1> QED
  BY <1>2, <1>3, <1>4, <1>5, <1>6 DEF SessionAdmitted, SessionMoves, CacheTyped

(* An age that grows stays in its range, in Redis and in the dictionary.   *)
LEMMA OlderTyped ==
    ASSUME NEW age \in (0..QuoteTTL + 1) \cup {None}, redis \in BOOLEAN
    PROVE  Older(age) \in (0..QuoteTTL + 1) \cup {None}
<1>1. QuoteTTL \in Nat
  OBVIOUS
<1>2. CASE age = None
  BY <1>2 DEF Older
<1>3. CASE age # None /\ redis
  BY <1>1, <1>3 DEF Older
<1>4. CASE age # None /\ ~redis
  <2>1. Older(age) = Smaller(age, QuoteTTL) + 1
    BY <1>4 DEF Older
  <2> QED
    BY <1>1, <1>4, <2>1 DEF Smaller
<1> QED
  BY <1>2, <1>3, <1>4

(* Calls, cache, store, governor and observers keep their types, whatever  *)
(* the sessions, the clock, Redis and the upstreams do                     *)
(* (market_tools.py:55-153, cache.py:36-62).                               *)
THEOREM BudgetTypes == BudgetSpec => []BudgetTypeOK
<1>1. BudgetInit => CacheTyped
  <2> SUFFICES ASSUME BudgetInit PROVE CacheTyped
    OBVIOUS
  <2>1. redis \in BOOLEAN
    BY DEF BudgetInit, ToolsInit
  <2> QED
    BY <2>1 DEF BudgetInit, ToolsInit, CacheTyped, Idle
<1>2. CallsTyped /\ CacheTyped /\ [BudgetNext]_budgetVars => CacheTyped'
  <2> SUFFICES ASSUME CallsTyped, CacheTyped, [BudgetNext]_budgetVars
               PROVE  CacheTyped'
    OBVIOUS
  <2>1. ASSUME NEW t \in Session, SessionAdmitted(t) \/ SessionMoves(t) PROVE CacheTyped'
    BY <2>1, SessionsKeepCache
  <2>2. ASSUME NEW s \in Source, UpstreamMoves(s) PROVE CacheTyped'
    BY <2>2 DEF UpstreamMoves, UpstreamChanges, CacheTyped
  <2>3. ASSUME NEW s \in Source, ReopenWindow(s) PROVE CacheTyped'
    BY <2>3 DEF ReopenWindow, CacheTyped
  <2>4. CASE TimePasses
    <3>1. /\ UNCHANGED <<call, redis, stored, upstream>>
          /\ quoteAge' = [x \in Symbol |-> Older(quoteAge[x])]
      BY <2>4 DEF TimePasses, ToolsTick
    <3>2. \A x \in Symbol : Older(quoteAge[x]) \in (0..QuoteTTL + 1) \cup {None}
      BY OlderTyped DEF CacheTyped
    <3> QED
      BY <3>1, <3>2 DEF CacheTyped
  <2>5. CASE UNCHANGED budgetVars
    BY <2>5 DEF budgetVars, toolVars, CacheTyped
  <2> QED
    BY <2>1, <2>2, <2>3, <2>4, <2>5 DEF BudgetNext
<1>3. CallsTyped /\ CacheTyped /\ TypeOK /\ EachAdmitted => BudgetTypeOK
  BY DEF CallsTyped, CacheTyped, TypeOK, EachAdmitted, BudgetTypeOK, ToolsTypeOK
<1>4. BudgetSpec => []TypeOK
  BY ToolsRefineRateWindow, TypeCorrect DEF ImplementsRateWindow
<1> QED
  BY <1>1, <1>2, <1>3, <1>4, CallsAreTyped, RequestsAdmitted, PTL DEF BudgetSpec
=============================================================================
