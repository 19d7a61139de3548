---------------------------- MODULE AgentsProofs ----------------------------
(***************************************************************************)
(* Proofs about Agents, for any sessions and questions, any guardrails and *)
(* charges, and slots and lifetimes of any length: what a question costs   *)
(* is bounded, and what reaches a page is whole, within the guardrails and *)
(* of its slot.                                                            *)
(***************************************************************************)
EXTENDS Agents, TLAPS

USE AgentsAssumption

Typed(r) ==
    /\ r.step \in Busy \cup Resting /\ r.question \in Question \cup {None}
    /\ r.version \in Nat /\ r.began \in Nat /\ r.requested \in 0..MaxCalls
    /\ r.left \in Nat /\ r.steps \in Nat /\ r.cited \in Nat /\ r.cost \in Nat

\* What a question may have cost when it is over.
Affordable(cost) ==
    \A top \in Charges : (\A c \in Charges : c <= top) => cost <= Fixed.cost + top

\* A run under way has stayed within the limits so far, has cited what it
\* has called, and has still to call the rest of what was asked for.
UnderWay(r) ==
    /\ r.question \in Question
    /\ r.cost <= Fixed.cost
    /\ r.cited + r.left = r.requested
    /\ r.steps = r.cited + (IF r.step = "tool" THEN 1 ELSE 0)
    /\ r.steps <= Configured.steps
    /\ r.reply = 1 => r.requested = 0
    /\ r.step \in {"tools", "tool"} <=> r.left > 0
    /\ r.step \notin {"asked", "expired"} => r.version <= Slot(r.began)

RunOK(r) ==
    /\ Typed(r)
    /\ r.version <= Slot(clock) /\ r.began <= clock
    /\ r.left <= r.requested
    /\ r.steps <= Configured.steps + 1 /\ r.cited <= Configured.steps
    /\ Affordable(r.cost)
    /\ r.step \in Busy => UnderWay(r)
    /\ r.step = "answered" => r.cost <= Fixed.cost

\* An answer, wherever it is kept.
OutputOK(o) ==
    /\ o \in Output
    /\ o.began <= o.stored /\ o.stored <= clock
    /\ o.stored - o.began <= Fixed.time
    /\ o.cited <= Configured.steps
    /\ o.cited = o.requested

Filed == \A v \in 0..Slot(MaxClock) :
    cache[v] # None => OutputOK(cache[v]) /\ v <= Slot(cache[v].began)

OnPages == \A t \in Session :
    /\ shown[t] # None => OutputOK(shown[t])
    /\ At(t, "served") =>
          /\ shown[t] # None
          /\ run[t].version <= Slot(shown[t].began)
          /\ run[t].began - shown[t].stored <= OutputTTL

Inv ==
    /\ clock \in 0..MaxClock
    /\ run = [t \in Session |-> run[t]]
    /\ cache \in [0..Slot(MaxClock) -> Output \cup {None}]
    /\ shown \in [Session -> Output \cup {None}]
    /\ \A t \in Session : RunOK(run[t])
    /\ Filed
    /\ OnPages

-----------------------------------------------------------------------------
(* A later time is in no earlier slot (supervisor.py:59).                  *)
LEMMA SlotsAdvance ==
    ASSUME NEW a \in Nat, NEW b \in Nat, a <= b
    PROVE  /\ Slot(a) \in Nat /\ Slot(b) \in Nat
           /\ Slot(a) <= Slot(b)
BY SMTT(30) DEF Slot

(* The limits as numbers.                                                  *)
LEMMA LimitTypes ==
    /\ Fixed.steps \in Nat /\ Fixed.time \in Nat /\ Fixed.cost \in Nat
    /\ Configured.steps \in Nat /\ Configured.time \in Nat
BY DEF Limits

(* A cost within the ceiling and the charge of one more reply.             *)
LEMMA OneMoreReply ==
    ASSUME NEW cost \in Nat, cost <= Fixed.cost, NEW charge \in Charges
    PROVE  Affordable(charge) /\ Affordable(cost + charge)
<1> SUFFICES ASSUME NEW top \in Charges, \A c \in Charges : c <= top
             PROVE  charge <= Fixed.cost + top /\ cost + charge <= Fixed.cost + top
  BY DEF Affordable
<1>1. charge <= top /\ charge \in Nat /\ top \in Nat
  OBVIOUS
<1> QED
  BY <1>1, LimitTypes

(* One session's run moves to a good state; the others stay as they are.   *)
LEMMA OneRunMoves ==
    ASSUME Inv, NEW t \in Session, NEW r, RunOK(r),
           run' = [run EXCEPT ![t] = r], clock' = clock
    PROVE  /\ run' = [u \in Session |-> run'[u]]
           /\ run'[t] = r
           /\ \A u \in Session \ {t} : run'[u] = run[u]
           /\ \A u \in Session : RunOK(run[u])'
<1>1. /\ run' = [u \in Session |-> run'[u]] /\ run'[t] = r
      /\ \A u \in Session \ {t} : run'[u] = run[u]
  BY DEF Inv
<1>2. RunOK(run[t])'
  BY <1>1 DEF RunOK, UnderWay
<1>3. ASSUME NEW u \in Session \ {t} PROVE RunOK(run[u])'
  <2>1. RunOK(run[u]) /\ run'[u] = run[u]
    BY <1>1 DEF Inv
  <2> QED
    BY <2>1 DEF RunOK, UnderWay
<1> QED
  BY <1>1, <1>2, <1>3

(* A step that continues a run in a good state, and serves no cached       *)
(* answer, keeps the invariant.                                            *)
LEMMA ContinueKeeps ==
    ASSUME Inv, NEW t \in Session, NEW r, RunOK(r), r.step # "served",
           Continue(t, r)
    PROVE  Inv'
<1>1. run' = [run EXCEPT ![t] = r] /\ UNCHANGED <<clock, cache, shown>>
  BY DEF Continue
<1>2. Filed' /\ OnPages'
  BY <1>1, OneRunMoves DEF Inv, Filed, OnPages, OutputOK, At
<1> QED
  BY <1>1, <1>2, OneRunMoves DEF Inv

(* The call of a run that kept its costs bounded may end.                  *)
LEMMA EndedOK ==
    ASSUME NEW r, Typed(r), clock \in Nat,
           r.steps <= Configured.steps + 1, Affordable(r.cost),
           NEW outcome \in Resting, outcome = "answered" => r.cost <= Fixed.cost
    PROVE  RunOK(Ended(r, outcome)) /\ Ended(r, outcome).step = outcome
<1> DEFINE e == Ended(r, outcome)
<1>1. /\ e.step = outcome /\ e.question = r.question /\ e.version = 0
      /\ e.began = 0 /\ e.left = 0 /\ e.requested = 0 /\ e.cited = 0
      /\ e.steps = r.steps /\ e.cost = r.cost
  BY SMTT(30) DEF Ended, Fresh
<1>2. Typed(e)
  BY <1>1, LimitTypes DEF Typed
<1>3. 0 <= Slot(clock)
  BY SlotsAdvance
<1> QED
  BY <1>1, <1>2, <1>3, LimitTypes DEF RunOK, Resting, Busy

(* An answer made within the limits and from all its tools is filed under  *)
(* the slot of its question and shown.                                     *)
LEMMA DeliverKeeps ==
    ASSUME Inv, NEW t \in Session, NEW r, Typed(r),
           r.question \in Question, r.began <= clock,
           r.version <= Slot(clock), r.version <= Slot(r.began),
           r.cited = r.requested, r.cited <= Configured.steps,
           r.steps <= Configured.steps + 1,
           ~Exceeds(r, Fixed), Affordable(r.cost), Deliver(t, r)
    PROVE  Inv'
<1> DEFINE o == [question |-> r.question, began |-> r.began, stored |-> clock,
                 requested |-> r.requested, cited |-> r.cited]
           e == Ended(r, "answered")
<1>1. /\ cache' = [cache EXCEPT ![r.version] = o]
      /\ shown' = [shown EXCEPT ![t] = o]
      /\ run' = [run EXCEPT ![t] = e]
      /\ clock' = clock
  BY DEF Deliver
<1>2. r.cost <= Fixed.cost /\ clock - r.began <= Fixed.time
  <2>1. /\ r.cost \in Nat /\ r.began \in Nat /\ clock \in Nat
        /\ Fixed.cost \in Nat /\ Fixed.time \in Nat
    BY LimitTypes DEF Typed, Inv
  <2> QED
    BY <2>1 DEF Exceeds
<1>3. OutputOK(o) /\ o \in Output
  BY <1>2 DEF OutputOK, Output, Typed, Inv
<1>4. RunOK(e) /\ e.step = "answered"
  BY <1>2, EndedOK DEF Inv, Resting
<1>5. r.version \in 0..Slot(MaxClock)
  BY SlotsAdvance DEF Inv, Typed
<1>6. /\ run' = [u \in Session |-> run'[u]] /\ run'[t] = e
      /\ \A u \in Session \ {t} : run'[u] = run[u]
      /\ \A u \in Session : RunOK(run[u])'
  <2> HIDE DEF e
  <2> QED
    BY <1>1, <1>4, OneRunMoves
<1>7. Filed'
  BY <1>1, <1>3, <1>5 DEF Inv, Filed, OutputOK
<1>8. OnPages'
  BY <1>1, <1>3, <1>4, <1>6 DEF Inv, OnPages, OutputOK, At
<1> QED
  BY <1>1, <1>3, <1>5, <1>6, <1>7, <1>8 DEF Inv

-----------------------------------------------------------------------------
(* The beginning of a question: the run starts, or a cached answer that is *)
(* filed under the slot of the question is shown.                          *)
LEMMA QuestionKeeps ==
    ASSUME Inv, NEW t \in Session,
           \/ \E q \in Question : Ask(t, q)
           \/ Hit(t) \/ Miss(t) \/ Expired(t) \/ Deletes(t)
    PROVE  Inv'
<1> USE LimitTypes
<1>0. /\ clock \in Nat /\ clock <= MaxClock /\ RunOK(run[t])
  BY DEF Inv
<1>1. ASSUME NEW q \in Question, Ask(t, q) PROVE Inv'
  <2> DEFINE r == [Fresh EXCEPT !.step = "asked", !.question = q,
                                !.version = Slot(clock)]
  <2>1. /\ r.step = "asked" /\ r.question = q /\ r.version = Slot(clock)
        /\ r.began = 0 /\ r.requested = 0 /\ r.left = 0 /\ r.steps = 0
        /\ r.cited = 0 /\ r.cost = 0
    BY DEF Fresh
  <2>2. RunOK(r)
    BY <1>0, <2>1, SlotsAdvance DEF RunOK, Typed, UnderWay, Affordable, Busy
  <2>3. /\ run' = [run EXCEPT ![t] = r] /\ UNCHANGED <<clock, cache>>
        /\ shown' = [shown EXCEPT ![t] = None]
    BY <1>1 DEF Ask
  <2> HIDE DEF r
  <2>4. /\ run' = [u \in Session |-> run'[u]] /\ run'[t] = r
        /\ \A u \in Session \ {t} : run'[u] = run[u]
        /\ \A u \in Session : RunOK(run[u])'
    BY <2>2, <2>3, OneRunMoves
  <2>5. Filed' /\ OnPages'
    BY <2>1, <2>3, <2>4 DEF Inv, Filed, OnPages, OutputOK, At
  <2> QED
    BY <2>3, <2>4, <2>5 DEF Inv
<1>2. CASE Hit(t)
  <2> DEFINE v == run[t].version
             r == [run[t] EXCEPT !.step = "served", !.began = clock]
  <2>1. /\ run' = [run EXCEPT ![t] = r] /\ UNCHANGED <<clock, cache>>
        /\ shown' = [shown EXCEPT ![t] = cache[v]]
        /\ cache[v] # None /\ clock <= cache[v].stored + OutputTTL
    BY <1>2 DEF Hit, Usable, Inv
  <2>2. /\ r.step = "served" /\ r.question = run[t].question
        /\ r.version = v /\ r.began = clock
        /\ r.requested = run[t].requested /\ r.left = run[t].left
        /\ r.steps = run[t].steps /\ r.cited = run[t].cited
        /\ r.cost = run[t].cost
    BY <1>2 DEF Hit, At
  <2> HIDE DEF r
  <2>3. v \in 0..Slot(MaxClock)
    <3>1. v \in Nat /\ v <= Slot(clock) /\ clock <= MaxClock
      BY <1>0 DEF RunOK, Typed
    <3>2. /\ Slot(clock) \in Nat /\ Slot(MaxClock) \in Nat
          /\ Slot(clock) <= Slot(MaxClock)
      BY <1>0, <3>1, SlotsAdvance
    <3> QED
      BY <3>1, <3>2
  <2>4. RunOK(r)
    BY <1>0, <2>2 DEF RunOK, Typed, Busy, Resting
  <2>5. OutputOK(cache[v]) /\ v <= Slot(cache[v].began)
    BY <2>1, <2>3 DEF Inv, Filed
  <2>6. /\ run' = [u \in Session |-> run'[u]] /\ run'[t] = r
        /\ \A u \in Session \ {t} : run'[u] = run[u]
        /\ \A u \in Session : RunOK(run[u])'
    BY <2>1, <2>4, OneRunMoves
  <2>7. Filed' /\ shown' \in [Session -> Output \cup {None}]
    BY <2>1, <2>5 DEF Inv, Filed, OutputOK
  <2>8. clock - cache[v].stored <= OutputTTL
    BY <1>0, <2>1, <2>5 DEF OutputOK, Output
  <2>9. OnPages'
    BY <2>1, <2>2, <2>5, <2>6, <2>8, SMTT(20) DEF Inv, OnPages, OutputOK, At
  <2> QED
    BY <2>1, <2>6, <2>7, <2>9 DEF Inv
<1>3. CASE Miss(t) \/ Deletes(t)
  <2> DEFINE v == run[t].version
             r == [run[t] EXCEPT !.step = "chat", !.began = clock]
  <2>1. /\ run' = [run EXCEPT ![t] = r] /\ UNCHANGED <<clock, shown>>
        /\ cache' = cache \/ cache' = [cache EXCEPT ![v] = None]
        /\ run[t].step \in {"asked", "expired"}
    BY <1>3 DEF Miss, Deletes, Continue, At, Inv
  <2>2. /\ r.step = "chat" /\ r.question = run[t].question
        /\ r.version = v /\ r.began = clock
        /\ r.requested = run[t].requested /\ r.left = run[t].left
        /\ r.steps = run[t].steps /\ r.cited = run[t].cited
        /\ r.cost = run[t].cost /\ r.reply = run[t].reply
    BY <2>1
  <2> HIDE DEF r
  <2>3. RunOK(r)
    BY <1>0, <2>1, <2>2 DEF RunOK, Typed, UnderWay, Busy, Resting
  <2>4. /\ run' = [u \in Session |-> run'[u]] /\ run'[t] = r
        /\ \A u \in Session \ {t} : run'[u] = run[u]
        /\ \A u \in Session : RunOK(run[u])'
    BY <2>1, <2>3, OneRunMoves
  <2>5. Filed' /\ OnPages'
    BY <2>1, <2>2, <2>4 DEF Inv, Filed, OnPages, OutputOK, At
  <2> QED
    BY <2>1, <2>4, <2>5 DEF Inv
<1>4. CASE Expired(t)
  <2> DEFINE r == [run[t] EXCEPT !.step = "expired"]
  <2>1. Continue(t, r) /\ run[t].step = "asked"
    BY <1>4 DEF Expired, At
  <2>2. /\ r.step = "expired" /\ r.question = run[t].question
        /\ r.version = run[t].version /\ r.began = run[t].began
        /\ r.requested = run[t].requested /\ r.left = run[t].left
        /\ r.steps = run[t].steps /\ r.cited = run[t].cited
        /\ r.cost = run[t].cost /\ r.reply = run[t].reply
    BY <2>1
  <2> HIDE DEF r
  <2>3. RunOK(r)
    BY <1>0, <2>1, <2>2 DEF RunOK, Typed, UnderWay, Busy, Resting
  <2> QED
    BY <2>1, <2>2, <2>3, ContinueKeeps
<1> QED
  BY <1>1, <1>2, <1>3, <1>4

(* The run itself: chats with their retry, tool calls, and the two replies *)
(* under the guardrails of run() and of _call_tool.                        *)
LEMMA RunKeeps ==
    ASSUME Inv, NEW t \in Session, Proceed(t),
           ~Hit(t), ~Miss(t), ~Expired(t), ~Deletes(t)
    PROVE  Inv'
<1> USE LimitTypes
<1> DEFINE old == run[t]
<1>0. clock \in Nat /\ RunOK(old)
  BY DEF Inv
<1>1. ASSUME old.step \in Busy \ {"asked", "expired"}
      PROVE  Typed(old) /\ UnderWay(old) /\ old.version <= Slot(old.began)
  BY <1>0, <1>1 DEF RunOK, UnderWay
<1>2. ASSUME old.step \in Busy, NEW outcome \in {"refused", "raised"},
             Stop(t, old, outcome)
      PROVE  Inv'
  <2>1. RunOK(Ended(old, outcome)) /\ Ended(old, outcome).step = outcome
    BY <1>0, <1>2, EndedOK DEF RunOK, Resting
  <2> QED
    BY <1>2, <2>1, ContinueKeeps DEF Stop
<1>3. CASE ConnectionFails(t)
  <2> DEFINE r == [old EXCEPT !.step = "pause"]
  <2>1. Continue(t, r) /\ old.step = "chat"
    BY <1>3 DEF ConnectionFails, At
  <2>2. /\ r.step = "pause" /\ r.question = old.question
        /\ r.version = old.version /\ r.began = old.began
        /\ r.requested = old.requested /\ r.left = old.left
        /\ r.steps = old.steps /\ r.cited = old.cited /\ r.cost = old.cost
        /\ r.reply = old.reply
    BY <2>1
  <2> HIDE DEF r
  <2>3. RunOK(r)
    BY <1>0, <2>1, <2>2 DEF RunOK, Typed, UnderWay, Busy
  <2> QED
    BY <2>1, <2>2, <2>3, ContinueKeeps
<1>4. CASE PauseEnds(t)
  <2> DEFINE r == [old EXCEPT !.step = "chat", !.again = TRUE]
  <2>1. Continue(t, r) /\ old.step = "pause"
    BY <1>4 DEF PauseEnds, At
  <2>2. /\ r.step = "chat" /\ r.question = old.question
        /\ r.version = old.version /\ r.began = old.began
        /\ r.requested = old.requested /\ r.left = old.left
        /\ r.steps = old.steps /\ r.cited = old.cited /\ r.cost = old.cost
        /\ r.reply = old.reply
    BY <2>1
  <2> HIDE DEF r
  <2>3. RunOK(r)
    BY <1>0, <2>1, <2>2 DEF RunOK, Typed, UnderWay, Busy
  <2> QED
    BY <2>1, <2>2, <2>3, ContinueKeeps
<1>5. CASE \/ DeletedBefore(t) \/ ChatRaises(t) \/ ForeignTool(t)
           \/ ToolRaises(t)
  BY <1>2, <1>5 DEF DeletedBefore, ChatRaises, ForeignTool, ToolRaises, At, Busy
<1>6. ASSUME NEW charge \in Charges, NEW n \in 0..MaxCalls,
             FirstReply(t, n, charge)
      PROVE  Inv'
  <2> DEFINE r == Replied(t, n, charge)
  <2>1. old.step = "chat"
    BY <1>6 DEF FirstReply, At
  <2>2. /\ r.step = "tools" /\ r.question = old.question
        /\ r.version = old.version /\ r.began = old.began
        /\ r.requested = n /\ r.left = n /\ r.reply = 2
        /\ r.steps = old.steps /\ r.cited = old.cited /\ r.cost = charge
    BY <2>1 DEF Replied
  <2> HIDE DEF r
  <2>3. UnderWay(old) /\ old.requested = 0 /\ old.reply = 1
    BY <1>1, <1>6, <2>1 DEF Busy, FirstReply, UnderWay
  <2>4. old.cited = 0 /\ old.steps = 0
    BY <1>0, <2>1, <2>3 DEF UnderWay, RunOK, Typed
  <2>5. Typed(r) /\ Affordable(r.cost) /\ r.steps <= Configured.steps + 1
    <3>1. Affordable(charge)
      BY <1>0, <2>3, OneMoreReply DEF UnderWay, RunOK, Typed
    <3>2. Affordable(r.cost)
      BY <2>2, <3>1
    <3>3. Typed(r)
      BY <1>0, <2>2 DEF RunOK, Typed, Busy
    <3> QED
      BY <2>2, <2>4, <3>2, <3>3
  <2>6. CASE Stop(t, r, "refused")
    BY <1>0, <2>5, <2>6, EndedOK, ContinueKeeps DEF Stop, Resting
  <2>7. CASE ~Exceeds(r, Fixed) /\ n > 0 /\ Continue(t, r)
    <3>1. r.cost <= Fixed.cost
      BY <2>5, <2>7 DEF Exceeds, Typed
    <3>2. RunOK(r)
      BY <1>0, <1>1, <2>1, <2>2, <2>3, <2>4, <2>5, <2>7, <3>1
         DEF RunOK, Typed, UnderWay, Busy
    <3> QED
      BY <2>2, <2>7, <3>2, ContinueKeeps
  <2>8. CASE ~Exceeds(r, Fixed) /\ n = 0 /\ Deliver(t, r)
    <3>1. /\ r.question \in Question /\ r.began <= clock
          /\ r.version <= Slot(clock) /\ r.version <= Slot(r.began)
          /\ r.cited = r.requested /\ r.cited <= Configured.steps
      BY <1>0, <1>1, <2>1, <2>2, <2>3, <2>4, <2>8 DEF RunOK, UnderWay, Busy
    <3> QED
      BY <2>5, <2>8, <3>1, DeliverKeeps
  <2> QED
    BY <1>6, <2>6, <2>7, <2>8 DEF FirstReply, r
<1>7. CASE CallTool(t)
  <2> DEFINE s == [old EXCEPT !.steps = @ + 1]
             r == [s EXCEPT !.step = "tool"]
  <2>1. old.step = "tools"
    BY <1>7 DEF CallTool, At
  <2>2. /\ s.steps = old.steps + 1 /\ s.cost = old.cost /\ s.began = old.began
        /\ s.step = "tools" /\ s.question = old.question
        /\ s.version = old.version /\ s.requested = old.requested
        /\ s.left = old.left /\ s.cited = old.cited
    BY <2>1
  <2>3. /\ r.step = "tool" /\ r.question = old.question
        /\ r.version = old.version /\ r.began = old.began
        /\ r.requested = old.requested /\ r.left = old.left
        /\ r.steps = old.steps + 1 /\ r.cited = old.cited
        /\ r.cost = old.cost /\ r.reply = old.reply
    BY <2>1
  <2>4. CASE Stop(t, s, "refused")
    <3>1. Typed(s) /\ Affordable(s.cost) /\ s.steps <= Configured.steps + 1
      <4> HIDE DEF s
      <4> QED
        BY <1>0, <1>1, <2>1, <2>2 DEF RunOK, Typed, UnderWay, Busy
    <3> QED
      BY <1>0, <2>4, <3>1, EndedOK, ContinueKeeps DEF Stop, Resting
  <2>5. CASE ~Exceeds(s, Configured) /\ Continue(t, r)
    <3> HIDE DEF s, r
    <3>1. old.steps + 1 <= Configured.steps
      BY <1>0, <2>2, <2>5 DEF Exceeds, RunOK, Typed
    <3>2. RunOK(r)
      BY <1>0, <1>1, <2>1, <2>3, <3>1 DEF RunOK, Typed, UnderWay, Busy
    <3> QED
      BY <2>3, <2>5, <3>2, ContinueKeeps
  <2> QED
    BY <1>7, <2>4, <2>5 DEF CallTool
<1>8. CASE ToolReturns(t)
  <2> DEFINE r == [old EXCEPT !.cited = @ + 1, !.left = @ - 1,
                     !.step = IF old.left = 1 THEN "chat" ELSE "tools"]
  <2>1. Continue(t, r) /\ old.step = "tool"
    BY <1>8 DEF ToolReturns, At
  <2>2. /\ r.step = (IF old.left = 1 THEN "chat" ELSE "tools")
        /\ r.question = old.question
        /\ r.version = old.version /\ r.began = old.began
        /\ r.requested = old.requested /\ r.left = old.left - 1
        /\ r.steps = old.steps /\ r.cited = old.cited + 1
        /\ r.cost = old.cost /\ r.reply = old.reply
    BY <2>1
  <2> HIDE DEF r
  <2>3. RunOK(r)
    BY <1>0, <1>1, <2>1, <2>2 DEF RunOK, Typed, UnderWay, Busy
  <2> QED
    BY <2>1, <2>2, <2>3, ContinueKeeps
<1>9. ASSUME NEW charge \in Charges, FinalReply(t, charge)
      PROVE  Inv'
  <2> DEFINE r == [old EXCEPT !.cost = @ + charge]
  <2>1. old.step = "chat"
    BY <1>9 DEF FinalReply, At
  <2>2. /\ r.step = "chat" /\ r.question = old.question
        /\ r.version = old.version /\ r.began = old.began
        /\ r.requested = old.requested /\ r.left = old.left
        /\ r.steps = old.steps /\ r.cited = old.cited
        /\ r.cost = old.cost + charge
    BY <2>1
  <2> HIDE DEF r
  <2>3. Typed(r) /\ Affordable(r.cost) /\ r.steps <= Configured.steps + 1
    <3>1. Affordable(old.cost + charge)
      BY <1>1, <2>1, OneMoreReply DEF Typed, UnderWay, Busy
    <3>2. Affordable(r.cost)
      BY <2>2, <3>1
    <3>3. Typed(r)
      BY <1>0, <2>2 DEF RunOK, Typed, Busy
    <3>4. r.steps <= Configured.steps + 1
      BY <1>0, <2>2 DEF RunOK
    <3> QED
      BY <3>2, <3>3, <3>4
  <2>4. CASE Stop(t, r, "refused")
    BY <1>0, <2>3, <2>4, EndedOK, ContinueKeeps DEF Stop, Resting
  <2>5. CASE ~Exceeds(r, Fixed) /\ Deliver(t, r)
    <3>1. /\ r.question \in Question /\ r.began <= clock
          /\ r.version <= Slot(clock) /\ r.version <= Slot(r.began)
          /\ r.cited = r.requested /\ r.cited <= Configured.steps
      BY <1>0, <1>1, <2>1, <2>2 DEF RunOK, Typed, UnderWay, Busy
    <3> QED
      BY <2>3, <2>5, <3>1, DeliverKeeps
  <2> QED
    BY <1>9, <2>4, <2>5 DEF FinalReply, r
<1> QED
  BY <1>3, <1>4, <1>5, <1>6, <1>7, <1>8, <1>9 DEF Proceed

-----------------------------------------------------------------------------
(* Time passes for every question at once; nothing gets less current by    *)
(* it than what was compared when it was read.                             *)
LEMMA TickKeeps ==
    ASSUME Inv, Tick
    PROVE  Inv'
<1>1. /\ clock \in Nat /\ clock' = clock + 1 /\ clock' \in 0..MaxClock
      /\ UNCHANGED <<run, cache, shown>>
  BY DEF Inv, Tick
<1>2. Slot(clock) <= Slot(clock') /\ Slot(clock) \in Nat /\ Slot(clock') \in Nat
  BY <1>1, SlotsAdvance
<1>3. ASSUME NEW t \in Session PROVE RunOK(run[t])'
  <2>1. RunOK(run[t])
    BY DEF Inv
  <2>2. run[t].version <= Slot(clock') /\ run[t].began <= clock'
    BY <1>1, <1>2, <2>1 DEF RunOK, Typed
  <2> QED
    BY <1>1, <2>1, <2>2 DEF RunOK, UnderWay
<1>4. \A o : OutputOK(o) => OutputOK(o)'
  BY <1>1 DEF OutputOK, Output
<1>5. Filed' /\ OnPages'
  BY <1>1, <1>4 DEF Inv, Filed, OnPages, At
<1> QED
  BY <1>1, <1>3, <1>5 DEF Inv

(* The invariant, in every reachable state.                                *)
LEMMA InvHolds == Spec => []Inv
<1>1. Init => Inv
  <2> SUFFICES ASSUME Init PROVE Inv
    OBVIOUS
  <2>1. /\ Fresh.step = "idle" /\ Fresh.question = None /\ Fresh.version = 0
        /\ Fresh.began = 0 /\ Fresh.requested = 0 /\ Fresh.left = 0
        /\ Fresh.steps = 0 /\ Fresh.cited = 0 /\ Fresh.cost = 0
    BY DEF Fresh
  <2>2. Typed(Fresh) /\ Affordable(0)
    BY <2>1, LimitTypes DEF Typed, Affordable, Resting
  <2>3. 0 <= Slot(clock) /\ clock = 0
    BY SlotsAdvance DEF Init
  <2>4. RunOK(Fresh)
    BY <2>1, <2>2, <2>3, LimitTypes DEF RunOK, Busy
  <2> QED
    BY <2>1, <2>4 DEF Init, Inv, Filed, OnPages, At
<1>2. Inv /\ [Next]_vars => Inv'
  <2> SUFFICES ASSUME Inv, [Next]_vars PROVE Inv'
    OBVIOUS
  <2>1. ASSUME NEW t \in Session, (\E q \in Question : Ask(t, q)) \/ Proceed(t)
        PROVE  Inv'
    BY <2>1, QuestionKeeps, RunKeeps
  <2>2. CASE Tick
    BY <2>2, TickKeeps
  <2>3. CASE UNCHANGED vars
    BY <2>3 DEF vars, Inv, RunOK, UnderWay, Filed, OnPages, OutputOK, At
  <2> QED
    BY <2>1, <2>2, <2>3 DEF Next
<1> QED
  BY <1>1, <1>2, PTL DEF Spec

-----------------------------------------------------------------------------
(* The types of runs, cache and pages.                                     *)
THEOREM TypeCorrect == Spec => []TypeOK
<1>1. Inv => TypeOK
  BY DEF Inv, RunOK, Typed, TypeOK
<1> QED
  BY <1>1, InvHolds, PTL

(* A question costs at most the ceiling and one reply more, however it     *)
(* ends (nl_query_agent.py:44-66).                                         *)
THEOREM SpendIsBounded == Spec => []SpendBounded
<1>1. Inv => SpendBounded
  BY DEF Inv, RunOK, Affordable, SpendBounded
<1> QED
  BY <1>1, InvHolds, PTL

(* What reaches a page was made within the guardrails, whether by a run of *)
(* its own or by another session's (base.py:54-82, supervisor.py:62-72).   *)
THEOREM DeliveriesKeepGuardrails == Spec => []DeliveredWithinGuardrails
<1>1. Inv => DeliveredWithinGuardrails
  BY DEF Inv, RunOK, OnPages, OutputOK, At, DeliveredWithinGuardrails
<1> QED
  BY <1>1, InvHolds, PTL

(* An answer on a page rests on every tool call the model asked for        *)
(* (nl_query_agent.py:49-58).                                              *)
THEOREM AnswersAreWhole == Spec => []WholeAnswers
<1>1. Inv => WholeAnswers
  BY DEF Inv, OnPages, OutputOK, WholeAnswers
<1> QED
  BY <1>1, InvHolds, PTL

(* A cached answer comes of a run that began in the slot of the question   *)
(* it is served to, or later, and has not outlived its time                *)
(* (output_cache.py:20-31, supervisor.py:59-71).                           *)
THEOREM CachedAnswersKeepToSlot == Spec => []HitsKeepToSlot
<1>1. Inv => HitsKeepToSlot
  BY DEF Inv, OnPages, At, HitsKeepToSlot
<1> QED
  BY <1>1, InvHolds, PTL
=============================================================================
