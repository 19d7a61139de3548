------------------------------- MODULE Agents -------------------------------
(***************************************************************************)
(* Questions to the agent console: agents/supervisor.py, the run of        *)
(* agents/nl_query_agent.py under the guardrails of agents/base.py, the    *)
(* LLM client with its one retry, and agents/output_cache.py.              *)
(*                                                                         *)
(* The sessions of a process share one Supervisor and so one output cache. *)
(* The console passes no symbol hint: the key of an entry is the time slot *)
(* (data_version) alone.  Without an LLM key the console returns before it *)
(* offers the question, so a key is assumed.  The tools are MarketTools;   *)
(* here a call returns or raises.                                          *)
(***************************************************************************)
EXTENDS Naturals

CONSTANTS
    Session,     \* threads of the terminal
    Question,    \* what users ask
    Configured,  \* [steps, time, cost]: AGENT_MAX_STEPS, _TIMEOUT_S, _COST_CEILING
    Fixed,       \* [steps, time, cost]: the 6, 20.0, 0.05 written in run()
    Charges,     \* estimated costs a reply may have
    MaxCalls,    \* bound on the tool calls of a reply
    SlotLength,  \* QUOTE_CACHE_TTL_S, the length of a data_version
    OutputTTL,   \* AGENT_OUTPUT_CACHE_TTL_S
    MaxClock,    \* bound on clock
    None

Limits == [steps : Nat, time : Nat, cost : Nat]

ASSUME AgentsAssumption ==
    /\ Configured \in Limits /\ Fixed \in Limits
    /\ Charges \subseteq Nat /\ Charges # {}
    /\ MaxCalls \in Nat /\ OutputTTL \in Nat /\ MaxClock \in Nat
    /\ SlotLength \in Nat \ {0}

VARIABLES
    clock,
    run,    \* [Session -> the question it asked and its AgentRun]
    cache,  \* [data_version -> an output, or None]
    shown   \* [Session -> the output on its page, or None]

vars == <<clock, run, cache, shown>>

Busy    == {"asked", "expired", "chat", "pause", "tools", "tool"}
Resting == {"idle", "answered", "served", "refused", "raised"}

Fresh == [step |-> "idle", question |-> None, version |-> 0, began |-> 0,
          reply |-> 1, again |-> FALSE, requested |-> 0, left |-> 0,
          steps |-> 0, cited |-> 0, cost |-> 0]

Slot(time) == time \div SlotLength

Init ==
    /\ clock = 0
    /\ run = [t \in Session |-> Fresh]
    /\ cache = [v \in 0..Slot(MaxClock) |-> None]
    /\ shown = [t \in Session |-> None]

At(t, step) == run[t].step = step

\* The session goes on with its run in state r; the page does not change.
Continue(t, r) ==
    /\ run' = [run EXCEPT ![t] = r]
    /\ UNCHANGED <<clock, cache, shown>>

\* The call is over, and with it all but what the AgentRun counted.
Ended(r, outcome) ==
    [Fresh EXCEPT !.step = outcome, !.question = r.question,
                  !.steps = r.steps, !.cost = r.cost]

Stop(t, r, outcome) == Continue(t, Ended(r, outcome))

-----------------------------------------------------------------------------
(* Supervisor.handle_nl_query up to the cache. *)

\* The Ask button; data_version is read from the clock.
Ask(t, q) ==
    /\ run[t].step \in Resting
    /\ run' = [run EXCEPT ![t] = [Fresh EXCEPT
                 !.step = "asked", !.question = q, !.version = Slot(clock)]]
    /\ shown' = [shown EXCEPT ![t] = None]
    /\ UNCHANGED <<clock, cache>>

\* An entry that has not expired.
Usable(entry) == entry # None /\ clock <= entry.stored + OutputTTL

Hit(t) ==
    /\ At(t, "asked")
    /\ Usable(cache[run[t].version])
    /\ shown' = [shown EXCEPT ![t] = cache[run[t].version]]
    /\ run' = [run EXCEPT ![t].step = "served", ![t].began = clock]
    /\ UNCHANGED <<clock, cache>>

\* No entry: the agent is run.
Miss(t) ==
    /\ At(t, "asked")
    /\ cache[run[t].version] = None
    /\ Continue(t, [run[t] EXCEPT !.step = "chat", !.began = clock])

\* An expired entry is to be deleted.
Expired(t) ==
    /\ At(t, "asked")
    /\ cache[run[t].version] # None /\ ~Usable(cache[run[t].version])
    /\ Continue(t, [run[t] EXCEPT !.step = "expired"])

\* What is deleted may be the entry another session has put there since.
Deletes(t) ==
    /\ At(t, "expired")
    /\ cache[run[t].version] # None
    /\ cache' = [cache EXCEPT ![run[t].version] = None]
    /\ run' = [run EXCEPT ![t].step = "chat", ![t].began = clock]
    /\ UNCHANGED <<clock, shown>>

\* Another session has deleted it: KeyError, which nothing catches.
DeletedBefore(t) ==
    /\ At(t, "expired")
    /\ cache[run[t].version] = None
    /\ Stop(t, run[t], "raised")

-----------------------------------------------------------------------------
(* LLMClient.chat *)

MutConnectionFails(t) ==
    /\ At(t, "chat")
    /\ Continue(t, [run[t] EXCEPT !.step = "pause"])

\* The first APIConnectionError of a chat is followed by a pause ...
ConnectionFails(t) ==
    /\ At(t, "chat")
    /\ ~run[t].again
    /\ Continue(t, [run[t] EXCEPT !.step = "pause"])

\* ... and one more request.
PauseEnds(t) ==
    /\ At(t, "pause")
    /\ Continue(t, [run[t] EXCEPT !.step = "chat", !.again = TRUE])

\* The second one, or any other error of the request or of the decoding of
\* its reply, is caught neither by run() nor by the supervisor.
ChatRaises(t) ==
    /\ At(t, "chat")
    /\ Stop(t, run[t], "raised")

-----------------------------------------------------------------------------
(* NLQueryAgent.run *)

\* check_guardrails
Exceeds(r, limits) ==
    \/ r.steps > limits.steps
    \/ clock - r.began > limits.time
    \/ r.cost > limits.cost

MutDeliver(t, r) ==
    LET output == [question |-> r.question, began |-> r.began, stored |-> clock,
                   requested |-> r.requested, cited |-> r.cited]
    IN  /\ cache' = [cache EXCEPT ![Slot(clock)] = output]
        /\ shown' = [shown EXCEPT ![t] = output]
        /\ run' = [run EXCEPT ![t] = Ended(r, "answered")]
        /\ UNCHANGED clock

\* The output is validated, cached under the version the question was asked
\* in, and shown.
Deliver(t, r) ==
    LET output == [question |-> r.question, began |-> r.began, stored |-> clock,
                   requested |-> r.requested, cited |-> r.cited]
    IN  /\ cache' = [cache EXCEPT ![r.version] = output]
        /\ shown' = [shown EXCEPT ![t] = output]
        /\ run' = [run EXCEPT ![t] = Ended(r, "answered")]
        /\ UNCHANGED clock

\* The reply that chooses the tools has been paid for.
Replied(t, n, charge) ==
    [run[t] EXCEPT !.step = "tools", !.reply = 2, !.again = FALSE,
                   !.requested = n, !.left = n, !.cost = charge]

MutFirstReply(t, n, charge) ==
    LET r == Replied(t, n, charge)
    IN  /\ At(t, "chat") /\ run[t].reply = 1
        /\ IF n > 0 THEN Continue(t, r) ELSE Deliver(t, r)

\* Without a tool call its text is the answer.
FirstReply(t, n, charge) ==
    LET r == Replied(t, n, charge)
    IN  /\ At(t, "chat") /\ run[t].reply = 1
        /\ IF Exceeds(r, Fixed) THEN Stop(t, r, "refused")
           ELSE IF n > 0 THEN Continue(t, r)
           ELSE Deliver(t, r)

MutCallTool(t) ==
    /\ At(t, "tools")
    /\ Continue(t, [run[t] EXCEPT !.steps = @ + 1, !.step = "tool"])

MutCallToolStops(t) ==
    LET r == [run[t] EXCEPT !.steps = @ + 1]
    IN  /\ At(t, "tools")
        /\ IF Exceeds(r, Configured)
           THEN Continue(t, [r EXCEPT !.step = "chat", !.left = 0])
           ELSE Continue(t, [r EXCEPT !.step = "tool"])

\* _call_tool: the step is counted before the guardrails are checked.
CallTool(t) ==
    LET r == [run[t] EXCEPT !.steps = @ + 1]
    IN  /\ At(t, "tools")
        /\ IF Exceeds(r, Configured)
           THEN Stop(t, r, "refused")
           ELSE Continue(t, [r EXCEPT !.step = "tool"])

\* The model asked for a tool that is not in the allowlist.
ForeignTool(t) ==
    /\ At(t, "tools")
    /\ Stop(t, run[t], "refused")

\* The result is kept and cited; after the last one the final chat begins.
ToolReturns(t) ==
    /\ At(t, "tool")
    /\ Continue(t, [run[t] EXCEPT
          !.cited = @ + 1, !.left = @ - 1,
          !.step = IF run[t].left = 1 THEN "chat" ELSE "tools"])

\* Arguments the tool does not take, or data of an unexpected shape.
ToolRaises(t) ==
    /\ run[t].step \in {"tools", "tool"}
    /\ Stop(t, run[t], "raised")

MutFinalReply(t, charge) ==
    /\ At(t, "chat") /\ run[t].reply = 2
    /\ Deliver(t, [run[t] EXCEPT !.cost = @ + charge])

FinalReply(t, charge) ==
    LET r == [run[t] EXCEPT !.cost = @ + charge]
    IN  /\ At(t, "chat") /\ run[t].reply = 2
        /\ IF Exceeds(r, Fixed) THEN Stop(t, r, "refused") ELSE Deliver(t, r)

-----------------------------------------------------------------------------
Tick ==
    /\ clock < MaxClock
    /\ clock' = clock + 1
    /\ UNCHANGED <<run, cache, shown>>

Proceed(t) ==
    \/ Hit(t)
    \/ Miss(t)
    \/ Expired(t)
    \/ Deletes(t)
    \/ DeletedBefore(t)
    \/ ConnectionFails(t)
    \/ PauseEnds(t)
    \/ ChatRaises(t)
    \/ \E charge \in Charges :
          \/ \E n \in 0..MaxCalls : FirstReply(t, n, charge)
          \/ FinalReply(t, charge)
    \/ CallTool(t)
    \/ ForeignTool(t)
    \/ ToolReturns(t)
    \/ ToolRaises(t)

Next ==
    \/ \E t \in Session : (\E q \in Question : Ask(t, q)) \/ Proceed(t)
    \/ Tick

Spec == Init /\ [][Next]_vars

\* Requests to the LLM and to the tools' upstreams have timeouts.
FairSpec == Spec /\ \A t \in Session : WF_vars(Proceed(t))

-----------------------------------------------------------------------------
(* Type invariant. *)
Output == [question : Question, began : 0..MaxClock, stored : 0..MaxClock,
           requested : 0..MaxCalls, cited : 0..MaxCalls]

TypeOK ==
    /\ clock \in 0..MaxClock
    /\ cache \in [0..Slot(MaxClock) -> Output \cup {None}]
    /\ shown \in [Session -> Output \cup {None}]
    /\ \A t \in Session :
          /\ run[t].step \in Busy \cup Resting
          /\ run[t].question \in Question \cup {None}
          /\ run[t].version \in 0..Slot(clock)
          /\ run[t].began \in 0..clock
          /\ run[t].left \in 0..run[t].requested
          /\ run[t].steps \in 0..Configured.steps + 1
          /\ run[t].cited \in 0..Configured.steps
          /\ run[t].cost \in Nat

(* A question costs at most the ceiling and one reply more, whether it is  *)
(* answered, refused or fails: the check between the two chats stops a run *)
(* whose first reply already was too dear (nl_query_agent.py:44-66).       *)
SpendBounded ==
    \A t \in Session : \A top \in Charges :
        (\A c \in Charges : c <= top) => run[t].cost <= Fixed.cost + top

(* What reaches a page, from a run or from the cache, was made within the  *)
(* guardrails: inside the time limit, and by a run that kept to the cost   *)
(* ceiling and the configured number of tool calls.                        *)
DeliveredWithinGuardrails ==
    \A t \in Session :
        /\ shown[t] # None =>
              /\ shown[t].stored - shown[t].began <= Fixed.time
              /\ shown[t].cited <= Configured.steps
        /\ At(t, "answered") => run[t].cost <= Fixed.cost

(* No partial answers: an answer on a page rests on every tool call the    *)
(* model asked for, and cites each of them; a run that hits a limit, meets *)
(* a foreign tool or a failing one shows nothing (nl_query_agent.py:49-58).*)
WholeAnswers ==
    \A t \in Session :
        shown[t] # None => shown[t].cited = shown[t].requested

(* A cached answer is served to its slot only: its run began no earlier    *)
(* than the slot the question was asked in, however long that run and the  *)
(* other sessions' took, and ended at most the cache's time to live ago    *)
(* (output_cache.py:20-31, supervisor.py:59-71).  It does not say that the *)
(* data are unchanged: a slot is an interval of the clock, not of data.    *)
HitsKeepToSlot ==
    \A t \in Session : At(t, "served") =>
        /\ Slot(shown[t].began) >= run[t].version
        /\ run[t].began - shown[t].stored <= OutputTTL

(* The answer on a page is the answer to the question asked there ("not    *)
(* re-running an agent for the same question against the same underlying   *)
(* data", output_cache.py:1-3).                                            *)
AnswersTheQuestionAsked ==
    \A t \in Session :
        shown[t] # None => shown[t].question = run[t].question

(* Every question comes to an end: a connection that keeps failing is      *)
(* tried twice for each of the two chats (llm_client.py:63-79).            *)
EndsEventually == \A t \in Session : run[t].step \in Busy ~> run[t].step \in Resting
=============================================================================
