------------------------------ MODULE MCAgents ------------------------------
(* Agents on a small instance: slots shorter than a run may last, entries  *)
(* that expire inside their slot, a first reply that may exceed the        *)
(* ceiling, and more tool calls in a reply than a run may make.            *)
EXTENDS Agents

MCConfigured == [steps |-> 1, time |-> 1, cost |-> 3]
MCFixed      == [steps |-> 2, time |-> 2, cost |-> 2]
MCCharges    == {1, 3}
=============================================================================
