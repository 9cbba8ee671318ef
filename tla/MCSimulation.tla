---------------------------- MODULE MCSimulation ----------------------------
(***************************************************************************)
(* One or two operations are granted, and none to agent 9.  Agents 1, 4 and *)
(* 5 want more: in the code agent 1 has more seed profiles than operations.  *)
(* Three runs let a probe follow a simulation that was killed after one that *)
(* finished, and so meet the call log that was torn.                         *)
(***************************************************************************)
EXTENDS Simulation

MCGranted == [a \in AgentIds |-> CASE a = "agent1" -> 2
                                   [] a = "agent9" -> 0
                                   [] OTHER -> 1]
MCDemand  == [a \in AgentIds |-> IF a \in {"agent1", "agent4", "agent5"} THEN 3 ELSE 1]
=============================================================================
