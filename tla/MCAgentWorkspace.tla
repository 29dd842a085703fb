-------------------------- MODULE MCAgentWorkspace --------------------------
(* Small instances of AgentWorkspace for TLC.                              *)
EXTENDS AgentWorkspace

CONSTANTS l1, l2, a1, a2

AllMatch  == [a \in Agents |-> Locations]
AnyName   == [a \in Agents |-> {}]
\* a1 manages everything, a2 is restricted to l2
OneName   == [a \in Agents |-> IF a = a1 THEN {} ELSE {l2}]

Three == 1..3
Four  == 1..4

=============================================================================
