---------------------------- MODULE MCAgentQueue ----------------------------
(* Small instances of AgentQueue for TLC.                                  *)
EXTENDS AgentQueue

CONSTANTS w1, w2, r1, r2, r3, r4

\* every worker has an API key of its own
OwnIdentity == [w \in Workers |-> w]

\* no labels anywhere: every request matches every worker
Unlabelled == [r \in Requests |-> {}]
NoLabels   == [w \in Workers |-> {}]

\* r1 and r3 are for a region no worker serves, r2 is for w1, r4 for anyone
Regions ==
  [r \in Requests |->
     CASE r \in {r1, r3} -> {"asia"}
       [] r = r2 -> {"eu", "prod"}
       [] OTHER -> {}]

\* w1 is in the eu, w2 in the us
EuWorker == [w \in Workers |-> IF w = w1 THEN {"eu"} ELSE {"us"}]

=============================================================================
