---------------------------- MODULE MCGraphqlWs -----------------------------
(* Small instances of GraphqlWs for TLC.                                   *)
EXTENDS GraphqlWs
CONSTANTS op1, op2
=============================================================================
