--------------------------- MODULE MCCodeLocations ---------------------------
(* Small instances of CodeLocations for TLC.                               *)
EXTENDS CodeLocations, TLC

CONSTANTS r1, r2, etl, ml, m1, m2, eu, ok, bad

\* workspace.yaml has both locations
BothLocations ==
  <<[name |-> etl, meta |-> m1, labels |-> eu], [name |-> ml, meta |-> m1, labels |-> None]>>

OneForAnother == Permutations({r1, r2})

=============================================================================
