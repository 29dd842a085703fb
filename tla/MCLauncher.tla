----------------------------- MODULE MCLauncher -----------------------------
(* Bounds of the model-checking runs of Launcher. *)
EXTENDS Launcher

Four  == 1..4
Six   == 1..6
Seven == 1..7

EveryFault   == {"spinup", "partial", "slow", "death", "ping", "remove", "join", "restart"}
Repaired     == {"spinup", "slow", "death", "ping", "remove", "restart"}

=============================================================================
