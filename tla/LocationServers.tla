--------------------------- MODULE LocationServers ---------------------------
(***************************************************************************)
(* What the user code launcher promises to the agent that asks it for      *)
(* endpoints: the endpoint given out for a location leads to a server that *)
(* was started for that location and came up; a location gets a new server *)
(* only when no other is alive for it, not even one whose endpoint is      *)
(* withdrawn already; and the endpoint of a server that is alive is        *)
(* withdrawn only to tear the server down, unless the server is given up   *)
(* on.  How the launcher finds out what is alive, and when it starts or    *)
(* removes what, is left to Launcher.                                      *)
(***************************************************************************)
CONSTANTS
  Locations,  \* code location names
  Servers,    \* processes or containers ever created
  NoServer    \* no endpoint is given out

VARIABLES
  life,       \* what has become of each server
  owner,      \* the location it was started for, as a set of at most one
  endpoint,   \* the server each location leads to
  retiring,   \* servers being torn down whose endpoint is withdrawn
  abandoned,  \* servers given up on while they may still be alive
  stopping    \* servers are being torn down for good

vars == <<life, owner, endpoint, retiring, abandoned, stopping>>

IsAlive(state)  == state \in {"starting", "up"}
ServersOf(l)    == {s \in Servers : IsAlive(life[s]) /\ l \in owner[s]}
IsVacant(l)     == ServersOf(l) \subseteq abandoned

Init ==
  /\ life = [s \in Servers |-> "none"]
  /\ owner = [s \in Servers |-> {}]
  /\ endpoint = [l \in Locations |-> NoServer]
  /\ retiring = {}
  /\ abandoned = {}
  /\ stopping = FALSE

\* A server is started for a location that has none; the attempt may be
\* given up on at once
Start(l, s) ==
  /\ life[s] = "none"
  /\ stopping \/ IsVacant(l)
  /\ life' = [life EXCEPT ![s] = "starting"]
  /\ owner' = [owner EXCEPT ![s] = {l}]
  /\ abandoned' \in {abandoned, abandoned \cup {s}}
  /\ UNCHANGED <<endpoint, retiring, stopping>>

\* Its endpoint is given out once it is up
Publish(l, s) ==
  /\ life[s] = "up"
  /\ l \in owner[s]
  /\ s \notin retiring
  /\ endpoint' = [endpoint EXCEPT ![l] = s]
  /\ UNCHANGED <<life, owner, retiring, abandoned, stopping>>

\* A server comes up or dies by itself
Moves(s, from, to) ==
  /\ life[s] \in from
  /\ life' = [life EXCEPT ![s] = to]
  /\ UNCHANGED <<owner, endpoint, retiring, abandoned, stopping>>

\* An endpoint is withdrawn and the teardown of its server begins
Withdraw(l) ==
  /\ endpoint[l] \in Servers
  /\ endpoint' = [endpoint EXCEPT ![l] = NoServer]
  /\ retiring' = retiring \cup {endpoint[l]}
  /\ UNCHANGED <<life, owner, abandoned, stopping>>

\* Servers are removed, endpoints withdrawn, teardowns ended and servers given
\* up on; none goes on unattended after its endpoint or its teardown
Retire ==
  \E gone \in SUBSET Servers, dropped \in SUBSET Locations :
     LET left == {endpoint[l] : l \in dropped} \cup (retiring \ retiring')
     IN /\ \A s \in gone : life[s] # "none"
        /\ life' = [s \in Servers |-> IF s \in gone THEN "removed" ELSE life[s]]
        /\ endpoint' = [l \in Locations |-> IF l \in dropped THEN NoServer ELSE endpoint[l]]
        /\ retiring' \subseteq retiring
        /\ abandoned \subseteq abandoned'
        /\ \/ stopping
           \/ \A s \in left \cap Servers : ~IsAlive(life'[s]) \/ s \in abandoned'
        /\ UNCHANGED <<owner, stopping>>

\* The launcher is told to stop
Stop ==
  /\ stopping' = TRUE
  /\ UNCHANGED <<life, owner, endpoint, retiring, abandoned>>

Next ==
  \/ \E l \in Locations, s \in Servers : Start(l, s) \/ Publish(l, s)
  \/ \E s \in Servers : Moves(s, {"starting"}, "up") \/ Moves(s, {"starting", "up"}, "down")
  \/ \E l \in Locations : Withdraw(l)
  \/ Retire
  \/ Stop

Spec == Init /\ [][Next]_vars

\* Until it is told to stop, no location has two servers alive that nobody has
\* given up on: what base.py's reconcile promises by starting a server only for
\* a location without a handle.
OneServerPerLocation ==
  \/ stopping
  \/ \A l \in Locations : \A s, t \in ServersOf(l) \ abandoned : s = t

=============================================================================
