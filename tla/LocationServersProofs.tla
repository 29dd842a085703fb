------------------------ MODULE LocationServersProofs ------------------------
(***************************************************************************)
(* What the promise of LocationServers entails, for any locations and any  *)
(* servers.                                                                *)
(***************************************************************************)
EXTENDS LocationServers, TLAPS

\* An endpoint leads to a server of its location, alive or not.
EndpointsAreTheirs ==
  \A l \in Locations : endpoint[l] \in Servers =>
    l \in owner[endpoint[l]] /\ life[endpoint[l]] # "none"

Shapes ==
  /\ life \in [Servers -> {"none", "starting", "up", "down", "removed"}]
  /\ owner \in [Servers -> SUBSET Locations]
  /\ endpoint \in [Locations -> Servers \cup {NoServer}]

PromiseInv == Shapes /\ EndpointsAreTheirs /\ OneServerPerLocation

LEMMA InitPromise ==
  ASSUME NoServer \notin Servers, Init
  PROVE  PromiseInv
BY DEF Init, PromiseInv, Shapes, EndpointsAreTheirs, OneServerPerLocation, ServersOf, IsAlive

LEMMA StartInv ==
  ASSUME PromiseInv, NEW l \in Locations, NEW s \in Servers, Start(l, s)
  PROVE  PromiseInv'
<1> USE DEF PromiseInv, Shapes
<1>1. Shapes'
  BY DEF Start
<1>2. EndpointsAreTheirs'
  BY DEF Start, EndpointsAreTheirs
<1>3. OneServerPerLocation'
  <2>1. SUFFICES ASSUME ~stopping, NEW m \in Locations,
                        NEW t \in ServersOf(m)' \ abandoned', NEW u \in ServersOf(m)' \ abandoned'
                 PROVE  t = u
    BY DEF Start, OneServerPerLocation
  <2>2. ASSUME NEW v \in ServersOf(m)' \ abandoned', v # s
        PROVE  v \in ServersOf(m) \ abandoned /\ m # l
    <3>1. v \in ServersOf(m) \ abandoned
      BY <2>2 DEF Start, ServersOf
    <3>2. QED
      BY <2>1, <3>1 DEF Start, IsVacant
  <2>3. s \in ServersOf(m)' => m = l
    BY DEF Start, ServersOf
  <2>4. QED
    BY <2>1, <2>2, <2>3 DEF OneServerPerLocation
<1>4. QED
  BY <1>1, <1>2, <1>3

\* The other steps make no server alive and give none to a location.
LEMMA OtherInv ==
  ASSUME PromiseInv, Shapes', EndpointsAreTheirs', UNCHANGED owner,
         abandoned \subseteq abandoned', stopping => stopping',
         \A s \in Servers : IsAlive(life'[s]) => IsAlive(life[s])
  PROVE  PromiseInv'
<1>1. \A l \in Locations : ServersOf(l)' \ abandoned' \subseteq ServersOf(l) \ abandoned
  BY DEF ServersOf
<1>2. OneServerPerLocation'
  BY <1>1 DEF PromiseInv, OneServerPerLocation
<1>3. QED
  BY <1>2 DEF PromiseInv

LEMMA NextPromise ==
  ASSUME NoServer \notin Servers, PromiseInv, [Next]_vars
  PROVE  PromiseInv'
<1> USE DEF Shapes, EndpointsAreTheirs
<1>1. ASSUME NEW l \in Locations, NEW s \in Servers, Publish(l, s) PROVE PromiseInv'
  <2>1. Shapes' /\ EndpointsAreTheirs'
    BY <1>1 DEF Publish, PromiseInv
  <2>2. QED
    BY <1>1, <2>1, OtherInv DEF Publish
<1>2. ASSUME NEW s \in Servers,
             Moves(s, {"starting"}, "up") \/ Moves(s, {"starting", "up"}, "down")
      PROVE  PromiseInv'
  <2>1. Shapes' /\ EndpointsAreTheirs'
    BY <1>2 DEF Moves, PromiseInv
  <2>2. \A t \in Servers : IsAlive(life'[t]) => IsAlive(life[t])
    BY <1>2 DEF Moves, PromiseInv, IsAlive
  <2>3. QED
    BY <1>2, <2>1, <2>2, OtherInv DEF Moves
<1>3. CASE Retire
  <2>1. Shapes' /\ EndpointsAreTheirs'
    BY <1>3 DEF Retire, PromiseInv
  <2>2. \A t \in Servers : IsAlive(life'[t]) => IsAlive(life[t])
    BY <1>3 DEF Retire, IsAlive
  <2>3. QED
    BY <1>3, <2>1, <2>2, OtherInv DEF Retire
<1>4. CASE (\E l \in Locations : Withdraw(l)) \/ Stop \/ UNCHANGED vars
  <2>1. /\ UNCHANGED <<life, owner, abandoned>> /\ (stopping => stopping')
        /\ \/ UNCHANGED endpoint
           \/ \E l \in Locations : endpoint' = [endpoint EXCEPT ![l] = NoServer]
    BY <1>4 DEF Withdraw, Stop, vars
  <2>2. Shapes' /\ EndpointsAreTheirs'
    BY <2>1 DEF PromiseInv
  <2>3. QED
    BY <2>1, <2>2, OtherInv
<1>5. QED
  BY <1>1, <1>2, <1>3, <1>4, StartInv DEF Next

\* OneServerPerLocation, and endpoints that lead to servers of their location:
\* what agents rely on (base.py's reconcile starts a server only where it holds
\* no handle, and records an endpoint only for the location it started it for).
THEOREM PromiseMeansOneServer ==
  ASSUME NoServer \notin Servers
  PROVE  Spec => [](OneServerPerLocation /\ EndpointsAreTheirs)
<1>1. Init => PromiseInv
  BY InitPromise
<1>2. PromiseInv /\ [Next]_vars => PromiseInv'
  BY NextPromise
<1>3. PromiseInv => OneServerPerLocation /\ EndpointsAreTheirs
  BY DEF PromiseInv
<1>4. QED
  BY <1>1, <1>2, <1>3, PTL DEF Spec

=============================================================================
