--------------------------- MODULE LauncherProofs ---------------------------
(***************************************************************************)
(* Theorems about Launcher for any locations, either kind of back end, any *)
(* faults and any number of them: its invariants, and that it implements   *)
(* LocationServers: every step of the thread, of stop() and of the world   *)
(* is a step of the promise or leaves what it speaks of alone.             *)
(***************************************************************************)
EXTENDS Launcher, TLAPS

\* s is a server created for l
HandleFits(l, s) ==
  /\ s \in Servers
  /\ server[s] # "none"
  /\ serves[s] \in Locations \X Versions
  /\ serves[s][1] = l

\* Every handle is of a server created for its location.
HandlesFit == \A l \in Locations : HasHandle(l) => HandleFits(l, handles[l])

\* The thread waits for a server only where it wanted one and has none yet, and
\* tears one down for its health only where it has dropped the handle.
ThreadWaits ==
  /\ pc \notin {"wait", "retiring"} => handle = NoServer
  /\ pc \notin {"wait", "removing", "retiring"} => at = {}
  /\ pc \in {"wait", "retiring"} => \E l \in Locations :
       /\ at = {l}
       /\ ~HasHandle(l)
       /\ HandleFits(l, handle)
       /\ pc = "wait" => Wanted(l) /\ server[handle] # "removed"
  /\ pc = "removing" => \E l \in todo : at = {l}

\* Its loops visit the locations they are meant for, and until stop() tears
\* down the servers their copies of the handles are up to date.
ThreadVisits ==
  /\ pc \in {"add", "wait"} => todo \subseteq {l \in Locations : Wanted(l)}
  /\ pc \in {"remove", "removing"} => \A l \in todo : ~Wanted(l)
  /\ pc \in {"remove", "removing", "health", "retiring"} =>
       \A l \in todo : current[l] \in Servers
  /\ pc \in {"remove", "removing", "health", "retiring"} /\ InService =>
       \A l \in todo : HasHandle(l) /\ current[l] = handles[l]

ThreadIsSound == HandlesFit /\ ThreadWaits /\ ThreadVisits

LauncherInv == TypeOK /\ HandlesAreSound /\ ThreadIsSound

USE LauncherAssumption DEF FaultKinds, Entries, state, world, thread, stopper, history, Loses

-----------------------------------------------------------------------------
\* No server is held for two locations.
LEMMA DistinctHandles ==
  ASSUME ThreadIsSound, NEW l \in Locations, NEW m \in Locations,
         HasHandle(l), handles[l] = handles[m]
  PROVE  l = m
<1>1. HasHandle(m)
  BY DEF HasHandle
<1>2. serves[handles[l]][1] = l /\ serves[handles[m]][1] = m
  BY <1>1 DEF ThreadIsSound, HandlesFit, HandleFits
<1>3. QED
  BY <1>2

\* A step that gives out no handle keeps the handles fit.
LEMMA HandlesStayFit ==
  ASSUME HandlesFit, UNCHANGED serves,
         \A l \in Locations : HasHandle(l)' => handles'[l] = handles[l],
         \A s \in Servers : server[s] # "none" => server'[s] # "none"
  PROVE  HandlesFit'
BY DEF HandlesFit, HandleFits, HasHandle

\* Tearing down the server of one location touches no other's.
LEMMA TeardownIsLocal ==
  ASSUME LauncherInv, NEW l \in Locations, HasHandle(l),
         server' \in {server, [server EXCEPT ![handles[l]] = "removed"]}
  PROVE  /\ \A m \in Locations \ {l} :
              HasHandle(m) => server'[handles[m]] = server[handles[m]]
         /\ \A s \in Servers : server[s] # "none" => server'[s] # "none"
<1>1. \A m \in Locations \ {l} : HasHandle(m) => handles[m] # handles[l]
  BY DistinctHandles DEF LauncherInv
<1>2. QED
  BY <1>1 DEF HasHandle, LauncherInv, TypeOK

-----------------------------------------------------------------------------
\* Every step keeps the type invariant.
LEMMA StepType == LauncherInv /\ [Next]_vars => TypeOK'
<1> SUFFICES ASSUME LauncherInv, [Next]_vars PROVE TypeOK'
  OBVIOUS
<1> USE DEF LauncherInv, TypeOK, Nothing
<1>1. ASSUME NEW entries \in Entries, UpdateDesired(entries) PROVE TypeOK'
  BY <1>1 DEF UpdateDesired
<1>2. ASSUME NEW s \in Servers, ServerUp(s) PROVE TypeOK'
  BY <1>2 DEF ServerUp
<1>3. ASSUME NEW s \in Servers, ServerDies(s) PROVE TypeOK'
  BY <1>3 DEF ServerDies, Fault
<1>4. ASSUME ThreadEnds PROVE TypeOK'
  BY <1>4 DEF ThreadEnds, Goto
<1>5. ASSUME PassBegins PROVE TypeOK'
  BY <1>5 DEF PassBegins, Goto
<1>6. ASSUME AddEnds PROVE TypeOK'
  BY <1>6 DEF AddEnds, Goto
<1>7. ASSUME RemoveEnds PROVE TypeOK'
  BY <1>7 DEF RemoveEnds, Goto
<1>8. ASSUME PassEnds PROVE TypeOK'
  BY <1>8 DEF PassEnds, Goto
<1>9. ASSUME NEW l \in Locations, AddSkips(l) PROVE TypeOK'
  BY <1>9 DEF AddSkips, Visited, Goto
<1>10. ASSUME NEW l \in Locations, SpinupRaises(l) PROVE TypeOK'
  BY <1>10 DEF SpinupRaises, AddFails, Fault, Goto
<1>11. ASSUME NEW l \in Locations, ServerReady(l) PROVE TypeOK'
  BY <1>11 DEF ServerReady, Goto
<1>12. ASSUME NEW l \in Locations, NotReady(l) PROVE TypeOK'
  <2>1. handle \in Servers
    BY <1>12 DEF NotReady, ThreadIsSound, ThreadWaits, HandleFits
  <2>2. lost' \subseteq Servers
    <3>1. lost' = lost \/ lost' = lost \cup {handle}
      BY <1>12, Zenon DEF NotReady, Loses
    <3>2. lost \subseteq Servers
      BY Zenon
    <3> HIDE DEF LauncherInv, TypeOK
    <3>3. QED
      BY <2>1, <3>1, <3>2
  <2>3. updates' \in Nat /\ faults' \in Nat
    BY <1>12 DEF NotReady, Fault
  <2>4. QED
    BY <1>12, <2>2, <2>3 DEF NotReady, AddFails, Goto
<1>13. ASSUME NEW l \in Locations, RemoveCalls(l) PROVE TypeOK'
  <2>1. current[l] \in Servers
    BY <1>13 DEF RemoveCalls, ThreadIsSound, ThreadVisits
  <2>2. lost' \subseteq Servers
    <3>1. lost' = lost \/ lost' = lost \cup {current[l]}
      BY <1>13, Zenon DEF RemoveCalls, Teardown, Removed, Loses
    <3>2. lost \subseteq Servers
      BY Zenon
    <3> HIDE DEF LauncherInv, TypeOK
    <3>3. QED
      BY <2>1, <3>1, <3>2
  <2>3. updates' \in Nat /\ faults' \in Nat
    BY <1>13 DEF RemoveCalls, Teardown, Fault
  <2>4. server' \in [Servers -> {"none", "starting", "up", "down", "removed"}]
    <3>1. server' = server \/ server' = [server EXCEPT ![current[l]] = "removed"]
      BY <1>13, Zenon DEF RemoveCalls, Teardown, Removed
    <3>2. server \in [Servers -> {"none", "starting", "up", "down", "removed"}]
      OBVIOUS
    <3>3. QED
      BY <3>1, <3>2
  <2>5. QED
    BY <1>13, <2>2, <2>3, <2>4 DEF RemoveCalls
<1>14. ASSUME NEW l \in Locations, RemoveForgets(l) PROVE TypeOK'
  BY <1>14 DEF RemoveForgets, PassAborted, Goto
<1>15. ASSUME NEW l \in Locations, PingSucceeds(l) PROVE TypeOK'
  BY <1>15 DEF PingSucceeds, Visited, Goto
<1>16. ASSUME NEW l \in Locations, PingFails(l) \/ PingTimesOut(l) PROVE TypeOK'
  <2>1. handle' \in Servers \cup {NoServer} /\ at' \subseteq Locations
    BY <1>16 DEF PingFails, PingTimesOut, Unhealthy
  <2>2. updates' \in Nat /\ faults' \in Nat
    BY <1>16 DEF PingFails, PingTimesOut, Fault
  <2>3. QED
    BY <1>16, <2>1, <2>2 DEF PingFails, PingTimesOut, Unhealthy
<1>17. ASSUME UnhealthyRetires PROVE TypeOK'
  <2>1. handle \in Servers
    BY <1>17 DEF UnhealthyRetires, ThreadIsSound, ThreadWaits, HandleFits
  <2>2. lost' \subseteq Servers
    <3>1. lost' = lost \/ lost' = lost \cup {handle}
      BY <1>17, Zenon DEF UnhealthyRetires, Teardown, Removed, Loses
    <3>2. lost \subseteq Servers
      BY Zenon
    <3> HIDE DEF LauncherInv, TypeOK
    <3>3. QED
      BY <2>1, <3>1, <3>2
  <2>3. updates' \in Nat /\ faults' \in Nat
    BY <1>17 DEF UnhealthyRetires, Teardown, Fault
  <2>4. server' \in [Servers -> {"none", "starting", "up", "down", "removed"}]
    <3>1. server' = server \/ server' = [server EXCEPT ![handle] = "removed"]
      BY <1>17, Zenon DEF UnhealthyRetires, Teardown, Removed
    <3>2. server \in [Servers -> {"none", "starting", "up", "down", "removed"}]
      OBVIOUS
    <3>3. QED
      BY <3>1, <3>2
  <2>5. QED
    BY <1>17, <2>2, <2>3, <2>4 DEF UnhealthyRetires, Goto
<1>18. ASSUME NEW l \in Locations, NEW s \in Servers, Spinup(l, s) PROVE TypeOK'
  <2>1. snapshot[l] \in Versions
    BY <1>18 DEF Spinup, ThreadIsSound, ThreadVisits, Wanted
  <2>2. <<l, snapshot[l]>> \in Locations \X Versions
    BY <2>1
  <2>3. QED
    BY <1>18, <2>2 DEF Spinup, Create
<1>19. ASSUME NEW l \in Locations, NEW s \in Servers, SpinupRaisesHalfway(l, s) PROVE TypeOK'
  <2>1. snapshot[l] \in Versions
    BY <1>19 DEF SpinupRaisesHalfway, ThreadIsSound, ThreadVisits, Wanted
  <2>2. <<l, snapshot[l]>> \in Locations \X Versions
    BY <2>1
  <2>3. QED
    BY <1>19, <2>2 DEF SpinupRaisesHalfway, AddFails, Fault, Goto, Create
<1>20. ASSUME StopBegins PROVE TypeOK'
  BY <1>20 DEF StopBegins
<1>21. ASSUME Joins PROVE TypeOK'
  <2>1. joined' \in BOOLEAN
    BY <1>21 DEF Joins
  <2>2. faults' \in Nat /\ updates' \in Nat
    BY <1>21 DEF Joins, Fault
  <2>3. QED
    BY <1>21, <2>1, <2>2 DEF Joins
<1>22. ASSUME StopKills PROVE TypeOK'
  <2>1. lost' \subseteq Servers
    <3>1. {handles[l] : l \in Locations} \ {NoServer} \subseteq Servers
      OBVIOUS
    <3>2. lost' = lost \/ \E s \in {handles[l] : l \in Locations} \ {NoServer} : Loses(s)
      BY <1>22, Zenon DEF StopKills
    <3>3. lost \subseteq Servers
      BY Zenon
    <3> HIDE DEF LauncherInv, TypeOK
    <3>4. QED
      BY <3>1, <3>2, <3>3 DEF Loses
  <2>2. updates' \in Nat /\ faults' \in Nat
    BY <1>22 DEF StopKills, Fault
  <2>3. server' \in [Servers -> {"none", "starting", "up", "down", "removed"}]
    BY <1>22 DEF StopKills
  <2>4. QED
    BY <1>22, <2>1, <2>2, <2>3 DEF StopKills
<1>23. ASSUME StopClears PROVE TypeOK'
  BY <1>23 DEF StopClears
<1>24. ASSUME Exits PROVE TypeOK'
  BY <1>24 DEF Exits, Goto
<1>25. ASSUME Restart PROVE TypeOK'
  <2>1. joined' \in BOOLEAN /\ lost' \subseteq Servers
    BY <1>25 DEF Restart, Fault, Alive
  <2>2. desired' \in Entries /\ snapshot' \in Entries
    BY <1>25 DEF Restart
  <2>3. faults' \in Nat /\ updates' \in Nat
    BY <1>25 DEF Restart, Fault
  <2>4. QED
    BY <1>25, <2>1, <2>2, <2>3 DEF Restart, Goto
<1>26. CASE UNCHANGED vars
  BY <1>26 DEF vars
<1>27. QED
  BY <1>1, <1>2, <1>3, <1>4, <1>5, <1>6, <1>7, <1>8, <1>9, <1>10, <1>11,
     <1>12, <1>13, <1>14, <1>15, <1>16, <1>17, <1>18, <1>19, <1>20,
     <1>21, <1>22, <1>23, <1>24, <1>25, <1>26
  DEF Next, ThreadStep

\* Every step keeps the handles sound.
LEMMA StepHandles == LauncherInv /\ [Next]_vars => HandlesAreSound'
<1> SUFFICES ASSUME LauncherInv, [Next]_vars PROVE HandlesAreSound'
  OBVIOUS
<1> USE DEF LauncherInv, TypeOK, HandlesAreSound, ThreadIsSound, HandlesFit,
           ThreadWaits, HandleFits, HasHandle, InService, Nothing
<1>1. ASSUME NEW entries \in Entries, UpdateDesired(entries) PROVE HandlesAreSound'
  BY <1>1 DEF UpdateDesired
<1>2. ASSUME NEW s \in Servers, ServerUp(s) PROVE HandlesAreSound'
  BY <1>2 DEF ServerUp
<1>3. ASSUME NEW s \in Servers, ServerDies(s) PROVE HandlesAreSound'
  BY <1>3 DEF ServerDies, Fault
<1>4. ASSUME ThreadEnds PROVE HandlesAreSound'
  BY <1>4 DEF ThreadEnds, Goto
<1>5. ASSUME PassBegins PROVE HandlesAreSound'
  BY <1>5 DEF PassBegins, Goto
<1>6. ASSUME AddEnds PROVE HandlesAreSound'
  BY <1>6 DEF AddEnds, Goto
<1>7. ASSUME RemoveEnds PROVE HandlesAreSound'
  BY <1>7 DEF RemoveEnds, Goto
<1>8. ASSUME PassEnds PROVE HandlesAreSound'
  BY <1>8 DEF PassEnds, Goto
<1>9. ASSUME NEW l \in Locations, AddSkips(l) PROVE HandlesAreSound'
  BY <1>9 DEF AddSkips, Visited, Goto
<1>10. ASSUME NEW l \in Locations, SpinupRaises(l) PROVE HandlesAreSound'
  BY <1>10 DEF SpinupRaises, AddFails, Fault, Goto
<1>11. ASSUME NEW l \in Locations, ServerReady(l) PROVE HandlesAreSound'
  BY <1>11 DEF ServerReady, Goto
<1>12. ASSUME NEW l \in Locations, NotReady(l) PROVE HandlesAreSound'
  BY <1>12 DEF NotReady, AddFails, Fault, Goto
<1>13. ASSUME NEW l \in Locations, RemoveCalls(l) PROVE HandlesAreSound'
  <2> SUFFICES ASSUME InService PROVE HandlesAreSound'
    BY <1>13 DEF RemoveCalls
  <2>1. HasHandle(l) /\ current[l] = handles[l]
    BY <1>13 DEF RemoveCalls, ThreadIsSound, ThreadVisits
  <2>2. server' \in {server, [server EXCEPT ![handles[l]] = "removed"]}
    BY <1>13, <2>1 DEF RemoveCalls, Teardown, Removed
  <2>3. \A m \in Locations \ {l} :
          HasHandle(m) => server'[handles[m]] = server[handles[m]]
    BY <2>1, <2>2, TeardownIsLocal
  <2>4. QED
    BY <1>13, <2>3 DEF RemoveCalls
<1>14. ASSUME NEW l \in Locations, RemoveForgets(l) PROVE HandlesAreSound'
  BY <1>14 DEF RemoveForgets, PassAborted, Goto
<1>15. ASSUME NEW l \in Locations, PingSucceeds(l) PROVE HandlesAreSound'
  BY <1>15 DEF PingSucceeds, Visited, Goto
<1>16. ASSUME NEW l \in Locations, PingFails(l) \/ PingTimesOut(l) PROVE HandlesAreSound'
  BY <1>16 DEF PingFails, PingTimesOut, Unhealthy
<1>17. ASSUME UnhealthyRetires PROVE HandlesAreSound'
  <2>1. PICK l \in Locations : ~HasHandle(l) /\ HandleFits(l, handle)
    BY <1>17 DEF UnhealthyRetires
  <2>2. \A m \in Locations : HasHandle(m) => handles[m] # handle
    BY <2>1
  <2>3. server' \in {server, [server EXCEPT ![handle] = "removed"]}
    BY <1>17 DEF UnhealthyRetires, Teardown, Removed
  <2>4. \A m \in Locations : HasHandle(m) => server'[handles[m]] = server[handles[m]]
    BY <2>2, <2>3
  <2>5. QED
    BY <1>17, <2>4 DEF UnhealthyRetires, Goto
<1>18. ASSUME NEW l \in Locations, NEW s \in Servers, Spinup(l, s) PROVE HandlesAreSound'
  BY <1>18 DEF Spinup, Create
<1>19. ASSUME NEW l \in Locations, NEW s \in Servers, SpinupRaisesHalfway(l, s) PROVE HandlesAreSound'
  BY <1>19 DEF SpinupRaisesHalfway, Create, AddFails, Fault, Goto
<1>20. ASSUME StopBegins PROVE HandlesAreSound'
  BY <1>20 DEF StopBegins
<1>21. ASSUME Joins PROVE HandlesAreSound'
  BY <1>21 DEF Joins, Fault
<1>22. ASSUME StopKills PROVE HandlesAreSound'
  BY <1>22 DEF StopKills, Fault
<1>23. ASSUME StopClears PROVE HandlesAreSound'
  BY <1>23 DEF StopClears
<1>24. ASSUME Exits PROVE HandlesAreSound'
  BY <1>24 DEF Exits, Goto
<1>25. ASSUME Restart PROVE HandlesAreSound'
  BY <1>25 DEF Restart, Fault, Goto
<1>26. CASE UNCHANGED vars
  BY <1>26 DEF vars
<1>27. QED
  BY <1>1, <1>2, <1>3, <1>4, <1>5, <1>6, <1>7, <1>8, <1>9, <1>10, <1>11,
     <1>12, <1>13, <1>14, <1>15, <1>16, <1>17, <1>18, <1>19, <1>20,
     <1>21, <1>22, <1>23, <1>24, <1>25, <1>26
  DEF Next, ThreadStep

\* Every step keeps the handles fit.
LEMMA StepFit == LauncherInv /\ [Next]_vars => HandlesFit'
<1> SUFFICES ASSUME LauncherInv, [Next]_vars PROVE HandlesFit'
  OBVIOUS
<1> USE DEF LauncherInv, TypeOK, ThreadIsSound, HandlesFit, ThreadWaits,
           HandleFits, HasHandle, Alive, Created, Nothing
<1>1. ASSUME NEW entries \in Entries, UpdateDesired(entries) PROVE HandlesFit'
  BY <1>1 DEF UpdateDesired
<1>2. ASSUME NEW s \in Servers, ServerUp(s) PROVE HandlesFit'
  BY <1>2 DEF ServerUp
<1>3. ASSUME NEW s \in Servers, ServerDies(s) PROVE HandlesFit'
  BY <1>3 DEF ServerDies, Fault
<1>4. ASSUME ThreadEnds PROVE HandlesFit'
  BY <1>4 DEF ThreadEnds, Goto
<1>5. ASSUME PassBegins PROVE HandlesFit'
  BY <1>5 DEF PassBegins, Goto
<1>6. ASSUME AddEnds PROVE HandlesFit'
  BY <1>6 DEF AddEnds, Goto
<1>7. ASSUME RemoveEnds PROVE HandlesFit'
  BY <1>7 DEF RemoveEnds, Goto
<1>8. ASSUME PassEnds PROVE HandlesFit'
  BY <1>8 DEF PassEnds, Goto
<1>9. ASSUME NEW l \in Locations, AddSkips(l) PROVE HandlesFit'
  BY <1>9 DEF AddSkips, Visited, Goto
<1>10. ASSUME NEW l \in Locations, SpinupRaises(l) PROVE HandlesFit'
  BY <1>10 DEF SpinupRaises, AddFails, Fault, Goto
<1>11. ASSUME NEW l \in Locations, ServerReady(l) PROVE HandlesFit'
  BY <1>11 DEF ServerReady, Goto
<1>12. ASSUME NEW l \in Locations, NotReady(l) PROVE HandlesFit'
  BY <1>12 DEF NotReady, AddFails, Fault, Goto
<1>13. ASSUME NEW l \in Locations, RemoveCalls(l) PROVE HandlesFit'
  <2>1. \A s \in Servers : server[s] # "none" => server'[s] # "none"
    BY <1>13 DEF RemoveCalls, Teardown, Removed
  <2>2. QED
    BY <1>13, <2>1, HandlesStayFit DEF RemoveCalls, Teardown, Removed, HasHandle
<1>14. ASSUME NEW l \in Locations, RemoveForgets(l) PROVE HandlesFit'
  BY <1>14 DEF RemoveForgets, PassAborted, Goto
<1>15. ASSUME NEW l \in Locations, PingSucceeds(l) PROVE HandlesFit'
  BY <1>15 DEF PingSucceeds, Visited, Goto
<1>16. ASSUME NEW l \in Locations, PingFails(l) \/ PingTimesOut(l) PROVE HandlesFit'
  BY <1>16 DEF PingFails, PingTimesOut, Unhealthy
<1>17. ASSUME UnhealthyRetires PROVE HandlesFit'
  <2>1. \A s \in Servers : server[s] # "none" => server'[s] # "none"
    BY <1>17 DEF UnhealthyRetires, Teardown, Removed
  <2>2. QED
    BY <1>17, <2>1, HandlesStayFit DEF UnhealthyRetires, HasHandle
<1>18. ASSUME NEW l \in Locations, NEW s \in Servers, Spinup(l, s) PROVE HandlesFit'
  BY <1>18 DEF Spinup, Create
<1>19. ASSUME NEW l \in Locations, NEW s \in Servers, SpinupRaisesHalfway(l, s) PROVE HandlesFit'
  BY <1>19 DEF SpinupRaisesHalfway, Create, AddFails, Fault, Goto
<1>20. ASSUME StopBegins PROVE HandlesFit'
  BY <1>20 DEF StopBegins
<1>21. ASSUME Joins PROVE HandlesFit'
  BY <1>21 DEF Joins, Fault
<1>22. ASSUME StopKills PROVE HandlesFit'
  <2>1. \A s \in Servers : server[s] # "none" => server'[s] # "none"
    BY <1>22 DEF StopKills
  <2>2. QED
    BY <1>22, <2>1, HandlesStayFit DEF StopKills, HasHandle
<1>23. ASSUME StopClears PROVE HandlesFit'
  BY <1>23 DEF StopClears
<1>24. ASSUME Exits PROVE HandlesFit'
  BY <1>24 DEF Exits, Goto
<1>25. ASSUME Restart PROVE HandlesFit'
  BY <1>25 DEF Restart, Fault, Goto
<1>26. CASE UNCHANGED vars
  BY <1>26 DEF vars
<1>27. QED
  BY <1>1, <1>2, <1>3, <1>4, <1>5, <1>6, <1>7, <1>8, <1>9, <1>10, <1>11,
     <1>12, <1>13, <1>14, <1>15, <1>16, <1>17, <1>18, <1>19, <1>20,
     <1>21, <1>22, <1>23, <1>24, <1>25, <1>26
  DEF Next, ThreadStep

\* Every step keeps what the thread waits for.
LEMMA StepWaits == LauncherInv /\ [Next]_vars => ThreadWaits'
<1> SUFFICES ASSUME LauncherInv, [Next]_vars PROVE ThreadWaits'
  OBVIOUS
<1> USE DEF LauncherInv, TypeOK, ThreadIsSound, HandlesFit, ThreadWaits,
           ThreadVisits, HandleFits, HasHandle, Wanted, Alive, Created, Nothing
<1>1. ASSUME NEW entries \in Entries, UpdateDesired(entries) PROVE ThreadWaits'
  BY <1>1 DEF UpdateDesired
<1>2. ASSUME NEW s \in Servers, ServerUp(s) PROVE ThreadWaits'
  BY <1>2 DEF ServerUp
<1>3. ASSUME NEW s \in Servers, ServerDies(s) PROVE ThreadWaits'
  BY <1>3 DEF ServerDies, Fault
<1>4. ASSUME ThreadEnds PROVE ThreadWaits'
  BY <1>4 DEF ThreadEnds, Goto
<1>5. ASSUME PassBegins PROVE ThreadWaits'
  BY <1>5 DEF PassBegins, Goto
<1>6. ASSUME AddEnds PROVE ThreadWaits'
  BY <1>6 DEF AddEnds, Goto
<1>7. ASSUME RemoveEnds PROVE ThreadWaits'
  BY <1>7 DEF RemoveEnds, Goto
<1>8. ASSUME PassEnds PROVE ThreadWaits'
  BY <1>8 DEF PassEnds, Goto
<1>9. ASSUME NEW l \in Locations, AddSkips(l) PROVE ThreadWaits'
  BY <1>9 DEF AddSkips, Visited, Goto
<1>10. ASSUME NEW l \in Locations, SpinupRaises(l) PROVE ThreadWaits'
  BY <1>10 DEF SpinupRaises, AddFails, Fault, Goto
<1>11. ASSUME NEW l \in Locations, ServerReady(l) PROVE ThreadWaits'
  BY <1>11 DEF ServerReady, Goto
<1>12. ASSUME NEW l \in Locations, NotReady(l) PROVE ThreadWaits'
  BY <1>12 DEF NotReady, AddFails, Fault, Goto
<1>13. ASSUME NEW l \in Locations, RemoveCalls(l) PROVE ThreadWaits'
  BY <1>13 DEF RemoveCalls, Teardown, Removed, Fault
<1>14. ASSUME NEW l \in Locations, RemoveForgets(l) PROVE ThreadWaits'
  BY <1>14 DEF RemoveForgets, PassAborted, Goto
<1>15. ASSUME NEW l \in Locations, PingSucceeds(l) PROVE ThreadWaits'
  BY <1>15 DEF PingSucceeds, Visited, Goto
<1>16. ASSUME NEW l \in Locations, PingFails(l) \/ PingTimesOut(l) PROVE ThreadWaits'
  BY <1>16 DEF PingFails, PingTimesOut, Unhealthy, Fault
<1>17. ASSUME UnhealthyRetires PROVE ThreadWaits'
  BY <1>17 DEF UnhealthyRetires, Teardown, Removed, Fault, Goto
<1>18. ASSUME NEW l \in Locations, NEW s \in Servers, Spinup(l, s) PROVE ThreadWaits'
  BY <1>18 DEF Spinup, Create
<1>19. ASSUME NEW l \in Locations, NEW s \in Servers, SpinupRaisesHalfway(l, s) PROVE ThreadWaits'
  BY <1>19 DEF SpinupRaisesHalfway, Create, AddFails, Fault, Goto
<1>20. ASSUME StopBegins PROVE ThreadWaits'
  BY <1>20 DEF StopBegins
<1>21. ASSUME Joins PROVE ThreadWaits'
  BY <1>21 DEF Joins, Fault
<1>22. ASSUME StopKills PROVE ThreadWaits'
  BY <1>22 DEF StopKills, Fault
<1>23. ASSUME StopClears PROVE ThreadWaits'
  BY <1>23 DEF StopClears
<1>24. ASSUME Exits PROVE ThreadWaits'
  BY <1>24 DEF Exits, Goto
<1>25. ASSUME Restart PROVE ThreadWaits'
  BY <1>25 DEF Restart, Fault, Goto
<1>26. CASE UNCHANGED vars
  BY <1>26 DEF vars
<1>27. QED
  BY <1>1, <1>2, <1>3, <1>4, <1>5, <1>6, <1>7, <1>8, <1>9, <1>10, <1>11,
     <1>12, <1>13, <1>14, <1>15, <1>16, <1>17, <1>18, <1>19, <1>20,
     <1>21, <1>22, <1>23, <1>24, <1>25, <1>26
  DEF Next, ThreadStep

\* Every step keeps the loops on the locations they are meant for.
LEMMA StepVisits == LauncherInv /\ [Next]_vars => ThreadVisits'
<1> SUFFICES ASSUME LauncherInv, [Next]_vars PROVE ThreadVisits'
  OBVIOUS
<1> USE DEF LauncherInv, TypeOK, HandlesAreSound, ThreadIsSound, ThreadWaits,
           ThreadVisits, HasHandle, Wanted, InService, Nothing
<1>1. ASSUME NEW entries \in Entries, UpdateDesired(entries) PROVE ThreadVisits'
  BY <1>1 DEF UpdateDesired
<1>2. ASSUME NEW s \in Servers, ServerUp(s) PROVE ThreadVisits'
  BY <1>2 DEF ServerUp
<1>3. ASSUME NEW s \in Servers, ServerDies(s) PROVE ThreadVisits'
  BY <1>3 DEF ServerDies, Fault
<1>4. ASSUME ThreadEnds PROVE ThreadVisits'
  BY <1>4 DEF ThreadEnds, Goto
<1>5. ASSUME PassBegins PROVE ThreadVisits'
  BY <1>5 DEF PassBegins, Goto
<1>6. ASSUME AddEnds PROVE ThreadVisits'
  BY <1>6 DEF AddEnds, Goto
<1>7. ASSUME RemoveEnds PROVE ThreadVisits'
  BY <1>7 DEF RemoveEnds, Goto
<1>8. ASSUME PassEnds PROVE ThreadVisits'
  BY <1>8 DEF PassEnds, Goto
<1>9. ASSUME NEW l \in Locations, AddSkips(l) PROVE ThreadVisits'
  BY <1>9 DEF AddSkips, Visited, Goto
<1>10. ASSUME NEW l \in Locations, SpinupRaises(l) PROVE ThreadVisits'
  BY <1>10 DEF SpinupRaises, AddFails, Fault, Goto
<1>11. ASSUME NEW l \in Locations, ServerReady(l) PROVE ThreadVisits'
  BY <1>11 DEF ServerReady, Goto
<1>12. ASSUME NEW l \in Locations, NotReady(l) PROVE ThreadVisits'
  BY <1>12 DEF NotReady, AddFails, Fault, Goto
<1>13. ASSUME NEW l \in Locations, RemoveCalls(l) PROVE ThreadVisits'
  BY <1>13 DEF RemoveCalls, Teardown, Removed, Fault
<1>14. ASSUME NEW l \in Locations, RemoveForgets(l) PROVE ThreadVisits'
  BY <1>14 DEF RemoveForgets, PassAborted, Goto
<1>15. ASSUME NEW l \in Locations, PingSucceeds(l) PROVE ThreadVisits'
  BY <1>15 DEF PingSucceeds, Visited, Goto
<1>16. ASSUME NEW l \in Locations, PingFails(l) \/ PingTimesOut(l) PROVE ThreadVisits'
  BY <1>16 DEF PingFails, PingTimesOut, Unhealthy, Fault
<1>17. ASSUME UnhealthyRetires PROVE ThreadVisits'
  BY <1>17 DEF UnhealthyRetires, Teardown, Removed, Fault, Goto
<1>18. ASSUME NEW l \in Locations, NEW s \in Servers, Spinup(l, s) PROVE ThreadVisits'
  BY <1>18 DEF Spinup, Create
<1>19. ASSUME NEW l \in Locations, NEW s \in Servers, SpinupRaisesHalfway(l, s) PROVE ThreadVisits'
  BY <1>19 DEF SpinupRaisesHalfway, Create, AddFails, Fault, Goto
<1>20. ASSUME StopBegins PROVE ThreadVisits'
  BY <1>20 DEF StopBegins
<1>21. ASSUME Joins PROVE ThreadVisits'
  BY <1>21 DEF Joins, Fault
<1>22. ASSUME StopKills PROVE ThreadVisits'
  BY <1>22 DEF StopKills, Fault
<1>23. ASSUME StopClears PROVE ThreadVisits'
  BY <1>23 DEF StopClears
<1>24. ASSUME Exits PROVE ThreadVisits'
  BY <1>24 DEF Exits, Goto
<1>25. ASSUME Restart PROVE ThreadVisits'
  BY <1>25 DEF Restart, Fault, Goto
<1>26. CASE UNCHANGED vars
  BY <1>26 DEF vars
<1>27. QED
  BY <1>1, <1>2, <1>3, <1>4, <1>5, <1>6, <1>7, <1>8, <1>9, <1>10, <1>11,
     <1>12, <1>13, <1>14, <1>15, <1>16, <1>17, <1>18, <1>19, <1>20,
     <1>21, <1>22, <1>23, <1>24, <1>25, <1>26
  DEF Next, ThreadStep

-----------------------------------------------------------------------------
LEMMA InitInv == Init => LauncherInv
<1> SUFFICES ASSUME Init PROVE LauncherInv
  OBVIOUS
<1>1. TypeOK
  BY DEF Init, TypeOK, Nothing
<1>2. HandlesAreSound /\ ThreadIsSound
  BY DEF Init, HandlesAreSound, ThreadIsSound, HandlesFit, ThreadWaits,
         ThreadVisits, HasHandle, Nothing
<1>3. QED
  BY <1>1, <1>2 DEF LauncherInv

LEMMA NextInv == LauncherInv /\ [Next]_vars => LauncherInv'
BY StepType, StepHandles, StepFit, StepWaits, StepVisits
   DEF LauncherInv, ThreadIsSound

\* The strengthened invariant holds of every behaviour.
THEOREM LauncherInvariant == Spec => []LauncherInv
BY InitInv, NextInv, PTL DEF Spec

\* The launcher's fields stay well typed, whatever fails and in any order.
THEOREM LauncherTypeOK == Spec => []TypeOK
BY LauncherInvariant, PTL DEF LauncherInv

\* Until stop() tears servers down, the endpoint given out for a location is
\* that of the one server held for it.
THEOREM EndpointsAreOfHandles == Spec => []HandlesAreSound
BY LauncherInvariant, PTL DEF LauncherInv

-----------------------------------------------------------------------------
(* The steps that take a server, or its handle, from a location.           *)

\* While in service a location keeps the server that is up for it.
LEMMA StepKeepsHealthy ==
  ASSUME LauncherInv, [Next]_vars, InService, NEW l \in Locations, Serving(l),
         snapshot[l] # NotDesired, ~ faults' > faults
  PROVE  handles'[l] = handles[l] /\ Serving(l)'
<1> USE DEF LauncherInv, TypeOK, ThreadIsSound, ThreadVisits, ThreadWaits,
            HandlesFit, HandleFits, HasHandle, Wanted, InService, Serving, Nothing
<1>1. ASSUME NEW m \in Locations, RemoveCalls(m)
      PROVE  handles'[l] = handles[l] /\ Serving(l)'
  <2>1. HasHandle(m) /\ current[m] = handles[m] /\ snapshot[m] = NotDesired
    BY <1>1 DEF RemoveCalls
  <2>2. handles[m] # handles[l]
    BY <2>1
  <2>3. UNCHANGED handles
    BY <1>1 DEF RemoveCalls
  <2>4. server' \in {server, [server EXCEPT ![handles[m]] = "removed"]}
    BY <1>1, <2>1 DEF RemoveCalls, Teardown, Removed
  <2>5. server \in [Servers -> {"none", "starting", "up", "down", "removed"}]
    OBVIOUS
  <2>6. QED
    <3> HIDE DEF LauncherInv, TypeOK, ThreadIsSound, ThreadVisits, ThreadWaits,
                 HandlesFit, HandleFits
    <3> QED
      BY <2>2, <2>3, <2>4, <2>5 DEF Serving
<1>2. ASSUME NEW m \in Locations, RemoveForgets(m)
      PROVE  handles'[l] = handles[l] /\ Serving(l)'
  <2>1. m # l
    BY <1>2 DEF RemoveForgets
  <2>2. QED
    BY <1>2, <2>1 DEF RemoveForgets
<1>3. ASSUME NEW m \in Locations, PingFails(m)
      PROVE  handles'[l] = handles[l] /\ Serving(l)'
  <2>1. m # l
    BY <1>3 DEF PingFails
  <2>2. QED
    BY <1>3, <2>1 DEF PingFails, Unhealthy
<1>4. ASSUME UnhealthyRetires
      PROVE  handles'[l] = handles[l] /\ Serving(l)'
  <2>1. handles[l] # handle
    BY <1>4 DEF UnhealthyRetires
  <2>2. UNCHANGED handles
    BY <1>4 DEF UnhealthyRetires
  <2>3. server' \in {server, [server EXCEPT ![handle] = "removed"]}
    BY <1>4 DEF UnhealthyRetires, Teardown, Removed
  <2>4. QED
    BY <2>1, <2>2, <2>3
<1>5. ASSUME NEW m \in Locations, NEW s \in Servers,
             Spinup(m, s) \/ SpinupRaisesHalfway(m, s)
      PROVE  handles'[l] = handles[l] /\ Serving(l)'
  <2>1. UNCHANGED handles
    BY <1>5 DEF Spinup, SpinupRaisesHalfway, AddFails
  <2>2. server[s] = "none" /\ server' = [server EXCEPT ![s] = "starting"]
    BY <1>5 DEF Spinup, SpinupRaisesHalfway, Create
  <2>3. QED
    BY <2>1, <2>2
<1>6. ASSUME NEW m \in Locations, ServerReady(m)
      PROVE  handles'[l] = handles[l] /\ Serving(l)'
  BY <1>6 DEF ServerReady
<1>7. ASSUME NEW s \in Servers, ServerUp(s)
      PROVE  handles'[l] = handles[l] /\ Serving(l)'
  BY <1>7 DEF ServerUp
<1>8. ASSUME \/ \E s \in Servers : ServerDies(s)
             \/ \E m \in Locations : PingTimesOut(m)
             \/ StopKills \/ StopClears \/ Restart
      PROVE  FALSE
  BY <1>8 DEF ServerDies, PingTimesOut, StopKills, StopClears, Restart, Fault
<1>9. ASSUME \/ \E entries \in Entries : UpdateDesired(entries)
             \/ ThreadEnds \/ PassBegins \/ AddEnds \/ RemoveEnds \/ PassEnds
             \/ StopBegins \/ Joins \/ Exits
             \/ \E m \in Locations :
                  AddSkips(m) \/ SpinupRaises(m) \/ NotReady(m) \/ PingSucceeds(m)
             \/ UNCHANGED vars
      PROVE  UNCHANGED <<server, handles>>
  BY <1>9 DEF UpdateDesired, ThreadEnds, PassBegins, AddEnds, RemoveEnds,
     PassEnds, StopBegins, Joins, Exits, AddSkips, SpinupRaises, NotReady,
     AddFails, PingSucceeds, vars
<1>10. QED
  BY <1>1, <1>2, <1>3, <1>4, <1>5, <1>6, <1>7, <1>8, <1>9 DEF Next, ThreadStep

\* A desired location keeps the server that is up for it while in service: the
\* passes, the health checks of other locations and stop()'s join take none.
THEOREM HealthyStaysUp == Spec => HealthyServersAreKept
<1>1. LauncherInv /\ [Next]_vars =>
        [InService =>
           \A l \in Locations : Serving(l) =>
             \/ handles'[l] = handles[l] /\ Serving(l)'
             \/ snapshot[l] = NotDesired
             \/ faults' > faults]_vars
  BY StepKeepsHealthy
<1>2. QED
  BY <1>1, LauncherInvariant, PTL DEF Spec, HealthyServersAreKept

-----------------------------------------------------------------------------
(* No server is lost but in the four ways that EveryServerIsTracked names.  *)

Known(s) == s = handle \/ \E l \in Locations : handles[l] = s

\* Nothing alive is unknown or lost, the thread has ended when a stop() that
\* joined it tears down the servers, and a server whose handle is about to be
\* forgotten is gone or lost.
Tracked ==
  /\ InService => ~joined
  /\ joined => pc = "ended"
  /\ InService \/ (joined /\ main = "killing") => \A s \in Alive \ lost : Known(s)
  /\ main \in {"clearing", "stopped", "exited"} /\ joined => Alive \subseteq lost
  /\ pc = "removing" /\ InService =>
       \A l \in at : server[handles[l]] = "removed" \/ handles[l] \in lost

\* Every step keeps track of the servers.
LEMMA StepTracked == LauncherInv /\ Tracked /\ [Next]_vars => Tracked'
<1> SUFFICES ASSUME LauncherInv, Tracked, [Next]_vars PROVE Tracked'
  OBVIOUS
<1> USE DEF LauncherInv, TypeOK, HandlesAreSound, ThreadIsSound, HandlesFit,
           ThreadWaits, ThreadVisits, HandleFits, HasHandle, InService, Tracked,
           Known, Alive, Created, Nothing
<1>1. ASSUME NEW entries \in Entries, UpdateDesired(entries) PROVE Tracked'
  BY <1>1 DEF UpdateDesired
<1>2. ASSUME NEW s \in Servers, ServerUp(s) PROVE Tracked'
  BY <1>2 DEF ServerUp
<1>3. ASSUME NEW s \in Servers, ServerDies(s) PROVE Tracked'
  BY <1>3 DEF ServerDies, Fault
<1>4. ASSUME ThreadEnds PROVE Tracked'
  BY <1>4 DEF ThreadEnds, Goto
<1>5. ASSUME PassBegins PROVE Tracked'
  BY <1>5 DEF PassBegins, Goto
<1>6. ASSUME AddEnds PROVE Tracked'
  BY <1>6 DEF AddEnds, Goto
<1>7. ASSUME RemoveEnds PROVE Tracked'
  BY <1>7 DEF RemoveEnds, Goto
<1>8. ASSUME PassEnds PROVE Tracked'
  BY <1>8 DEF PassEnds, Goto
<1>9. ASSUME NEW l \in Locations, AddSkips(l) PROVE Tracked'
  BY <1>9 DEF AddSkips, Visited, Goto
<1>10. ASSUME NEW l \in Locations, SpinupRaises(l) PROVE Tracked'
  BY <1>10 DEF SpinupRaises, AddFails, Fault, Goto
<1>11. ASSUME NEW l \in Locations, ServerReady(l) PROVE Tracked'
  BY <1>11 DEF ServerReady, Goto
<1>12. ASSUME NEW l \in Locations, NotReady(l) PROVE Tracked'
  BY <1>12 DEF NotReady, AddFails, Fault, Goto
<1>13. ASSUME NEW l \in Locations, RemoveCalls(l) PROVE Tracked'
  BY <1>13 DEF RemoveCalls, Teardown, Removed, Fault
<1>14. ASSUME NEW l \in Locations, RemoveForgets(l) PROVE Tracked'
  BY <1>14 DEF RemoveForgets, PassAborted, Goto
<1>15. ASSUME NEW l \in Locations, PingSucceeds(l) PROVE Tracked'
  BY <1>15 DEF PingSucceeds, Visited, Goto
<1>16. ASSUME NEW l \in Locations, PingFails(l) \/ PingTimesOut(l) PROVE Tracked'
  BY <1>16 DEF PingFails, PingTimesOut, Unhealthy, Fault
<1>17. ASSUME UnhealthyRetires PROVE Tracked'
  BY <1>17 DEF UnhealthyRetires, Teardown, Removed, Fault, Goto
<1>18. ASSUME NEW l \in Locations, NEW s \in Servers, Spinup(l, s) PROVE Tracked'
  BY <1>18 DEF Spinup, Create
<1>19. ASSUME NEW l \in Locations, NEW s \in Servers, SpinupRaisesHalfway(l, s) PROVE Tracked'
  BY <1>19 DEF SpinupRaisesHalfway, Create, AddFails, Fault, Goto
<1>20. ASSUME StopBegins PROVE Tracked'
  BY <1>20 DEF StopBegins
<1>21. ASSUME Joins PROVE Tracked'
  BY <1>21 DEF Joins, Fault
<1>22. ASSUME StopKills PROVE Tracked'
  <2> SUFFICES ASSUME joined PROVE Alive' \subseteq lost'
    BY <1>22 DEF StopKills
  <2>1. handle = NoServer
    OBVIOUS
  <2>2. \A s \in Servers :
          \/ server'[s] = "removed"
          \/ s \in lost'
          \/ server'[s] = server[s] /\ ~ \E l \in Locations : handles[l] = s
    BY <1>22 DEF StopKills
  <2>3. lost \subseteq lost'
    BY <1>22 DEF StopKills
  <2>4. ASSUME NEW s \in Alive' PROVE s \in lost'
    <3>1. s \in Servers /\ s # handle
      BY <2>1
    <3>2. s \in lost' \/ (s \in Alive /\ ~ \E l \in Locations : handles[l] = s)
      BY <2>2, <3>1
    <3>3. QED
      BY <1>22, <2>3, <3>1, <3>2 DEF StopKills
  <2>5. QED
    BY <2>4
<1>23. ASSUME StopClears PROVE Tracked'
  BY <1>23 DEF StopClears
<1>24. ASSUME Exits PROVE Tracked'
  BY <1>24 DEF Exits, Goto
<1>25. ASSUME Restart PROVE Tracked'
  BY <1>25 DEF Restart, Fault, Goto
<1>26. CASE UNCHANGED vars
  BY <1>26 DEF vars
<1>27. QED
  BY <1>1, <1>2, <1>3, <1>4, <1>5, <1>6, <1>7, <1>8, <1>9, <1>10, <1>11,
     <1>12, <1>13, <1>14, <1>15, <1>16, <1>17, <1>18, <1>19, <1>20,
     <1>21, <1>22, <1>23, <1>24, <1>25, <1>26
  DEF Next, ThreadStep

LEMMA TrackedInvariant == Spec => []Tracked
<1>1. Init => Tracked
  BY DEF Init, Tracked, Alive, InService
<1>2. LauncherInv /\ Tracked /\ [Next]_vars => Tracked'
  BY StepTracked
<1>3. QED
  BY <1>1, <1>2, LauncherInvariant, PTL DEF Spec

\* Whatever fails, base.py's thread orphans no server but in the ways named.
THEOREM ServersAreTracked == Spec => []EveryServerIsTracked
<1>1. Tracked => EveryServerIsTracked
  BY DEF Tracked, Known, EveryServerIsTracked, InService
<1>2. QED
  BY <1>1, TrackedInvariant, PTL

\* A stop() that joined the thread leaves no server alive but those lost before.
THEOREM StopLeavesNothing == Spec => []JoinedStopLeavesNothing
<1>1. Tracked => JoinedStopLeavesNothing
  BY DEF Tracked, JoinedStopLeavesNothing, InService
<1>2. QED
  BY <1>1, TrackedInvariant, PTL

-----------------------------------------------------------------------------
(* The refinement.                                                         *)

HIDE DEF FaultKinds, Entries, Loses

\* An endpoint is given out and withdrawn together with the handle, even while
\* stop() tears the servers down.
EndpointsHeld ==
  \A l \in Locations : grpc[l] \in Servers \/ HasHandle(l) => grpc[l] = handles[l]

\* What the thread copied were servers, even if stop() has cleared the originals.
CopiesCreated ==
  pc \in {"remove", "removing", "health", "retiring"} =>
    \A l \in todo : current[l] \in Servers /\ server[current[l]] # "none"

RefinementInv == LauncherInv /\ Tracked /\ EndpointsHeld /\ CopiesCreated

-----------------------------------------------------------------------------
(* The two additional conjuncts.                                           *)

\* No step makes a server unborn.
LEMMA ServersStayCreated ==
  ASSUME LauncherInv, [Next]_vars
  PROVE  \A s \in Servers : server[s] # "none" => server'[s] # "none"
<1> USE DEF LauncherInv, TypeOK
<1>1. ASSUME NEW t \in Servers, ServerUp(t) \/ ServerDies(t)
      PROVE  \A s \in Servers : server[s] # "none" => server'[s] # "none"
  BY <1>1 DEF ServerUp, ServerDies
<1>2. ASSUME UnhealthyRetires \/ \E l \in Locations : RemoveCalls(l)
      PROVE  \A s \in Servers : server[s] # "none" => server'[s] # "none"
  BY <1>2 DEF RemoveCalls, UnhealthyRetires, Teardown, Removed
<1>3. ASSUME NEW l \in Locations, NEW t \in Servers,
             Spinup(l, t) \/ SpinupRaisesHalfway(l, t)
      PROVE  \A s \in Servers : server[s] # "none" => server'[s] # "none"
  BY <1>3 DEF Spinup, SpinupRaisesHalfway, Create
<1>4. ASSUME StopKills
      PROVE  \A s \in Servers : server[s] # "none" => server'[s] # "none"
  BY <1>4 DEF StopKills
<1>5. ASSUME \/ \E entries \in Entries : UpdateDesired(entries)
             \/ ThreadEnds \/ PassBegins \/ AddEnds \/ RemoveEnds \/ PassEnds
             \/ StopBegins \/ Joins \/ StopClears \/ Exits \/ Restart
             \/ \E l \in Locations :
                  \/ AddSkips(l) \/ SpinupRaises(l) \/ ServerReady(l)
                  \/ NotReady(l) \/ RemoveForgets(l) \/ PingSucceeds(l)
                  \/ PingFails(l) \/ PingTimesOut(l)
             \/ UNCHANGED vars
      PROVE  UNCHANGED server
  BY <1>5 DEF UpdateDesired, ThreadEnds, PassBegins, AddEnds, RemoveEnds,
     PassEnds, StopBegins, Joins, StopClears, Exits, Restart, AddSkips,
     SpinupRaises, ServerReady, NotReady, RemoveForgets, PingSucceeds,
     PingFails, PingTimesOut, Unhealthy, vars
<1>6. QED
  BY <1>1, <1>2, <1>3, <1>4, <1>5 DEF Next, ThreadStep

LEMMA StepHeld == LauncherInv /\ EndpointsHeld /\ [Next]_vars => EndpointsHeld'
<1> SUFFICES ASSUME LauncherInv, EndpointsHeld, [Next]_vars PROVE EndpointsHeld'
  OBVIOUS
<1> USE DEF LauncherInv, TypeOK, EndpointsHeld, HasHandle, ThreadIsSound, ThreadWaits, Nothing
<1>1. ASSUME NEW l \in Locations,
             \/ SpinupRaises(l) \/ NotReady(l) \/ ServerReady(l) \/ RemoveForgets(l)
             \/ PingFails(l) \/ PingTimesOut(l)
             \/ \E s \in Servers : SpinupRaisesHalfway(l, s)
      PROVE  EndpointsHeld'
  BY <1>1 DEF SpinupRaises, NotReady, ServerReady, RemoveForgets, PingFails,
    PingTimesOut, SpinupRaisesHalfway, AddFails, Unhealthy
<1>2. ASSUME StopClears \/ Restart PROVE EndpointsHeld'
  BY <1>2 DEF StopClears, Restart
<1>3. ASSUME \/ \E entries \in Entries : UpdateDesired(entries)
             \/ \E s \in Servers : ServerUp(s) \/ ServerDies(s)
             \/ ThreadEnds \/ PassBegins \/ AddEnds \/ RemoveEnds \/ PassEnds
             \/ UnhealthyRetires \/ StopBegins \/ Joins \/ StopKills \/ Exits
             \/ \E l \in Locations :
                  \/ AddSkips(l) \/ RemoveCalls(l) \/ PingSucceeds(l)
                  \/ \E s \in Servers : Spinup(l, s)
             \/ UNCHANGED vars
      PROVE  UNCHANGED <<grpc, handles>>
  BY <1>3 DEF UpdateDesired, ServerUp, ServerDies, ThreadEnds, PassBegins, AddEnds,
     RemoveEnds, UnhealthyRetires, PassEnds, StopBegins, Joins, StopKills, Exits, AddSkips,
     RemoveCalls, PingSucceeds, Spinup, vars
<1>4. QED
  BY <1>1, <1>2, <1>3 DEF Next, ThreadStep

LEMMA StepCopies ==
  LauncherInv /\ EndpointsHeld /\ CopiesCreated /\ [Next]_vars => CopiesCreated'
<1> SUFFICES ASSUME LauncherInv, EndpointsHeld, CopiesCreated, [Next]_vars
             PROVE  CopiesCreated'
  OBVIOUS
<1>1. \A s \in Servers : server[s] # "none" => server'[s] # "none"
  BY ServersStayCreated
<1>2. CASE AddEnds
  <2>1. todo' = {l \in Locations : HasHandle(l) /\ ~Wanted(l)} /\ current' = handles
    BY <1>2 DEF AddEnds, Goto
  <2>2. \A l \in Locations : HasHandle(l) => handles[l] \in Servers /\ server[handles[l]] # "none"
    BY DEF LauncherInv, ThreadIsSound, HandlesFit, HandleFits
  <2>3. QED
    BY <1>1, <2>1, <2>2 DEF CopiesCreated
<1>3. CASE RemoveEnds
  <2>1. /\ todo' = {l \in Locations : grpc[l] \in Servers}
        /\ \A l \in todo' : current'[l] = grpc[l]
    BY <1>3 DEF RemoveEnds, Goto
  <2>2. \A l \in Locations : grpc[l] \in Servers => server[grpc[l]] # "none"
    BY DEF EndpointsHeld, LauncherInv, ThreadIsSound, HandlesFit, HandleFits, HasHandle
  <2>3. QED
    BY <1>1, <2>1, <2>2 DEF CopiesCreated
<1>4. ASSUME \/ ThreadEnds \/ PassBegins \/ PassEnds \/ Exits \/ Restart
             \/ \E l \in Locations :
                  \/ AddSkips(l) \/ SpinupRaises(l) \/ NotReady(l) \/ ServerReady(l)
                  \/ \E s \in Servers : Spinup(l, s) \/ SpinupRaisesHalfway(l, s)
      PROVE  pc' \notin {"remove", "removing", "health", "retiring"}
  BY <1>4 DEF ThreadEnds, PassBegins, PassEnds, Exits, Restart, AddSkips, SpinupRaises,
    NotReady, ServerReady, Spinup, SpinupRaisesHalfway, AddFails, Visited, Goto
<1>5. ASSUME \/ UnhealthyRetires
             \/ \E l \in Locations :
                  \/ RemoveCalls(l) \/ RemoveForgets(l) \/ PingSucceeds(l)
                  \/ PingFails(l) \/ PingTimesOut(l)
      PROVE  CopiesCreated'
  <2>1. pc \in {"remove", "removing", "health", "retiring"}
    BY <1>5 DEF RemoveCalls, RemoveForgets, PingSucceeds, PingFails, PingTimesOut,
      UnhealthyRetires
  <2>2. todo' \subseteq todo /\ (current' = current \/ todo' = {})
    BY <1>5 DEF RemoveCalls, RemoveForgets, PingSucceeds, PingFails, PingTimesOut,
      Unhealthy, UnhealthyRetires, PassAborted, Visited, Goto
  <2>3. QED
    BY <1>1, <2>1, <2>2 DEF CopiesCreated
<1>6. ASSUME \/ \E entries \in Entries : UpdateDesired(entries)
             \/ \E s \in Servers : ServerUp(s) \/ ServerDies(s)
             \/ StopBegins \/ Joins \/ StopKills \/ StopClears
             \/ UNCHANGED vars
      PROVE  UNCHANGED <<pc, todo, current>>
  BY <1>6 DEF UpdateDesired, ServerUp, ServerDies, StopBegins, Joins, StopKills,
    StopClears, vars
<1>7. QED
  BY <1>1, <1>2, <1>3, <1>4, <1>5, <1>6 DEF Next, ThreadStep, CopiesCreated

LEMMA RefinementNextInv == RefinementInv /\ [Next]_vars => RefinementInv'
BY NextInv, StepTracked, StepHeld, StepCopies DEF RefinementInv

-----------------------------------------------------------------------------
(* Each step maps to a step of the promise.                                *)

Kept == [Promise!Next]_(Promise!vars)

LEMMA StuttersInPromise ==
  ASSUME UNCHANGED <<server, serves, grpc, lost>>, InService' = InService,
         Retiring' = Retiring
  PROVE  Kept
<1>1. Endpoint' = Endpoint /\ Owner' = Owner
  BY DEF Endpoint, Owner
<1>2. QED
  BY <1>1 DEF Kept, Promise!vars

\* Servers are removed, endpoints withdrawn and teardowns ended, or a server is
\* given up on.
LEMMA RetiresInPromise ==
  ASSUME LauncherInv, UNCHANGED serves, InService' = InService, lost \subseteq lost',
         NEW gone \in SUBSET Servers,
         \A s \in gone : server[s] # "none",
         server' = [s \in Servers |-> IF s \in gone THEN "removed" ELSE server[s]],
         \A l \in Locations : Endpoint'[l] \in {Endpoint[l], NoServer},
         \A l \in Locations :
           InService /\ grpc[l] \in Servers /\ grpc'[l] \notin Servers =>
             ~ Promise!IsAlive(server'[grpc[l]]) \/ grpc[l] \in lost',
         Retiring' \subseteq Retiring,
         InService => \A s \in Retiring \ Retiring' :
                        ~ Promise!IsAlive(server'[s]) \/ s \in lost'
  PROVE  Kept
<1> DEFINE dropped == {l \in Locations : Endpoint'[l] = NoServer}
           left == {Endpoint[l] : l \in dropped} \cup (Retiring \ Retiring')
<1>1. Endpoint' = [l \in Locations |-> IF l \in dropped THEN NoServer ELSE Endpoint[l]]
  BY DEF Endpoint
<1>2. Owner' = Owner
  BY DEF Owner
<1>3. ASSUME InService, NEW s \in left \cap Servers
      PROVE  ~ Promise!IsAlive(server'[s]) \/ s \in lost'
  <2>1. ASSUME NEW l \in dropped, s = Endpoint[l]
        PROVE  ~ Promise!IsAlive(server'[s]) \/ s \in lost'
    <3>1. grpc[l] \in Servers /\ s = grpc[l]
      BY <2>1, <1>3 DEF Endpoint
    <3>2. grpc'[l] \notin Servers
      BY DEF Endpoint
    <3>3. QED
      BY <1>3, <3>1, <3>2
  <2>2. QED
    BY <1>3, <2>1
<1>4. dropped \in SUBSET Locations
  OBVIOUS
<1>5. \/ ~InService
      \/ \A s \in left \cap Servers : ~ Promise!IsAlive(server'[s]) \/ s \in lost'
  BY <1>3
<1>6. Promise!Retire
  <2> HIDE DEF dropped
  <2>1. QED
    BY <1>1, <1>2, <1>4, <1>5 DEF Promise!Retire
<1>7. QED
  BY <1>6 DEF Kept, Promise!Next

LEMMA GivesUpInPromise ==
  ASSUME LauncherInv, UNCHANGED <<server, serves>>, Endpoint' = Endpoint,
         InService' = InService, lost \subseteq lost', Retiring' = Retiring
  PROVE  Kept
<1>1. server' = [s \in Servers |-> IF s \in {} THEN "removed" ELSE server[s]]
  BY DEF LauncherInv, TypeOK
<1>2. \A l \in Locations : grpc[l] \in Servers => grpc'[l] \in Servers
  <2>1. SUFFICES ASSUME NEW l \in Locations, grpc[l] \in Servers PROVE grpc'[l] \in Servers
    OBVIOUS
  <2>2. Endpoint[l] = grpc[l] /\ Endpoint'[l] = Endpoint[l]
    BY <2>1 DEF Endpoint
  <2>3. QED
    BY <2>1, <2>2 DEF Endpoint
<1>3. \A l \in Locations : Endpoint'[l] \in {Endpoint[l], NoServer}
  OBVIOUS
<1>4. {} \in SUBSET Servers /\ \A s \in {} : server[s] # "none"
  OBVIOUS
<1>5. Retiring' \subseteq Retiring /\ Retiring \ Retiring' = {}
  OBVIOUS
<1>6. QED
  BY <1>1, <1>2, <1>3, <1>4, <1>5, RetiresInPromise

\* A location without a handle has no server alive but those the launcher lost.
LEMMA NoHandleIsVacant ==
  ASSUME RefinementInv, NEW l \in Locations, ~HasHandle(l),
         pc \notin {"wait", "retiring"}, InService
  PROVE  Promise!IsVacant(l)
<1>1. SUFFICES ASSUME NEW s \in Servers, server[s] \in {"starting", "up"}, l \in Owner[s],
                      s \notin lost
               PROVE  FALSE
  BY DEF Promise!IsVacant, Promise!ServersOf, Promise!IsAlive
<1>2. s \in Alive \ lost
  BY <1>1 DEF Alive
<1>3. s # handle
  BY DEF RefinementInv, LauncherInv, ThreadIsSound, ThreadWaits
<1>4. PICK m \in Locations : handles[m] = s
  BY <1>2, <1>3 DEF RefinementInv, Tracked, Known
<1>5. serves[s] \in Locations \X Versions /\ serves[s][1] = m
  BY <1>4 DEF RefinementInv, LauncherInv, ThreadIsSound, HandlesFit, HandleFits, HasHandle
<1>6. Owner[s] \subseteq {m}
  BY <1>5 DEF Owner
<1>7. QED
  BY <1>1, <1>4, <1>6 DEF HasHandle

\* The server created belongs to its location.
LEMMA CreateOwner ==
  ASSUME RefinementInv, NEW l \in Locations, NEW s \in Servers, Create(l, s), Wanted(l)
  PROVE  Owner' = [Owner EXCEPT ![s] = {l}]
<1>1. <<l, snapshot[l]>> # <<>> /\ <<l, snapshot[l]>>[1] = l
  OBVIOUS
<1>2. serves' = [serves EXCEPT ![s] = <<l, snapshot[l]>>]
  BY DEF Create
<1>3. \A t \in Servers : serves'[t] = IF t = s THEN <<l, snapshot[l]>> ELSE serves[t]
  BY <1>2 DEF RefinementInv, LauncherInv, TypeOK
<1>4. \A t \in Servers : Owner'[t] = IF t = s THEN {l} ELSE Owner[t]
  BY <1>1, <1>3 DEF Owner
<1>5. QED
  BY <1>4 DEF Owner

\* grpc changed only where there was no endpoint and none appears.
LEMMA FailingKeepsEndpoints ==
  ASSUME RefinementInv, NEW l \in Locations, ~HasHandle(l), grpc' = [grpc EXCEPT ![l] = Failed]
  PROVE  Endpoint' = Endpoint
<1>1. grpc[l] \notin Servers
  BY DEF RefinementInv, EndpointsHeld, HasHandle
<1>2. \A m \in Locations : grpc'[m] = IF m = l THEN Failed ELSE grpc[m]
  BY DEF RefinementInv, LauncherInv, TypeOK
<1>3. QED
  BY <1>1, <1>2 DEF Endpoint

-----------------------------------------------------------------------------
LEMMA SpinupMaps ==
  ASSUME RefinementInv, NEW l \in Locations, NEW s \in Servers,
         Spinup(l, s) \/ SpinupRaisesHalfway(l, s)
  PROVE  Kept
<1>1. /\ pc = "add" /\ l \in todo /\ ~HasHandle(l) /\ Create(l, s)
      /\ UNCHANGED main /\ pc' # "retiring"
  BY DEF Spinup, SpinupRaisesHalfway, AddFails, Goto
<1>2. Wanted(l)
  BY <1>1 DEF RefinementInv, LauncherInv, ThreadIsSound, ThreadVisits
<1>3. Owner' = [Owner EXCEPT ![s] = {l}]
  BY <1>1, <1>2, CreateOwner
<1>4. server[s] = "none" /\ server' = [server EXCEPT ![s] = "starting"]
  BY <1>1 DEF Create
<1>5. ~InService \/ Promise!IsVacant(l)
  BY <1>1, NoHandleIsVacant
<1>6. Endpoint' = Endpoint /\ lost' \in {lost, lost \cup {s}}
  <2>1. CASE Spinup(l, s)
    BY <2>1 DEF Spinup, Endpoint
  <2>2. CASE SpinupRaisesHalfway(l, s)
    <3>1. grpc' = [grpc EXCEPT ![l] = Failed] /\ lost' = lost \cup {s}
      BY <2>2 DEF SpinupRaisesHalfway, AddFails, Loses
    <3>2. Endpoint' = Endpoint
      BY <1>1, <3>1, FailingKeepsEndpoints
    <3>3. QED
      BY <3>1, <3>2
  <2>3. QED
    BY <2>1, <2>2
<1>7. InService' = InService /\ Retiring' = Retiring
  BY <1>1 DEF InService, Retiring
<1>8. Promise!Start(l, s)
  BY <1>3, <1>4, <1>5, <1>6, <1>7 DEF Promise!Start
<1>9. QED
  BY <1>8 DEF Kept, Promise!Next

LEMMA ServerReadyMaps ==
  ASSUME RefinementInv, NEW l \in Locations, ServerReady(l)
  PROVE  Kept
<1>1. /\ pc = "wait" /\ l \in at /\ server[handle] = "up"
      /\ grpc' = [grpc EXCEPT ![l] = handle] /\ pc' # "retiring"
      /\ UNCHANGED <<server, serves, lost, main>>
  BY DEF ServerReady, Goto
<1>2. HandleFits(l, handle)
  BY <1>1 DEF RefinementInv, LauncherInv, ThreadIsSound, ThreadWaits
<1>3. handle \in Servers /\ l \in Owner[handle]
  BY <1>2 DEF HandleFits, Owner
<1>4. \A m \in Locations : grpc'[m] = IF m = l THEN handle ELSE grpc[m]
  BY <1>1 DEF RefinementInv, LauncherInv, TypeOK
<1>5. Endpoint' = [Endpoint EXCEPT ![l] = handle]
  BY <1>3, <1>4 DEF Endpoint
<1>6. Owner' = Owner /\ InService' = InService /\ Retiring = {} /\ Retiring' = {}
  BY <1>1 DEF Owner, InService, Retiring
<1>7. Promise!Publish(l, handle)
  BY <1>1, <1>3, <1>5, <1>6 DEF Promise!Publish
<1>8. QED
  BY <1>3, <1>7 DEF Kept, Promise!Next

LEMMA AddFailsMaps ==
  ASSUME RefinementInv, NEW l \in Locations, SpinupRaises(l) \/ NotReady(l)
  PROVE  Kept
<1>1. ~HasHandle(l)
  BY DEF SpinupRaises, NotReady, RefinementInv, LauncherInv, ThreadIsSound, ThreadWaits
<1>2. Endpoint' = Endpoint
  BY <1>1, FailingKeepsEndpoints DEF SpinupRaises, NotReady, AddFails
<1>3. UNCHANGED <<server, serves, main>> /\ lost \subseteq lost'
  BY DEF SpinupRaises, NotReady, AddFails, Loses
<1>4. InService' = InService /\ Retiring' = Retiring
  BY <1>3 DEF InService, Retiring, SpinupRaises, NotReady, AddFails, Goto
<1>5. QED
  BY <1>2, <1>3, <1>4, GivesUpInPromise DEF RefinementInv

\* The removal of an undesired server, first the server, then its endpoint.
LEMMA RemoveCallsMaps ==
  ASSUME RefinementInv, NEW l \in Locations, RemoveCalls(l)
  PROVE  Kept
<1>1. current[l] \in Servers /\ server[current[l]] # "none"
  BY DEF RemoveCalls, RefinementInv, CopiesCreated
<1>2. UNCHANGED <<serves, grpc, main>> /\ Teardown(current[l])
  BY DEF RemoveCalls
<1>3. InService' = InService /\ Endpoint' = Endpoint /\ Retiring = {} /\ Retiring' = {}
  BY <1>2 DEF InService, Endpoint, Retiring, RemoveCalls
<1>4. CASE Removed(current[l])
  <2>1. server' = [s \in Servers |-> IF s \in {current[l]} THEN "removed" ELSE server[s]]
    BY <1>1, <1>4 DEF Removed, RefinementInv, LauncherInv, TypeOK
  <2>2. \A m \in Locations : Endpoint'[m] \in {Endpoint[m], NoServer}
    BY <1>3
  <2>3. \A m \in Locations :
          InService /\ grpc[m] \in Servers /\ grpc'[m] \notin Servers =>
            ~ Promise!IsAlive(server'[grpc[m]]) \/ grpc[m] \in lost'
    BY <1>2
  <2>4. /\ {current[l]} \in SUBSET Servers
        /\ \A s \in {current[l]} : server[s] # "none"
        /\ LauncherInv /\ lost \subseteq lost' /\ UNCHANGED serves
    BY <1>1, <1>2, <1>4 DEF RefinementInv, Removed
  <2>5. QED
    BY <1>3, <2>1, <2>2, <2>3, <2>4, RetiresInPromise, Zenon
<1>5. CASE Loses(current[l]) /\ UNCHANGED server
  BY <1>2, <1>3, <1>5, GivesUpInPromise DEF Loses, RefinementInv
<1>6. QED
  BY <1>2, <1>4, <1>5 DEF Teardown

\* One endpoint is withdrawn and its server left as it is.
LEMMA RemoveForgetsMaps ==
  ASSUME RefinementInv, NEW l \in Locations, RemoveForgets(l)
  PROVE  Kept
<1>1. UNCHANGED <<server, serves, lost, main>>
  BY DEF RemoveForgets
<1>2. InService' = InService /\ Retiring = {} /\ Retiring' = {}
  BY <1>1 DEF InService, Retiring, RemoveForgets, PassAborted, Goto
<1>3. CASE UNCHANGED grpc
  BY <1>1, <1>2, <1>3, StuttersInPromise
<1>4. CASE grpc' = [grpc EXCEPT ![l] = NoServer]
  <2>1. server' = [s \in Servers |-> IF s \in {} THEN "removed" ELSE server[s]]
    BY <1>1 DEF RefinementInv, LauncherInv, TypeOK
  <2>2. \A m \in Locations : grpc'[m] = IF m = l THEN NoServer ELSE grpc[m]
    BY <1>4 DEF RefinementInv, LauncherInv, TypeOK
  <2>3. \A m \in Locations : Endpoint'[m] \in {Endpoint[m], NoServer}
    BY <2>2 DEF Endpoint
  <2>4. InService /\ grpc[l] \in Servers =>
          ~ Promise!IsAlive(server'[grpc[l]]) \/ grpc[l] \in lost'
    <3>1. pc = "removing" /\ l \in at
      BY DEF RemoveForgets
    <3>2. InService => server[handles[l]] = "removed" \/ handles[l] \in lost
      BY <3>1 DEF RefinementInv, Tracked
    <3>3. QED
      BY <1>1, <3>2 DEF RefinementInv, EndpointsHeld, Promise!IsAlive
  <2>5. \A m \in Locations :
          InService /\ grpc[m] \in Servers /\ grpc'[m] \notin Servers =>
            ~ Promise!IsAlive(server'[grpc[m]]) \/ grpc[m] \in lost'
    BY <2>2, <2>4
  <2>6. {} \in SUBSET Servers /\ \A s \in {} : server[s] # "none"
    OBVIOUS
  <2>7. LauncherInv /\ lost \subseteq lost' /\ UNCHANGED serves
    BY <1>1 DEF RefinementInv
  <2>8. QED
    BY <1>2, <2>1, <2>3, <2>5, <2>6, <2>7, RetiresInPromise, Zenon
<1>5. QED
  BY <1>3, <1>4 DEF RemoveForgets

\* A failed ping withdraws the endpoint of a server that is then torn down.
LEMMA UnhealthyMaps ==
  ASSUME RefinementInv, NEW l \in Locations, PingFails(l) \/ PingTimesOut(l)
  PROVE  Kept
<1>1. pc = "health" /\ UNCHANGED <<server, serves, lost, main>> /\ Unhealthy(l)
  BY DEF PingFails, PingTimesOut, Unhealthy
<1>2. InService' = InService /\ Owner' = Owner /\ Retiring = {}
  BY <1>1 DEF InService, Owner, Retiring
<1>3. \A m \in Locations : grpc'[m] = IF m = l THEN Failed ELSE grpc[m]
  BY <1>1 DEF RefinementInv, LauncherInv, TypeOK, Unhealthy
<1>4. CASE ~HasHandle(l)
  <2>1. grpc[l] \notin Servers
    BY <1>4 DEF RefinementInv, EndpointsHeld, HasHandle
  <2>2. Endpoint' = Endpoint
    BY <1>3, <2>1 DEF Endpoint
  <2>3. Retiring' = Retiring
    BY <1>1, <1>4 DEF Unhealthy, Retiring
  <2>4. QED
    BY <1>1, <1>2, <2>2, <2>3 DEF Kept, Promise!vars
<1>5. CASE HasHandle(l)
  <2>1. grpc[l] = handles[l] /\ handles[l] \in Servers
    BY <1>5 DEF RefinementInv, EndpointsHeld, LauncherInv, TypeOK, HasHandle
  <2>2. Endpoint[l] = handles[l] /\ Endpoint' = [Endpoint EXCEPT ![l] = NoServer]
    BY <1>3, <2>1 DEF Endpoint
  <2>3. Retiring' = {handles[l]}
    BY <1>1, <1>5 DEF Unhealthy, Retiring
  <2>4. Promise!Withdraw(l)
    BY <1>1, <1>2, <2>1, <2>2, <2>3 DEF Promise!Withdraw
  <2>5. QED
    BY <2>4 DEF Kept, Promise!Next
<1>6. QED
  BY <1>4, <1>5

\* Its teardown ends with the server gone or given up on.
LEMMA UnhealthyRetiresMaps ==
  ASSUME RefinementInv, UnhealthyRetires
  PROVE  Kept
<1>1. /\ pc = "retiring" /\ UNCHANGED <<serves, grpc, main>> /\ Teardown(handle)
      /\ pc' # "retiring"
  BY DEF UnhealthyRetires, Goto
<1>2. /\ InService' = InService /\ Endpoint' = Endpoint
      /\ Retiring = {handle} /\ Retiring' = {}
  BY <1>1 DEF InService, Endpoint, Retiring
<1>3. handle \in Servers /\ server[handle] # "none"
  BY <1>1 DEF RefinementInv, LauncherInv, ThreadIsSound, ThreadWaits, HandleFits
<1>4. ASSUME NEW gone \in SUBSET {handle},
             server' = [s \in Servers |-> IF s \in gone THEN "removed" ELSE server[s]],
             lost \subseteq lost',
             handle \in gone \/ handle \in lost'
      PROVE  Kept
  <2>1. gone \in SUBSET Servers /\ \A s \in gone : server[s] # "none"
    BY <1>3
  <2>2. \A m \in Locations : Endpoint'[m] \in {Endpoint[m], NoServer}
    BY <1>2
  <2>3. \A m \in Locations :
          InService /\ grpc[m] \in Servers /\ grpc'[m] \notin Servers =>
            ~ Promise!IsAlive(server'[grpc[m]]) \/ grpc[m] \in lost'
    BY <1>1
  <2>4. \A s \in Retiring \ Retiring' : ~ Promise!IsAlive(server'[s]) \/ s \in lost'
    BY <1>2, <1>3, <1>4 DEF Promise!IsAlive
  <2>5. LauncherInv /\ Retiring' \subseteq Retiring
    BY <1>2 DEF RefinementInv
  <2>6. QED
    BY <1>1, <1>2, <1>4, <2>1, <2>2, <2>3, <2>4, <2>5, RetiresInPromise
<1>5. CASE Removed(handle)
  <2>1. server' = [s \in Servers |-> IF s \in {handle} THEN "removed" ELSE server[s]]
    BY <1>3, <1>5 DEF Removed, RefinementInv, LauncherInv, TypeOK
  <2>2. QED
    BY <1>4, <1>5, <2>1 DEF Removed
<1>6. CASE Loses(handle) /\ UNCHANGED server
  <2>1. server' = [s \in Servers |-> IF s \in {} THEN "removed" ELSE server[s]]
    BY <1>6 DEF RefinementInv, LauncherInv, TypeOK
  <2>2. lost \subseteq lost' /\ handle \in lost'
    BY <1>6 DEF Loses
  <2>3. {} \in SUBSET {handle}
    OBVIOUS
  <2>4. QED
    BY <1>4, <2>1, <2>2, <2>3, Zenon
<1>7. QED
  BY <1>1, <1>5, <1>6 DEF Teardown

\* stop() and a restart withdraw every endpoint; the end of the process leaves
\* a teardown undone.
LEMMA AllWithdrawnMaps ==
  ASSUME RefinementInv, StopKills \/ StopClears \/ Exits \/ Restart
  PROVE  Kept
<1>1. UNCHANGED serves /\ LauncherInv
  BY DEF StopKills, StopClears, Exits, Restart, RefinementInv
<1>2. InService' = InService
  BY DEF StopKills, StopClears, Exits, Restart, InService
<1>3. /\ Retiring' \subseteq Retiring
      /\ InService => \A s \in Retiring \ Retiring' :
                       ~ Promise!IsAlive(server'[s]) \/ s \in lost'
  <2>1. CASE StopKills \/ StopClears
    BY <2>1 DEF StopKills, StopClears, Retiring
  <2>2. CASE Exits
    BY <2>2 DEF Exits, Retiring, InService, Goto
  <2>3. CASE Restart
    <3>1. Retiring' = {} /\ UNCHANGED server /\ lost' = lost \cup Alive
      BY <2>3 DEF Restart, Retiring, Goto, Loses
    <3>2. \A s \in Retiring : s \in Servers
      BY DEF Retiring, RefinementInv, LauncherInv, ThreadIsSound, ThreadWaits, HandleFits
    <3>3. QED
      BY <3>1, <3>2 DEF Alive, Promise!IsAlive
  <2>4. QED
    BY <2>1, <2>2, <2>3
<1>4. CASE StopKills
  <2>1. PICK gone \in SUBSET {handles[l] : l \in Locations} :
          /\ NoServer \notin gone
          /\ server' = [s \in Servers |-> IF s \in gone THEN "removed" ELSE server[s]]
          /\ lost \subseteq lost'
    <3> DEFINE held == {handles[l] : l \in Locations} \ {NoServer}
    <3>1. \/ server' = [s \in Servers |-> IF s \in held THEN "removed" ELSE server[s]] /\ lost' = lost
          \/ \E t \in held :
               /\ server' = [s \in Servers |-> IF s \in held \ {t} THEN "removed" ELSE server[s]]
               /\ Loses(t)
      BY <1>4 DEF StopKills
    <3>2. held \subseteq {handles[l] : l \in Locations} /\ NoServer \notin held
      OBVIOUS
    <3> HIDE DEF held
    <3>3. CASE /\ server' = [s \in Servers |-> IF s \in held THEN "removed" ELSE server[s]]
               /\ lost' = lost
      BY <3>2, <3>3
    <3>4. ASSUME NEW t \in held,
                 server' = [s \in Servers |-> IF s \in held \ {t} THEN "removed" ELSE server[s]],
                 Loses(t)
          PROVE  \E gone \in SUBSET {handles[l] : l \in Locations} :
                   /\ NoServer \notin gone
                   /\ server' = [s \in Servers |-> IF s \in gone THEN "removed" ELSE server[s]]
                   /\ lost \subseteq lost'
      <4>1. held \ {t} \in SUBSET {handles[l] : l \in Locations} /\ NoServer \notin held \ {t}
        BY <3>2
      <4>2. lost \subseteq lost'
        BY <3>4 DEF Loses
      <4>3. QED
        BY <3>4, <4>1, <4>2, Zenon
    <3>5. QED
      BY <3>1, <3>3, <3>4
  <2>2. gone \in SUBSET Servers /\ \A s \in gone : server[s] # "none"
    BY <2>1 DEF RefinementInv, LauncherInv, ThreadIsSound, HandlesFit, HandleFits, HasHandle
  <2>3. ~InService /\ Endpoint' = Endpoint
    BY <1>4 DEF StopKills, InService, Endpoint
  <2>4. \A l \in Locations : Endpoint'[l] \in {Endpoint[l], NoServer}
    BY <2>3
  <2>5. \A l \in Locations :
          InService /\ grpc[l] \in Servers /\ grpc'[l] \notin Servers =>
            ~ Promise!IsAlive(server'[grpc[l]]) \/ grpc[l] \in lost'
    BY <2>3
  <2>6. QED
    BY <1>1, <1>2, <1>3, <2>1, <2>2, <2>4, <2>5, RetiresInPromise
<1>5. CASE StopClears \/ Exits \/ Restart
  <2>1. server' = [s \in Servers |-> IF s \in {} THEN "removed" ELSE server[s]]
    BY <1>5 DEF StopClears, Exits, Restart, RefinementInv, LauncherInv, TypeOK
  <2>2. grpc' \in {grpc, Nothing} /\ lost \subseteq lost'
    BY <1>5 DEF StopClears, Exits, Restart
  <2>3. \A l \in Locations : Endpoint'[l] \in {Endpoint[l], NoServer}
    BY <2>2 DEF Endpoint, Nothing
  <2>4. \A l \in Locations :
          InService /\ grpc[l] \in Servers /\ grpc'[l] \notin Servers =>
            ~ Promise!IsAlive(server'[grpc[l]]) \/ grpc[l] \in lost'
    <3>1. CASE StopClears \/ Exits
      <4>1. ~InService
        BY <3>1 DEF StopClears, Exits, InService
      <4>2. QED
        BY <4>1
    <3>2. CASE Restart
      BY <3>2 DEF Restart, Alive, Promise!IsAlive
    <3>3. QED
      BY <1>5, <3>1, <3>2
  <2>5. {} \in SUBSET Servers /\ \A s \in {} : server[s] # "none"
    OBVIOUS
  <2>6. QED
    BY <1>1, <1>2, <1>3, <2>1, <2>2, <2>3, <2>4, <2>5, RetiresInPromise
<1>6. QED
  BY <1>4, <1>5

LEMMA WorldMaps ==
  ASSUME RefinementInv, NEW s \in Servers, ServerUp(s) \/ ServerDies(s)
  PROVE  Kept
<1>1. UNCHANGED <<serves, grpc, lost, main>>
  BY DEF ServerUp, ServerDies
<1>2. /\ Owner' = Owner /\ Endpoint' = Endpoint /\ InService' = InService
      /\ Retiring' = Retiring
  BY <1>1 DEF Owner, Endpoint, InService, Retiring, ServerUp, ServerDies
<1>3. Promise!Moves(s, {"starting"}, "up") \/ Promise!Moves(s, {"starting", "up"}, "down")
  BY <1>1, <1>2 DEF ServerUp, ServerDies, Alive, Promise!Moves
<1>4. QED
  BY <1>3 DEF Kept, Promise!Next

LEMMA JoinsMaps ==
  ASSUME Joins
  PROVE  Kept
<1>1. /\ UNCHANGED <<server, serves, grpc, lost>> /\ InService' = FALSE
      /\ Retiring' = Retiring
  BY DEF Joins, InService, Retiring
<1>2. Endpoint' = Endpoint /\ Owner' = Owner
  BY <1>1 DEF Endpoint, Owner
<1>3. Promise!Stop
  BY <1>1, <1>2 DEF Promise!Stop
<1>4. QED
  BY <1>3 DEF Kept, Promise!Next

LEMMA OthersStutter ==
  ASSUME \/ \E entries \in Entries : UpdateDesired(entries)
         \/ ThreadEnds \/ PassBegins \/ AddEnds \/ RemoveEnds \/ PassEnds
         \/ StopBegins
         \/ \E l \in Locations : AddSkips(l) \/ PingSucceeds(l)
         \/ UNCHANGED vars
  PROVE  Kept
<1>1. UNCHANGED <<server, serves, grpc, lost>>
  BY DEF UpdateDesired, ThreadEnds, PassBegins, AddEnds, RemoveEnds, PassEnds,
    StopBegins, AddSkips, PingSucceeds, vars
<1>2. InService' = InService
  BY DEF UpdateDesired, ThreadEnds, PassBegins, AddEnds, RemoveEnds, PassEnds,
    StopBegins, AddSkips, PingSucceeds, vars, InService
<1>3. Retiring' = Retiring
  BY DEF UpdateDesired, ThreadEnds, PassBegins, AddEnds, RemoveEnds, PassEnds,
    StopBegins, AddSkips, PingSucceeds, vars, Retiring, Visited, Goto
<1>4. QED
  BY <1>1, <1>2, <1>3, StuttersInPromise

-----------------------------------------------------------------------------
LEMMA StepMaps == RefinementInv /\ [Next]_vars => Kept
BY SpinupMaps, ServerReadyMaps, AddFailsMaps, RemoveCallsMaps, RemoveForgetsMaps,
  UnhealthyMaps, UnhealthyRetiresMaps, AllWithdrawnMaps, WorldMaps, JoinsMaps,
  OthersStutter
  DEF Next, ThreadStep

LEMMA InitMaps == Init => RefinementInv /\ Promise!Init
<1> SUFFICES ASSUME Init PROVE RefinementInv /\ Promise!Init
  OBVIOUS
<1>1. LauncherInv
  BY InitInv
<1>2. Tracked /\ EndpointsHeld /\ CopiesCreated
  BY DEF Init, Tracked, EndpointsHeld, CopiesCreated, Alive, InService, Nothing
<1>3. Promise!Init
  BY DEF Init, Promise!Init, Endpoint, Owner, Retiring, InService, Nothing
<1>4. QED
  BY <1>1, <1>2, <1>3 DEF RefinementInv

\* KeepsItsPromise: the launcher implements LocationServers. Its reconcile pass,
\* health check and stop() start no second server for a location, and withdraw
\* the endpoint of a server that runs on only to tear it down, but of those
\* given up on.
THEOREM LauncherImplementsPromise == Spec => KeepsItsPromise
<1>1. RefinementInv /\ [Next]_vars => [Promise!Next]_(Promise!vars)
  BY StepMaps DEF Kept
<1>2. QED
  BY <1>1, InitMaps, RefinementNextInv, PTL DEF Spec, KeepsItsPromise, Promise!Spec

-----------------------------------------------------------------------------
\* A server alive for l and not lost is the one l has a handle of, or the one
\* the thread waits for or tears down because l has none.
LEMMA OneServerInv == RefinementInv => Promise!OneServerPerLocation
<1> SUFFICES ASSUME RefinementInv, InService, NEW l \in Locations,
                    NEW s \in Promise!ServersOf(l) \ lost,
                    NEW t \in Promise!ServersOf(l) \ lost
             PROVE  s = t
  BY DEF Promise!OneServerPerLocation
<1>1. ASSUME NEW u \in Promise!ServersOf(l) \ lost
      PROVE  (u = handle /\ at = {l} /\ ~HasHandle(l)) \/ u = handles[l]
  <2>1. u \in Alive \ lost /\ l \in Owner[u]
    BY DEF Promise!ServersOf, Promise!IsAlive, Alive
  <2>2. Known(u)
    BY <2>1 DEF RefinementInv, Tracked
  <2>3. CASE u = handle
    <3>1. pc \in {"wait", "retiring"}
      BY <2>1, <2>3 DEF RefinementInv, LauncherInv, ThreadIsSound, ThreadWaits, Alive
    <3>2. PICK m \in Locations : at = {m} /\ ~HasHandle(m) /\ HandleFits(m, handle)
      BY <3>1 DEF RefinementInv, LauncherInv, ThreadIsSound, ThreadWaits
    <3>3. Owner[u] \subseteq {m}
      BY <2>1, <2>3, <3>2 DEF HandleFits, Owner, Alive
    <3>4. QED
      BY <2>1, <2>3, <3>1, <3>2, <3>3
  <2>4. ASSUME NEW m \in Locations, handles[m] = u PROVE u = handles[l]
    <3>1. HandleFits(m, u)
      BY <2>1, <2>4 DEF RefinementInv, LauncherInv, ThreadIsSound, HandlesFit, HasHandle, Alive
    <3>2. Owner[u] \subseteq {m}
      BY <2>1, <3>1 DEF HandleFits, Owner, Alive
    <3>3. QED
      BY <2>1, <2>4, <3>2
  <2>5. QED
    BY <2>2, <2>3, <2>4 DEF Known
<1>2. handles[l] = s \/ handles[l] = t => HasHandle(l)
  BY DEF HasHandle, Promise!ServersOf
<1>3. QED
  BY <1>1, <1>2

\* OneServerPerLocation: whatever fails, restarts or times out, base.py never
\* has two servers alive for one location but those it has lost.
THEOREM NoSecondServer == Spec => []Promise!OneServerPerLocation
BY InitMaps, RefinementNextInv, OneServerInv, PTL DEF Spec

=============================================================================
