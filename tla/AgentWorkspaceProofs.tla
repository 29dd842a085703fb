------------------------ MODULE AgentWorkspaceProofs ------------------------
(***************************************************************************)
(* Theorems about AgentWorkspace for any locations, servers and ports, any *)
(* staleness and any number of edits and faults: type correctness for any  *)
(* agents; for a single agent whose heartbeats are not delayed, that the   *)
(* workspace file never returns to a server it has replaced, and that each *)
(* refresh finds for it what is no older than the workspace of the UI.     *)
(***************************************************************************)
EXTENDS AgentWorkspace, WellFoundedInduction, SequenceTheorems, TLAPS

USE WorkspaceAssumption

-----------------------------------------------------------------------------
(* What _query_agent_endpoints finds.                                      *)

IsNewest(l, i) == i \in Mentions(l) /\ \A j \in Mentions(l) : j <= i

LEMMA NewestExists ==
  ASSUME TypeOK, NEW l \in Locations, Mentions(l) # {}
  PROVE  \E i \in Mentions(l) : IsNewest(l, i)
<1> DEFINE ages == {Len(beats) - i : i \in Mentions(l)}
<1>1. Len(beats) \in Nat /\ Mentions(l) \subseteq 1..Len(beats)
  BY DEF TypeOK, Mentions
<1>2. ages \subseteq Nat /\ ages # {}
  BY <1>1
<1>3. IsWellFoundedOn(OpToRel(<, Nat), Nat)
  BY NatLessThanWellFounded, Zenon
<1> HIDE DEF ages
<1>4. PICK age \in ages : \A other \in ages : <<other, age>> \notin OpToRel(<, Nat)
  BY <1>2, <1>3, WFMin, Zenon
<1>5. \A other \in ages : ~(other < age)
  BY <1>2, <1>4 DEF OpToRel
<1>6. PICK i \in Mentions(l) : age = Len(beats) - i
  BY DEF ages
<1>7. ASSUME NEW j \in Mentions(l) PROVE j <= i
  <2>1. Len(beats) - j \in ages
    BY DEF ages
  <2>2. QED
    BY <1>1, <1>5, <1>6, <2>1
<1>8. QED
  BY <1>7 DEF IsNewest

\* It is what the newest heartbeat that mentions the location says of it.
LEMMA NewestWinsFinds ==
  ASSUME TypeOK, NEW l \in Locations
  PROVE  \/ Mentions(l) = {} /\ NewestWins[l] = NoServer
         \/ \E i \in Mentions(l) :
              IsNewest(l, i) /\ NewestWins[l] = beats[i].servers[l]
<1>1. CASE Mentions(l) = {}
  BY <1>1 DEF NewestWins
<1>2. CASE Mentions(l) # {}
  <2>1. PICK i \in Mentions(l) : IsNewest(l, i)
    BY <1>2, NewestExists
  <2>2. \A k \in Mentions(l) : (\A j \in Mentions(l) : j <= k) => k = i
    BY <2>1 DEF IsNewest, Mentions, TypeOK
  <2>3. (CHOOSE k \in Mentions(l) : \A j \in Mentions(l) : j <= k) = i
    BY <2>1, <2>2 DEF IsNewest
  <2>4. NewestWins[l] = beats[i].servers[l]
    BY <1>2, <2>3 DEF NewestWins
  <2>5. QED
    BY <2>1, <2>4
<1>3. QED
  BY <1>1, <1>2

LEMMA NewestWinsType ==
  ASSUME TypeOK
  PROVE  NewestWins \in Endpoints
<1>1. ASSUME NEW l \in Locations PROVE NewestWins[l] \in Servers \cup {NoServer}
  <2>1. ASSUME NEW i \in Mentions(l) PROVE beats[i].servers[l] \in Servers \cup {NoServer}
    <3>1. beats[i] \in Beats
      BY DEF TypeOK, Mentions
    <3>2. beats[i].servers \in Endpoints
      BY <3>1 DEF Beats
    <3>3. QED
      BY <3>2 DEF Endpoints
  <2>2. QED
    BY <2>1, NewestWinsFinds
<1>2. QED
  BY <1>1 DEF NewestWins, Endpoints

-----------------------------------------------------------------------------
(* Type correctness.                                                       *)

LEMMA BeatType ==
  ASSUME TypeOK, NEW a \in Agents
  PROVE  Beat(a) \in Beats
BY DEF TypeOK, Beat, Beats

LEMMA NothingType == Nothing \in Endpoints
BY DEF Nothing, Endpoints

\* A query finds the newest servers or nothing, and for its own thread.
LEMMA QueryEffect ==
  ASSUME TypeOK, NEW t \in Threads, Query(t)
  PROVE  /\ found' \in [Threads -> Endpoints]
         /\ found'[t] \in {NewestWins, Nothing}
         /\ \A u \in Threads \ {t} : found'[u] = found[u]
         /\ faults' \in Nat
BY NewestWinsType, NothingType DEF TypeOK, Query, Fault

LEMMA GotoType ==
  ASSUME TypeOK, NEW t \in Threads, NEW next \in {"sleep", "load", "write", "replace"},
         Goto(t, next)
  PROVE  phase' \in [Threads -> {"sleep", "load", "write", "replace"}]
BY DEF TypeOK, Goto

LEMMA InitType == Init => TypeOK
BY NothingType DEF Init, TypeOK, Beats, Endpoints

LEMMA StepType == TypeOK /\ [Next]_vars => TypeOK'
<1> SUFFICES ASSUME TypeOK, [Next]_vars PROVE TypeOK'
  OBVIOUS
<1> USE DEF TypeOK, agentVars, views
<1>1. ASSUME NEW l \in Locations, NEW s \in {"absent", "active", "paused"},
             status' = [status EXCEPT ![l] = s], Edit
      PROVE  TypeOK'
  <2>1. status' \in [Locations -> {"absent", "active", "paused"}]
    BY <1>1
  <2>2. edits' \in Nat /\ UNCHANGED <<agentVars, beats, late, views, faults>>
    BY <1>1 DEF Edit
  <2>3. QED
    BY <2>1, <2>2, Zenon
<1>2. ASSUME NEW a \in Agents, Sync(a) PROVE TypeOK'
  <2>1. Entries(a) \subseteq Locations
    BY DEF Entries
  <2>2. QED
    BY <1>2, <2>1 DEF Sync
<1>3. ASSUME NEW a \in Agents, Heartbeat(a) PROVE TypeOK'
  BY <1>3, BeatType DEF Heartbeat
<1>4. ASSUME NEW a \in Agents, NEW l \in Locations, Stop(a, l) \/ Unhealthy(a, l)
      PROVE  TypeOK'
  <2>1. serving' = [serving EXCEPT ![a][l] = NoServer]
    BY <1>4 DEF Stop, Unhealthy
  <2>2. serving' \in [Agents -> Endpoints]
    BY <2>1 DEF Endpoints
  <2>3. faults' \in Nat
    BY <1>4 DEF Stop, Unhealthy, Fault
  <2>4. QED
    BY <1>4, <2>2, <2>3 DEF Stop, Unhealthy
<1>5. ASSUME NEW a \in Agents, NEW l \in Locations, NEW s \in Servers, Launch(a, l, s)
      PROVE  TypeOK'
  <2>1. serving' = [serving EXCEPT ![a][l] = s]
    BY <1>5 DEF Launch
  <2>2. serving' \in [Agents -> Endpoints]
    BY <2>1 DEF Endpoints
  <2>3. PICK p \in Ports : endpoint' = [endpoint EXCEPT ![s] = p]
    BY <1>5 DEF Launch
  <2>4. endpoint' \in [Servers -> Ports \cup {0}]
    BY <2>3
  <2>5. QED
    BY <1>5, <2>2, <2>4 DEF Launch
<1>6. ASSUME NEW a \in Agents, Crash(a) \/ Recover(a) PROVE TypeOK'
  BY <1>6, NothingType DEF Crash, Recover, Fault
<1>7. ASSUME NEW a \in Agents, HeartbeatDelayed(a) PROVE TypeOK'
  BY <1>7, BeatType DEF HeartbeatDelayed, Fault
<1>8. ASSUME NEW b \in late, LateHeartbeat(b) PROVE TypeOK'
  BY <1>8 DEF LateHeartbeat
<1>9. CASE GoesStale
  BY <1>9 DEF GoesStale
<1>10. ASSUME NEW t \in Threads, Reload(t) PROVE TypeOK'
  BY <1>10, QueryEffect, GotoType DEF Reload
<1>11. CASE AskAgain
  <2>1. "refresher" \in Threads
    OBVIOUS
  <2>2. QED
    BY <1>11, <2>1, QueryEffect, GotoType DEF AskAgain
<1>12. ASSUME NEW t \in Threads, Reloaded(t) \/ ReloadRaises(t) PROVE TypeOK'
  <2>1. phase' \in [Threads -> {"sleep", "load", "write", "replace"}]
    BY <1>12, GotoType DEF Reloaded, ReloadRaises, Sleeps
  <2>2. origins' \in Endpoints /\ found' \in [Threads -> Endpoints]
    BY <1>12, NothingType DEF Reloaded, ReloadRaises, Sleeps
  <2>3. faults' \in Nat
    BY <1>12 DEF Reloaded, ReloadRaises, Fault
  <2>4. QED
    BY <1>12, <2>1, <2>2, <2>3 DEF Reloaded, ReloadRaises
<1>13. CASE WriteFile
  <2>1. "refresher" \in Threads
    OBVIOUS
  <2>2. ASSUME NEW new \in Endpoints
        PROVE  Newer(shown, new) \in [Locations -> Servers \cup {0}]
    BY DEF Newer, Endpoints
  <2>3. file' \in Endpoints /\ shown' \in [Locations -> Servers \cup {0}]
    BY <1>13, <2>1, <2>2 DEF WriteFile
  <2>4. phase' \in [Threads -> {"sleep", "load", "write", "replace"}]
    BY <1>13, <2>1, GotoType DEF WriteFile, Sleeps
  <2>5. found' \in [Threads -> Endpoints]
    BY <1>13, NothingType DEF WriteFile, Sleeps
  <2>6. faults' = faults \/ faults' = faults + 1
    BY <1>13 DEF WriteFile, Fault
  <2>7. QED
    BY <1>13, <2>3, <2>4, <2>5, <2>6 DEF WriteFile
<1>14. CASE UNCHANGED vars
  BY <1>14 DEF vars
<1>15. ASSUME NEW l \in Locations,
              \/ Create(l) \/ Delete(l)
              \/ \E s \in {"active", "paused"} : SetStatus(l, s)
       PROVE  TypeOK'
  BY <1>1, <1>15, Zenon DEF Create, Delete, SetStatus
<1>16. QED
  BY <1>2, <1>3, <1>4, <1>5, <1>6, <1>7, <1>8, <1>9, <1>10, <1>11, <1>12, <1>13, <1>14, <1>15
    DEF Next, AgentStep

\* TypeOK: every variable keeps its type, whichever agents run, crash or report
\* late (agent_workspace.py finds a server or none for every location).
THEOREM WorkspaceTypeOK == Spec => []TypeOK
BY InitType, StepType, PTL DEF Spec

-----------------------------------------------------------------------------
(* A single agent whose heartbeats are not delayed.                        *)

\* Servers are numbered in the order they are started; the agent runs none that
\* was not, and none older than one its heartbeats mention.
ServersKnown ==
  /\ late = {}
  /\ \A s \in Started : \A t \in Servers : t < s => t \in Started
  /\ \A a \in Agents, l \in Locations :
       serving[a][l] # NoServer => serving[a][l] \in Started
  /\ \A l \in Locations : \A i \in Mentions(l) :
       /\ beats[i].servers[l] \in Started
       /\ \A a \in Agents : serving[a][l] # NoServer => beats[i].servers[l] <= serving[a][l]

\* x is no newer than what the agent runs and what its newest heartbeat says:
\* whatever a query finds from now on is x or newer.
Past(l, x) ==
  /\ x \in Started \cup {0}
  /\ \A a \in Agents : serving[a][l] # NoServer => x <= serving[a][l]
  /\ \A i \in Mentions(l) : IsNewest(l, i) => x <= beats[i].servers[l]

LEMMA MentionType ==
  ASSUME TypeOK, NEW l \in Locations, NEW i \in Mentions(l)
  PROVE  /\ i \in 1..Len(beats)
         /\ beats[i] \in Beats
         /\ beats[i].servers \in Endpoints
         /\ beats[i].servers[l] \in Servers
<1>1. i \in 1..Len(beats) /\ beats[i] \in Beats
  BY DEF TypeOK, Mentions
<1>2. beats[i].servers \in Endpoints
  BY <1>1 DEF Beats
<1>3. beats[i].servers[l] \in Servers
  BY <1>2 DEF Endpoints, Mentions
<1>4. QED
  BY <1>1, <1>2, <1>3

\* Servers stop or nothing moves.
LEMMA FewerServers ==
  ASSUME TypeOK, ServersKnown, UNCHANGED <<beats, endpoint, late>>,
         \A a \in Agents, l \in Locations : serving'[a][l] \in {serving[a][l], NoServer}
  PROVE  /\ ServersKnown'
         /\ \A l \in Locations, x \in Nat : Past(l, x) => Past(l, x)'
<1>1. ServersKnown'
  BY DEF ServersKnown, Started, Mentions
<1>2. \A l \in Locations, x \in Nat : Past(l, x) => Past(l, x)'
  BY DEF Past, Started, Mentions, IsNewest
<1>3. QED
  BY <1>1, <1>2

\* A new server is newer than every one before.
LEMMA LaunchIsNewest ==
  ASSUME TypeOK, ServersKnown, NEW a \in Agents, NEW m \in Locations, NEW s \in Servers,
         Launch(a, m, s)
  PROVE  /\ ServersKnown'
         /\ \A l \in Locations, x \in Nat : Past(l, x) => Past(l, x)'
<1>1. /\ UNCHANGED <<beats, late>>
      /\ serving' = [serving EXCEPT ![a][m] = s]
      /\ s \notin Started
      /\ \A t \in Servers : t < s => t \in Started
  BY DEF Launch
<1>2. PICK p \in Ports : endpoint' = [endpoint EXCEPT ![s] = p]
  BY DEF Launch
<1>3. Started' = Started \cup {s}
  BY <1>2 DEF Started, TypeOK
<1>4. \A t \in Started : t < s
  BY <1>1 DEF ServersKnown, Started
<1>5. \A b \in Agents, l \in Locations :
        serving'[b][l] = IF b = a /\ l = m THEN s ELSE serving[b][l]
  BY <1>1 DEF TypeOK, Endpoints
<1>6. \A l \in Locations : Mentions(l)' = Mentions(l)
  BY <1>1 DEF Mentions
<1>7. ServersKnown'
  <2>1. late' = {} /\ \A u \in Started' : \A t \in Servers : t < u => t \in Started'
    BY <1>1, <1>3 DEF ServersKnown
  <2>2. \A b \in Agents, l \in Locations :
          serving'[b][l] # NoServer => serving'[b][l] \in Started'
    BY <1>3, <1>5 DEF ServersKnown
  <2>3. ASSUME NEW l \in Locations, NEW i \in Mentions(l)'
        PROVE  /\ beats'[i].servers[l] \in Started'
               /\ \A b \in Agents : serving'[b][l] # NoServer =>
                    beats'[i].servers[l] <= serving'[b][l]
    <3>1. beats'[i].servers[l] = beats[i].servers[l] /\ beats[i].servers[l] \in Started
      BY <1>1, <1>6 DEF ServersKnown
    <3>2. beats[i].servers[l] < s /\ beats[i].servers[l] \in Nat /\ s \in Nat
      BY <1>4, <3>1 DEF Started
    <3>3. ASSUME NEW b \in Agents, serving'[b][l] # NoServer
          PROVE  beats[i].servers[l] <= serving'[b][l]
      BY <1>5, <1>6, <3>2, <3>3 DEF ServersKnown
    <3>4. QED
      BY <1>3, <3>1, <3>3
  <2>4. QED
    BY <2>1, <2>2, <2>3 DEF ServersKnown
<1>8. ASSUME NEW l \in Locations, NEW x \in Nat, Past(l, x) PROVE Past(l, x)'
  <2>1. x \in Started' \cup {0}
    BY <1>3, <1>8 DEF Past
  <2>2. x <= s
    <3>1. x = 0 \/ x < s
      BY <1>4, <1>8 DEF Past
    <3>2. s \in Nat
      OBVIOUS
    <3>3. QED
      BY <3>1, <3>2
  <2>3. \A b \in Agents : serving'[b][l] # NoServer => x <= serving'[b][l]
    BY <1>5, <1>8, <2>2 DEF Past
  <2>4. \A i \in Mentions(l)' : IsNewest(l, i)' => x <= beats'[i].servers[l]
    BY <1>1, <1>6, <1>8 DEF Past, IsNewest
  <2>5. QED
    BY <2>1, <2>3, <2>4 DEF Past
<1>9. QED
  BY <1>7, <1>8

\* A heartbeat mentions what the agent runs.
LEMMA HeartbeatIsNewest ==
  ASSUME TypeOK, ServersKnown, NEW a, Agents = {a}, Heartbeat(a)
  PROVE  /\ ServersKnown'
         /\ \A l \in Locations, x \in Nat : Past(l, x) => Past(l, x)'
<1> DEFINE n == Len(beats)
<1>1. /\ UNCHANGED <<serving, endpoint, late>>
      /\ beats' = Append(beats, Beat(a))
  BY DEF Heartbeat, agentVars
<1>2. /\ n \in Nat
      /\ DOMAIN beats = 1..n
      /\ DOMAIN beats' = 1..(n + 1)
      /\ \A i \in 1..n : beats'[i] = beats[i]
      /\ beats'[n + 1] = Beat(a)
  BY <1>1, BeatType DEF TypeOK
<1> HIDE DEF n
<1>3. beats'[n + 1].servers = serving[a]
  BY <1>2 DEF Beat
<1>4. Started' = Started
  BY <1>1 DEF Started
<1>5. ASSUME NEW l \in Locations
      PROVE  /\ \A i \in Mentions(l)' : i \in Mentions(l) \/ (i = n + 1 /\ serving[a][l] # NoServer)
             /\ Mentions(l) \subseteq Mentions(l)'
             /\ serving[a][l] # NoServer => n + 1 \in Mentions(l)'
  BY <1>2, <1>3 DEF Mentions
<1>6. ServersKnown'
  <2>1. ASSUME NEW l \in Locations, NEW i \in Mentions(l)'
        PROVE  /\ beats'[i].servers[l] \in Started'
               /\ \A b \in Agents : serving'[b][l] # NoServer =>
                    beats'[i].servers[l] <= serving'[b][l]
    <3>1. CASE i \in Mentions(l)
      <4>1. beats'[i] = beats[i]
        BY <1>2, <3>1 DEF Mentions
      <4>2. QED
        BY <1>1, <1>4, <3>1, <4>1 DEF ServersKnown
    <3>2. CASE i = n + 1 /\ serving[a][l] # NoServer
      <4>1. beats'[i].servers[l] = serving[a][l] /\ serving[a][l] \in Started
        BY <1>3, <3>2 DEF ServersKnown
      <4>2. serving[a][l] \in Nat
        BY <4>1 DEF Started
      <4>3. QED
        BY <1>1, <1>4, <4>1, <4>2
    <3>3. QED
      BY <1>5, <3>1, <3>2
  <2>2. QED
    BY <1>1, <1>4, <2>1 DEF ServersKnown
<1>7. ASSUME NEW l \in Locations, NEW x \in Nat, Past(l, x) PROVE Past(l, x)'
  <2>1. ASSUME NEW i \in Mentions(l)', IsNewest(l, i)' PROVE x <= beats'[i].servers[l]
    <3>1. CASE serving[a][l] # NoServer
      <4>1. n + 1 <= i /\ i \in DOMAIN beats'
        BY <1>5, <2>1, <3>1 DEF IsNewest, Mentions
      <4>2. i = n + 1
        BY <1>2, <4>1
      <4>3. QED
        BY <1>3, <1>7, <3>1, <4>2 DEF Past
    <3>2. CASE serving[a][l] = NoServer
      <4>1. i \in Mentions(l) /\ IsNewest(l, i)
        BY <1>5, <2>1, <3>2 DEF IsNewest
      <4>2. beats'[i] = beats[i]
        BY <1>2, <4>1 DEF Mentions
      <4>3. QED
        BY <1>7, <4>1, <4>2 DEF Past
    <3>3. QED
      BY <3>1, <3>2
  <2>2. QED
    BY <1>1, <1>4, <1>7, <2>1 DEF Past
<1>8. QED
  BY <1>6, <1>7

\* The heartbeat that becomes stale is the oldest: the newest stays the newest.
LEMMA StaleIsOldest ==
  ASSUME TypeOK, ServersKnown, GoesStale
  PROVE  /\ ServersKnown'
         /\ \A l \in Locations, x \in Nat : Past(l, x) => Past(l, x)'
<1> DEFINE n == Len(beats)
<1>1. UNCHANGED <<serving, endpoint, late>> /\ beats' = Tail(beats) /\ beats # <<>>
  BY DEF GoesStale, agentVars
<1>2. /\ n \in Nat
      /\ DOMAIN beats = 1..n
      /\ DOMAIN beats' = 1..(n - 1)
      /\ \A i \in 1..(n - 1) : beats'[i] = beats[i + 1]
  BY <1>1 DEF TypeOK
<1> HIDE DEF n
<1>3. Started' = Started
  BY <1>1 DEF Started
<1>4. ASSUME NEW l \in Locations, NEW i \in Mentions(l)'
      PROVE  i \in Nat /\ i + 1 \in Mentions(l) /\ beats'[i] = beats[i + 1]
  BY <1>2 DEF Mentions
<1>5. ServersKnown'
  BY <1>1, <1>3, <1>4 DEF ServersKnown
<1>6. ASSUME NEW l \in Locations, NEW x \in Nat, Past(l, x) PROVE Past(l, x)'
  <2>1. ASSUME NEW i \in Mentions(l)', IsNewest(l, i)' PROVE x <= beats'[i].servers[l]
    <3>1. ASSUME NEW j \in Mentions(l) PROVE j <= i + 1
      <4>1. j \in 1..n /\ i \in Nat
        BY <1>2, <1>4 DEF Mentions
      <4>2. CASE j = 1
        BY <4>1, <4>2
      <4>3. CASE j # 1
        <5>1. j - 1 \in 1..(n - 1)
          BY <1>2, <4>1, <4>3
        <5>2. beats'[j - 1] = beats[j]
          BY <1>2, <4>1, <5>1
        <5>3. j - 1 \in Mentions(l)'
          BY <1>2, <5>1, <5>2 DEF Mentions
        <5>4. j - 1 <= i
          BY <2>1, <5>3 DEF IsNewest
        <5>5. QED
          BY <4>1, <5>4
      <4>4. QED
        BY <4>2, <4>3
    <3>2. IsNewest(l, i + 1)
      BY <1>4, <3>1 DEF IsNewest
    <3>3. QED
      BY <1>4, <1>6, <3>2 DEF Past
  <2>2. QED
    BY <1>1, <1>3, <1>6, <2>1 DEF Past
<1>7. QED
  BY <1>5, <1>6

\* Together: what is past stays past.
LEMMA PastStays ==
  ASSUME TypeOK, ServersKnown, NEW a, Agents = {a}, "delay" \notin Faults, [Next]_vars
  PROVE  /\ ServersKnown'
         /\ \A l \in Locations, x \in Nat : Past(l, x) => Past(l, x)'
<1> DEFINE Goal == /\ ServersKnown'
                   /\ \A l \in Locations, x \in Nat : Past(l, x) => Past(l, x)'
<1>1. ASSUME NEW m \in Locations, NEW s \in Servers, Launch(a, m, s) PROVE Goal
  BY <1>1, LaunchIsNewest
<1>2. ASSUME Heartbeat(a) PROVE Goal
  BY <1>2, HeartbeatIsNewest
<1>3. ASSUME GoesStale PROVE Goal
  BY <1>3, StaleIsOldest
<1>4. ~HeartbeatDelayed(a) /\ \A b \in late : ~LateHeartbeat(b)
  BY DEF HeartbeatDelayed, Fault, ServersKnown
<1>5. ASSUME NEW m \in Locations, Stop(a, m) \/ Unhealthy(a, m) PROVE Goal
  <2>1. /\ serving' = [serving EXCEPT ![a][m] = NoServer]
        /\ UNCHANGED <<beats, endpoint, late>>
    BY <1>5 DEF Stop, Unhealthy
  <2>2. \A b \in Agents, l \in Locations : serving'[b][l] \in {serving[b][l], NoServer}
    BY <2>1 DEF TypeOK, Endpoints
  <2>3. QED
    BY <2>1, <2>2, FewerServers
<1>6. ASSUME Crash(a) PROVE Goal
  <2>1. serving' = [serving EXCEPT ![a] = Nothing] /\ UNCHANGED <<beats, endpoint, late>>
    BY <1>6 DEF Crash
  <2>2. \A b \in Agents, l \in Locations : serving'[b][l] \in {serving[b][l], NoServer}
    BY <2>1 DEF TypeOK, Nothing
  <2>3. QED
    BY <2>1, <2>2, FewerServers
<1>7. ASSUME \/ \E l \in Locations :
                  Create(l) \/ Delete(l) \/ \E s \in {"active", "paused"} : SetStatus(l, s)
             \/ \E t \in Threads : Reload(t) \/ Reloaded(t) \/ ReloadRaises(t)
             \/ Sync(a) \/ Recover(a) \/ AskAgain \/ WriteFile \/ UNCHANGED vars
      PROVE  Goal
  <2>1. UNCHANGED <<serving, beats, endpoint, late>>
    BY <1>7 DEF Create, Delete, SetStatus, Edit, Sync, Recover, Reload, Reloaded, ReloadRaises,
      AskAgain, WriteFile, vars, agentVars
  <2>2. QED
    BY <2>1, FewerServers
<1>8. QED
  BY <1>1, <1>2, <1>3, <1>4, <1>5, <1>6, <1>7 DEF Next, AgentStep

\* A query of the endpoints finds no server older than one that is past, and
\* what it finds is past from then on.
LEMMA QueryFinds ==
  ASSUME TypeOK, ServersKnown, NEW l \in Locations, NewestWins[l] # NoServer
  PROVE  /\ NewestWins[l] \in Servers
         /\ Past(l, NewestWins[l])
         /\ \A x \in Nat : Past(l, x) => x <= NewestWins[l]
<1>1. PICK i \in Mentions(l) : IsNewest(l, i) /\ NewestWins[l] = beats[i].servers[l]
  BY NewestWinsFinds
<1>2. NewestWins[l] \in Servers
  BY <1>1, MentionType
<1>3. \A j \in Mentions(l) : IsNewest(l, j) => j = i
  BY <1>1, MentionType DEF IsNewest
<1>4. ASSUME NEW j \in Mentions(l), IsNewest(l, j)
      PROVE  NewestWins[l] <= beats[j].servers[l]
  <2>1. beats[j].servers[l] = NewestWins[l]
    BY <1>1, <1>3, <1>4
  <2>2. NewestWins[l] \in Nat
    BY <1>2
  <2>3. QED
    BY <2>1, <2>2
<1>5. Past(l, NewestWins[l])
  BY <1>1, <1>4 DEF Past, ServersKnown
<1>6. \A x \in Nat : Past(l, x) => x <= NewestWins[l]
  BY <1>1 DEF Past
<1>7. QED
  BY <1>2, <1>5, <1>6

-----------------------------------------------------------------------------
(* The workspace and the file.                                             *)

\* No query from now on finds an older server than the workspace has, the file
\* has had or a thread has found; and what is about to be written is no older
\* than what the file has had.
ViewsArePast ==
  \A l \in Locations :
    /\ Past(l, shown[l])
    /\ origins[l] # NoServer => Past(l, origins[l])
    /\ \A t \in Threads : found[t][l] # NoServer => Past(l, found[t][l])

WritesForward ==
  phase["refresher"] = "replace" =>
    \A l \in Locations :
      found["refresher"][l] # NoServer => shown[l] <= found["refresher"][l]

FileInv == TypeOK /\ ServersKnown /\ ViewsArePast /\ WritesForward /\ FileNeverGoesBack

LEMMA InitFile == Init => FileInv
<1> SUFFICES ASSUME Init PROVE FileInv
  OBVIOUS
<1>1. \A l \in Locations : Mentions(l) = {}
  BY DEF Init, Mentions
<1>2. ServersKnown
  BY <1>1 DEF Init, ServersKnown, Started, Nothing
<1>3. ViewsArePast
  BY <1>1 DEF Init, ViewsArePast, Past, Nothing
<1>4. WritesForward /\ FileNeverGoesBack
  BY DEF Init, WritesForward, FileNeverGoesBack, Nothing
<1>5. QED
  BY <1>2, <1>3, <1>4, InitType DEF FileInv

LEMMA EndpointType ==
  ASSUME NEW e \in Endpoints, NEW l \in Locations, e[l] # NoServer
  PROVE  e[l] \in Nat
BY DEF Endpoints

LEMMA ShownType ==
  ASSUME TypeOK, NEW l \in Locations
  PROVE  shown[l] \in Nat
<1>1. shown[l] \in Servers \cup {0}
  BY DEF TypeOK
<1>2. Servers \cup {0} \subseteq Nat
  BY WorkspaceAssumption DEF WorkspaceAssumption
<1>3. QED
  BY <1>1, <1>2

\* Where each view gets its servers from.
LEMMA ViewsStayPast ==
  ASSUME FileInv, TypeOK',
         \A l \in Locations, x \in Nat : Past(l, x) => Past(l, x)',
         \A l \in Locations :
           /\ shown'[l] = shown[l]
              \/ \E t \in Threads : found[t][l] # NoServer /\ shown'[l] = found[t][l]
           /\ origins'[l] \in {origins[l], NoServer} \cup {found[t][l] : t \in Threads}
           /\ \A t \in Threads : found'[t][l] \in {found[t][l], NoServer, NewestWins[l]}
  PROVE  ViewsArePast'
<1> USE DEF FileInv
<1>1. ASSUME NEW l \in Locations, NEW x \in Nat, Past(l, x) PROVE Past(l, x)'
  BY <1>1
<1>2. \A l \in Locations, t \in Threads :
        found[t][l] # NoServer => found[t][l] \in Nat /\ Past(l, found[t][l])
  BY EndpointType DEF TypeOK, ViewsArePast
<1>3. \A l \in Locations :
        origins[l] # NoServer => origins[l] \in Nat /\ Past(l, origins[l])
  BY EndpointType DEF TypeOK, ViewsArePast
<1>4. \A l \in Locations :
        NewestWins[l] # NoServer => NewestWins[l] \in Nat /\ Past(l, NewestWins[l])
  BY NewestWinsType, EndpointType, QueryFinds
<1>5. ASSUME NEW l \in Locations, NEW x \in Nat, Past(l, x),
             NEW y, y = x
      PROVE  y \in Nat /\ Past(l, y)
  BY <1>5
<1>6. ASSUME NEW l \in Locations PROVE shown'[l] \in Nat /\ Past(l, shown'[l])
  BY <1>2, <1>6, ShownType DEF ViewsArePast
<1>7. ASSUME NEW l \in Locations, origins'[l] # NoServer
      PROVE  origins'[l] \in Nat /\ Past(l, origins'[l])
  BY <1>2, <1>3, <1>7
<1>8. ASSUME NEW l \in Locations, NEW t \in Threads, found'[t][l] # NoServer
      PROVE  found'[t][l] \in Nat /\ Past(l, found'[t][l])
  BY <1>2, <1>4, <1>8
<1>9. ASSUME NEW l \in Locations PROVE Past(l, shown[l])'
  <2>1. PICK x \in Nat : x = shown'[l] /\ Past(l, x)
    BY <1>6
  <2>2. Past(l, x)'
    BY <1>1, <2>1
  <2>3. QED
    BY <2>1, <2>2 DEF Past
<1>10. ASSUME NEW l \in Locations, origins'[l] # NoServer PROVE Past(l, origins[l])'
  <2>1. PICK x \in Nat : x = origins'[l] /\ Past(l, x)
    BY <1>7, <1>10
  <2>2. Past(l, x)'
    BY <1>1, <2>1
  <2>3. QED
    BY <2>1, <2>2 DEF Past
<1>11. ASSUME NEW l \in Locations, NEW t \in Threads, found'[t][l] # NoServer
       PROVE  Past(l, found[t][l])'
  <2>1. PICK x \in Nat : x = found'[t][l] /\ Past(l, x)
    BY <1>8, <1>11
  <2>2. Past(l, x)'
    BY <1>1, <2>1
  <2>3. QED
    BY <2>1, <2>2 DEF Past
<1>12. QED
  BY <1>9, <1>10, <1>11 DEF ViewsArePast

LEMMA NextFile ==
  ASSUME FileInv, NEW a, Agents = {a}, "delay" \notin Faults, [Next]_vars
  PROVE  FileInv'
<1>1. TypeOK /\ TypeOK'
  BY StepType DEF FileInv
<1>2. ServersKnown' /\ \A l \in Locations, x \in Nat : Past(l, x) => Past(l, x)'
  BY PastStays DEF FileInv
<1>3. NewestWins \in Endpoints /\ \A l \in Locations : Nothing[l] = NoServer
  BY <1>1, NewestWinsType DEF Nothing
<1>4. ASSUME NEW t \in Threads, Reload(t) PROVE FileInv'
  <2>1. /\ UNCHANGED <<origins, file, shown>> /\ phase' = [phase EXCEPT ![t] = "load"]
        /\ found'[t] \in {NewestWins, Nothing} /\ \A u \in Threads \ {t} : found'[u] = found[u]
    BY <1>1, <1>4, QueryEffect DEF Reload, Goto
  <2>2. ViewsArePast'
    <3>1. \A l \in Locations, u \in Threads :
            found'[u][l] \in {found[u][l], NoServer, NewestWins[l]}
      BY <1>3, <2>1
    <3>2. QED
      BY <1>1, <1>2, <2>1, <3>1, ViewsStayPast
  <2>3. WritesForward'
    BY <1>1, <2>1 DEF FileInv, WritesForward, TypeOK
  <2>4. FileNeverGoesBack'
    BY <2>1 DEF FileInv, FileNeverGoesBack
  <2>5. QED
    BY <1>1, <1>2, <2>2, <2>3, <2>4 DEF FileInv
<1>5. CASE AskAgain
  <2>1. /\ UNCHANGED <<origins, file, shown>>
        /\ found'["refresher"] \in {NewestWins, Nothing}
        /\ \A u \in Threads \ {"refresher"} : found'[u] = found[u]
    BY <1>1, <1>5, QueryEffect DEF AskAgain
  <2>2. ViewsArePast'
    <3>1. \A l \in Locations, u \in Threads :
            found'[u][l] \in {found[u][l], NoServer, NewestWins[l]}
      BY <1>3, <2>1
    <3>2. QED
      BY <1>1, <1>2, <2>1, <3>1, ViewsStayPast
  <2>3. WritesForward'
    <3>1. ASSUME NEW l \in Locations, found'["refresher"][l] # NoServer
          PROVE  shown[l] <= found'["refresher"][l]
      <4>1. found'["refresher"][l] = NewestWins[l]
        BY <1>3, <2>1, <3>1
      <4>2. shown[l] \in Nat /\ Past(l, shown[l])
        BY <1>1, ShownType DEF FileInv, ViewsArePast
      <4>3. QED
        BY <3>1, <4>1, <4>2, QueryFinds DEF FileInv
    <3>2. QED
      BY <2>1, <3>1 DEF WritesForward
  <2>4. FileNeverGoesBack'
    BY <2>1 DEF FileInv, FileNeverGoesBack
  <2>5. QED
    BY <1>1, <1>2, <2>2, <2>3, <2>4 DEF FileInv
<1>6. ASSUME NEW t \in Threads, Reloaded(t) \/ ReloadRaises(t) PROVE FileInv'
  <2>1. /\ UNCHANGED <<file, shown>> /\ origins' \in {origins, found[t]}
        /\ \E next \in {"sleep", "write"} : phase' = [phase EXCEPT ![t] = next]
        /\ found' = found \/ found' = [found EXCEPT ![t] = Nothing]
    BY <1>6 DEF Reloaded, ReloadRaises, Sleeps, Goto
  <2>2. \A u \in Threads : found'[u] \in {found[u], Nothing}
    BY <1>1, <2>1 DEF TypeOK
  <2>3. ViewsArePast'
    <3>1. \A l \in Locations, u \in Threads :
            found'[u][l] \in {found[u][l], NoServer, NewestWins[l]}
      BY <1>3, <2>2
    <3>2. \A l \in Locations :
            origins'[l] \in {origins[l], NoServer} \cup {found[u][l] : u \in Threads}
      BY <2>1
    <3>3. QED
      BY <1>1, <1>2, <2>1, <3>1, <3>2, ViewsStayPast
  <2>4. WritesForward'
    BY <1>1, <2>1, <2>2, <1>3 DEF FileInv, WritesForward, TypeOK
  <2>5. FileNeverGoesBack'
    BY <2>1 DEF FileInv, FileNeverGoesBack
  <2>6. QED
    BY <1>1, <1>2, <2>3, <2>4, <2>5 DEF FileInv
<1>7. CASE WriteFile
  <2>1. /\ phase["refresher"] = "replace" /\ UNCHANGED origins
        /\ phase' = [phase EXCEPT !["refresher"] = "sleep"]
        /\ found' = [found EXCEPT !["refresher"] = Nothing]
        /\ \/ file' = found["refresher"] /\ shown' = Newer(shown, found["refresher"])
           \/ UNCHANGED <<file, shown>>
    BY <1>7 DEF WriteFile, Sleeps, Goto
  <2>2. ASSUME NEW l \in Locations
        PROVE  /\ shown'[l] = shown[l]
                  \/ (found["refresher"][l] # NoServer /\ shown'[l] = found["refresher"][l])
               /\ file'[l] # NoServer => file'[l] = shown'[l]
    <3>1. CASE UNCHANGED <<file, shown>>
      BY <3>1 DEF FileInv, FileNeverGoesBack
    <3>2. CASE file' = found["refresher"] /\ shown' = Newer(shown, found["refresher"])
      <4>1. shown[l] \in Nat
        BY <1>1, ShownType
      <4>2. shown'[l] = IF found["refresher"][l] # NoServer /\ found["refresher"][l] > shown[l]
                        THEN found["refresher"][l] ELSE shown[l]
        BY <3>2 DEF Newer
      <4>3. found["refresher"][l] # NoServer =>
              found["refresher"][l] \in Nat /\ shown[l] <= found["refresher"][l]
        BY <1>1, <2>1, EndpointType DEF TypeOK, FileInv, WritesForward
      <4>4. QED
        BY <3>2, <4>1, <4>2, <4>3
    <3>3. QED
      BY <2>1, <3>1, <3>2
  <2>3. \A u \in Threads : found'[u] \in {found[u], Nothing}
    BY <1>1, <2>1 DEF TypeOK
  <2>4. ViewsArePast'
    <3>1. \A l \in Locations, u \in Threads :
            found'[u][l] \in {found[u][l], NoServer, NewestWins[l]}
      BY <1>3, <2>3
    <3>2. QED
      BY <1>1, <1>2, <2>1, <2>2, <3>1, ViewsStayPast
  <2>5. WritesForward'
    BY <1>1, <2>1 DEF WritesForward, TypeOK
  <2>6. FileNeverGoesBack'
    BY <2>2 DEF FileNeverGoesBack
  <2>7. QED
    BY <1>1, <1>2, <2>4, <2>5, <2>6 DEF FileInv
<1>8. CASE UNCHANGED views
  <2>1. UNCHANGED <<origins, file, phase, found, shown>>
    BY <1>8 DEF views
  <2>2. ViewsArePast'
    BY <1>1, <1>2, <2>1, ViewsStayPast
  <2>3. WritesForward' /\ FileNeverGoesBack'
    BY <2>1 DEF FileInv, WritesForward, FileNeverGoesBack
  <2>4. QED
    BY <1>1, <1>2, <2>2, <2>3 DEF FileInv
<1>9. QED
  BY <1>4, <1>5, <1>6, <1>7, <1>8 DEF Next, AgentStep, Create, Delete, SetStatus, Edit, Sync,
    Heartbeat, Stop, Launch, Crash, Recover, HeartbeatDelayed, Unhealthy, LateHeartbeat, GoesStale,
    vars

LEMMA FileInvariant ==
  ASSUME NEW a, Agents = {a}, "delay" \notin Faults
  PROVE  Spec => []FileInv
<1>1. FileInv /\ [Next]_vars => FileInv'
  BY NextFile
<1>2. QED
  BY <1>1, InitFile, PTL DEF Spec

\* FileNeverGoesBack: with one agent whose heartbeats come in order, the file
\* that _write_workspace_file leaves for the daemon never returns to a server it
\* has replaced, whatever crashes, becomes stale or cannot be queried.
THEOREM FileGoesForward ==
  ASSUME NEW a, Agents = {a}, "delay" \notin Faults
  PROVE  Spec => []FileNeverGoesBack
<1>1. FileInv => FileNeverGoesBack
  BY DEF FileInv
<1>2. QED
  BY <1>1, FileInvariant, PTL

\* Only the second query of a refresh leads to the writing of the file.
LEMMA AskingIsTheWay ==
  ASSUME TypeOK, [Next]_vars, phase["refresher"] = "write", phase'["refresher"] = "replace"
  PROVE  AskAgain
<1>1. ASSUME NEW t \in Threads, Reload(t) \/ Reloaded(t) \/ ReloadRaises(t) PROVE FALSE
  BY <1>1 DEF Reload, Reloaded, ReloadRaises, Sleeps, Goto, TypeOK
<1>2. ~WriteFile /\ ~UNCHANGED views
  BY DEF WriteFile, views
<1>3. QED
  BY <1>1, <1>2 DEF Next, AgentStep, Create, Delete, SetStatus, Edit, Sync, Heartbeat, Stop,
    Launch, Crash, Recover, HeartbeatDelayed, Unhealthy, LateHeartbeat, GoesStale, vars

\* FileCatchesUp: with one such agent the second query of a refresh
\* (_write_workspace_file) finds for no location an older server than the
\* workspace has by then, whether the refresher's reload_workspace or that of a
\* user of the UI put it there.
THEOREM FileKeepsUp ==
  ASSUME NEW a, Agents = {a}, "delay" \notin Faults
  PROVE  Spec => FileCatchesUp
<1> DEFINE CatchesUp ==
      phase["refresher"] = "write" /\ phase'["refresher"] = "replace" =>
        \A l \in Locations :
          origins[l] # NoServer /\ found'["refresher"][l] # NoServer
            => origins[l] <= found'["refresher"][l]
<1>1. ASSUME FileInv, [Next]_vars PROVE [CatchesUp]_vars
  <2>1. SUFFICES ASSUME phase["refresher"] = "write", phase'["refresher"] = "replace",
                        NEW l \in Locations, origins[l] # NoServer,
                        found'["refresher"][l] # NoServer
                 PROVE  origins[l] <= found'["refresher"][l]
    OBVIOUS
  <2>2. found'["refresher"] \in {NewestWins, Nothing}
    BY <1>1, <2>1, AskingIsTheWay, QueryEffect DEF FileInv, AskAgain
  <2>3. found'["refresher"][l] = NewestWins[l]
    BY <2>1, <2>2 DEF Nothing
  <2>4. origins[l] \in Nat /\ Past(l, origins[l])
    BY <1>1, <2>1, EndpointType DEF FileInv, TypeOK, ViewsArePast
  <2>5. QED
    BY <1>1, <2>1, <2>3, <2>4, QueryFinds DEF FileInv
<1>2. QED
  BY <1>1, FileInvariant, PTL DEF Spec, FileCatchesUp

=============================================================================
