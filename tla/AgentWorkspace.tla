--------------------------- MODULE AgentWorkspace ---------------------------
(***************************************************************************)
(* How a code location becomes visible (webserver --agent-workspaces):     *)
(* administrators edit the table code_location_definitions, agents fetch   *)
(* the active rows, serve them and report the endpoints in heartbeats, and *)
(* a thread of the webserver, the refresher, turns the fresh heartbeats    *)
(* into the workspace and into the file the daemon reads; a reload that a  *)
(* user asks for in the UI does the first of these beside it               *)
(* (dagster_webserver/api/agent_workspace.py, dagster_agent/agent.py).     *)
(*                                                                         *)
(* The launcher of an agent is reduced to what it promises (see Launcher): *)
(* it starts what is desired and stops what is not, one step per server.   *)
(***************************************************************************)
EXTENDS Naturals, Sequences, FiniteSets

CONSTANTS
  Locations,   \* code location names
  Agents,      \* agent processes, on the webserver's host: every process
               \* launcher reports its servers at 127.0.0.1
  Matches,     \* the locations whose labels match each agent's
  Allowed,     \* allowed_locations of each agent; {} means all
  Servers,     \* bound: servers ever started, in order
  Ports,       \* the port_range of every agent
  Threads,     \* what may reload the workspace: "refresher" and requests of the UI
  Window,      \* bound: heartbeats of one agent no older than the staleness
  Faults,      \* the kinds of fault that may occur
  MaxFaults,   \* bound: how many of them
  MaxEdits,    \* bound: changes of the code location table
  NoServer

FaultKinds == {"crash", "unhealthy", "delay", "query", "reload", "write"}

ASSUME WorkspaceAssumption ==
  /\ IsFiniteSet(Locations)
  /\ Matches \in [Agents -> SUBSET Locations]
  /\ Allowed \in [Agents -> SUBSET Locations]
  /\ Servers \subseteq Nat
  /\ Ports \subseteq Nat \ {0}
  /\ NoServer \notin Servers
  /\ "refresher" \in Threads
  /\ Window \in Nat \ {0}
  /\ Faults \subseteq FaultKinds
  /\ MaxFaults \in Nat
  /\ MaxEdits \in Nat

VARIABLES
  status,     \* column status of each location; "absent" without a row
  up,         \* agents that are running
  desired,    \* what each agent's launcher is told to serve
  serving,    \* the server each agent has running for a location
  endpoint,   \* the port each server was given; 0 before it is started
  beats,      \* the heartbeats that are not stale, oldest first
  late,       \* heartbeats their sender gave up on, which may still arrive
  origins,    \* the webserver's workspace
  file,       \* agent_workspace.yaml
  phase,      \* how far the refresher and the UI's reload are
  found,      \* what the last query of each found, until it is used
  edits,      \* history: changes of the table so far
  faults,     \* history: faults so far
  shown       \* history: the newest server the file ever had for a location

agentVars == <<up, desired, serving, endpoint>>
views     == <<origins, file, phase, found, shown>>
vars == <<status, agentVars, beats, late, views, edits, faults>>

Nothing   == [l \in Locations |-> NoServer]
Endpoints == [Locations -> Servers \cup {NoServer}]
Beats     == [agent : Agents, servers : Endpoints]
Alive(a)  == {serving[a][l] : l \in Locations} \ {NoServer}
Started   == {s \in Servers : endpoint[s] # 0}

Fault(kind) ==
  /\ kind \in Faults
  /\ faults < MaxFaults
  /\ faults' = faults + 1

Init ==
  /\ status = [l \in Locations |-> "absent"]
  /\ up = Agents
  /\ desired = [a \in Agents |-> {}]
  /\ serving = [a \in Agents |-> Nothing]
  /\ endpoint = [s \in Servers |-> 0]
  /\ beats = <<>>
  /\ late = {}
  /\ origins = Nothing
  /\ file = Nothing
  /\ phase = [t \in Threads |-> "sleep"]
  /\ found = [t \in Threads |-> Nothing]
  /\ edits = 0
  /\ faults = 0
  /\ shown = [l \in Locations |-> 0]

-----------------------------------------------------------------------------
(* The code location table.                                                *)

Edit ==
  /\ edits < MaxEdits
  /\ edits' = edits + 1
  /\ UNCHANGED <<agentVars, beats, late, views, faults>>

\* POST code-locations is an upsert and makes any row active; the portal's
\* create refuses a row that exists
Create(l) ==
  /\ status[l] # "active"
  /\ status' = [status EXCEPT ![l] = "active"]
  /\ Edit

\* PUT code-locations, the portal's edit
SetStatus(l, s) ==
  /\ status[l] \notin {"absent", s}
  /\ status' = [status EXCEPT ![l] = s]
  /\ Edit

\* Slip: the row is kept and marked.
DeleteMarks(l) ==
  /\ status[l] # "absent"
  /\ status' = [status EXCEPT ![l] = "deleted"]
  /\ Edit

Delete(l) ==
  /\ status[l] # "absent"
  /\ status' = [status EXCEPT ![l] = "absent"]
  /\ Edit

-----------------------------------------------------------------------------
(* An agent.                                                               *)

\* The client joins the allowed names with "," into one query parameter, which
\* the endpoint takes for one name: two names or more match no location
Requested(a) ==
  CASE Allowed[a] = {} -> Locations
    [] Cardinality(Allowed[a]) = 1 -> Allowed[a]
    [] OTHER -> {}

\* Slip: paused locations are sent to the agents as well.
EntriesWithPaused(a) ==
  {l \in Requested(a) \cap Matches[a] : status[l] # "absent"}

\* get_workspace_entries
Entries(a) == {l \in Requested(a) \cap Matches[a] : status[l] = "active"}

Sync(a) ==
  /\ a \in up
  /\ desired' = [desired EXCEPT ![a] = Entries(a)]
  /\ UNCHANGED <<status, up, serving, endpoint, beats, late, views, edits, faults>>

\* _allocate_port: the first port of the range nobody listens on
FreePort(p) ==
  LET taken == {endpoint[s] : s \in UNION {Alive(a) : a \in Agents}}
  IN p \in Ports \ taken /\ \A q \in Ports \ taken : p <= q

Launch(a, l, s) ==
  /\ a \in up
  /\ l \in desired[a]
  /\ serving[a][l] = NoServer
  /\ s \notin Started
  /\ \A t \in Servers : t < s => t \in Started
  /\ \E p \in Ports : FreePort(p) /\ endpoint' = [endpoint EXCEPT ![s] = p]
  /\ serving' = [serving EXCEPT ![a][l] = s]
  /\ UNCHANGED <<status, up, desired, beats, late, views, edits, faults>>

\* the launcher stops what is no longer desired
Stop(a, l) ==
  /\ a \in up
  /\ l \notin desired[a]
  /\ serving[a][l] # NoServer
  /\ serving' = [serving EXCEPT ![a][l] = NoServer]
  /\ UNCHANGED <<status, up, desired, endpoint, beats, late, views, edits, faults>>

\* a health check fails: the server is torn down, to be started again
Unhealthy(a, l) ==
  /\ a \in up
  /\ serving[a][l] # NoServer
  /\ Fault("unhealthy")
  /\ serving' = [serving EXCEPT ![a][l] = NoServer]
  /\ UNCHANGED <<status, up, desired, endpoint, beats, late, views, edits>>

\* The agent and its servers are gone, perhaps for good
Crash(a) ==
  /\ a \in up
  /\ Fault("crash")
  /\ up' = up \ {a}
  /\ desired' = [desired EXCEPT ![a] = {}]
  /\ serving' = [serving EXCEPT ![a] = Nothing]
  /\ UNCHANGED <<status, endpoint, beats, late, views, edits>>

Recover(a) ==
  /\ a \in Agents \ up
  /\ up' = up \cup {a}
  /\ UNCHANGED <<status, desired, serving, endpoint, beats, late, views, edits, faults>>

\* _send_heartbeat lists the running locations only
Beat(a) == [agent |-> a, servers |-> serving[a]]

\* rows of one agent within the staleness
Recent(a) == {i \in DOMAIN beats : beats[i].agent = a}

Heartbeat(a) ==
  /\ a \in up
  /\ Cardinality(Recent(a)) < Window
  /\ beats' = Append(beats, Beat(a))
  /\ UNCHANGED <<status, agentVars, late, views, edits, faults>>

\* the client times out while the call is still on its way
HeartbeatDelayed(a) ==
  /\ a \in up
  /\ Fault("delay")
  /\ late' = late \cup {Beat(a)}
  /\ UNCHANGED <<status, agentVars, beats, views, edits>>

LateHeartbeat(b) ==
  /\ b \in late
  /\ Cardinality(Recent(b.agent)) < Window
  /\ late' = late \ {b}
  /\ beats' = Append(beats, b)
  /\ UNCHANGED <<status, agentVars, views, edits, faults>>

-----------------------------------------------------------------------------
(* The webserver.                                                          *)

\* Slip: the staleness comparison is the wrong way round.
NewestGoesStale ==
  /\ beats # <<>>
  /\ beats' = SubSeq(beats, 1, Len(beats) - 1)
  /\ UNCHANGED <<status, agentVars, late, views, edits, faults>>

\* The oldest heartbeat becomes stale.  The newest one of an agent that runs
\* does not: the staleness is at least twice the heartbeat interval.
GoesStale ==
  /\ beats # <<>>
  /\ LET a == beats[1].agent IN a \in up => Cardinality(Recent(a)) > 1
  /\ beats' = Tail(beats)
  /\ UNCHANGED <<status, agentVars, late, views, edits, faults>>

Mentions(l) == {i \in DOMAIN beats : beats[i].servers[l] # NoServer}

\* _query_agent_endpoints: later heartbeats overwrite; one that leaves a
\* location out does not remove it
NewestWins ==
  [l \in Locations |->
     IF Mentions(l) = {} THEN NoServer
     ELSE beats[CHOOSE i \in Mentions(l) : \A j \in Mentions(l) : j <= i].servers[l]]

\* _run_async_in_thread: a query that fails or takes 10 seconds finds nothing
Query(t) ==
  \/ found' = [found EXCEPT ![t] = NewestWins] /\ UNCHANGED faults
  \/ found' = [found EXCEPT ![t] = Nothing] /\ Fault("query")

Goto(t, next) == phase' = [phase EXCEPT ![t] = next]

Sleeps(t) == Goto(t, "sleep") /\ found' = [found EXCEPT ![t] = Nothing]

Newer(old, new) ==
  [l \in Locations |-> IF new[l] # NoServer /\ new[l] > old[l] THEN new[l] ELSE old[l]]

\* reload_workspace asks for the origins; the refresher does so after each
\* interval, the UI when a user tells it to
Reload(t) ==
  /\ phase[t] = "sleep"
  /\ Query(t)
  /\ Goto(t, "load")
  /\ UNCHANGED <<status, agentVars, beats, late, origins, file, shown, edits>>

\* ... and, once it has loaded the locations found, replaces the workspace
Reloaded(t) ==
  /\ phase[t] = "load"
  /\ origins' = found[t]
  /\ IF t = "refresher" THEN Goto(t, "write") /\ UNCHANGED found ELSE Sleeps(t)
  /\ UNCHANGED <<status, agentVars, beats, late, file, shown, edits, faults>>

\* an exception ends the reload; the refresher logs it and writes no file
ReloadRaises(t) ==
  /\ phase[t] = "load"
  /\ Fault("reload")
  /\ Sleeps(t)
  /\ UNCHANGED <<status, agentVars, beats, late, origins, file, shown, edits>>

\* Slip: the file is to list what the reload has found.
AskNotAgain ==
  /\ phase["refresher"] = "write"
  /\ Goto("refresher", "replace")
  /\ UNCHANGED <<status, agentVars, beats, late, origins, found, file, shown, edits, faults>>

\* _write_workspace_file asks the database again
AskAgain ==
  /\ phase["refresher"] = "write"
  /\ Query("refresher")
  /\ Goto("refresher", "replace")
  /\ UNCHANGED <<status, agentVars, beats, late, origins, file, shown, edits>>

\* ... and replaces the file
WriteFile ==
  /\ phase["refresher"] = "replace"
  /\ \/ /\ file' = found["refresher"]
        /\ shown' = Newer(shown, file')
        /\ UNCHANGED faults
     \/ Fault("write") /\ UNCHANGED <<file, shown>>
  /\ Sleeps("refresher")
  /\ UNCHANGED <<status, agentVars, beats, late, origins, edits>>

-----------------------------------------------------------------------------
AgentStep(a) ==
  \/ Sync(a) \/ Heartbeat(a)
  \/ \E l \in Locations : Stop(a, l) \/ \E s \in Servers : Launch(a, l, s)

Next ==
  \/ \E l \in Locations :
       Create(l) \/ Delete(l) \/ \E s \in {"active", "paused"} : SetStatus(l, s)
  \/ \E a \in Agents :
       \/ AgentStep(a) \/ Crash(a) \/ Recover(a) \/ HeartbeatDelayed(a)
       \/ \E l \in Locations : Unhealthy(a, l)
  \/ \E b \in late : LateHeartbeat(b)
  \/ \E t \in Threads : Reload(t) \/ Reloaded(t) \/ ReloadRaises(t)
  \/ GoesStale \/ AskAgain \/ WriteFile

Spec == Init /\ [][Next]_vars

\* The loops of a running agent and of the webserver keep going, a reload that
\* has begun ends, and time passes.  Nobody has to edit the table or to reload,
\* no agent has to come back.
Fairness ==
  /\ \A a \in Agents :
       /\ WF_vars(Sync(a)) /\ WF_vars(Heartbeat(a))
       /\ \A l \in Locations :
            WF_vars(Stop(a, l)) /\ WF_vars(\E s \in Servers : Launch(a, l, s))
  /\ WF_vars(GoesStale) /\ WF_vars(AskAgain) /\ WF_vars(WriteFile)
  /\ WF_vars(Reload("refresher")) /\ \A t \in Threads : WF_vars(Reloaded(t))

FairSpec == Spec /\ Fairness

-----------------------------------------------------------------------------
(* Properties.                                                             *)

\* Every variable has a value of its kind.
TypeOK ==
  /\ status \in [Locations -> {"absent", "active", "paused"}]
  /\ up \subseteq Agents
  /\ desired \in [Agents -> SUBSET Locations]
  /\ serving \in [Agents -> Endpoints]
  /\ endpoint \in [Servers -> Ports \cup {0}]
  /\ beats \in Seq(Beats)
  /\ late \subseteq Beats
  /\ origins \in Endpoints
  /\ file \in Endpoints
  /\ phase \in [Threads -> {"sleep", "load", "write", "replace"}]
  /\ found \in [Threads -> Endpoints]
  /\ edits \in Nat
  /\ faults \in Nat
  /\ shown \in [Locations -> Servers \cup {0}]

\* With one agent whose heartbeats are not delayed, the file never returns to
\* a server it has replaced, whatever restarts and whichever queries fail.
FileNeverGoesBack ==
  \A l \in Locations : file[l] # NoServer => file[l] = shown[l]

\* With one such agent, what the refresher is about to write to the file has
\* for no location a server older than the workspace's: the database, asked
\* again, is ahead of every reload that has ended by then, the UI's as well as
\* its own.  (After that the UI may get ahead of the file until the next
\* refresh, and a slow reload may take it back behind.)
FileCatchesUp ==
  [][phase["refresher"] = "write" /\ phase'["refresher"] = "replace" =>
       \A l \in Locations :
         origins[l] # NoServer /\ found'["refresher"][l] # NoServer
           => origins[l] <= found'["refresher"][l]]_vars

\* the running agents an active location is meant for
ManagedBy(l) ==
  {a \in up : status[l] = "active" /\ l \in Requested(a) \cap Matches[a]}

\* Once edits and faults stop, the workspace and the file list exactly the
\* active locations some running agent manages, at an endpoint it serves.
Converges ==
  <>[](\A l \in Locations, view \in {origins, file} :
         IF ManagedBy(l) = {} THEN view[l] = NoServer
         ELSE \E a \in ManagedBy(l) : view[l] = serving[a][l] /\ view[l] # NoServer)

=============================================================================
