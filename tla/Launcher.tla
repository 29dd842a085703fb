------------------------------ MODULE Launcher ------------------------------
(***************************************************************************)
(* The user code launcher of an agent                                      *)
(* (dagster_agent/user_code_launcher/base.py with its process, docker and  *)
(* k8s back ends): the reconcile thread that starts, stops and health      *)
(* checks one gRPC server per desired location, the workspace sync that    *)
(* sets the desired entries, and stop(), which runs on the main thread.    *)
(*                                                                         *)
(* A step of the thread ends where the code blocks: the wait for a new     *)
(* server, the removal of one, a ping, the sleep between passes.           *)
(***************************************************************************)
EXTENDS Naturals

CONSTANTS
  Locations,    \* code location names
  Versions,     \* values of deploy_metadata
  Servers,      \* bound: processes or containers ever created, in order
  Named,        \* a resource is named after its location (docker, k8s)
  Faults,       \* the kinds of fault that may occur
  MaxFaults,    \* bound: how many of them
  MaxUpdates,   \* bound: changes of the desired entries
  NotDesired,   \* the location is not among the desired entries
  NoServer,     \* no handle, no endpoint
  Failed        \* an error message in place of an endpoint

FaultKinds == {"spinup", "partial", "slow", "death", "ping", "remove", "join", "restart"}

ASSUME LauncherAssumption ==
  /\ Servers \subseteq Nat
  /\ Named \in BOOLEAN
  /\ Faults \subseteq FaultKinds
  /\ MaxFaults \in Nat
  /\ MaxUpdates \in Nat
  /\ NotDesired \notin Versions
  /\ NoServer \notin Servers
  /\ Failed \notin Servers \cup {NoServer}

VARIABLES
  desired,    \* _desired_entries: the version wanted of each location
  handles,    \* _server_handles
  grpc,       \* _grpc_servers: an endpoint or an error
  server,     \* what has become of each process or container
  serves,     \* the location and version each was created for
  pc,         \* where the reconcile thread is
  snapshot,   \* its copy of the desired entries
  current,    \* its copy of the handles, or of the endpoints
  todo,       \* locations its current loop has still to visit
  at,         \* the location it is blocked on
  handle,     \* the server it waits for or tears down
  main,       \* the main thread: "running", or how far stop() has come
  joined,     \* whether stop() saw the thread end
  updates,    \* history: changes of the desired entries so far
  faults,     \* history: faults so far
  lost        \* history: servers let go of while they may still run

state  == <<handles, grpc>>
world  == <<server, serves, lost>>
thread == <<pc, snapshot, current, todo, at, handle>>
stopper == <<main, joined>>
history == <<updates, faults>>
vars == <<desired, state, world, thread, stopper, history>>

Entries == [Locations -> Versions \cup {NotDesired}]
Nothing == [l \in Locations |-> NoServer]
Alive   == {s \in Servers : server[s] \in {"starting", "up"}}
Created == {s \in Servers : server[s] # "none"}
HasHandle(l) == handles[l] # NoServer
Wanted(l)    == snapshot[l] # NotDesired

Fault(kind) ==
  /\ kind \in Faults
  /\ faults < MaxFaults
  /\ faults' = faults + 1
  /\ UNCHANGED updates

Init ==
  /\ desired = [l \in Locations |-> NotDesired]
  /\ handles = Nothing
  /\ grpc = Nothing
  /\ server = [s \in Servers |-> "none"]
  /\ serves = [s \in Servers |-> <<>>]
  /\ pc = "sleep"
  /\ snapshot = [l \in Locations |-> NotDesired]
  /\ current = Nothing
  /\ todo = {}
  /\ at = {}
  /\ handle = NoServer
  /\ main = "running"
  /\ joined = FALSE
  /\ updates = 0
  /\ faults = 0
  /\ lost = {}

-----------------------------------------------------------------------------
(* The agent's event loop.                                                 *)

\* update_grpc_metadata: the desired entries are replaced as a whole
UpdateDesired(entries) ==
  /\ main = "running"
  /\ entries # desired
  /\ updates < MaxUpdates
  /\ desired' = entries
  /\ updates' = updates + 1
  /\ UNCHANGED <<state, world, thread, stopper, faults>>

-----------------------------------------------------------------------------
(* The servers.                                                            *)

ServerUp(s) ==
  /\ server[s] = "starting"
  /\ server' = [server EXCEPT ![s] = "up"]
  /\ UNCHANGED <<desired, state, serves, lost, thread, stopper, history>>

ServerDies(s) ==
  /\ s \in Alive
  /\ Fault("death")
  /\ server' = [server EXCEPT ![s] = "down"]
  /\ UNCHANGED <<desired, state, serves, lost, thread, stopper>>

\* _remove_server_handle of the back end
Removed(s) == server' = [server EXCEPT ![s] = "removed"] /\ UNCHANGED lost

Loses(s) == lost' = lost \cup {s}

\* ... which may raise, or log an error and return, with the server still there
Teardown(s) ==
  \/ Removed(s) /\ UNCHANGED history
  \/ Fault("remove") /\ Loses(s) /\ UNCHANGED server

-----------------------------------------------------------------------------
(* The reconcile thread.                                                   *)

Goto(phase, locations) ==
  /\ pc' = phase
  /\ todo' = locations
  /\ at' = {}
  /\ handle' = NoServer

Visited(l) == Goto(pc, todo \ {l}) /\ UNCHANGED <<snapshot, current>>

\* an exception ends the pass; _reconcile_loop logs it and sleeps
PassAborted == Goto("sleep", {}) /\ current' = Nothing /\ UNCHANGED snapshot

\* while not self._shutdown_event.is_set()
ThreadEnds ==
  /\ pc = "sleep"
  /\ main # "running"
  /\ Goto("ended", {})
  /\ UNCHANGED <<desired, state, world, snapshot, current, stopper, history>>

\* Slip: reconcile runs only when the desired entries have changed.
PassBeginsOnChange ==
  /\ pc = "sleep"
  /\ main = "running"
  /\ snapshot # desired
  /\ snapshot' = desired
  /\ Goto("add", {l \in Locations : desired[l] # NotDesired})
  /\ UNCHANGED <<desired, state, world, current, stopper, history>>

\* reconcile copies the desired entries; with nothing to do it returns
PassBegins ==
  /\ pc = "sleep"
  /\ main = "running"
  /\ \E l \in Locations : desired[l] # NotDesired \/ HasHandle(l)
  /\ snapshot' = desired
  /\ Goto("add", {l \in Locations : desired[l] # NotDesired})
  /\ UNCHANGED <<desired, state, world, current, stopper, history>>

AddSkips(l) ==
  /\ pc = "add"
  /\ l \in todo
  /\ HasHandle(l)
  /\ Visited(l)
  /\ UNCHANGED <<desired, state, world, stopper, history>>

\* the container or the Deployment of l is still there under its name
NameTaken(l) ==
  Named /\ \E s \in Created : serves[s][1] = l /\ server[s] # "removed"

\* _start_new_server_spinup creates the resource, the next server in order
Create(l, s) ==
  /\ server[s] = "none"
  /\ \A t \in Servers : t < s => t \in Created
  /\ server' = [server EXCEPT ![s] = "starting"]
  /\ serves' = [serves EXCEPT ![s] = <<l, snapshot[l]>>]

Spinup(l, s) ==
  /\ pc = "add"
  /\ l \in todo
  /\ ~HasHandle(l)
  /\ ~NameTaken(l)
  /\ Create(l, s)
  /\ pc' = "wait"
  /\ at' = {l}
  /\ handle' = s
  /\ UNCHANGED <<desired, state, lost, snapshot, current, todo, stopper, history>>

\* an exception while adding l: its text takes the place of the endpoint
AddFails(l) ==
  /\ grpc' = [grpc EXCEPT ![l] = Failed]
  /\ Goto("add", todo \ {l})
  /\ UNCHANGED <<desired, handles, snapshot, current, stopper>>

\* _start_new_server_spinup raises: no free port, no image, name conflict
SpinupRaises(l) ==
  /\ pc = "add"
  /\ l \in todo
  /\ ~HasHandle(l)
  /\ \/ NameTaken(l) /\ UNCHANGED history
     \/ ~NameTaken(l) /\ Fault("spinup")
  /\ AddFails(l)
  /\ UNCHANGED world

\* k8s: the Deployment is created and creating its Service raises
SpinupRaisesHalfway(l, s) ==
  /\ pc = "add"
  /\ l \in todo
  /\ ~HasHandle(l)
  /\ Named
  /\ ~NameTaken(l)
  /\ Fault("partial")
  /\ Create(l, s)
  /\ Loses(s)
  /\ AddFails(l)

\* _wait_for_new_server_ready returns: handle and endpoint are recorded
ServerReady(l) ==
  /\ pc = "wait"
  /\ l \in at
  /\ server[handle] = "up"
  /\ handles' = [handles EXCEPT ![l] = handle]
  /\ grpc' = [grpc EXCEPT ![l] = handle]
  /\ Goto("add", todo \ {l})
  /\ UNCHANGED <<desired, world, snapshot, current, stopper, history>>

\* _wait_for_new_server_ready raises, because the server died or is slow:
\* the error is recorded and the handle is dropped
NotReady(l) ==
  /\ pc = "wait"
  /\ l \in at
  /\ \/ server[handle] = "down" /\ UNCHANGED <<lost, history>>
     \/ server[handle] = "starting" /\ Fault("slow") /\ Loses(handle)
  /\ AddFails(l)
  /\ UNCHANGED <<server, serves>>

\* Slip: every location with a server is torn down in the second loop.
AddEndsForAll ==
  /\ pc = "add"
  /\ todo = {}
  /\ current' = handles
  /\ Goto("remove", {l \in Locations : HasHandle(l)})
  /\ UNCHANGED <<desired, state, world, snapshot, stopper, history>>

AddEnds ==
  /\ pc = "add"
  /\ todo = {}
  /\ current' = handles
  /\ Goto("remove", {l \in Locations : HasHandle(l) /\ ~Wanted(l)})
  /\ UNCHANGED <<desired, state, world, snapshot, stopper, history>>

\* the server of an undesired location is torn down; an exception from the
\* back end is logged and the handle is forgotten all the same
RemoveCalls(l) ==
  /\ pc = "remove"
  /\ l \in todo
  /\ Teardown(current[l])
  /\ pc' = "removing"
  /\ at' = {l}
  /\ UNCHANGED <<desired, state, serves, snapshot, current, todo, handle, stopper>>

\* del self._server_handles[l]: a KeyError when stop() has cleared the dict
RemoveForgets(l) ==
  /\ pc = "removing"
  /\ l \in at
  /\ \/ /\ HasHandle(l)
        /\ handles' = [handles EXCEPT ![l] = NoServer]
        /\ grpc' = [grpc EXCEPT ![l] = NoServer]
        /\ Goto("remove", todo \ {l})
        /\ UNCHANGED <<snapshot, current>>
     \/ /\ ~HasHandle(l)
        /\ PassAborted
        /\ UNCHANGED <<handles, grpc>>
  /\ UNCHANGED <<desired, world, stopper, history>>

\* Slip: the health check copies the error messages with the endpoints.
RemoveEndsWithErrors ==
  /\ pc = "remove"
  /\ todo = {}
  /\ current' = grpc
  /\ Goto("health", {l \in Locations : grpc[l] # NoServer})
  /\ UNCHANGED <<desired, state, world, snapshot, stopper, history>>

\* _check_server_health copies the endpoints; errors are not among them
RemoveEnds ==
  /\ pc = "remove"
  /\ todo = {}
  /\ current' = [l \in Locations |-> IF grpc[l] \in Servers THEN grpc[l] ELSE NoServer]
  /\ Goto("health", {l \in Locations : grpc[l] \in Servers})
  /\ UNCHANGED <<desired, state, world, snapshot, stopper, history>>

PingSucceeds(l) ==
  /\ pc = "health"
  /\ l \in todo
  /\ server[current[l]] = "up"
  /\ Visited(l)
  /\ UNCHANGED <<desired, state, world, stopper, history>>

\* Slip: the handle of an unhealthy server is kept.
UnhealthyKeepsHandle(l) ==
  /\ grpc' = [grpc EXCEPT ![l] = Failed]
  /\ Visited(l)
  /\ UNCHANGED <<desired, handles, world, stopper>>

\* Slip: a server that does not answer is forgotten but not torn down.
UnhealthyForgets(l) ==
  /\ grpc' = [grpc EXCEPT ![l] = Failed]
  /\ handles' = [handles EXCEPT ![l] = NoServer]
  /\ Visited(l)
  /\ UNCHANGED <<desired, world, stopper>>

\* the error replaces the endpoint and the handle is popped; a server whose
\* handle stop() has not cleared is then torn down
Unhealthy(l) ==
  /\ grpc' = [grpc EXCEPT ![l] = Failed]
  /\ handles' = [handles EXCEPT ![l] = NoServer]
  /\ todo' = todo \ {l}
  /\ IF HasHandle(l)
     THEN pc' = "retiring" /\ at' = {l} /\ handle' = handles[l]
     ELSE UNCHANGED <<pc, at, handle>>
  /\ UNCHANGED <<desired, world, snapshot, current, stopper>>

PingFails(l) ==
  /\ pc = "health"
  /\ l \in todo
  /\ server[current[l]] # "up"
  /\ UNCHANGED history
  /\ Unhealthy(l)

\* a server that is up does not answer within 5 seconds
PingTimesOut(l) ==
  /\ pc = "health"
  /\ l \in todo
  /\ server[current[l]] = "up"
  /\ Fault("ping")
  /\ Unhealthy(l)

\* the teardown of an unhealthy server returns or raises, and what it raises
\* is swallowed; the next pass starts a new server
UnhealthyRetires ==
  /\ pc = "retiring"
  /\ Teardown(handle)
  /\ Goto("health", todo)
  /\ UNCHANGED <<desired, state, serves, snapshot, current, stopper>>

PassEnds ==
  /\ pc = "health"
  /\ todo = {}
  /\ Goto("sleep", {})
  /\ current' = Nothing
  /\ UNCHANGED <<desired, state, world, snapshot, stopper, history>>

-----------------------------------------------------------------------------
(* stop() on the main thread.                                              *)

\* the shutdown event is set
StopBegins ==
  /\ main = "running"
  /\ main' = "joining"
  /\ UNCHANGED <<desired, state, world, thread, joined, history>>

\* join(timeout=10) returns, with or without the thread having ended
Joins ==
  /\ main = "joining"
  /\ \/ pc = "ended" /\ joined' = TRUE /\ UNCHANGED history
     \/ pc # "ended" /\ joined' = FALSE /\ Fault("join")
  /\ main' = "killing"
  /\ UNCHANGED <<desired, state, world, thread>>

\* Slip: stop() tears down the servers of the desired locations only.
StopKillsDesired ==
  /\ main = "killing"
  /\ server' = [s \in Servers |->
       IF \E l \in Locations : handles[l] = s /\ desired[l] # NotDesired
       THEN "removed" ELSE server[s]]
  /\ main' = "clearing"
  /\ UNCHANGED <<desired, state, serves, lost, thread, joined, history>>

\* every server with a handle is torn down; an exception is logged
StopKills ==
  /\ main = "killing"
  /\ LET held == {handles[l] : l \in Locations} \ {NoServer}
         kill(these) == server' = [s \in Servers |->
                          IF s \in these THEN "removed" ELSE server[s]]
     IN \/ kill(held) /\ UNCHANGED <<lost, history>>
        \/ \E s \in held : kill(held \ {s}) /\ Fault("remove") /\ Loses(s)
  /\ main' = "clearing"
  /\ UNCHANGED <<desired, state, serves, thread, joined>>

\* the dicts are cleared
StopClears ==
  /\ main = "clearing"
  /\ handles' = Nothing
  /\ grpc' = Nothing
  /\ main' = "stopped"
  /\ UNCHANGED <<desired, world, thread, joined, history>>

\* the agent's process ends, and its daemon threads with it
Exits ==
  /\ main = "stopped"
  /\ main' = "exited"
  /\ Goto("ended", {})
  /\ UNCHANGED <<desired, state, world, snapshot, current, joined, history>>

\* The agent is killed and started again: its memory is gone, the servers it
\* created are not
Restart ==
  /\ main = "running"
  /\ Fault("restart")
  /\ desired' = [l \in Locations |-> NotDesired]
  /\ handles' = Nothing
  /\ grpc' = Nothing
  /\ snapshot' = desired'
  /\ current' = Nothing
  /\ Goto("sleep", {})
  /\ lost' = lost \cup Alive
  /\ UNCHANGED <<server, serves, stopper>>

-----------------------------------------------------------------------------
ThreadStep ==
  \/ ThreadEnds \/ PassBegins \/ AddEnds \/ RemoveEnds \/ UnhealthyRetires \/ PassEnds
  \/ \E l \in Locations :
       \/ AddSkips(l) \/ SpinupRaises(l) \/ ServerReady(l) \/ NotReady(l)
       \/ RemoveCalls(l) \/ RemoveForgets(l)
       \/ PingSucceeds(l) \/ PingFails(l) \/ PingTimesOut(l)
       \/ \E s \in Servers : Spinup(l, s) \/ SpinupRaisesHalfway(l, s)

Next ==
  \/ \E entries \in Entries : UpdateDesired(entries)
  \/ \E s \in Servers : ServerUp(s) \/ ServerDies(s)
  \/ ThreadStep
  \/ StopBegins \/ Joins \/ StopKills \/ StopClears \/ Exits
  \/ Restart

Spec == Init /\ [][Next]_vars

\* The thread runs, and a server that is starting comes up, given time.
Fairness == WF_vars(ThreadStep) /\ \A s \in Servers : WF_vars(ServerUp(s))

FairSpec == Spec /\ Fairness

-----------------------------------------------------------------------------
(* Properties.                                                             *)

\* The state has the shape the launcher's fields have.
TypeOK ==
  /\ desired \in Entries
  /\ handles \in [Locations -> Servers \cup {NoServer}]
  /\ grpc \in [Locations -> Servers \cup {NoServer, Failed}]
  /\ server \in [Servers -> {"none", "starting", "up", "down", "removed"}]
  /\ serves \in [Servers -> {<<>>} \cup (Locations \X Versions)]
  /\ pc \in {"sleep", "add", "wait", "remove", "removing", "health", "retiring",
           "ended"}
  /\ snapshot \in Entries
  /\ current \in [Locations -> Servers \cup {NoServer}]
  /\ todo \subseteq Locations
  /\ at \subseteq Locations
  /\ handle \in Servers \cup {NoServer}
  /\ main \in {"running", "joining", "killing", "clearing", "stopped", "exited"}
  /\ joined \in BOOLEAN
  /\ updates \in Nat
  /\ faults \in Nat
  /\ lost \subseteq Servers

\* stop() has not begun to tear down servers
InService == main \in {"running", "joining"}

\* While in service, the endpoint the launcher gives out for a location is that of
\* the server it holds a handle of, which was created for that location and
\* has not been torn down; a location without a handle has no endpoint.
\* (heartbeats and has_grpc_endpoint read _grpc_servers, the reconcile thread
\* reads _server_handles)
HandlesAreSound ==
  InService =>
    \A l \in Locations :
      /\ grpc[l] \in Servers => handles[l] = grpc[l]
      /\ HasHandle(l) =>
           /\ grpc[l] = handles[l]
           /\ serves[handles[l]][1] = l
           /\ server[handles[l]] = "removed" => pc = "removing" /\ at = {l}

\* While in service, every server that is alive is one the launcher knows of:
\* it has a handle, or the thread has it in hand, waiting for its start or,
\* once a ping of it failed and its handle is dropped, tearing it down. Only
\* four things lose a server: a wait that times out, a Service that cannot be
\* created, a removal that fails and a restart of the agent.
EveryServerIsTracked ==
  InService =>
    \A s \in Alive \ lost : s = handle \/ \E l \in Locations : handles[l] = s

\* A stop() that saw the reconcile thread end leaves no server alive but those
\* lost before or not to be removed.
JoinedStopLeavesNothing ==
  main \in {"stopped", "exited"} /\ joined => Alive \subseteq lost

Serving(l) == handles[l] \in Servers /\ server[handles[l]] = "up"

\* While in service, a location keeps the server that is up for it, and keeps
\* its handle, unless the location was undesired as the pass began (it may be
\* desired again by now) or something failed: a ping of it, or the server.
HealthyServersAreKept ==
  [][InService =>
       \A l \in Locations : Serving(l) =>
         \/ handles'[l] = handles[l] /\ Serving(l)'
         \/ snapshot[l] = NotDesired
         \/ faults' > faults]_vars

\* Once the desired entries and the servers settle, exactly the desired
\* locations are served: what failed is tried again, what is undesired stops.
\* (README: "agents launch and keep its server running")
Converges ==
  <>[](\/ main # "running"
       \/ \A l \in Locations : desired[l] # NotDesired <=> Serving(l))

\* What an agent gets from get_grpc_endpoint: an error is no endpoint.
Endpoint == [l \in Locations |-> IF grpc[l] \in Servers THEN grpc[l] ELSE NoServer]
Owner    == [s \in Servers |-> IF serves[s] = <<>> THEN {} ELSE {serves[s][1]}]

\* The server that is being torn down, its endpoint withdrawn.
Retiring == IF pc = "retiring" THEN {handle} ELSE {}

Promise == INSTANCE LocationServers WITH
  life <- server, owner <- Owner, endpoint <- Endpoint, retiring <- Retiring,
  abandoned <- lost, stopping <- ~InService

\* The reconcile thread, the health check, stop() and every fault keep the
\* promise: a location never gets a second server while one is alive that the
\* launcher has not lost, and an endpoint is withdrawn from a live server only
\* to tear that server down, which is done before anything else is started.
KeepsItsPromise == Promise!Spec

=============================================================================
