# Specifications of dagster-webserver and dagster-agent

TLA+ models of the parts of this repository that run concurrently, fail apart
and recover: the agent work queue and the daemon that waits for its answers,
the user code launcher, the agent workspaces, the code location table, accounts,
OIDC login and the websocket endpoint. Every definition is translated from the
Python source; `PROJECT.json` (`map`) gives the file and the lines of each.

Checking:

    tlc -workers 2 -config queue_faults.cfg MCAgentQueue     # any run of PROJECT.json
    tlapm LauncherProofs.tla                                 # a module of proofs

## 1. The system

A webserver (Dagster's UI and GraphQL API with accounts and an agent API)
works with agent processes. An agent starts one gRPC code server per code
location, reports their endpoints in heartbeats and executes requests that it
pops from a queue in the webserver's database. `dagster-daemon` reads the
workspace file that the webserver writes, and may launch runs through the queue.

| Component (code) | State | Operations | Talks to | What is hard |
|---|---|---|---|---|
| Agent work queue (`database/agent_queries.py`, `api/agent.py`) | table `agent_requests`: status, agent, `created_at`, `expires_at` | enqueue, pop, complete, fail, status, requeue | agents and the daemon over HTTP; the requeue loop | SELECT and claim are not atomic; lost and late calls; TTL |
| Background tasks (`api/background.py`, `app.py`) | none | requeue stale requests, delete old heartbeats, every 30 s and every hour; load `workspace.yaml` at startup | queue, heartbeats | the shipped command line does not start them |
| Agent process (`dagster_agent/agent.py`, `api/client.py`) | batch in hand, handlers, metrics | poll, dispatch, sync workspace, heartbeat, sentinel files, shutdown | queue, launcher | asyncio tasks beside the launcher's thread; exceptions outside `try` |
| User code launcher (`user_code_launcher/*.py`) | desired entries, handles, endpoints; processes, containers or Deployments | update_grpc_metadata, reconcile (add, remove, health check), start, stop | agent process, the servers | a blocking thread on a snapshot, partial failures, stop in the middle, restarts |
| Agent workspaces (`api/agent_workspace.py`) | workspace origins, `agent_workspace.yaml` | refresh, write file | heartbeats, daemon | staleness, reordering, failing queries, reused ports |
| Code location table (`agent_queries.py`, `api/workspace_loader.py`, portal, agents' reports) | table `code_location_definitions` | create, upsert, update, delete, report, load `workspace.yaml` | agents (workspace entries) | read and commit apart, four kinds of writers, edits while agents work on older entries |
| Daemon run coordinator and launcher (`dagster_agent/daemon`) | none | enqueue and wait for an answer | queue | timeouts, status access, answers that come twice |
| Snapshots (`agent_queries.py`) | a table | store, check | agents | check-then-insert |
| Accounts (`auth/db_backend.py`, `auth/roles.py`) | users, roles, assignments, keys | CRUD, assign, authenticate | portal, agent API, middleware | check-then-act between requests, last administrator |
| OIDC login (`auth/provider.py`, `auth/oidc/client.py`) | login flow in the session, providers, links | initiate, callback, link or create | identity provider | one flow per session, concurrent first logins, edits of providers |
| Permission resolution (`auth/roles.py`, `auth/context.py`, `admin/permissions.py`) | none | resolve assignments | every request | precedence of scopes |
| Admin portal (`admin/`) | none of its own | forms over accounts and locations | accounts | last-admin checks |
| GraphQL over websocket (`graphql.py`) | tasks by operation id | init, start, stop, terminate | browser | races of tasks with the connection |
| Webserver shell, migrations, GraphiQL | none that outlives a request | | | |

What makes each part correct:

- *Queue*: a request some agent may pop is answered before its TTL or expires;
  the answer comes from the agent it was assigned to, which ran the handler;
  answered work is not handed out again; only a fault leaves a request with nobody
  (and then for good).
- *Launcher*: the desired locations, and only they, end up served; endpoints
  given out belong to servers of that location; healthy servers are left
  alone; no server is forgotten; stop leaves none.
- *Workspaces*: what UI and daemon see follows what agents serve, never goes
  back to a replaced server, and leads to the right one.
- *Accounts*: assignments and keys have their users and roles, a revoked key
  stays revoked, an administrator remains.
- *Code location table*: a commit changes what its request was given and
  nothing it only read, in the row of its own name; the error shown is that of
  the last report.
- *Daemon*: what a daemon takes for the outcome of its request is what an agent
  said of that request; who may read learns the answer.
- *Login*: a callback completes only a flow of its own browser, nobody enters
  an account that is not his, one identity has one account.
- *Websockets*: every operation that works can be stopped, and none works on
  for a client that is gone.

The hazards, one by one and at their lines, are in `PROJECT.json`.

## 2. Modules

    AgentQueue       <- MCAgentQueue
      DaemonRequests <- MCDaemonRequests, DaemonRequestsProofs   (the queue's too)
    LocationServers  <- LocationServersProofs
      Launcher       <- MCLauncher,       LauncherProofs         (and the refinement)
    AgentWorkspace   <- MCAgentWorkspace, AgentWorkspaceProofs
    CodeLocations    <- MCCodeLocations,  CodeLocationsProofs
    Accounts         <- MCAccounts,       AccountsProofs
    OidcLogin        <- MCOidcLogin,      OidcLoginProofs
    GraphqlWs        <- MCGraphqlWs,      GraphqlWsProofs

`DaemonRequests` composes the daemon with the queue: a step is a step of
`AgentQueue` (with a fault counted, where the daemon's own call is lost) or leaves
the queue alone. `Launcher`
implements `LocationServers` (`KeepsItsPromise`), which `AgentWorkspace` stands on
when it takes a launcher for one step per server. `CodeLocations` is the whole
table, `AgentWorkspace` what its rows do to agents.

Each module has one action per handler or, where the code blocks or awaits,
per stretch between two such points. `MC*` modules hold the values of
constants for TLC. A definition marked `Slip:` is not part of the model: it
is the definition below it with a plausible mistake in it, and TLC finds a
property violated when it is used instead (`mutants` in `PROJECT.json`).

### AgentQueue

| Model | Code |
|---|---|
| `status`, `assigned`, `born`, `expired` | columns `status`, `assigned_to_agent`, `created_at`, `expires_at` of `AgentRequest` |
| `Fetched`, `Matched`, `Oldest` | `ORDER BY created_at LIMIT limit * 3`, then the label filter and the cut to `limit` |
| `PopRead`, `Claim` | `pop_requests` up to, and from, the await between its SELECT and its flush |
| `PopDelivered`, `PopReplyLost`, `PopAborted`, `PopGiveUp` | the four ways a pop call ends for agent and database |
| `Takes`, `HandlerSucceeds`, `HandlerRaises`, `HandlerReturnsNone`, `BatchAbandoned` | the loop body of `_poll_and_process_requests` |
| `Complete*`, `Fail*`, `LateCall` | the two report calls: executed and answered, executed with the reply lost, still on their way |
| `RequeueStale`, `RequeueLoop` | `stale_request_requeue_loop`, and whether it runs |
| `popping`, `claims` | rows a pop handler holds in its session |
| `pc`, `batch`, `cur` | where an agent is in its loop |
| `handled` | history: who ran a request's handler |

Choices: `expires_at` never changes after the insert, so the model keeps only
whether it has passed. `created_at` is `func.now()`, whole seconds on SQLite: rows
may share it, and such rows are fetched, and cut off, in any order; it is taken to
follow the order in which rows are inserted. The shipped command line does not start
the requeue loop, a deployment with `build_agent_lifespan` would: where `RequeueLoop`
is TRUE it may run at any time, and only the run of the finding says that it must. A
worker has at most one pop handler at work in the webserver: its next poll comes
no sooner than two seconds after a client timeout of thirty. `popped_at` and the
bodies are not kept, because no code decides by them. A crashed agent is replaced
by one with the same configuration.

### Launcher

| Model | Code |
|---|---|
| `desired` | `_desired_entries` |
| `handles`, `grpc` | `_server_handles`, `_grpc_servers` (an endpoint is named by its server, an error is `Failed`) |
| `pc`, `snapshot`, `current`, `todo`, `at`, `handle` | the reconcile thread: which loop it is in, its local dicts, what the loop has still to visit, the location it is blocked on, the server it waits for or tears down |
| `PingFails`, `PingTimesOut`, `UnhealthyRetires` | `_check_server_health`: the endpoint becomes an error and the handle is popped; then, in a step of its own, the teardown ends or raises |
| `server`, `serves`, `lost` | processes or containers, what they were started for, and which were let go of |
| `main`, `joined` | `stop()` on the main thread and the process's end |
| `Named` | whether the back end names a resource after its location (docker, k8s) or not (process) |
| `Fault` kinds | `spinup` create raises; `partial` Deployment without Service; `slow` wait times out; `death` server dies; `ping` a live server misses its ping; `remove` a teardown raises, in the remove loop, a health check or `stop()`; `join` the ten seconds run out; `restart` the agent is killed |

Steps end where the code blocks: waiting for a server, removing one, a ping,
the sleep. Between these points the thread only touches dicts, which the main
thread replaces or clears as a whole. A pod that Kubernetes restarts by itself
counts as never having died.

### LocationServers

What the launcher promises its agent: an endpoint leads to a server that was
started for its location and came up (`Publish`); a server is started only where
no other is alive, but for those given up on (`Start`); an endpoint is withdrawn
with its server (`Retire`), or before it, and then the server is `retiring` until
it is removed or given up on (`Withdraw`, `Retire`). `Launcher`'s `Promise` maps
`server`, `serves`, `grpc` and `lost` to its variables, the server that the thread
tears down after a failed ping to `retiring`, and "in service" to `~stopping`;
errors are no endpoints.

### AgentWorkspace

| Model | Code |
|---|---|
| `status` | `code_location_definitions.status` |
| `desired`, `Sync`, `Requested`, `Entries` | `_sync_workspace`, the client's parameters, `get_workspace_entries` |
| `serving`, `endpoint`, `FreePort` | the running servers of an agent and the port of each |
| `beats` | rows of `agent_heartbeats` within the staleness, oldest first |
| `origins`, `file` | the workspace, `agent_workspace.yaml` |
| `Threads` | what reloads the workspace: the refresher and, for the proofs, any number of requests of the UI |
| `phase`, `found` | how far the refresher's round and a reload from the UI are, and what the last query of each has found |
| `NewestWins`, `Query` | `_query_agent_endpoints`, `_run_async_in_thread` |
| `Reload`, `Reloaded`, `ReloadRaises` | `reload_workspace`, by the refresher or by a user: `create_origins`' query, the new workspace once its locations are loaded, or an exception that ends the round without a file |
| `AskAgain`, `WriteFile` | `_write_workspace_file`: its own query, then the rename or a failed write |
| `shown` | history: the newest server the file ever had |

The launcher is reduced to what it promises (it starts what is desired, stops
what is not); its sync with the webserver is one step because the model's
table can change right after it all the same. The servers of a crashed agent
are taken to be gone. `Window` bounds the fresh heartbeats of one agent; the
code has at most four (120 s staleness, 30 s interval), two show every overlap
of an old and a new one. `FileCatchesUp` is about the moment of the refresher's second
query: after it a reload from the UI may get ahead of the file until the next
round, and a slow one may put an older workspace back; `Converges` says that both
heal.

### Accounts

| Model | Code |
|---|---|
| `users`, `services`, `active` | table `users`: `username` by id, `is_service_account`, `is_active` |
| `stage`, `grant` | custom rows of `roles` and the portal permissions in `permissions` |
| `rows` | table `user_role_assignments` |
| `owner`, `keyState` | table `api_keys`: `user_id`, and whether the row exists and `is_active` |
| `enforced` | whether the database enforces foreign keys: PostgreSQL does, SQLite as `engine.py` opens it does not |
| `req` | what a handler holds in local variables and in its ORM session between two awaits |
| `Admitted`, `Ask*` | the middlewares and the views' `can_*`: permissions are read once, when a request comes in |
| `LookUp`, `InsertUser`, `Assign`, `Replace` | `UserView.create`, `ServiceAccountView.create` with `create_user` / `create_service_account`, then `set_user_role_assignments` |
| `Find`, `CheckEdit`, `Update`, `SetActive`, `Assign`, `Replace` | `find_by_pk`, then `UserView.edit`: its check, `update_user` with its commit, `set_user_role_assignments` |
| `List`, `Pick`, `Remove` | `UserView.delete` and its loop over the ticked users, `delete_user` |
| `CliAssign`, `CliInsert` | `db assign-role`, which calls `assign_role_to_location` |
| `Mint`, `InsertKey`, `Revoke`, `Present`, `Use` | `create_api_key`, `revoke_api_key`, `get_user_by_api_key` |
| `CreateRole`, `EditRole`, `CountRole`, `DropRole` | `create_role`, `update_role`, `delete_role` |
| `GrantsRead` | `_get_global_role_from_assignments`: the first of possibly several global assignments, in no order the query states |
| `orderly`, `unguarded` | history: whether requests came in turn; whether something happened that the portal has no protection against |

A step is a transaction or a read; the reads of one handler that no decision
separates are one step. `Abort` ends any request anywhere, so each step of
several may be the last. Rows have the ids the databases give them: a sequence
of PostgreSQL goes up, SQLite goes on after the greatest id there is and so
reuses that of a deleted last row. A role is known by its name and a key by
itself, so the same reuse of role and key ids is not modelled. Several
roles or keys ticked at once are as many requests. The page's `is_active` box sends
"true" or nothing, but the handler takes every other value for FALSE, for anybody,
its sender included (`views.py:415-419`): a form may keep, set or clear it. The
default role is taken to be a built-in one.

### DaemonRequests

| Model | Code |
|---|---|
| `Ask`, `AskReplyLost`, `AskRefused` | `enqueue_request` of client and endpoint, `_check_location_access` |
| `Poll`, `Learn`, `PollLost`, `TimeOut` | a round of `wait_for_response`: the handler's read of the row, then the daemon's decision; two steps, as the row may change between them |
| `MayRead` | the access check of `_get_request_status` |
| `body`, `Store`, `verdict`, `pending` | `response_body`; who writes it; the answer in a worker's hand; the answer in a late call |
| `Response`, `serves`, `Reload` | `_dispatch_request` and the `_handle_*` methods by what the launcher serves; the launcher comes in only as this set |
| `daemon` | the user behind the daemon's key: role, service account or not, grants of a custom role |
| `said`, `told` | history: every answer of every handler; what the daemon was told |

`AgentRunEnqueuer`, `enqueue_terminate_run` and `ping_location` are one protocol.
The client's timeout may come after any round. `run_key` is stored and never
read, so it is left out.

### CodeLocations

| Model | Code |
|---|---|
| `rows` | table `code_location_definitions` by id: name, `deploy_metadata`, labels, status, `loaded_manifest`, `load_error` |
| `AskUpsert`, `AskCreate`, `AskUpdate`, `AskDelete`, `AskReport`, `AskYaml` | the REST endpoints, the portal's view, the agents' reports, the loader of `workspace.yaml` |
| `Read` | the SELECT by name in every one of them |
| `Write`, `Flushed` | the commit: the ORM sends the columns that were assigned another value than was read, for the id that was read |
| `Insert`, `Delete` | a commit that adds a row, unless the name is taken by then; one that deletes by id |
| `sequence`, `IsNextId` | PostgreSQL's ids go up, SQLite's may return |
| `reports`, `orderly` | history: the last report of each location; whether requests came in turn |

### OidcLogin

| Model | Code |
|---|---|
| `cookie`, `Reply`, `Refuse` | the signed session cookie; an answer that changed its copy replaces the browser's whole cookie, and one that did not may send a session back that was not empty |
| `Login`, `Logout`, `Authorize` | `SessionAuthProvider.login`, `logout`, `initiate_oidc_login` |
| `AskCallback`, `FlowIsOwn`, `FindProvider`, `Exchange` | `handle_oidc_callback` up to `verify_id_token`: state, verifier and nonce are stored and overwritten together and are one value, the flow |
| `FindLink`, `FindEmail`, `Link`, `Create`, `Welcome` | `_link_or_create_user` and the callback's end |
| `Portal` | provider: create, edit of issuer and of enabled, delete; account: edit of address and of is_active, delete |
| `Identify`, `answer`, `redeemed` | the issuer (external): it makes a code for a flow and redeems it once |
| `entitled`, `orderly`, `overlapped`, `disturbed` | history: for whom an account was made; what the portal or other requests have done |

`flows` records who began each flow. Two issuers know different persons, by the
same claim `sub` perhaps. Cryptography is modelled by its effect. A service
account's password login is answered with an error after the session was named for
it (`provider.py:149`, `auth/routes.py:445`), so `Login` names the session of any
account with a password.

### GraphqlWs

| Model | Code |
|---|---|
| `pc`, `starting`, `Receive*`, `Subscribe*` | the loop of `graphql_ws_endpoint`, which waits inside a START for `execute_graphql_subscription` |
| `tasks`, `task` | the local dict and the asyncio tasks of `_handle_async_results` |
| `Yields`, `Raises`, `Exhausts`, `Completes`, `Send` | the task between two awaits; `_send_message` checks the two states of the websocket |
| `app`, `client`, `gone` | Starlette's `application_state` and `client_state`; whether the peer is there |
| `Leave`, `LeftOver` | the `finally` that cancels what `tasks` holds |

## 3. Runs

Eleven runs pass; `queue_requeue` shows a finding.

| Run | Question | Properties | States |
|---|---|---|---|
| `queue_faults` | Do rows stay consistent, is nothing completed unhandled, and what becomes of requests all have forgotten, under crashes, losses, delays and failing handlers? | `TypeOK` `AssignmentMatchesStatus` `CompletedWasHandled` `ForgottenStaysForgotten` | 133 304 |
| `queue_nofault` | Without faults, is every request handled, in order, even when two agents claim it at once? | `ProcessingIsHeld` `HandledInOrder` `EveryRequestIsAnswered` | 287 498 |
| `queue_requeue` | Is a requeued request picked up? | `RequeuedIsPickedUp` (violated) | |
| `daemon_replies` | Is what a daemon is told true, and is it told? | `ToldWhatAWorkerSaid` `FailuresHaveACause` `TheAnswerIsLearnt` | 267 504 |
| `launcher_faults` | Do handles, endpoints and servers agree under eight kinds of fault and a stop at any moment, and is the promise kept? | `TypeOK` `HandlesAreSound` `EveryServerIsTracked` `JoinedStopLeavesNothing` `HealthyServersAreKept` `KeepsItsPromise` | 266 722 |
| `launcher_converges` | Are exactly the desired locations served in the end? | `Converges` | 578 113 |
| `workspace_single` | One agent, and reloads from the UI beside the refresher: does the file follow the newest server, and do both converge? | `TypeOK` `FileNeverGoesBack` `FileCatchesUp` `Converges` | 219 864 |
| `workspace_failover` | Two agents: do entries move when one is gone? | `Converges` | 181 106 |
| `code_locations` | Does a commit change only what it was given, in its own row, whoever writes at the same time? | `TypeOK` `ErrorIsOfTheLastReport` `ColumnsChangeToWhatWasGiven` `RowsChangeUnderTheirName` | 1 285 847 |
| `accounts_races` | Do rows keep their owners and keys stay revoked when requests overlap; does an administrator remain when they do not? | `TypeOK` `RowsHaveTheirOwners` `RowsHaveTheirOwnersInTurn` `AdminsRemainInTurn` `RevokedStaysRevoked` | 721 991 |
| `oidc_flows` | Does a callback count only in its own browser, and does it lead into the right account? | `TypeOK` `OnlyItsOwnFlow` `OneAccountPerIdentity` `LinksHaveTheirProviders` `NamesChangeInTurn` `EnteredByItsOwn` | 1 056 206 |
| `graphql_ws` | Can every working operation be stopped, and does it end when its client is gone? | `TypeOK` `WorkingTasksAreKnown` `LeftOperationsEnd` | 249 307 |

**Bounds.** *Queue*: two agents are the fewest that race; two requests the fewest
that make a batch with one to forget; `queue_nofault` has four, because labels,
limit and over-fetch need as many rows (limit 2, two rows nobody matches). Two
faults are the fewest that combine (a lost reply and then a late call).
*Daemon*: one request, claimed by two agents, with one fault of five kinds, a
location that comes or goes once, and three users behind the daemon's key: a
service account that may not read what another agent has, an administrator who may, a
viewer. The daemon's requests touch nothing of one another; the queue's own
runs have several. *Launcher*: two locations; two faults of eight kinds (a
restart and then a failed removal); three changes of the desired entries.
`Servers` is large enough that no behaviour within the bounds on faults and
updates runs out: if one did, `launcher_converges` would fail.
*Workspaces*: four servers for two locations under one agent with two edits (a
location is stopped and started again) and one fault of five kinds; three for one
location under two agents with one edit and one fault of six; `Window` 2. One user
at a time reloads from the UI in the run with one agent; with two agents only the
refresher reloads.

*Code locations*: three requests, two at a time, on two names: a race is
two requests on what a third has left; both locations are in `workspace.yaml`.
*Accounts*: four requests one at a time and three that overlap (`Explored`;
overlapping ones do not send the form with two roles in one scope, which ends like
an abort): create, edit and delete of a second user need three in turn, and a fourth
repeats or undoes one. Two slots are two handlers, or a handler and the command
line. One custom role with and without permissions, one location and one key
make every kind of reference. *Login*: four requests with two changes of the
portal between them, at most four of both together once requests overlap
(`Explored`): two flows need an authorize and a callback each. Two browsers, two
persons at two issuers under one `sub`, one provider and two ids for
it, so that a deleted one may return under the other's. *Websocket*: four messages
with two ids and three operations: START, STOP, START again of one id, and
one of another. Ids of rows are never used up. TLC treats the two request slots
as interchangeable, only in runs without liveness.

**Fairness.** Agents poll in a loop that catches every exception, so
`WorkerStep` and the pop handlers are weakly fair, as are the reconcile thread,
the refresher, a reload that has begun, workspace sync and heartbeats. `TimedSpec`
adds that TTLs run out and that the requeue loop runs, which only the finding
assumes; the launcher's that a server that starts comes up. `DaemonSpec` adds the daemon's own rounds to the agents' and
the queue's. `GraphqlWs` is fair to the endpoint's loop and to a task that has only
its last frame to send: the event loop runs what can run. Nothing says that
faults strike, that late calls arrive, that anybody enqueues or edits, that a
subscription ends, that a client leaves, or that a crashed agent of
`AgentWorkspace` is started again. `EveryRequestIsAnswered`, `Converges` and
`TheAnswerIsLearnt` need no fairness of faults: they are bounded in number.

`CHECK_DEADLOCK FALSE` where the system really stops: the launcher's process may
exit, a connection and a daemon's wait end, and the runs of `Accounts`,
`CodeLocations` and `OidcLogin` end when `MaxAsks` requests have been made.

**The finding** (`queue_requeue`): a requeued request has expired and is never
popped again, although the task that requeues it is there to have it picked up. The
run assumes that this task is started, which as shipped it is not; without it the
request stays "processing" (`ForgottenStaysForgotten` covers both).

Noticed while modelling, without a run of their own:

- *Queue and agents.* Two pops that read before either commits both claim a row,
  and both agents run its handler: there is no lock, optimistic or other
  (`agent_queries.py:172-203`). `AgentAPIClient`'s docstring promises retries with
  backoff that it does not have (`client.py:21`). Started from the command line the
  webserver gets a lifespan that starts no background task, and the session factory
  they look for does not exist on the user backend (`cli.py:518`, `app.py:61-91`): as
  shipped, stale requests are not requeued, old heartbeats are not deleted and
  `workspace.yaml` is not loaded (`background.py:123`). `limit * 3` rows that match
  nobody hide every younger request. Pops ignore `location_name`. Two or more
  `allowed_locations` go out as one joined parameter, which the endpoint takes for
  one name, so that none matches (`client.py:55`).
- *Daemon.* `run_key` (`run_coordinator.py:53`) deduplicates nothing; a timeout
  leaves the request queued, and a timeout of 0 leaves `state` unbound
  (`client.py:139`); a launch of a location that is not served is "completed" with
  status "failed" in its body (`agent.py:320`).
- *Launcher.* A server whose start takes longer than the timeout becomes an
  orphan, and nothing calls `_list_server_handles` (`base.py:229`, `141`). After a
  failed wait docker and k8s refuse the location's name until somebody removes the
  resource. `ready_to_serve_requests` is true from the beginning of the first
  pass (`base.py:220`, `339`). Changed `deploy_metadata` restarts nothing,
  although `base.py:222` speaks of "new/changed locations". `running_locations`
  iterates a dict the thread may change (`base.py:345`). The k8s wait calls a
  status function the core API does not have (`k8s.py:176`).
- *Workspaces.* A stopped location stays listed while its last heartbeat is fresh
  (120 s), although its port may serve another one by then (`agent_workspace.py:141`,
  `process.py:213-215`). The branch that removes a location "no longer running"
  (`agent_workspace.py:151`) is not reached: heartbeats list running ones only.
- *Code locations.* Where it is started, the loader activates the paused
  locations of `workspace.yaml`, and a POST clears labels it does not name. A report
  of success that read no error does not clear one that was committed meanwhile; a
  report with neither manifest nor error erases the manifest.
- *Accounts.* On SQLite, whose foreign keys are not enforced, a role may be deleted
  while an assignment to it is being committed (`db_backend.py:746-758`). Two edits
  of one user at once leave, on PostgreSQL, the assignments of both; `db
  assign-role` adds a second global role beside the first. Two administrators who
  delete each other at once leave none, and so do the loopholes that
  `AdminsRemainInTurn` excludes by name: the self-protection is skipped for a form
  without global assignment (`views.py:397`), `is_active` may be cleared for oneself
  without any check (`views.py:415-428`), a custom role may be emptied
  (`update_role`), and a service account that comes with its key is neither kept from
  deleting itself nor counted (`views.py:1043`). `_ensure_tables` compares
  `is_builtin = 1`, which PostgreSQL does not accept for a boolean
  (`db_backend.py:92`), so what the models say of an enforcing database is about the
  code once that is repaired. The docstring of `delete_role` says that users "have
  their role_id nulled out"; the code refuses instead.
- *Login.* The callback always leads to "/": `handle_oidc_callback` pops
  `oidc_redirect` (`provider.py:329-335`) before `oidc/routes.py:54` reads it. A
  deactivated account with a link is taken for none, so a second one is made, and
  once both are active every lookup raises `MultipleResultsFound`. Editing an issuer
  keeps the links made with the old one. The callback does not ask whether the
  provider is still enabled.
- *Websocket.* An operation that has ended stays in `tasks`, so its id cannot be
  used again without a STOP. `request_context` is left before the subscription's
  task runs.

## 4. Proofs

TLAPS proves for every value of the constants, with no bound on requests,
agents, servers or faults, every safety invariant and every action property
that a run checks. What each proof rests on:

- **DaemonRequestsProofs**, first of the queue (`AgentQueue`'s `Spec`).
  - `QueueInvariant`: the inductive invariant `QueueInv`.
    `CompletedWasHandled` is not inductive, because an answer may be on its way
    when it is read: `CompletingHandled` says that a worker about to send
    `complete_request` has run the handler, `LateHandled` that a delayed complete
    call comes from an agent that has. They need `TypeOK` and
    `AssignmentMatchesStatus`. Then `QueueTypeOK`, `AssignmentFollowsStatus`,
    `CompletedMeansHandled` and the action properties `AnsweredStaysOut` and
    `ForgottenIsStuck` (`ForgottenStaysForgotten`): a claimed request that no worker
    and no call that would count remembers is claimed, or pending with its TTL over,
    for ever. The requeue loop only moves it from the first to the second.
  - `ProcessingStaysHeld` (`ProcessingIsHeld`), where handlers may raise and
    nothing else fails: `HeldInv` adds that a pop handler's worker waits for it
    (`PollsWait`) and that one between two polls holds nothing
    (`IdleHoldsNothing`).
  - `RequestsAreHandledInOrder` (`HandledInOrder`), without faults. An older
    request that a worker may pop too is in the same place as a younger one, or
    settled: expired, handled, or in another worker's hand. `OrderInv` says so of
    what a pop has read (`ClaimsInOrder`) and of batches (`BatchInOrder`), and that
    a worker reports only what it has handled (`ReportsFollowHandlers`). The lemma
    behind it is `MatchedInOrder`: `ORDER BY created_at`, `limit * 3` and the cut
    to `limit` leave out no older row that matches, however ties fall.
- Then of the daemon, on the queue's invariant.
  - `DaemonInvariant`. A word
    travels from a handler to the daemon through the worker's hand, perhaps a
    delayed call, the row, and the status endpoint's reply; `DaemonInv` says of each
    of these places that the word there was said by a handler to that request
    (`VerdictSaid`, `PendingSaid`, `BodySaid`, `SeenSaid`, `ToldSaid`), and that who
    said "accepted" or "alive" served the location (`SaidWasServed`). From it
    `ResultsWereSaid` (`ToldWhatAWorkerSaid`), `DaemonTypes` and
    `StatusGoesWithBody`.
  - `FailuresAreCaused` (`FailuresHaveACause`), for workers with users of their
    own. `CauseInv`: as long as nothing has gone wrong no row failed, no call is
    late, and a worker that reports a failure is one whose complete call was
    refused, so that it no longer has the request and its fail call is refused too
    (`FaultFree`). With three agents two of which share a user the last step
    fails, and so does the property.
- **LauncherProofs.** `LauncherInvariant`: `LauncherInv` adds to types and
  `HandlesAreSound` what the thread's position says of its local variables:
  handles are of servers created for their location (`HandlesFit`), the thread
  waits only for a server of a wanted location without handle and tears down one
  whose handle it has popped (`ThreadWaits`),
  and until `stop()` tears servers down the loops' copies of the handles are up
  to date (`ThreadVisits`). From it `LauncherTypeOK`, `EndpointsAreOfHandles`
  and `HealthyStaysUp`; with `Tracked`, which says of every phase of `stop()`
  where a server that is alive may still be known, `ServersAreTracked`
  (`EveryServerIsTracked`) and `StopLeavesNothing` (`JoinedStopLeavesNothing`).
- **LauncherProofs, the refinement.** `LauncherImplementsPromise`:
  `Spec => KeepsItsPromise`,
  one lemma per action of the launcher, which is a step of the promise or a
  stutter. Besides `LauncherInv` and `Tracked` it takes that an endpoint is always
  that of the location's handle, during `stop()` too (`EndpointsHeld`), and that the
  loops visit servers that were created (`CopiesCreated`). A failed ping is a
  `Withdraw`, the end of the teardown a `Retire`. The same invariant
  gives `NoSecondServer`: the promise's `OneServerPerLocation` of the launcher's own
  servers.
- **LocationServersProofs.** `PromiseMeansOneServer`: any system that keeps the
  promise has one server per location, and endpoints of that location only.
- **AgentWorkspaceProofs.** `WorkspaceTypeOK` for any agents. For one agent,
  `FileGoesForward` (`FileNeverGoesBack`) and `FileKeepsUp` (`FileCatchesUp`), both
  if no heartbeat is delayed. The strengthening is `Past(l, x)`: `x` is no newer
  than what any agent serves for `l`, nor than the newest heartbeat that mentions
  it. What the file or the workspace shows, or a query has found, is past, what is
  past stays past under every step, and the query finds nothing older than what is
  past. With delayed heartbeats or two agents both are false.
- **CodeLocationsProofs.** `LocationsInvariant`: `LocationsInv` adds to types that
  a request was given values of its columns (`RequestsAreSound`), that no two rows
  have one name (`NamesAreUnique`) or an id that was never given (`IdsAreUsed`),
  that the id a request has read is still that of its location or of no row
  (`NameWasRead`, where ids do not return or requests come in turn), and that in
  turn all it has read is still so (`ReadIsCurrent`). From it `LocationsTypeOK`,
  `ErrorsAreOfTheLastReport`, `ColumnsChangeAsGiven` and `RowsChangeByName`.
- **AccountsProofs.**
  - `AccountsTypeOK`, `OwnersHold` (`RowsHaveTheirOwners`) and
    `RevocationLasts` (`RevokedStaysRevoked`). The inductive invariant `Types` adds
    to types what a request at each place has read (`Filled`): a commit inserts
    for a user id, revokes a key, drops a role it was given. `OwnersHold` is
    inductive with it: an insertion is checked at the commit, and a deletion goes
    through only if the rows and keys that were read are all there are.
  - `KeysAreUnique`: ids of rows and names of users stay unique, the tables'
    constraints, which the next two rest on.
  - `TurnInvariant`: as long as requests come in turn, one is at work
    (`OneAtWork`), what it has read is still so (`StillSo`), nobody has two global
    roles (`OneGlobalEach`) and rows have their owners, on SQLite too. Hence
    `OwnersHoldInTurn` (`RowsHaveTheirOwnersInTurn`).
  - `AdminsRemain` (`AdminsRemainInTurn`): who makes a request administers until it
    ends, and the request is not about to take that from him (`ActorStays`). One
    lemma per action says why: the view refuses the request's own maker, an edit
    of him keeps a role that administers, a role in use is not dropped; that his own
    form clears his `is_active` is one of the ways the property names.
- **OidcLoginProofs.**
  - `LoginInvariant`: `LoginInv` adds to types and `OnlyItsOwnFlow` what a callback
    has found out at each place (`RequestsAreFilled`), that a flow is in the cookie
    and the requests of the browser that began it only and was answered by its issuer
    (`FlowsAreTheirs`), and that no link outlives its account (`AccountsAreWhole`).
    Hence `LoginTypeOK` and `FlowsStayWithTheirBrowsers`. `NamesChangeByLogin`
    (`NamesChangeInTurn`) adds that a browser that sends one request at a time works
    on the session it holds (`SessionsAreCurrent`), so that an answer that sends it
    back unchanged changes nothing.
  - `LinksInvariant`: in turn what a callback has read of provider and links still
    holds (`InTurn`); where foreign keys are enforced a provider's id does not
    come back to it (`IdsStay`); so a link is that of an identity entitled to the
    account (`LinksAreEntitled`). From it `LinksNameTheirProviders`,
    `IdentitiesHaveOneAccount` and `AccountsAreEnteredByTheirOwn`.
- **GraphqlWsProofs.** `WsInvariant`, with `WsTypeOK` and
  `WorkingTasksCanBeStopped`. `WorkingTasksAreKnown` needs that what is listed under
  an id is of that id (`TasksAreOfTheirIds`) and that nothing takes an id while its
  subscription is set up (`StartingIsFree`).

Assumptions: those named in the modules, and those a theorem states. The modules'
give the kinds of the constants (servers of `AgentWorkspace` are numbers, in the
order of their start, other than `NoServer`; the marks `Keep` and `None` of
`CodeLocations` are no values of a column) and what is outside the code: `Yaml`
is a list of entries with a name each, a `sub` is unique within its issuer (OpenID
Connect says so). The theorems with assumptions of their own are
`ProcessingStaysHeld` (`Faults` within {"raise"}) and `RequestsAreHandledInOrder` (no
`Faults`), both with no request of an unknown API (`BadApi` is empty),
`FailuresAreCaused` (no two workers share an identity), `FileGoesForward` and
`FileKeepsUp` (one agent, no delayed heartbeat), and
`PromiseMeansOneServer` (`NoServer` is no server). The runs that check these
properties meet the same conditions; without them the properties are false (a request
whose handler raises has failed unhandled, a worker whose pop got lost holds
nothing it has claimed). No other fault is excluded.

Only model-checked is liveness (`EveryRequestIsAnswered`,
`TheAnswerIsLearnt`, `LeftOperationsEnd`, every `Converges`): fairness and ENABLED
are out of the prover's reach.

## 5. Not modelled

- *Snapshots*: rows are named by their content's hash, inserted and never changed
  or removed, and nothing in the repository calls the client's side. Two stores of
  one content at once may both find nothing, and the second insert fails.
- *Permission resolution per location*: `resolve_permissions_for_location` has no
  caller; what grants access to the portal and the daemon's endpoints is part of
  `Accounts` and `DaemonRequests`. `remove_role_from_location` has no caller either.
- *Heartbeat cleanup* deletes rows that no reader looks at any more.
- Routing, command line, static files, forms and layout, the HTTP endpoint of
  GraphQL, migrations, the vendored GraphiQL bundle, metrics, sentinel files and
  logs: they keep no state that outlives a request, or hold no logic of the program.

## 6. Plan

Done: the queue, the daemon, the launcher with its promise, the workspaces, the
code location table, accounts, login and the websocket; proofs of every safety
invariant and action property of theirs.

Left to prove:

1. What the queue promises the daemon, as an abstract specification of one request
   (asked, held, answered or expired), and the queue as an implementation of it,
   after the pattern of `LocationServers` and `Launcher`.
2. What a table of code locations promises its writers in turn, each commit one
   step of it.
3. Safety that stands behind the other liveness properties, after the pattern of
   `ForgottenIsStuck`: what a state without progress would have to look like.
