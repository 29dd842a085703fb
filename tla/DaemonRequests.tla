--------------------------- MODULE DaemonRequests ---------------------------
(***************************************************************************)
(* The daemon side of the agent work queue: a daemon enqueues requests     *)
(* over HTTP and polls for their answers (dagster_agent/daemon/client.py   *)
(* and run_coordinator.py, the endpoints enqueue-request and               *)
(* request-status of dagster_webserver/api/agent.py), while agents answer  *)
(* them from what their launcher serves (dagster_agent/agent.py).          *)
(*                                                                         *)
(* Every step of the queue is a step of AgentQueue; this module adds what  *)
(* the answers say and who comes to know it.  A poll is two steps: the row *)
(* the handler read may have changed when the daemon sees the reply.       *)
(***************************************************************************)
EXTENDS AgentQueue

CONSTANTS
  ApiOf,     \* the request_api of each request
  Daemons,   \* who the daemon's API key may belong to
  Reloads,   \* bound: how often locations come and go
  None

Apis  == {"LAUNCH_RUN", "PING_LOCATION", "TERMINATE_RUN", "CHECK_FOR_WORKSPACE_UPDATES",
          "OTHER"}
Roles == {"viewer", "launcher", "editor", "admin", "custom"}

ASSUME DaemonAssumption ==
  /\ ApiOf \in [Requests -> Apis]
  /\ \A d \in Daemons : /\ d.service \in BOOLEAN /\ d.role \in Roles
                        /\ d.grants \in BOOLEAN  \* a custom role grants something
                        /\ d.name # NoAgent
  /\ Reloads \in Nat

VARIABLES
  daemon,    \* the user the daemon's API key belongs to
  asker,     \* what the daemon is doing about each request
  seen,      \* what the status endpoint's handler has read for it
  body,      \* column response_body
  verdict,   \* the response each worker is about to report
  pending,   \* the responses of late calls
  serves,    \* workers whose launcher has an endpoint of the location
  reloads,   \* history: how often that changed
  said,      \* history: what the workers' handlers said to each request
  told       \* what the daemon was told

waiting    == <<daemon, asker, seen, told>>
responses  == <<body, verdict, pending, said>>
location   == <<serves, reloads>>
daemonVars == <<waiting, responses, location>>
allVars    == <<vars, daemonVars>>

Responses == {"accepted", "failed", "alive", "unavailable", "state", "no handler"}
Bodies    == Responses \cup {"error", None}
Denied    == [status |-> "denied", body |-> None]
Replies   == [status : Statuses, body : Bodies] \cup {Denied}

-----------------------------------------------------------------------------
(* The endpoints.                                                          *)

\* _check_location_access, of the location every request of the daemon names
HasLocationAccess(d) ==
  \/ d.service
  \/ d.role \in {"launcher", "editor", "admin"}
  \/ d.role = "custom" /\ d.grants

\* Slip: admins and editors are not told apart from others
OnlyItsAgentReads(r) == assigned[r] \in {NoAgent, daemon.name}

\* _get_request_status: anyone reads a row no agent has, then only its agent
\* and users whose global role is admin or editor
MayRead(r) ==
  assigned[r] \in {NoAgent, daemon.name} \/ daemon.role \in {"admin", "editor"}

StatusOf(r) == [status |-> status[r], body |-> body[r]]

\* Slip: the columns are written by different conditions
StoreAnyway(r, agent, response) == body' = [body EXCEPT ![r] = response]

\* the UPDATE writes the response with the status, or neither
Store(r, agent, response) ==
  body' = IF Accepted(r, agent) THEN [body EXCEPT ![r] = response] ELSE body

-----------------------------------------------------------------------------
(* The agent's handlers.                                                   *)

\* Slip: launches are acknowledged like terminations
EveryLaunchAccepted(r, w) ==
  IF ApiOf[r] = "PING_LOCATION" THEN "alive" ELSE "accepted"

\* A launch of a location the worker does not serve is answered, and so
\* "completed", with a body that says failed; a termination is acknowledged
\* whatever runs
Response(r, w) ==
  CASE ApiOf[r] = "LAUNCH_RUN"    -> IF w \in serves THEN "accepted" ELSE "failed"
    [] ApiOf[r] = "PING_LOCATION" -> IF w \in serves THEN "alive" ELSE "unavailable"
    [] ApiOf[r] = "TERMINATE_RUN" -> "accepted"
    [] ApiOf[r] = "CHECK_FOR_WORKSPACE_UPDATES" -> "state"
    [] OTHER -> "no handler"

Handles(w, r) ==
  /\ HandlerSucceeds(w, r)
  /\ verdict' = [verdict EXCEPT ![w] = Response(r, w)]
  /\ said' = [said EXCEPT ![r] = @ \cup {[by |-> w, response |-> Response(r, w),
                                           served |-> w \in serves]}]
  /\ UNCHANGED <<waiting, body, pending, location>>

\* complete_request carries the response, fail_request the exception's text
Completes(w) ==
  /\ CompleteDelivered(w) \/ CompleteReplyLost(w)
  /\ Store(cur[w], IdentityOf[w], verdict[w])
  /\ UNCHANGED <<waiting, verdict, pending, said, location>>

\* Slip: the response is not sent with the call
CompletesLateEmptyHanded(w) == CompleteDelayed(w) /\ UNCHANGED daemonVars

CompletesLate(w) ==
  /\ CompleteDelayed(w)
  /\ pending' = pending \cup {[call |-> Call("complete", w), response |-> verdict[w]]}
  /\ UNCHANGED <<waiting, body, verdict, said, location>>

Fails(w) ==
  /\ FailDelivered(w)
  /\ Store(cur[w], IdentityOf[w], "error")
  /\ UNCHANGED <<waiting, verdict, pending, said, location>>

FailsLate(w) ==
  /\ FailDelayed(w)
  /\ pending' = pending \cup {[call |-> Call("fail", w), response |-> "error"]}
  /\ UNCHANGED <<waiting, body, verdict, said, location>>

CallArrivesLate(p) ==
  /\ LateCall(p.call)
  /\ Store(p.call.req, p.call.agent, p.response)
  /\ pending' = {q \in pending : q.call # p.call}
  /\ UNCHANGED <<waiting, verdict, said, location>>

\* External: the launcher's reconciliation brings the location up or down
Reload(w) ==
  /\ reloads < Reloads
  /\ reloads' = reloads + 1
  /\ serves' = IF w \in serves THEN serves \ {w} ELSE serves \cup {w}
  /\ UNCHANGED <<vars, waiting, responses>>

\* What the rest of the queue does leaves all this alone
QueueStep ==
  /\ \/ RequeueStale
     \/ \E r \in Requests : Expire(r)
     \/ \E w \in Workers :
          \/ PopRead(w) \/ PopHandler(w) \/ PopAborted(w) \/ PopGiveUp(w) \/ Crash(w)
          \/ \E r \in Requests :
               BatchAbandoned(w, r) \/ HandlerRaises(w, r) \/ HandlerReturnsNone(w, r)
  /\ UNCHANGED daemonVars

-----------------------------------------------------------------------------
(* The daemon.                                                             *)

Becomes(r, state) == asker' = [asker EXCEPT ![r] = state]

\* enqueue_request answers with the id; AgentRunEnqueuer goes on to wait for it
Ask(r) ==
  /\ asker[r] = "none"
  /\ HasLocationAccess(daemon)
  /\ Enqueue(r)
  /\ Becomes(r, "asking")
  /\ UNCHANGED <<daemon, seen, told, responses, location>>

\* ... or its reply is lost: the caller sees an exception and knows no id
AskReplyLost(r) ==
  /\ asker[r] = "none"
  /\ HasLocationAccess(daemon)
  /\ Fault("loss")
  /\ Insert(r)
  /\ Becomes(r, "lost")
  /\ UNCHANGED <<assigned, expired, handlers, workerVars, late, handled>>
  /\ UNCHANGED <<daemon, seen, told, responses, location>>

\* 403, and nothing is enqueued
AskRefused(r) ==
  /\ asker[r] = "none"
  /\ ~HasLocationAccess(daemon)
  /\ Becomes(r, "refused")
  /\ UNCHANGED <<vars, daemon, seen, told, responses, location>>

\* One round of wait_for_response: the handler reads the row
Poll(r) ==
  /\ asker[r] \in {"asking", "waiting"}
  /\ seen' = [seen EXCEPT ![r] = IF MayRead(r) THEN StatusOf(r) ELSE Denied]
  /\ Becomes(r, "polling")
  /\ UNCHANGED <<vars, daemon, told, responses, location>>

\* ... and the daemon acts on what it read: a row that is answered ends the
\* wait, with a result or an exception, so does a 403; else it sleeps
Learn(r) ==
  /\ asker[r] = "polling"
  /\ seen' = [seen EXCEPT ![r] = None]
  /\ \/ /\ seen[r] = Denied
        /\ Becomes(r, "denied") /\ UNCHANGED told
     \/ /\ seen[r].status \in Answered
        /\ told' = [told EXCEPT ![r] = seen[r]]
        /\ Becomes(r, "told")
     \/ /\ seen[r].status \in Statuses \ Answered
        /\ Becomes(r, "waiting") /\ UNCHANGED told
  /\ UNCHANGED <<vars, daemon, responses, location>>

\* An error of the transport ends the wait as well
PollLost(r) ==
  /\ asker[r] = "polling"
  /\ Fault("loss")
  /\ seen' = [seen EXCEPT ![r] = None]
  /\ Becomes(r, "lost")
  /\ UNCHANGED <<rows, handlers, workerVars, late, handled, daemon, told, responses, location>>

\* TimeoutError between two rounds; the request stays where it is
TimeOut(r) ==
  /\ asker[r] = "waiting"
  /\ Becomes(r, "timeout")
  /\ UNCHANGED <<vars, daemon, seen, told, responses, location>>

-----------------------------------------------------------------------------
DaemonInit ==
  /\ Init
  /\ daemon \in Daemons
  /\ asker = [r \in Requests |-> "none"]
  /\ seen = [r \in Requests |-> None]
  /\ body = [r \in Requests |-> None]
  /\ verdict = [w \in Workers |-> None]
  /\ pending = {}
  /\ serves \in SUBSET Workers
  /\ reloads = 0
  /\ said = [r \in Requests |-> {}]
  /\ told = [r \in Requests |-> None]

DaemonStep(r) == Poll(r) \/ Learn(r)

DaemonNext ==
  \/ QueueStep
  \/ \E w \in Workers :
       \/ \E r \in Requests : Handles(w, r)
       \/ Completes(w) \/ CompletesLate(w) \/ Fails(w) \/ FailsLate(w) \/ Reload(w)
  \/ \E p \in pending : CallArrivesLate(p)
  \/ \E r \in Requests :
       \/ Ask(r) \/ AskReplyLost(r) \/ AskRefused(r)
       \/ DaemonStep(r) \/ PollLost(r) \/ TimeOut(r)

\* Agents work as in FairSpec; the daemon goes on polling until it gives up
AgentStep(w) ==
  \/ \E r \in Requests : Handles(w, r)
  \/ Completes(w) \/ Fails(w)
  \/ /\ PopRead(w) \/ \E r \in Requests : BatchAbandoned(w, r)
     /\ UNCHANGED daemonVars

DaemonSpec ==
  /\ DaemonInit /\ [][DaemonNext]_allVars
  /\ \A w \in Workers : WF_allVars(AgentStep(w))
  /\ \A w \in Workers : WF_allVars(PopHandler(w) /\ UNCHANGED daemonVars)
  /\ \A r \in Requests : WF_allVars(DaemonStep(r))

-----------------------------------------------------------------------------
(* Requirements.                                                           *)

\* Every variable has a value of its kind; the response of a call on its way
\* belongs to the call.
DaemonTypeOK ==
  /\ daemon \in Daemons
  /\ asker \in [Requests -> {"none", "asking", "polling", "waiting", "told", "denied",
                             "timeout", "lost", "refused"}]
  /\ seen \in [Requests -> Replies \cup {None}]
  /\ body \in [Requests -> Bodies]
  /\ verdict \in [Workers -> Responses \cup {None}]
  /\ {p.call : p \in pending} = late
  /\ serves \subseteq Workers
  /\ said \in [Requests -> SUBSET [by : Workers, response : Responses, served : BOOLEAN]]
  /\ told \in [Requests -> Replies \cup {None}]

\* What a daemon is told of a completed request is what a worker's handler said
\* to that very request, however the calls were lost, delayed or executed twice,
\* and a worker that said "accepted" or "alive" served the location then, unless
\* it was asked to terminate.
ToldWhatAWorkerSaid ==
  \A r \in Requests :
    told[r] # None /\ told[r].status = "completed" =>
      \E s \in said[r] :
        /\ s.response = told[r].body
        /\ s.response \in {"accepted", "alive"} /\ ApiOf[r] # "TERMINATE_RUN" => s.served

\* An exception of the handler is told as an exception and has a cause: a fault;
\* two agents that claim one request at the same time do not make it fail.
FailuresHaveACause ==
  \A r \in Requests :
    told[r] # None /\ told[r].status = "failed" => told[r].body = "error" /\ faults > 0

\* A completed row holds a response and a failed one an error, whichever call
\* came last.
StatusAndBodyAgree ==
  \A r \in Requests :
    /\ status[r] = "completed" => body[r] \in Responses
    /\ status[r] = "failed" => body[r] = "error"

\* Who may read every status comes to know the answer of a request that a worker
\* may pop: the wait ends with it, unless it times out first, the request
\* expires, its row is of no known api or a fault strikes.
TheAnswerIsLearnt ==
  \A r \in Requests :
    asker[r] = "asking" /\ (\E w \in Workers : LabelsMatch(r, w)) /\ BadApi = {}
      ~> \/ asker[r] \in {"told", "timeout"}
         \/ expired[r] \/ faults > 0
         \/ daemon.role \notin {"admin", "editor"}

=============================================================================
