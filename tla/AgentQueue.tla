----------------------------- MODULE AgentQueue -----------------------------
(***************************************************************************)
(* The agent work queue: the table agent_requests, the handlers of the     *)
(* webserver that change it (dagster_webserver/database/agent_queries.py   *)
(* behind dagster_webserver/api/agent.py), the background task that        *)
(* requeues stale requests, and the agent processes that pop requests,     *)
(* dispatch them and report the outcome (dagster_agent/agent.py).          *)
(*                                                                         *)
(* A pop is two steps, the SELECT and the commit of the claim, because the *)
(* handler awaits between them and nothing locks the rows.  A complete or  *)
(* fail call is one UPDATE; it may be executed and its reply lost, or be   *)
(* executed after the agent has given up on it.                            *)
(***************************************************************************)
EXTENDS Naturals, FiniteSets

CONSTANTS
  Requests,       \* request ids (uuid4, never reused)
  Workers,        \* agent processes
  Identities,     \* authenticated user names of agents
  IdentityOf,     \* the user whose API key each worker sends
  RequestLabels,  \* labels of each request, as a set of key=value pairs
  WorkerLabels,   \* labels in each worker's configuration
  BadApi,         \* requests whose request_api is not a DagsterAgentApi
  Limit,          \* the limit a worker sends with a pop (10 in the code)
  RequeueLoop,    \* whether stale_request_requeue_loop is running
  Faults,         \* the kinds of fault that may occur
  MaxFaults,      \* bound: how many faults a behaviour has
  NoAgent,        \* NULL in the column assigned_to_agent
  NoRequest       \* a worker is processing no request

FaultKinds == {"crash", "loss", "delay", "raise", "none"}

ASSUME QueueAssumption ==
  /\ IsFiniteSet(Requests)   \* there are finitely many uuids
  /\ IdentityOf \in [Workers -> Identities]
  /\ NoAgent \notin Identities
  /\ NoRequest \notin Requests
  /\ BadApi \subseteq Requests
  /\ Limit \in Nat \ {0}
  /\ RequeueLoop \in BOOLEAN
  /\ Faults \subseteq FaultKinds
  /\ MaxFaults \in Nat

VARIABLES
  status,    \* column status; "absent" before the row exists
  assigned,  \* column assigned_to_agent
  born,      \* column created_at; 0 before the row exists
  expired,   \* whether expires_at has passed
  popping,   \* workers whose pop handler has read and not yet committed
  claims,    \* the rows such a handler is about to claim
  pc,        \* where each worker is in its polling loop
  batch,     \* the popped requests a worker has still to process
  cur,       \* the request a worker is processing
  late,      \* calls their sender gave up on that may still be executed
  handled,   \* history: workers whose handler of the request succeeded
  faults     \* history: faults so far

rows       == <<status, assigned, born, expired>>
handlers   == <<popping, claims>>
workerVars == <<pc, batch, cur>>
vars == <<rows, handlers, workerVars, late, handled, faults>>

Statuses == {"absent", "pending", "processing", "completed", "failed"}
Answered == {"completed", "failed"}
Calls    == [op : {"complete", "fail"}, req : Requests, agent : Identities]

-----------------------------------------------------------------------------
(* The queries.                                                            *)

Before(q, r) == born[q] < born[r]

\* _labels_match: unlabelled requests match every agent
LabelsMatch(r, w) ==
  RequestLabels[r] = {} \/ WorkerLabels[w] \subseteq RequestLabels[r]

Poppable == {r \in Requests : status[r] = "pending" /\ ~expired[r]}

\* What ORDER BY created_at LIMIT n may yield: rows with the same created_at
\* come in any order
Oldest(S, n) ==
  {T \in SUBSET S :
     /\ \A r \in T, q \in S \ T : ~Before(q, r)
     /\ Cardinality(T) = IF Cardinality(S) < n THEN Cardinality(S) ELSE n}

\* Slip: no over-fetch for the label filter
FetchedWithoutSurplus == Oldest(Poppable, Limit)

\* the SELECT
Fetched == Oldest(Poppable, Limit * 3)

\* the first Limit rows fetched whose labels match
Matched(w) ==
  UNION {Oldest({r \in C : LabelsMatch(r, w)}, Limit) : C \in Fetched}

\* Slip: the comparison the wrong way round
StaleBeforeTheTTL == {r \in Requests : status[r] = "processing" /\ ~expired[r]}

Stale == {r \in Requests : status[r] = "processing" /\ expired[r]}

\* complete_request and fail_request: the row id and the agent are the only
\* conditions of the UPDATE
Accepted(r, agent) == assigned[r] = agent

Answer(r, agent, outcome) ==
  status' = IF Accepted(r, agent) THEN [status EXCEPT ![r] = outcome]
            ELSE status

\* Slip: the name of the call is stored as the status
OutcomeNamedAsCall(op) == op

Outcome(op) == IF op = "complete" THEN "completed" ELSE "failed"

-----------------------------------------------------------------------------
(* The webserver.                                                          *)

Init ==
  /\ status   = [r \in Requests |-> "absent"]
  /\ assigned = [r \in Requests |-> NoAgent]
  /\ born     = [r \in Requests |-> 0]
  /\ expired  = [r \in Requests |-> FALSE]
  /\ popping  = {}
  /\ claims   = [w \in Workers |-> {}]
  /\ pc       = [w \in Workers |-> "idle"]
  /\ batch    = [w \in Workers |-> {}]
  /\ cur      = [w \in Workers |-> NoRequest]
  /\ late     = {}
  /\ handled  = [r \in Requests |-> {}]
  /\ faults   = 0

\* A fault of an enabled kind, counted against the bound
Fault(kind) ==
  /\ kind \in Faults
  /\ faults < MaxFaults
  /\ faults' = faults + 1

\* created_at is func.now(): rows inserted in one second may share it
Insert(r) ==
  /\ status[r] = "absent"
  /\ status' = [status EXCEPT ![r] = "pending"]
  /\ \E now \in 1..Cardinality(Requests) :
       /\ \A q \in Requests : born[q] <= now
       /\ now = 1 \/ \E q \in Requests : born[q] >= now - 1
       /\ born' = [born EXCEPT ![r] = now]

\* enqueue_request; the endpoint does not look at what request_api says
Enqueue(r) ==
  /\ Insert(r)
  /\ UNCHANGED <<assigned, expired, handlers, workerVars, late, handled, faults>>

\* The TTL runs out; no code ever moves expires_at
Expire(r) ==
  /\ status[r] # "absent"
  /\ ~expired[r]
  /\ expired' = [expired EXCEPT ![r] = TRUE]
  /\ UNCHANGED <<status, assigned, born, handlers, workerVars, late, handled, faults>>

\* pop_requests up to the await: the SELECT and the label filter
PopRead(w) ==
  /\ pc[w] = "idle"
  /\ w \notin popping
  /\ popping' = popping \cup {w}
  /\ \E rs \in Matched(w) : claims' = [claims EXCEPT ![w] = rs]
  /\ pc' = [pc EXCEPT ![w] = "waiting"]
  /\ UNCHANGED <<rows, batch, cur, late, handled, faults>>

\* pop_requests from the await on: the ORM flushes UPDATEs by primary key,
\* whatever the rows hold by now, and commits
Claim(w) ==
  /\ w \in popping
  /\ status' = [r \in Requests |->
       IF r \in claims[w] THEN "processing" ELSE status[r]]
  /\ assigned' = [r \in Requests |->
       IF r \in claims[w] THEN IdentityOf[w] ELSE assigned[r]]
  /\ popping' = popping \ {w}
  /\ claims' = [claims EXCEPT ![w] = {}]
  /\ UNCHANGED <<born, expired>>

PopDelivered(w) ==
  /\ pc[w] = "waiting"
  /\ Claim(w)
  /\ batch' = [batch EXCEPT ![w] = claims[w]]
  /\ pc' = [pc EXCEPT ![w] = IF claims[w] = {} THEN "idle" ELSE "working"]
  /\ UNCHANGED <<cur, late, handled, faults>>

\* The claim is committed and the worker never sees the batch
PopReplyLost(w) ==
  /\ Claim(w)
  /\ \/ pc[w] = "waiting" /\ Fault("loss")
     \/ pc[w] # "waiting" /\ UNCHANGED faults   \* it had given up before
  /\ pc' = [pc EXCEPT ![w] = "idle"]
  /\ UNCHANGED <<batch, cur, late, handled>>

\* The handler dies or the database refuses the commit: rolled back
PopAborted(w) ==
  /\ w \in popping
  /\ Fault("loss")
  /\ popping' = popping \ {w}
  /\ claims' = [claims EXCEPT ![w] = {}]
  /\ pc' = [pc EXCEPT ![w] = "idle"]
  /\ UNCHANGED <<rows, batch, cur, late, handled>>

\* Slip: the agent of a requeued row is not cleared
RequeueKeepsAgent ==
  /\ RequeueLoop
  /\ Stale # {}
  /\ status' = [r \in Requests |->
       IF r \in Stale THEN "pending" ELSE status[r]]
  /\ UNCHANGED <<assigned, born, expired, handlers, workerVars, late, handled, faults>>

\* requeue_stale_requests: one UPDATE of every stale row
RequeueStale ==
  /\ RequeueLoop
  /\ Stale # {}
  /\ status' = [r \in Requests |->
       IF r \in Stale THEN "pending" ELSE status[r]]
  /\ assigned' = [r \in Requests |->
       IF r \in Stale THEN NoAgent ELSE assigned[r]]
  /\ UNCHANGED <<born, expired, handlers, workerVars, late, handled, faults>>

\* A call its sender has given up on reaches the database after all
LateCall(m) ==
  /\ m \in late
  /\ late' = late \ {m}
  /\ Answer(m.req, m.agent, Outcome(m.op))
  /\ UNCHANGED <<assigned, born, expired, handlers, workerVars, handled, faults>>

-----------------------------------------------------------------------------
(* The polling loop of an agent.                                           *)

\* The HTTP client times out while the handler is still at work
PopGiveUp(w) ==
  /\ pc[w] = "waiting"
  /\ Fault("loss")
  /\ pc' = [pc EXCEPT ![w] = "idle"]
  /\ UNCHANGED <<rows, handlers, batch, cur, late, handled>>

\* Slip: the batch is iterated in no particular order
TakesAny(w, r) == pc[w] = "working" /\ r \in batch[w]

\* The loop variable moves on to the oldest request left in the batch
Takes(w, r) ==
  /\ pc[w] = "working"
  /\ r \in batch[w]
  /\ \A q \in batch[w] : ~Before(q, r)

\* done with r: the next request of the batch, or the sleep between polls
Advance(w, r) ==
  /\ batch' = [batch EXCEPT ![w] = @ \ {r}]
  /\ cur' = [cur EXCEPT ![w] = NoRequest]
  /\ pc' = [pc EXCEPT ![w] = IF batch[w] \ {r} = {} THEN "idle" ELSE "working"]

Process(w, r, next) ==
  /\ cur' = [cur EXCEPT ![w] = r]
  /\ pc' = [pc EXCEPT ![w] = next]
  /\ UNCHANGED batch

\* _dispatch_request returns a response
HandlerSucceeds(w, r) ==
  /\ Takes(w, r)
  /\ r \notin BadApi
  /\ handled' = [handled EXCEPT ![r] = @ \cup {w}]
  /\ Process(w, r, "completing")
  /\ UNCHANGED <<rows, handlers, late, faults>>

\* Slip: an exception of the handler is taken for its response
HandlerRaisesUnnoticed(w, r) ==
  /\ Takes(w, r)
  /\ r \notin BadApi
  /\ Fault("raise")
  /\ Process(w, r, "completing")
  /\ UNCHANGED <<rows, handlers, late, handled>>

\* _dispatch_request raises
HandlerRaises(w, r) ==
  /\ Takes(w, r)
  /\ r \notin BadApi
  /\ Fault("raise")
  /\ Process(w, r, "failing")
  /\ UNCHANGED <<rows, handlers, late, handled>>

\* A registered handler returns None: nothing is reported
HandlerReturnsNone(w, r) ==
  /\ Takes(w, r)
  /\ r \notin BadApi
  /\ Fault("none")
  /\ handled' = [handled EXCEPT ![r] = @ \cup {w}]
  /\ Advance(w, r)
  /\ UNCHANGED <<rows, handlers, late>>

\* Slip: nothing in the loop body is guarded by the try block
BatchAbandonedAtWill(w, r) ==
  /\ Takes(w, r)
  /\ batch' = [batch EXCEPT ![w] = {}]
  /\ pc' = [pc EXCEPT ![w] = "idle"]
  /\ UNCHANGED <<rows, handlers, cur, late, handled, faults>>

\* AgentRequest(...) raises outside the try block: the polling loop logs it
\* and the rest of the batch is forgotten
BatchAbandoned(w, r) ==
  /\ Takes(w, r)
  /\ r \in BadApi
  /\ batch' = [batch EXCEPT ![w] = {}]
  /\ pc' = [pc EXCEPT ![w] = "idle"]
  /\ UNCHANGED <<rows, handlers, cur, late, handled, faults>>

\* complete_request is answered; a 404 raises and the worker reports failure
CompleteDelivered(w) ==
  /\ pc[w] = "completing"
  /\ Answer(cur[w], IdentityOf[w], "completed")
  /\ \/ Accepted(cur[w], IdentityOf[w]) /\ Advance(w, cur[w])
     \/ /\ ~Accepted(cur[w], IdentityOf[w])
        /\ Process(w, cur[w], "failing")
  /\ UNCHANGED <<assigned, born, expired, handlers, late, handled, faults>>

\* complete_request is executed and its reply lost
CompleteReplyLost(w) ==
  /\ pc[w] = "completing"
  /\ Fault("loss")
  /\ Answer(cur[w], IdentityOf[w], "completed")
  /\ Process(w, cur[w], "failing")
  /\ UNCHANGED <<assigned, born, expired, handlers, late, handled>>

Call(op, w) == [op |-> op, req |-> cur[w], agent |-> IdentityOf[w]]

\* complete_request is still on its way when the worker gives up on it
CompleteDelayed(w) ==
  /\ pc[w] = "completing"
  /\ Fault("delay")
  /\ late' = late \cup {Call("complete", w)}
  /\ Process(w, cur[w], "failing")
  /\ UNCHANGED <<rows, handlers, handled>>

\* fail_request is executed; whatever it returns or raises is swallowed
FailDelivered(w) ==
  /\ pc[w] = "failing"
  /\ Answer(cur[w], IdentityOf[w], "failed")
  /\ Advance(w, cur[w])
  /\ UNCHANGED <<assigned, born, expired, handlers, late, handled, faults>>

FailDelayed(w) ==
  /\ pc[w] = "failing"
  /\ Fault("delay")
  /\ late' = late \cup {Call("fail", w)}
  /\ Advance(w, cur[w])
  /\ UNCHANGED <<rows, handlers, handled>>

\* The agent process dies and a new one polls in its place
Crash(w) ==
  /\ pc[w] # "idle"
  /\ Fault("crash")
  /\ pc' = [pc EXCEPT ![w] = "idle"]
  /\ batch' = [batch EXCEPT ![w] = {}]
  /\ cur' = [cur EXCEPT ![w] = NoRequest]
  /\ UNCHANGED <<rows, handlers, late, handled>>

-----------------------------------------------------------------------------
(* What a worker does next when no fault strikes.                          *)
WorkerStep(w) ==
  \/ PopRead(w)
  \/ \E r \in Requests : HandlerSucceeds(w, r) \/ BatchAbandoned(w, r)
  \/ CompleteDelivered(w)
  \/ FailDelivered(w)

PopHandler(w) == PopDelivered(w) \/ PopReplyLost(w)

FaultStep(w) ==
  \/ PopAborted(w)
  \/ PopGiveUp(w)
  \/ \E r \in Requests : HandlerRaises(w, r) \/ HandlerReturnsNone(w, r)
  \/ CompleteReplyLost(w)
  \/ CompleteDelayed(w)
  \/ FailDelayed(w)
  \/ Crash(w)

Next ==
  \/ \E r \in Requests : Enqueue(r) \/ Expire(r)
  \/ \E w \in Workers : WorkerStep(w) \/ PopHandler(w) \/ FaultStep(w)
  \/ RequeueStale
  \/ \E m \in late : LateCall(m)

Spec == Init /\ [][Next]_vars

\* Workers keep polling and finish what they started, and handlers finish.
\* Nobody has to enqueue, no fault has to strike, a late call may get lost, and
\* the background task need not run.
Fairness == \A w \in Workers : WF_vars(WorkerStep(w)) /\ WF_vars(PopHandler(w))

\* Every TTL runs out some day, and the background task runs every 30 seconds
\* where it was started
TimePasses == WF_vars(RequeueStale) /\ \A r \in Requests : WF_vars(Expire(r))

FairSpec  == Spec /\ Fairness
TimedSpec == Spec /\ Fairness /\ TimePasses

-----------------------------------------------------------------------------
(* Requirements.                                                           *)

\* Every variable has a value of its kind.
TypeOK ==
  /\ status \in [Requests -> Statuses]
  /\ assigned \in [Requests -> Identities \cup {NoAgent}]
  /\ born \in [Requests -> Nat]
  /\ expired \in [Requests -> BOOLEAN]
  /\ popping \subseteq Workers
  /\ claims \in [Workers -> SUBSET Requests]
  /\ pc \in [Workers -> {"idle", "waiting", "working", "completing", "failing"}]
  /\ batch \in [Workers -> SUBSET Requests]
  /\ cur \in [Workers -> Requests \cup {NoRequest}]
  /\ late \subseteq Calls
  /\ handled \in [Requests -> SUBSET Workers]
  /\ faults \in Nat

\* A row has an agent exactly while it is claimed or answered: requeueing
\* takes the agent away, so its answer, however late, is then refused, and
\* no row is ever answered by an agent it was not assigned to.  The status
\* endpoint decides by this column who may read the answer.
AssignmentMatchesStatus ==
  \A r \in Requests :
    assigned[r] # NoAgent <=> status[r] \in {"processing"} \cup Answered

\* A request reads "completed" only if a worker of the very agent it is
\* assigned to ran its handler to the end, whatever was lost, delayed,
\* requeued or claimed twice on the way.
CompletedWasHandled ==
  \A r \in Requests :
    status[r] = "completed" =>
      \E w \in handled[r] : IdentityOf[w] = assigned[r]

\* An answered request never goes back to the queue: the requeueing task
\* leaves it alone even after its TTL, so its work is not handed out again.
AnsweredNeverRequeued ==
  [][\A r \in Requests :
       status[r] \in Answered => status'[r] \in Answered \cup {"processing"}]_status

\* Without faults a request in processing is in the hands of a worker of
\* the agent it is assigned to, even when two pops claimed it at once.
ProcessingIsHeld ==
  \A r \in Requests :
    status[r] = "processing" =>
      \E w \in Workers : r \in batch[w] /\ IdentityOf[w] = assigned[r]

\* Without faults requests are handled in the order of their created_at: when
\* a worker handles a request, an older one it may pop has expired, has been
\* handled, or is in the hands of another worker.
HandledInOrder ==
  \A q, r \in Requests, w \in Workers :
    (w \in handled[q] /\ status[r] # "absent" /\ Before(r, q) /\ LabelsMatch(r, w))
      => \/ expired[r]
         \/ handled[r] # {}
         \/ \E v \in Workers \ {w} : r \in batch[v]

\* A request some agent may pop is answered, unless its TTL runs out first:
\* requests nobody may pop, fewer than limit * 3, do not keep it waiting.
EveryRequestIsAnswered ==
  \A r \in {q \in Requests : \E w \in Workers : LabelsMatch(q, w)} :
    status[r] # "absent" ~> (status[r] \in Answered \/ expired[r])

\* no worker has r or is about to get it, and no report on it that would
\* count is on its way
Forgotten(r) ==
  /\ status[r] = "processing" \/ (status[r] = "pending" /\ expired[r])
  /\ \A w \in Workers : r \notin batch[w] \cup claims[w]
  /\ \A m \in late : m.req = r => m.agent # assigned[r]

\* A claimed request that all workers have forgotten, after a crash, a lost
\* batch, a bad api or a handler without an answer, is stuck for good: it is
\* never handed out and never answered, with the requeueing task (which keeps
\* a TTL that is over) as without it.
ForgottenStaysForgotten ==
  [][\A r \in Requests : Forgotten(r) => Forgotten(r)']_vars

\* A request whose agent crashed is requeued for another agent to pick up
\* (the requeueing task), so it does not stay unanswered.
RequeuedIsPickedUp ==
  \A r \in Requests :
    (status[r] = "processing" /\ expired[r]) ~> status[r] \in Answered

=============================================================================
