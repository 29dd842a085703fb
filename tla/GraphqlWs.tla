----------------------------- MODULE GraphqlWs ------------------------------
(***************************************************************************)
(* One GraphQL-over-websocket connection (graphql_ws_endpoint,             *)
(* execute_graphql_subscription, _handle_async_results and _send_message   *)
(* in dagster_webserver/graphql.py).                                       *)
(*                                                                         *)
(* The endpoint's loop handles one message after another, waiting inside a *)
(* START for the subscription to be set up.  Each operation has a task of  *)
(* its own that sends what the operation yields.  Loop and tasks share the *)
(* websocket's two states and interleave at their awaits; a task that is   *)
(* cancelled sends nothing any more.                                       *)
(***************************************************************************)
EXTENDS Naturals, Sequences

CONSTANTS
  Ids,          \* operation ids the client uses
  Tasks,        \* bound: operations ever set up, in order
  MaxMessages,  \* bound: messages the client sends
  None

\* A START's query subscribes, is refused with GraphQL errors, or fails
\* otherwise; without a payload, as junk is, it is an exception of the loop
Messages ==
  [type : {"init", "terminate", "junk", "unknown"}, id : {None}, query : {None}]
  \cup [type : {"start"}, id : Ids, query : {"good", "bad", "failing"}]
  \cup [type : {"stop"}, id : Ids, query : {None}]

ASSUME WsAssumption ==
  /\ Tasks \subseteq Nat
  /\ MaxMessages \in Nat
  /\ None \notin Ids /\ None \notin Tasks /\ None \notin Messages

VARIABLES
  inbox,      \* what the client sent and the endpoint has not received
  messages,   \* history: how many that were
  gone,       \* whether the client has gone away
  app,        \* application_state is not DISCONNECTED
  client,     \* client_state is not DISCONNECTED
  pc,         \* where the endpoint is
  starting,   \* the START it is setting up
  tasks,      \* its local variable tasks
  task,       \* the tasks there are or were
  frames      \* history: the last frame each task has sent

states == <<app, client>>
vars == <<inbox, messages, gone, states, pc, starting, tasks, task, frames>>

Live   == {"running", "closing"}
Ended  == {"done", "cancelled"}
Unborn == [of |-> None, phase |-> "unborn"]

Init ==
  /\ inbox = <<>>
  /\ messages = 0
  /\ gone = FALSE
  /\ app = TRUE
  /\ client = TRUE
  /\ pc = "receiving"
  /\ starting = None
  /\ tasks = [i \in Ids |-> None]
  /\ task = [k \in Tasks |-> Unborn]
  /\ frames = [k \in Tasks |-> "none"]

-----------------------------------------------------------------------------
(* The client.                                                             *)

ClientSends ==
  /\ ~gone
  /\ messages < MaxMessages
  /\ messages' = messages + 1
  /\ \E m \in Messages : inbox' = Append(inbox, m)
  /\ UNCHANGED <<gone, states, pc, starting, tasks, task, frames>>

ClientGoes ==
  /\ ~gone
  /\ gone' = TRUE
  /\ UNCHANGED <<inbox, messages, states, pc, starting, tasks, task, frames>>

-----------------------------------------------------------------------------
(* The endpoint.                                                           *)

Connected == app /\ client

\* Cancelling a task that is done changes nothing
Cancel(ks) ==
  [k \in Tasks |-> IF k \in ks /\ task[k].phase \in Live
                   THEN [task[k] EXCEPT !.phase = "cancelled"] ELSE task[k]]

Tracked == {tasks[i] : i \in Ids} \ {None}

\* Slip: the finally clause does nothing
NothingIsLeft == {}

\* the tasks the finally clause cancels
LeftOver == Tracked

\* The loop is left, by its condition or an exception, through its finally
Leave ==
  /\ pc' = "ended"
  /\ starting' = None
  /\ task' = Cancel(LeftOver)
  /\ UNCHANGED tasks

\* Slip: what was being set up is not let go of
GoOnWithIt == pc' = "receiving" /\ UNCHANGED <<starting, tasks, task>>

\* ... or goes round: its condition holds
GoOn ==
  /\ pc' = "receiving"
  /\ starting' = None
  /\ UNCHANGED <<tasks, task>>

\* A send of the endpoint when the client may be gone: the server notices and
\* raises, which leaves the loop, or not yet
Sends ==
  \/ Connected /\ GoOn /\ UNCHANGED states
  \/ gone /\ app' = FALSE /\ Leave /\ UNCHANGED client

Receive(type) ==
  /\ pc = "receiving"
  /\ inbox # <<>>
  /\ Head(inbox).type = type
  /\ inbox' = Tail(inbox)
  /\ UNCHANGED <<messages, gone, frames>>

\* CONNECTION_ACK goes out unguarded: it raises if a task's send has found the
\* client gone while the endpoint was waiting for the message
ReceiveInit ==
  /\ Receive("init")
  /\ \/ app /\ Sends
     \/ ~app /\ Leave /\ UNCHANGED states

\* close() ends the loop, or raises if the websocket is closed already
ReceiveTerminate ==
  /\ Receive("terminate")
  /\ app' = FALSE
  /\ Leave
  /\ UNCHANGED client

\* Invalid JSON, no object, a START without payload: the exception propagates
ReceiveJunk ==
  /\ Receive("junk")
  /\ Leave
  /\ UNCHANGED states

\* The loop's condition is looked at after every message
NextRound ==
  /\ \/ Connected /\ GoOn
     \/ ~Connected /\ Leave
  /\ UNCHANGED states

ReceiveUnknown ==
  /\ Receive("unknown")
  /\ NextRound

\* Ignore if same operation id attempts to get restarted: tasks keeps those
\* that are done
MayStart(i) == tasks[i] = None

ReceiveStart ==
  /\ Receive("start")
  /\ LET m == Head(inbox)
     IN \/ /\ MayStart(m.id)
           /\ pc' = "subscribing"
           /\ starting' = m
           /\ UNCHANGED <<states, tasks, task>>
        \/ ~MayStart(m.id) /\ NextRound

\* Slip: a STOP forgets the task and leaves it running
Forgotten(i) == task

\* task.cancel()
Stopped(i) == Cancel({tasks[i]})

ReceiveStop ==
  /\ Receive("stop")
  /\ LET i == Head(inbox).id
     IN \/ tasks[i] = None /\ NextRound
        \/ /\ tasks[i] # None
           /\ tasks' = [tasks EXCEPT ![i] = None]
           /\ IF Connected
              THEN /\ pc' = "receiving" /\ task' = Stopped(i)
              ELSE /\ pc' = "ended"
                   /\ task' = [k \in Tasks |->
                        IF k = tasks[i] THEN Stopped(i)[k] ELSE Cancel(LeftOver)[k]]
           /\ UNCHANGED <<states, starting>>

Subscribe(query) ==
  /\ pc = "subscribing"
  /\ starting.query = query
  /\ UNCHANGED <<inbox, messages, gone, frames>>

\* execute_graphql_subscription returns: the task is created and remembered
\* without an await between, and cancelled before it has run if the loop ends
SubscribeSucceeds ==
  /\ Subscribe("good")
  /\ \E k \in Tasks :
       /\ task[k] = Unborn
       /\ \A j \in Tasks : j < k => task[j] # Unborn
       /\ tasks' = [tasks EXCEPT ![starting.id] = k]
       /\ task' = IF Connected
                   THEN [task EXCEPT ![k] = [of |-> starting.id, phase |-> "running"]]
                   ELSE [Cancel(LeftOver) EXCEPT
                           ![k] = [of |-> starting.id, phase |-> "cancelled"]]
  /\ pc' = IF Connected THEN "receiving" ELSE "ended"
  /\ starting' = None
  /\ UNCHANGED states

\* ... or returns errors: an ERROR frame, guarded by both states
SubscribeRefused ==
  /\ Subscribe("bad")
  /\ \/ Sends
     \/ ~Connected /\ Leave /\ UNCHANGED states

\* ... or raises something else
SubscribeFails ==
  /\ Subscribe("failing")
  /\ Leave
  /\ UNCHANGED states

\* receive_json raises WebSocketDisconnect once all messages are received
ReceiveDisconnect ==
  /\ pc = "receiving"
  /\ gone
  /\ inbox = <<>>
  /\ client' = FALSE
  /\ Leave
  /\ UNCHANGED <<inbox, messages, gone, app, frames>>

-----------------------------------------------------------------------------
(* The tasks.                                                              *)

\* _send_message in a task: guarded by both states; with the client gone it may
\* raise, after which the websocket counts as closed
Send(k, frame, after, ifItRaises) ==
  /\ task[k].phase \in Live
  /\ \/ /\ Connected
        /\ frames' = [frames EXCEPT ![k] = frame]
        /\ task' = [task EXCEPT ![k].phase = after]
        /\ UNCHANGED app
     \/ /\ ~Connected
        /\ task' = [task EXCEPT ![k].phase = after]
        /\ UNCHANGED <<frames, app>>
     \/ /\ Connected /\ gone
        /\ app' = FALSE
        /\ task' = [task EXCEPT ![k].phase = ifItRaises]
        /\ UNCHANGED frames
  /\ UNCHANGED <<inbox, messages, gone, client, pc, starting, tasks>>

\* A result; an exception of the send is caught, and its report is not sent any
\* more for the websocket is closed
Yields(k) ==
  /\ task[k].phase = "running"
  /\ Send(k, "data", "running", "closing")

\* The operation raises: its errors are sent as DATA
Raises(k) ==
  /\ task[k].phase = "running"
  /\ Send(k, "errors", "closing", "done")

\* The operation has no more results
Exhausts(k) ==
  /\ task[k].phase = "running"
  /\ task' = [task EXCEPT ![k].phase = "closing"]
  /\ UNCHANGED <<inbox, messages, gone, states, pc, starting, tasks, frames>>

Completes(k) ==
  /\ task[k].phase = "closing"
  /\ Send(k, "complete", "done", "done")

-----------------------------------------------------------------------------
Endpoint ==
  \/ ReceiveInit \/ ReceiveTerminate \/ ReceiveJunk \/ ReceiveUnknown
  \/ ReceiveStart \/ ReceiveStop \/ ReceiveDisconnect
  \/ SubscribeSucceeds \/ SubscribeRefused \/ SubscribeFails

Next ==
  \/ ClientSends \/ ClientGoes
  \/ Endpoint
  \/ \E k \in Tasks : Yields(k) \/ Raises(k) \/ Exhausts(k) \/ Completes(k)

\* The event loop runs what can run and subscriptions get set up; no operation
\* has to end, no client has to go away
Spec ==
  /\ Init /\ [][Next]_vars
  /\ WF_vars(Endpoint)
  /\ \A k \in Tasks : WF_vars(Completes(k))

-----------------------------------------------------------------------------
(* Requirements.                                                           *)

\* Every variable has a value of its kind.
TypeOK ==
  /\ inbox \in Seq(Messages)
  /\ messages \in Nat
  /\ gone \in BOOLEAN /\ app \in BOOLEAN /\ client \in BOOLEAN
  /\ pc \in {"receiving", "subscribing", "ended"}
  /\ starting \in Messages \cup {None}
  /\ starting # None <=> pc = "subscribing"
  /\ tasks \in [Ids -> Tasks \cup {None}]
  /\ task \in [Tasks -> {Unborn} \cup [of : Ids, phase : Live \cup Ended]]
  /\ frames \in [Tasks -> {"none", "data", "errors", "complete"}]

\* A task that works can be stopped: the endpoint knows it under its id, so there
\* is one for an id, however STARTs and STOPs are repeated and whatever sends
\* fail meanwhile, and once the endpoint has returned nothing works.
WorkingTasksAreKnown ==
  \A k \in Tasks : task[k].phase \in Live => pc # "ended" /\ tasks[task[k].of] = k

\* A client's operations that are set up after it went away, or go on, come to
\* an end: their tasks do not work for nobody for ever.
LeftOperationsEnd ==
  \A k \in Tasks : task[k].phase \in Live /\ gone ~> task[k].phase \in Ended

=============================================================================
