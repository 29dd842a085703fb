--------------------------- MODULE GraphqlWsProofs ---------------------------
(***************************************************************************)
(* Theorems about GraphqlWs for any operation ids, any number of           *)
(* operations and messages: type correctness, and that every working task  *)
(* is one the endpoint can stop.                                           *)
(***************************************************************************)
EXTENDS GraphqlWs, TLAPS

(***************************************************************************)
(* What the endpoint remembers under an id is a task of that id.  Without  *)
(* it a STOP might cancel the task of another operation.                   *)
(***************************************************************************)
TasksAreOfTheirIds ==
  \A i \in Ids : tasks[i] # None => task[tasks[i]].of = i

(***************************************************************************)
(* While a subscription is set up nothing takes its id: the check of       *)
(* MayStart still holds when the task is remembered.                       *)
(***************************************************************************)
StartingIsFree ==
  starting # None =>
    /\ starting.type = "start"
    /\ starting.id \in Ids
    /\ tasks[starting.id] = None

WsInv ==
  /\ TypeOK
  /\ WorkingTasksAreKnown
  /\ TasksAreOfTheirIds
  /\ StartingIsFree

USE WsAssumption

-----------------------------------------------------------------------------
(* Messages and tasks.                                                     *)

LEMMA MessageKinds ==
  ASSUME NEW m \in Messages
  PROVE  /\ m # None
         /\ m.type = "start" => m.id \in Ids
         /\ m.type = "stop" => m.id \in Ids
BY DEF Messages

LEMMA Received ==
  ASSUME TypeOK, NEW type, Receive(type)
  PROVE  /\ Head(inbox) \in Messages
         /\ Head(inbox).type = type
         /\ inbox' \in Seq(Messages)
         /\ pc = "receiving"
BY DEF TypeOK, Receive

\* A task that was live and is not among those cancelled is left as it is.
LEMMA CancelType ==
  ASSUME TypeOK, NEW ks
  PROVE  /\ Cancel(ks) \in [Tasks -> {Unborn} \cup [of : Ids, phase : Live \cup Ended]]
         /\ \A k \in Tasks : Cancel(ks)[k].of = task[k].of
         /\ \A k \in Tasks : Cancel(ks)[k].phase \in Live =>
              task[k].phase \in Live /\ k \notin ks
<1>1. ASSUME NEW k \in Tasks
      PROVE  /\ Cancel(ks)[k] \in {Unborn} \cup [of : Ids, phase : Live \cup Ended]
             /\ Cancel(ks)[k].of = task[k].of
             /\ Cancel(ks)[k].phase \in Live => task[k].phase \in Live /\ k \notin ks
  <2>1. task[k] \in {Unborn} \cup [of : Ids, phase : Live \cup Ended]
    BY DEF TypeOK
  <2>2. CASE k \in ks /\ task[k].phase \in Live
    BY <2>1, <2>2 DEF Cancel, Unborn, Live, Ended
  <2>3. CASE ~(k \in ks /\ task[k].phase \in Live)
    BY <2>1, <2>3 DEF Cancel
  <2>4. QED
    BY <2>2, <2>3
<1>2. QED
  BY <1>1 DEF Cancel

\* Once the loop is left no task works: those that did were remembered.
LEMMA LeavingStopsAll ==
  ASSUME WsInv
  PROVE  \A k \in Tasks : Cancel(LeftOver)[k].phase \notin Live
<1>1. ASSUME NEW k \in Tasks, Cancel(LeftOver)[k].phase \in Live PROVE FALSE
  <2>1. task[k].phase \in Live /\ k \notin LeftOver
    BY <1>1, CancelType DEF WsInv
  <2>2. task[k].of \in Ids
    BY <2>1 DEF WsInv, TypeOK, Unborn, Live
  <2>3. tasks[task[k].of] = k
    BY <2>1 DEF WsInv, WorkingTasksAreKnown
  <2>4. k \in LeftOver
    BY <2>2, <2>3 DEF LeftOver, Tracked
  <2>5. QED
    BY <2>1, <2>4
<1>2. QED
  BY <1>1

-----------------------------------------------------------------------------
(* The ways a step of the endpoint ends.                                   *)

\* the variables no invariant relates to others
PlainOK ==
  /\ inbox \in Seq(Messages)
  /\ messages \in Nat
  /\ gone \in BOOLEAN /\ app \in BOOLEAN /\ client \in BOOLEAN
  /\ frames \in [Tasks -> {"none", "data", "errors", "complete"}]

LEMMA AfterLeaving ==
  ASSUME WsInv, Leave, PlainOK'
  PROVE  WsInv'
<1>1. TypeOK'
  BY CancelType DEF WsInv, TypeOK, Leave, PlainOK
<1>2. WorkingTasksAreKnown'
  BY LeavingStopsAll DEF Leave, WorkingTasksAreKnown
<1>3. TasksAreOfTheirIds'
  <2>1. \A k \in Tasks : task'[k].of = task[k].of
    <3>1. TypeOK /\ task' = Cancel(LeftOver)
      BY DEF WsInv, Leave
    <3>2. QED
      BY <3>1, CancelType
  <2>2. \A i \in Ids : tasks[i] # None => tasks[i] \in Tasks
    BY DEF WsInv, TypeOK
  <2>3. QED
    BY <2>1, <2>2 DEF WsInv, Leave, TasksAreOfTheirIds
<1>4. StartingIsFree'
  BY DEF Leave, StartingIsFree
<1>5. QED
  BY <1>1, <1>2, <1>3, <1>4 DEF WsInv

LEMMA AfterGoingOn ==
  ASSUME WsInv, GoOn, PlainOK'
  PROVE  WsInv'
<1>1. TypeOK'
  BY DEF WsInv, TypeOK, GoOn, PlainOK
<1>2. WorkingTasksAreKnown' /\ TasksAreOfTheirIds'
  BY DEF WsInv, GoOn, WorkingTasksAreKnown, TasksAreOfTheirIds
<1>3. StartingIsFree'
  BY DEF GoOn, StartingIsFree
<1>4. QED
  BY <1>1, <1>2, <1>3 DEF WsInv

LEMMA AfterSending ==
  ASSUME WsInv, Sends, inbox' \in Seq(Messages), UNCHANGED <<messages, gone, frames>>
  PROVE  WsInv'
<1>1. PlainOK'
  BY DEF WsInv, TypeOK, Sends, states, PlainOK
<1>2. QED
  BY <1>1, AfterLeaving, AfterGoingOn DEF Sends

LEMMA AfterARound ==
  ASSUME WsInv, NextRound, inbox' \in Seq(Messages), UNCHANGED <<messages, gone, frames>>
  PROVE  WsInv'
<1>1. PlainOK'
  BY DEF WsInv, TypeOK, NextRound, states, PlainOK
<1>2. QED
  BY <1>1, AfterLeaving, AfterGoingOn DEF NextRound

\* A step that changes neither the endpoint nor any task.
LEMMA AfterNothing ==
  ASSUME WsInv, UNCHANGED <<pc, starting, tasks, task>>, PlainOK'
  PROVE  WsInv'
BY DEF WsInv, TypeOK, PlainOK, WorkingTasksAreKnown, TasksAreOfTheirIds, StartingIsFree

-----------------------------------------------------------------------------
LEMMA InitInv == Init => WsInv
<1> SUFFICES ASSUME Init PROVE WsInv
  OBVIOUS
<1>1. TypeOK
  <2>1. inbox \in Seq(Messages)
    BY DEF Init
  <2>2. starting \in Messages \cup {None} /\ (starting # None <=> pc = "subscribing")
    BY DEF Init
  <2>3. /\ tasks \in [Ids -> Tasks \cup {None}]
        /\ task \in [Tasks -> {Unborn} \cup [of : Ids, phase : Live \cup Ended]]
        /\ frames \in [Tasks -> {"none", "data", "errors", "complete"}]
    BY DEF Init
  <2>4. QED
    BY <2>1, <2>2, <2>3 DEF Init, TypeOK
<1>2. WorkingTasksAreKnown /\ TasksAreOfTheirIds /\ StartingIsFree
  BY DEF Init, WorkingTasksAreKnown, TasksAreOfTheirIds, StartingIsFree, Unborn, Live
<1>3. QED
  BY <1>1, <1>2 DEF WsInv

LEMMA ClientInv ==
  ASSUME WsInv, ClientSends \/ ClientGoes
  PROVE  WsInv'
<1>1. PlainOK'
  <2>1. CASE ClientSends
    <3>1. PICK m \in Messages : inbox' = Append(inbox, m)
      BY <2>1 DEF ClientSends
    <3>2. inbox' \in Seq(Messages)
      BY <3>1 DEF WsInv, TypeOK
    <3>3. QED
      BY <2>1, <3>2 DEF WsInv, TypeOK, ClientSends, states, PlainOK
  <2>2. CASE ClientGoes
    BY <2>2 DEF WsInv, TypeOK, ClientGoes, states, PlainOK
  <2>3. QED
    BY <2>1, <2>2
<1>2. UNCHANGED <<pc, starting, tasks, task>>
  BY DEF ClientSends, ClientGoes
<1>3. QED
  BY <1>1, <1>2, AfterNothing

LEMMA SimpleMessagesInv ==
  ASSUME WsInv,
         ReceiveInit \/ ReceiveTerminate \/ ReceiveJunk \/ ReceiveUnknown \/ ReceiveDisconnect
  PROVE  WsInv'
<1>1. CASE ReceiveInit
  <2>1. inbox' \in Seq(Messages) /\ UNCHANGED <<messages, gone, frames>>
    BY <1>1, Received DEF ReceiveInit, Receive, WsInv
  <2>2. CASE app /\ Sends
    BY <2>1, <2>2, AfterSending
  <2>3. CASE Leave /\ UNCHANGED states
    <3>1. PlainOK'
      BY <2>1, <2>3 DEF WsInv, TypeOK, states, PlainOK
    <3>2. QED
      BY <2>3, <3>1, AfterLeaving
  <2>4. QED
    BY <1>1, <2>2, <2>3 DEF ReceiveInit
<1>2. CASE ReceiveTerminate \/ ReceiveJunk
  <2>1. inbox' \in Seq(Messages)
    BY <1>2, Received DEF ReceiveTerminate, ReceiveJunk, WsInv
  <2>2. PlainOK'
    BY <1>2, <2>1 DEF WsInv, TypeOK, ReceiveTerminate, ReceiveJunk, Receive, states, PlainOK
  <2>3. QED
    BY <1>2, <2>2, AfterLeaving DEF ReceiveTerminate, ReceiveJunk
<1>3. CASE ReceiveUnknown
  BY <1>3, Received, AfterARound DEF ReceiveUnknown, Receive, WsInv
<1>4. CASE ReceiveDisconnect
  <2>1. PlainOK'
    BY <1>4 DEF WsInv, TypeOK, ReceiveDisconnect, PlainOK
  <2>2. QED
    BY <1>4, <2>1, AfterLeaving DEF ReceiveDisconnect
<1>5. QED
  BY <1>1, <1>2, <1>3, <1>4

LEMMA ReceiveStartInv ==
  ASSUME WsInv, ReceiveStart
  PROVE  WsInv'
<1> DEFINE m == Head(inbox)
<1>1. m \in Messages /\ m.type = "start" /\ inbox' \in Seq(Messages)
  BY Received DEF ReceiveStart, WsInv
<1>2. UNCHANGED <<messages, gone, frames>>
  BY DEF ReceiveStart, Receive
<1>3. CASE ~MayStart(m.id) /\ NextRound
  BY <1>1, <1>2, <1>3, AfterARound
<1>4. CASE /\ MayStart(m.id)
           /\ pc' = "subscribing" /\ starting' = m
           /\ UNCHANGED <<states, tasks, task>>
  <2>1. m # None /\ m.id \in Ids
    BY <1>1, MessageKinds
  <2>2. TypeOK'
    BY <1>1, <1>2, <1>4, <2>1 DEF WsInv, TypeOK, states
  <2>3. WorkingTasksAreKnown' /\ TasksAreOfTheirIds'
    BY <1>4 DEF WsInv, WorkingTasksAreKnown, TasksAreOfTheirIds
  <2>4. StartingIsFree'
    BY <1>1, <1>4, <2>1 DEF StartingIsFree, MayStart
  <2>5. QED
    BY <2>2, <2>3, <2>4 DEF WsInv
<1>5. QED
  BY <1>3, <1>4 DEF ReceiveStart

LEMMA ReceiveStopInv ==
  ASSUME WsInv, ReceiveStop
  PROVE  WsInv'
<1> DEFINE i == Head(inbox).id
           k == tasks[i]
<1>1. i \in Ids /\ inbox' \in Seq(Messages) /\ pc = "receiving"
  BY Received, MessageKinds DEF ReceiveStop, WsInv
<1>2. UNCHANGED <<messages, gone, frames>>
  BY DEF ReceiveStop, Receive
<1>3. CASE k = None /\ NextRound
  BY <1>1, <1>2, <1>3, AfterARound
<1>4. CASE /\ k # None
           /\ tasks' = [tasks EXCEPT ![i] = None]
           /\ IF Connected
              THEN /\ pc' = "receiving" /\ task' = Stopped(i)
              ELSE /\ pc' = "ended"
                   /\ task' = [j \in Tasks |->
                        IF j = k THEN Stopped(i)[j] ELSE Cancel(LeftOver)[j]]
           /\ UNCHANGED <<states, starting>>
  <2>1. k \in Tasks /\ starting = None
    BY <1>1, <1>4 DEF WsInv, TypeOK
  <2>2. PlainOK'
    BY <1>1, <1>2, <1>4 DEF WsInv, TypeOK, states, PlainOK
  <2>3. task' \in [Tasks -> {Unborn} \cup [of : Ids, phase : Live \cup Ended]]
        /\ \A j \in Tasks : task'[j].of = task[j].of
    BY <1>4, CancelType DEF WsInv, Stopped
  <2>4. TypeOK'
    BY <1>1, <1>4, <2>1, <2>2, <2>3 DEF WsInv, TypeOK, PlainOK
  <2>5. ASSUME NEW j \in Tasks, task'[j].phase \in Live
        PROVE  pc' # "ended" /\ tasks'[task'[j].of] = j
    <3>1. CASE Connected
      <4>1. task[j].phase \in Live /\ j # k
        BY <1>4, <2>5, <3>1, CancelType DEF WsInv, Stopped
      <4>2. tasks[task[j].of] = j /\ task[j].of # i
        BY <4>1 DEF WsInv, WorkingTasksAreKnown
      <4>3. task[j].of \in Ids
        BY <4>1 DEF WsInv, TypeOK, Unborn, Live
      <4>4. QED
        BY <1>4, <2>3, <3>1, <4>2, <4>3 DEF WsInv, TypeOK
    <3>2. CASE ~Connected
      <4>1. Stopped(i)[k].phase \notin Live
        BY <2>1, CancelType DEF WsInv, Stopped
      <4>2. QED
        BY <1>4, <2>5, <3>2, <4>1, LeavingStopsAll
    <3>3. QED
      BY <3>1, <3>2
  <2>6. WorkingTasksAreKnown'
    BY <2>5 DEF WorkingTasksAreKnown
  <2>7. TasksAreOfTheirIds'
    BY <1>1, <1>4, <2>3 DEF WsInv, TypeOK, TasksAreOfTheirIds
  <2>8. StartingIsFree'
    BY <1>4, <2>1 DEF StartingIsFree
  <2>9. QED
    BY <2>4, <2>6, <2>7, <2>8 DEF WsInv
<1>5. QED
  BY <1>3, <1>4 DEF ReceiveStop

LEMMA SubscribeSucceedsInv ==
  ASSUME WsInv, SubscribeSucceeds
  PROVE  WsInv'
<1> DEFINE i == starting.id
<1>1. starting # None /\ i \in Ids /\ tasks[i] = None
  BY DEF WsInv, TypeOK, StartingIsFree, SubscribeSucceeds, Subscribe
<1>2. PICK k \in Tasks :
        /\ task[k] = Unborn
        /\ tasks' = [tasks EXCEPT ![i] = k]
        /\ task' = IF Connected
                    THEN [task EXCEPT ![k] = [of |-> i, phase |-> "running"]]
                    ELSE [Cancel(LeftOver) EXCEPT ![k] = [of |-> i, phase |-> "cancelled"]]
  BY DEF SubscribeSucceeds
<1>3. /\ pc' = IF Connected THEN "receiving" ELSE "ended"
      /\ starting' = None
      /\ UNCHANGED <<states, inbox, messages, gone, frames>>
  BY DEF SubscribeSucceeds, Subscribe
<1>4. /\ [of |-> i, phase |-> "running"] \in [of : Ids, phase : Live \cup Ended]
      /\ [of |-> i, phase |-> "cancelled"] \in [of : Ids, phase : Live \cup Ended]
  BY <1>1 DEF Live, Ended
<1>5. /\ task' \in [Tasks -> {Unborn} \cup [of : Ids, phase : Live \cup Ended]]
      /\ task'[k].of = i
      /\ \A j \in Tasks \ {k} : task'[j].of = task[j].of
  BY <1>2, <1>4, CancelType DEF WsInv, TypeOK
<1>6. TypeOK'
  BY <1>1, <1>2, <1>3, <1>5 DEF WsInv, TypeOK, states
<1>7. ASSUME NEW j \in Tasks, task'[j].phase \in Live
      PROVE  pc' # "ended" /\ tasks'[task'[j].of] = j
  <2>1. CASE Connected
    <3>1. CASE j = k
      BY <1>1, <1>2, <1>3, <1>5, <2>1, <3>1 DEF WsInv, TypeOK
    <3>2. CASE j # k
      <4>1. task'[j] = task[j]
        BY <1>2, <2>1, <3>2 DEF WsInv, TypeOK
      <4>2. tasks[task[j].of] = j /\ task[j].of \in Ids
        BY <1>7, <4>1 DEF WsInv, WorkingTasksAreKnown, TypeOK, Unborn, Live
      <4>3. task[j].of # i
        BY <1>1, <4>2
      <4>4. QED
        BY <1>2, <1>3, <2>1, <4>1, <4>2, <4>3 DEF WsInv, TypeOK
    <3>3. QED
      BY <3>1, <3>2
  <2>2. CASE ~Connected
    <3>1. j # k
      BY <1>2, <1>7, <2>2, CancelType DEF WsInv, Live
    <3>2. task'[j] = Cancel(LeftOver)[j]
      BY <1>2, <2>2, <3>1, CancelType DEF WsInv
    <3>3. QED
      BY <1>7, <3>2, LeavingStopsAll
  <2>3. QED
    BY <2>1, <2>2
<1>8. WorkingTasksAreKnown'
  BY <1>7 DEF WorkingTasksAreKnown
<1>9. ASSUME NEW h \in Ids, tasks'[h] # None
      PROVE  task'[tasks'[h]].of = h
  <2>1. CASE h = i
    BY <1>1, <1>2, <1>5, <2>1 DEF WsInv, TypeOK
  <2>2. CASE h # i
    <3>1. tasks'[h] = tasks[h] /\ tasks[h] \in Tasks
      BY <1>2, <1>9, <2>2 DEF WsInv, TypeOK
    <3>2. task[tasks[h]].of = h
      BY <1>9, <3>1 DEF WsInv, TasksAreOfTheirIds
    <3>3. tasks[h] # k
      BY <1>2, <3>2 DEF Unborn
    <3>4. QED
      BY <1>5, <3>1, <3>2, <3>3
  <2>3. QED
    BY <2>1, <2>2
<1>10. TasksAreOfTheirIds'
  BY <1>9 DEF TasksAreOfTheirIds
<1>11. StartingIsFree'
  BY <1>3 DEF StartingIsFree
<1>12. QED
  BY <1>6, <1>8, <1>10, <1>11 DEF WsInv

LEMMA SubscribeOtherwiseInv ==
  ASSUME WsInv, SubscribeRefused \/ SubscribeFails
  PROVE  WsInv'
<1>1. UNCHANGED <<inbox, messages, gone, frames>> /\ inbox' \in Seq(Messages)
  BY DEF SubscribeRefused, SubscribeFails, Subscribe, WsInv, TypeOK
<1>2. CASE Sends
  BY <1>1, <1>2, AfterSending
<1>3. CASE Leave /\ UNCHANGED states
  <2>1. PlainOK'
    BY <1>1, <1>3 DEF WsInv, TypeOK, states, PlainOK
  <2>2. QED
    BY <1>3, <2>1, AfterLeaving
<1>4. QED
  BY <1>2, <1>3 DEF SubscribeRefused, SubscribeFails

-----------------------------------------------------------------------------
(* The tasks.                                                              *)

\* A task's own step moves it on among its phases and nothing else.
LEMMA PhaseInv ==
  ASSUME WsInv, NEW k \in Tasks, task[k].phase \in Live,
         NEW phase \in Live \cup Ended,
         task' = [task EXCEPT ![k].phase = phase],
         UNCHANGED <<pc, starting, tasks>>, PlainOK'
  PROVE  WsInv'
<1>1. task[k] \in [of : Ids, phase : Live \cup Ended]
  BY DEF WsInv, TypeOK, Unborn, Live
<1>2. /\ task'[k] = [task[k] EXCEPT !.phase = phase]
      /\ task'[k] \in [of : Ids, phase : Live \cup Ended]
      /\ task'[k].of = task[k].of
      /\ \A j \in Tasks \ {k} : task'[j] = task[j]
  BY <1>1 DEF WsInv, TypeOK
<1>3. task' \in [Tasks -> {Unborn} \cup [of : Ids, phase : Live \cup Ended]]
  BY <1>2 DEF WsInv, TypeOK
<1>4. TypeOK'
  BY <1>3 DEF WsInv, TypeOK, PlainOK
<1>5. \A j \in Tasks : /\ task'[j].of = task[j].of
                        /\ task'[j].phase \in Live => task[j].phase \in Live
  BY <1>2
<1>6. WorkingTasksAreKnown'
  BY <1>5 DEF WsInv, WorkingTasksAreKnown
<1>7. TasksAreOfTheirIds'
  BY <1>5 DEF WsInv, TypeOK, TasksAreOfTheirIds
<1>8. StartingIsFree'
  BY DEF WsInv, StartingIsFree
<1>9. QED
  BY <1>4, <1>6, <1>7, <1>8 DEF WsInv

LEMMA SendInv ==
  ASSUME WsInv, NEW k \in Tasks, NEW frame \in {"data", "errors", "complete"},
         NEW after \in Live \cup Ended, NEW ifItRaises \in Live \cup Ended,
         Send(k, frame, after, ifItRaises)
  PROVE  WsInv'
<1>1. task[k].phase \in Live /\ UNCHANGED <<pc, starting, tasks>>
  BY DEF Send
<1>2. PlainOK'
  BY DEF WsInv, TypeOK, Send, PlainOK
<1>3. \/ task' = [task EXCEPT ![k].phase = after]
      \/ task' = [task EXCEPT ![k].phase = ifItRaises]
  BY DEF Send
<1>4. QED
  BY <1>1, <1>2, <1>3, PhaseInv

LEMMA TaskInv ==
  ASSUME WsInv, NEW k \in Tasks, Yields(k) \/ Raises(k) \/ Exhausts(k) \/ Completes(k)
  PROVE  WsInv'
<1>1. {"running", "closing", "done"} \subseteq Live \cup Ended
  BY DEF Live, Ended
<1>2. CASE Yields(k) \/ Raises(k) \/ Completes(k)
  BY <1>1, <1>2, SendInv DEF Yields, Raises, Completes
<1>3. CASE Exhausts(k)
  <2>1. PlainOK'
    BY <1>3 DEF WsInv, TypeOK, Exhausts, states, PlainOK
  <2>2. task[k].phase \in Live /\ UNCHANGED <<pc, starting, tasks>>
    BY <1>3 DEF Exhausts, Live
  <2>3. QED
    BY <1>1, <1>3, <2>1, <2>2, PhaseInv DEF Exhausts
<1>4. QED
  BY <1>2, <1>3

-----------------------------------------------------------------------------
LEMMA NextInv == WsInv /\ [Next]_vars => WsInv'
<1> SUFFICES ASSUME WsInv, [Next]_vars PROVE WsInv'
  OBVIOUS
<1>1. CASE ClientSends \/ ClientGoes
  BY <1>1, ClientInv
<1>2. CASE Endpoint
  BY <1>2, SimpleMessagesInv, ReceiveStartInv, ReceiveStopInv, SubscribeSucceedsInv,
     SubscribeOtherwiseInv DEF Endpoint
<1>3. CASE \E k \in Tasks : Yields(k) \/ Raises(k) \/ Exhausts(k) \/ Completes(k)
  BY <1>3, TaskInv
<1>4. CASE UNCHANGED vars
  <2>1. PlainOK' /\ UNCHANGED <<pc, starting, tasks, task>>
    BY <1>4 DEF WsInv, TypeOK, PlainOK, vars, states
  <2>2. QED
    BY <2>1, AfterNothing
<1>5. QED
  BY <1>1, <1>2, <1>3, <1>4 DEF Next

\* The inductive invariant of a connection, of which the next two are parts.
THEOREM WsInvariant == Spec => []WsInv
BY InitInv, NextInv, PTL DEF Spec

\* TypeOK: every variable of a connection keeps its type, whatever messages
\* come and whichever sends fail.
THEOREM WsTypeOK == Spec => []TypeOK
<1>1. WsInv => TypeOK
  BY DEF WsInv
<1>2. QED
  BY <1>1, WsInvariant, PTL

\* WorkingTasksAreKnown: a task that works is in the endpoint's tasks under its
\* id, and none works once graphql_ws_endpoint has returned.
THEOREM WorkingTasksCanBeStopped == Spec => []WorkingTasksAreKnown
<1>1. WsInv => WorkingTasksAreKnown
  BY DEF WsInv
<1>2. QED
  BY <1>1, WsInvariant, PTL

=============================================================================
