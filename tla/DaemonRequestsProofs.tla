------------------------ MODULE DaemonRequestsProofs ------------------------
(***************************************************************************)
(* Theorems about AgentQueue and about DaemonRequests, which extends it,   *)
(* for any requests, agents, daemons, any faults and any number of them:   *)
(* of the queue, type correctness and the invariants that tie the columns  *)
(* status and assigned_to_agent to what the agents did; of the daemon's    *)
(* side, type correctness, what the answered rows say, and that the result *)
(* a daemon is told was said by a worker's handler to that request.        *)
(***************************************************************************)
EXTENDS DaemonRequests, FiniteSetTheorems, TLAPS

-----------------------------------------------------------------------------
(* The queue.                                                              *)

(***************************************************************************)
(* The places where a promise of success may still be under way: a worker  *)
(* about to send complete_request, and a complete call on the wire.  Both  *)
(* have run the handler.  This and the invariant of the rows themselves    *)
(* are inductive together; neither is alone.                               *)
(***************************************************************************)
CompletingHandled ==
  \A w \in Workers :
    pc[w] = "completing" => cur[w] \in Requests /\ w \in handled[cur[w]]

FailingHasRequest ==
  \A w \in Workers : pc[w] = "failing" => cur[w] \in Requests

LateHandled ==
  \A m \in late :
    m.op = "complete" => \E w \in handled[m.req] : IdentityOf[w] = m.agent

QueueInv ==
  /\ TypeOK
  /\ AssignmentMatchesStatus
  /\ CompletedWasHandled
  /\ CompletingHandled
  /\ FailingHasRequest
  /\ LateHandled

-----------------------------------------------------------------------------
(* The steps that leave the type invariant alone, one per action.          *)

USE QueueAssumption DEF Statuses, Answered, Calls

\* An accepted or refused answer leaves the column well typed and touches a
\* row only if the sender is the agent it is assigned to.
LEMMA AnswerEffect ==
  ASSUME TypeOK, NEW r \in Requests, NEW agent \in Identities,
         NEW outcome \in Answered, Answer(r, agent, outcome)
  PROVE  /\ status' \in [Requests -> Statuses]
         /\ \A q \in Requests :
              status'[q] # status[q] =>
                q = r /\ assigned[r] = agent /\ status'[r] = outcome
BY DEF Answer, Accepted, TypeOK

LEMMA CallType ==
  ASSUME TypeOK, NEW w \in Workers, cur[w] \in Requests,
         NEW op \in {"complete", "fail"}
  PROVE  Call(op, w) \in Calls
BY DEF Call

LEMMA OutcomeAnswers ==
  ASSUME NEW m \in Calls
  PROVE  Outcome(m.op) \in Answered
BY DEF Outcome

-----------------------------------------------------------------------------
\* What the SELECT and the label filter return: rows that may be popped, with
\* each all older ones that match.
LEMMA MatchedRows ==
  ASSUME NEW w \in Workers, NEW rs \in Matched(w)
  PROVE  /\ rs \subseteq Poppable
         /\ \A q \in rs, r \in Poppable : Before(r, q) /\ LabelsMatch(r, w) => r \in rs
<1>1. PICK C \in Fetched : rs \in Oldest({r \in C : LabelsMatch(r, w)}, Limit)
  BY DEF Matched
<1>2. C \subseteq Poppable /\ \A r \in C, q \in Poppable \ C : ~Before(q, r)
  BY DEF Fetched, Oldest
<1>3. /\ rs \subseteq {r \in C : LabelsMatch(r, w)}
      /\ \A r \in rs, q \in {r \in C : LabelsMatch(r, w)} \ rs : ~Before(q, r)
  BY <1>1 DEF Oldest
<1>4. QED
  BY <1>2, <1>3

LEMMA InitInv == Init => QueueInv
<1> SUFFICES ASSUME Init PROVE QueueInv
  OBVIOUS
<1>1. TypeOK
  BY DEF Init, TypeOK
<1>2. AssignmentMatchesStatus /\ CompletedWasHandled
  BY DEF Init, AssignmentMatchesStatus, CompletedWasHandled
<1>3. CompletingHandled /\ FailingHasRequest /\ LateHandled
  BY DEF Init, CompletingHandled, FailingHasRequest, LateHandled
<1>4. QED
  BY <1>1, <1>2, <1>3 DEF QueueInv

\* Steps of the polling loop and of time that touch no row's status.
LEMMA RowsUntouched ==
  ASSUME QueueInv, UNCHANGED <<status, assigned>>,
         \A r \in Requests : handled[r] \subseteq handled'[r]
  PROVE  AssignmentMatchesStatus' /\ CompletedWasHandled'
BY DEF QueueInv, AssignmentMatchesStatus, CompletedWasHandled

\* An answer keeps the two invariants of the rows, provided a promise of
\* success is only sent by a worker that ran the handler.
LEMMA RowsAnswered ==
  ASSUME QueueInv, NEW r \in Requests, NEW agent \in Identities,
         NEW outcome \in Answered, Answer(r, agent, outcome),
         UNCHANGED <<assigned, handled>>,
         outcome = "completed" => \E w \in handled[r] : IdentityOf[w] = agent
  PROVE  AssignmentMatchesStatus' /\ CompletedWasHandled'
<1>1. \A q \in Requests :
        status'[q] # status[q] =>
          q = r /\ assigned[r] = agent /\ status'[r] = outcome
  BY AnswerEffect DEF QueueInv
<1>2. AssignmentMatchesStatus'
  BY <1>1 DEF QueueInv, AssignmentMatchesStatus
<1>3. CompletedWasHandled'
  BY <1>1 DEF QueueInv, CompletedWasHandled
<1>4. QED
  BY <1>2, <1>3

\* A claim makes every row it names "processing" and gives it an agent.
LEMMA RowsClaimed ==
  ASSUME QueueInv, NEW w \in Workers, Claim(w), UNCHANGED handled
  PROVE  /\ status' \in [Requests -> Statuses]
         /\ assigned' \in [Requests -> Identities \cup {NoAgent}]
         /\ popping' \subseteq Workers
         /\ claims' \in [Workers -> SUBSET Requests]
         /\ AssignmentMatchesStatus' /\ CompletedWasHandled'
<1>1. /\ status' \in [Requests -> Statuses]
      /\ assigned' \in [Requests -> Identities \cup {NoAgent}]
      /\ popping' \subseteq Workers
      /\ claims' \in [Workers -> SUBSET Requests]
  BY DEF QueueInv, TypeOK, Claim
<1>2. AssignmentMatchesStatus'
  BY DEF QueueInv, TypeOK, Claim, AssignmentMatchesStatus
<1>3. CompletedWasHandled'
  BY DEF QueueInv, TypeOK, Claim, CompletedWasHandled
<1>4. QED
  BY <1>1, <1>2, <1>3

LEMMA NextInv == QueueInv /\ [Next]_vars => QueueInv'
<1> SUFFICES ASSUME QueueInv, [Next]_vars PROVE QueueInv'
  OBVIOUS
<1> USE DEF QueueInv
<1>1. ASSUME NEW r \in Requests, Enqueue(r) PROVE QueueInv'
  <2>1. TypeOK'
    <3>1. Cardinality(Requests) \in Nat
      BY FS_CardinalityType
    <3>2. born' \in [Requests -> Nat]
      BY <1>1, <3>1 DEF Enqueue, Insert, TypeOK
    <3>3. QED
      BY <1>1, <3>2 DEF Enqueue, Insert, TypeOK, handlers, workerVars
  <2>2. QED
    BY <1>1, <2>1 DEF Enqueue, Insert, TypeOK, handlers, workerVars,
      AssignmentMatchesStatus, CompletedWasHandled, CompletingHandled,
      FailingHasRequest, LateHandled
<1>2. ASSUME NEW r \in Requests, Expire(r) PROVE QueueInv'
  BY <1>2, RowsUntouched DEF Expire, TypeOK, handlers, workerVars,
    CompletingHandled, FailingHasRequest, LateHandled
<1>3. ASSUME NEW w \in Workers, PopRead(w) PROVE QueueInv'
  <2>1. Matched(w) \subseteq SUBSET Requests
    BY MatchedRows DEF Poppable
  <2>2. QED
    BY <1>3, <2>1, RowsUntouched DEF PopRead, TypeOK, rows,
      CompletingHandled, FailingHasRequest, LateHandled
<1>4. ASSUME NEW w \in Workers, NEW r \in Requests, HandlerSucceeds(w, r)
      PROVE  QueueInv'
  BY <1>4, RowsUntouched DEF HandlerSucceeds, Takes, Process, TypeOK, rows,
    handlers, CompletingHandled, FailingHasRequest, LateHandled
<1>5. ASSUME NEW w \in Workers, NEW r \in Requests, BatchAbandoned(w, r)
      PROVE  QueueInv'
  BY <1>5, RowsUntouched DEF BatchAbandoned, Takes, TypeOK, rows,
    handlers, CompletingHandled, FailingHasRequest, LateHandled
<1>6. ASSUME NEW w \in Workers, CompleteDelivered(w) PROVE QueueInv'
  <2>1. cur[w] \in Requests /\ w \in handled[cur[w]]
    BY <1>6 DEF CompleteDelivered, CompletingHandled
  <2>2. Answer(cur[w], IdentityOf[w], "completed")
    BY <1>6 DEF CompleteDelivered
  <2>3. AssignmentMatchesStatus' /\ CompletedWasHandled'
    BY <1>6, <2>1, <2>2, RowsAnswered DEF CompleteDelivered
  <2>4. status' \in [Requests -> Statuses]
    BY <2>1, <2>2, AnswerEffect
  <2>5. TypeOK'
    BY <1>6, <2>1, <2>4 DEF CompleteDelivered, Advance, Process, TypeOK, handlers
  <2>6. CompletingHandled' /\ FailingHasRequest' /\ LateHandled'
    BY <1>6, <2>1 DEF CompleteDelivered, Advance, Process, TypeOK,
      CompletingHandled, FailingHasRequest, LateHandled
  <2>7. QED
    BY <2>3, <2>5, <2>6
<1>7. ASSUME NEW w \in Workers, FailDelivered(w) PROVE QueueInv'
  <2>1. cur[w] \in Requests
    BY <1>7 DEF FailDelivered, FailingHasRequest
  <2>2. Answer(cur[w], IdentityOf[w], "failed")
    BY <1>7 DEF FailDelivered
  <2>3. AssignmentMatchesStatus' /\ CompletedWasHandled'
    BY <1>7, <2>1, <2>2, RowsAnswered DEF FailDelivered
  <2>4. status' \in [Requests -> Statuses]
    BY <2>1, <2>2, AnswerEffect
  <2>5. TypeOK'
    BY <1>7, <2>1, <2>4 DEF FailDelivered, Advance, TypeOK, handlers
  <2>6. CompletingHandled' /\ FailingHasRequest' /\ LateHandled'
    BY <1>7, <2>1 DEF FailDelivered, Advance, TypeOK,
      CompletingHandled, FailingHasRequest, LateHandled
  <2>7. QED
    BY <2>3, <2>5, <2>6
<1>8. ASSUME NEW w \in Workers, PopDelivered(w) PROVE QueueInv'
  <2>1. Claim(w) /\ UNCHANGED handled
    BY <1>8 DEF PopDelivered
  <2>2. TypeOK'
    BY <1>8, <2>1, RowsClaimed DEF PopDelivered, Claim, TypeOK
  <2>3. CompletingHandled' /\ FailingHasRequest' /\ LateHandled'
    BY <1>8 DEF PopDelivered, TypeOK, CompletingHandled, FailingHasRequest,
      LateHandled
  <2>4. QED
    BY <2>1, <2>2, <2>3, RowsClaimed
<1>9. ASSUME NEW w \in Workers, PopReplyLost(w) PROVE QueueInv'
  <2>1. Claim(w) /\ UNCHANGED handled
    BY <1>9 DEF PopReplyLost
  <2>2. TypeOK'
    BY <1>9, <2>1, RowsClaimed DEF PopReplyLost, Claim, Fault, TypeOK
  <2>3. CompletingHandled' /\ FailingHasRequest' /\ LateHandled'
    BY <1>9 DEF PopReplyLost, TypeOK, CompletingHandled, FailingHasRequest,
      LateHandled
  <2>4. QED
    BY <2>1, <2>2, <2>3, RowsClaimed
<1>10. ASSUME NEW w \in Workers, PopAborted(w) PROVE QueueInv'
  BY <1>10, RowsUntouched DEF PopAborted, Fault, TypeOK, rows,
    CompletingHandled, FailingHasRequest, LateHandled
<1>11. ASSUME NEW w \in Workers, PopGiveUp(w) PROVE QueueInv'
  BY <1>11, RowsUntouched DEF PopGiveUp, Fault, TypeOK, rows, handlers,
    CompletingHandled, FailingHasRequest, LateHandled
<1>12. ASSUME NEW w \in Workers, NEW r \in Requests, HandlerRaises(w, r)
       PROVE  QueueInv'
  BY <1>12, RowsUntouched DEF HandlerRaises, Fault, Takes, Process, TypeOK,
    rows, handlers, CompletingHandled, FailingHasRequest, LateHandled
<1>13. ASSUME NEW w \in Workers, NEW r \in Requests, HandlerReturnsNone(w, r)
       PROVE  QueueInv'
  BY <1>13, RowsUntouched DEF HandlerReturnsNone, Fault, Takes, Advance, TypeOK,
    rows, handlers, CompletingHandled, FailingHasRequest, LateHandled
<1>14. ASSUME NEW w \in Workers, CompleteReplyLost(w) PROVE QueueInv'
  <2>1. cur[w] \in Requests /\ w \in handled[cur[w]]
    BY <1>14 DEF CompleteReplyLost, CompletingHandled
  <2>2. Answer(cur[w], IdentityOf[w], "completed")
    BY <1>14 DEF CompleteReplyLost
  <2>3. AssignmentMatchesStatus' /\ CompletedWasHandled'
    BY <1>14, <2>1, <2>2, RowsAnswered DEF CompleteReplyLost
  <2>4. status' \in [Requests -> Statuses]
    BY <2>1, <2>2, AnswerEffect
  <2>5. TypeOK'
    BY <1>14, <2>1, <2>4 DEF CompleteReplyLost, Fault, Process, TypeOK, handlers
  <2>6. CompletingHandled' /\ FailingHasRequest' /\ LateHandled'
    BY <1>14, <2>1 DEF CompleteReplyLost, Process, TypeOK,
      CompletingHandled, FailingHasRequest, LateHandled
  <2>7. QED
    BY <2>3, <2>5, <2>6
<1>15. ASSUME NEW w \in Workers, CompleteDelayed(w) PROVE QueueInv'
  <2>1. cur[w] \in Requests /\ w \in handled[cur[w]]
    BY <1>15 DEF CompleteDelayed, CompletingHandled
  <2>2. TypeOK'
    BY <1>15, <2>1, CallType DEF CompleteDelayed, Fault, Process, TypeOK, rows, handlers
  <2>3. LateHandled'
    BY <1>15, <2>1 DEF CompleteDelayed, Call, LateHandled
  <2>4. CompletingHandled' /\ FailingHasRequest'
    BY <1>15, <2>1 DEF CompleteDelayed, Process, TypeOK, CompletingHandled,
      FailingHasRequest
  <2>5. AssignmentMatchesStatus' /\ CompletedWasHandled'
    BY <1>15, RowsUntouched DEF CompleteDelayed, rows
  <2>6. QED
    BY <2>2, <2>3, <2>4, <2>5
<1>16. ASSUME NEW w \in Workers, FailDelayed(w) PROVE QueueInv'
  <2>1. cur[w] \in Requests
    BY <1>16 DEF FailDelayed, FailingHasRequest
  <2>2. TypeOK'
    BY <1>16, <2>1, CallType DEF FailDelayed, Fault, Advance, TypeOK, rows, handlers
  <2>3. LateHandled'
    BY <1>16 DEF FailDelayed, Call, LateHandled
  <2>4. CompletingHandled' /\ FailingHasRequest'
    BY <1>16, <2>1 DEF FailDelayed, Advance, TypeOK, CompletingHandled,
      FailingHasRequest
  <2>5. AssignmentMatchesStatus' /\ CompletedWasHandled'
    BY <1>16, RowsUntouched DEF FailDelayed, rows
  <2>6. QED
    BY <2>2, <2>3, <2>4, <2>5
<1>17. ASSUME NEW w \in Workers, Crash(w) PROVE QueueInv'
  BY <1>17, RowsUntouched DEF Crash, Fault, TypeOK, rows, handlers,
    CompletingHandled, FailingHasRequest, LateHandled
<1>18. ASSUME RequeueStale PROVE QueueInv'
  <2>1. TypeOK'
    BY <1>18 DEF RequeueStale, TypeOK, handlers, workerVars
  <2>2. AssignmentMatchesStatus' /\ CompletedWasHandled'
    BY <1>18 DEF RequeueStale, Stale, TypeOK, AssignmentMatchesStatus,
      CompletedWasHandled
  <2>3. CompletingHandled' /\ FailingHasRequest' /\ LateHandled'
    BY <1>18 DEF RequeueStale, workerVars, CompletingHandled,
      FailingHasRequest, LateHandled
  <2>4. QED
    BY <2>1, <2>2, <2>3
<1>19. ASSUME NEW m \in late, LateCall(m) PROVE QueueInv'
  <2>1. m \in Calls
    BY DEF TypeOK
  <2>2. m.op = "complete" => \E w \in handled[m.req] : IdentityOf[w] = m.agent
    BY DEF LateHandled
  <2>3. Outcome(m.op) \in Answered
    BY <2>1, OutcomeAnswers
  <2>4. Outcome(m.op) = "completed" => m.op = "complete"
    BY <2>1 DEF Outcome
  <2>5. Answer(m.req, m.agent, Outcome(m.op)) /\ UNCHANGED <<assigned, handled>>
    BY <1>19 DEF LateCall
  <2>6. AssignmentMatchesStatus' /\ CompletedWasHandled'
    BY <2>1, <2>2, <2>3, <2>4, <2>5, RowsAnswered
  <2>7. status' \in [Requests -> Statuses]
    BY <2>1, <2>3, <2>5, AnswerEffect
  <2>8. TypeOK' /\ CompletingHandled' /\ FailingHasRequest' /\ LateHandled'
    BY <1>19, <2>7 DEF LateCall, TypeOK, handlers, workerVars,
      CompletingHandled, FailingHasRequest, LateHandled
  <2>9. QED
    BY <2>6, <2>8
<1>20. CASE UNCHANGED vars
  BY <1>20 DEF vars, rows, handlers, workerVars, TypeOK,
    AssignmentMatchesStatus, CompletedWasHandled, CompletingHandled,
    FailingHasRequest, LateHandled
<1>21. QED
  BY <1>1, <1>2, <1>3, <1>4, <1>5, <1>6, <1>7, <1>8, <1>9, <1>10, <1>11,
    <1>12, <1>13, <1>14, <1>15, <1>16, <1>17, <1>18, <1>19, <1>20
    DEF Next, WorkerStep, PopHandler, FaultStep

-----------------------------------------------------------------------------
\* The strengthened invariant holds in every reachable state.
THEOREM QueueInvariant == Spec => []QueueInv
BY InitInv, NextInv, PTL DEF Spec

\* TypeOK: every variable of the queue has a value of its kind.
THEOREM QueueTypeOK == Spec => []TypeOK
<1>1. QueueInv => TypeOK
  BY DEF QueueInv
<1>2. QED
  BY <1>1, QueueInvariant, PTL

\* AssignmentMatchesStatus: a row names an agent exactly while it is claimed
\* or answered (pop_requests, complete_request, fail_request and
\* requeue_stale_requests together).
THEOREM AssignmentFollowsStatus == Spec => []AssignmentMatchesStatus
<1>1. QueueInv => AssignmentMatchesStatus
  BY DEF QueueInv
<1>2. QED
  BY <1>1, QueueInvariant, PTL

\* CompletedWasHandled: what complete_request stores was reported by an agent
\* the row is assigned to and that ran the handler to its end.
THEOREM CompletedMeansHandled == Spec => []CompletedWasHandled
<1>1. QueueInv => CompletedWasHandled
  BY DEF QueueInv
<1>2. QED
  BY <1>1, QueueInvariant, PTL

\* AnsweredNeverRequeued: no handler and no background task puts an answered
\* request back into the queue.
THEOREM AnsweredStaysOut == Spec => AnsweredNeverRequeued
<1> DEFINE StaysOut ==
      \A r \in Requests :
        status[r] \in Answered => status'[r] \in Answered \cup {"processing"}
<1>1. ASSUME QueueInv, [Next]_vars PROVE [StaysOut]_status
  <2>1. ASSUME NEW q \in Requests, Enqueue(q) PROVE StaysOut
    BY <1>1, <2>1 DEF Enqueue, Insert, QueueInv, TypeOK
  <2>2. ASSUME NEW w \in Workers, Claim(w) PROVE StaysOut
    BY <1>1, <2>2 DEF Claim, QueueInv, TypeOK
  <2>3. ASSUME NEW q \in Requests, NEW agent \in Identities,
               NEW outcome \in Answered, Answer(q, agent, outcome)
        PROVE  StaysOut
    BY <1>1, <2>3, AnswerEffect DEF QueueInv, TypeOK
  <2>4. ASSUME RequeueStale PROVE StaysOut
    BY <1>1, <2>4 DEF RequeueStale, Stale, QueueInv, TypeOK
  <2>5. ASSUME NEW w \in Workers, WorkerStep(w) PROVE StaysOut \/ UNCHANGED status
    <3>1. CASE CompleteDelivered(w)
      BY <1>1, <2>3, <3>1 DEF CompleteDelivered, QueueInv, CompletingHandled
    <3>2. CASE FailDelivered(w)
      BY <1>1, <2>3, <3>2 DEF FailDelivered, QueueInv, FailingHasRequest
    <3>3. QED
      BY <2>5, <3>1, <3>2 DEF WorkerStep, PopRead, HandlerSucceeds,
        BatchAbandoned, rows
  <2>6. ASSUME NEW w \in Workers, FaultStep(w) PROVE StaysOut \/ UNCHANGED status
    <3>1. CASE CompleteReplyLost(w)
      BY <1>1, <2>3, <3>1 DEF CompleteReplyLost, QueueInv, CompletingHandled
    <3>2. QED
      BY <2>6, <3>1 DEF FaultStep, PopAborted, PopGiveUp, HandlerRaises,
        HandlerReturnsNone, CompleteDelayed, FailDelayed, Crash, rows
  <2>7. ASSUME NEW m \in late, LateCall(m) PROVE StaysOut
    <3>1. m \in Calls
      BY <1>1 DEF QueueInv, TypeOK
    <3>2. QED
      BY <2>3, <2>7, <3>1, OutcomeAnswers DEF LateCall
  <2>8. QED
    BY <1>1, <2>1, <2>2, <2>4, <2>5, <2>6, <2>7
      DEF Next, PopHandler, PopDelivered, PopReplyLost, Expire, vars, rows
<1>2. QED
  BY <1>1, QueueInvariant, PTL DEF Spec, AnsweredNeverRequeued

-----------------------------------------------------------------------------
(* What is forgotten.                                                      *)

\* A worker reports on a request of its batch.
ReportsOnBatch ==
  \A w \in Workers : pc[w] \in {"completing", "failing"} => cur[w] \in batch[w]

LEMMA ReportsOnBatchStep ==
  ASSUME QueueInv, ReportsOnBatch, [Next]_vars
  PROVE  ReportsOnBatch'
<1> USE DEF QueueInv, TypeOK, ReportsOnBatch
<1>1. CASE UNCHANGED <<pc, batch, cur>>
  BY <1>1
<1>2. ASSUME NEW w \in Workers, WorkerStep(w) PROVE ReportsOnBatch'
  BY <1>2 DEF WorkerStep, PopRead, HandlerSucceeds, BatchAbandoned, CompleteDelivered,
    FailDelivered, Takes, Process, Advance
<1>3. ASSUME NEW w \in Workers, PopHandler(w) PROVE ReportsOnBatch'
  BY <1>3 DEF PopHandler, PopDelivered, PopReplyLost
<1>4. ASSUME NEW w \in Workers, FaultStep(w) PROVE ReportsOnBatch'
  BY <1>4 DEF FaultStep, PopAborted, PopGiveUp, HandlerRaises, HandlerReturnsNone,
    CompleteReplyLost, CompleteDelayed, FailDelayed, Crash, Takes, Process, Advance
<1>5. QED
  BY <1>1, <1>2, <1>3, <1>4 DEF Next, Enqueue, Expire, RequeueStale, LateCall, vars, workerVars

\* Steps that leave a forgotten row alone, and nobody gets it.
LEMMA ForgottenKept ==
  ASSUME NEW r \in Requests, Forgotten(r),
         status'[r] = status[r], assigned'[r] = assigned[r], expired[r] => expired'[r],
         \A w \in Workers : r \notin batch'[w] \cup claims'[w],
         \A m \in late' : m \in late \/ m.req # r
  PROVE  Forgotten(r)'
BY DEF Forgotten

LEMMA ForgottenStep ==
  ASSUME QueueInv, ReportsOnBatch, [Next]_vars, NEW r \in Requests, Forgotten(r)
  PROVE  Forgotten(r)'
<1>1. /\ TypeOK /\ status[r] \in {"pending", "processing"} /\ r \notin Poppable
      /\ \A w \in Workers : r \notin batch[w] /\ r \notin claims[w]
  BY DEF Forgotten, QueueInv, Poppable
<1>2. CASE UNCHANGED vars
  BY <1>1, <1>2, ForgottenKept DEF vars, rows, handlers, workerVars
<1>3. ASSUME NEW q \in Requests, Enqueue(q) \/ Expire(q) PROVE Forgotten(r)'
  BY <1>1, <1>3, ForgottenKept DEF Enqueue, Insert, Expire, handlers, workerVars, TypeOK
<1>4. ASSUME NEW w \in Workers, PopRead(w) PROVE Forgotten(r)'
  BY <1>1, <1>4, MatchedRows, ForgottenKept DEF PopRead, rows, TypeOK
<1>5. ASSUME NEW w \in Workers, PopHandler(w) PROVE Forgotten(r)'
  BY <1>1, <1>5, ForgottenKept DEF PopHandler, PopDelivered, PopReplyLost, Claim, TypeOK
\* a report is on a request its worker holds
<1>6. ASSUME NEW w \in Workers, NEW outcome \in Answered,
             pc[w] \in {"completing", "failing"}, Answer(cur[w], IdentityOf[w], outcome),
             UNCHANGED <<assigned, expired, claims, late>>, batch'[w] \subseteq batch[w],
             \A v \in Workers \ {w} : batch'[v] = batch[v]
      PROVE  Forgotten(r)'
  <2>1. cur[w] \in Requests /\ cur[w] # r
    BY <1>1, <1>6 DEF ReportsOnBatch, TypeOK
  <2>2. status'[r] = status[r]
    BY <1>1, <1>6, <2>1, AnswerEffect
  <2>3. QED
    BY <1>1, <1>6, <2>2, ForgottenKept
<1>7. ASSUME NEW w \in Workers, CompleteDelivered(w) \/ CompleteReplyLost(w) \/ FailDelivered(w)
      PROVE  Forgotten(r)'
  <2>1. PICK outcome \in Answered : Answer(cur[w], IdentityOf[w], outcome)
    BY <1>7 DEF CompleteDelivered, CompleteReplyLost, FailDelivered
  <2>2. /\ pc[w] \in {"completing", "failing"} /\ UNCHANGED <<assigned, expired, claims, late>>
        /\ batch'[w] \subseteq batch[w] /\ \A v \in Workers \ {w} : batch'[v] = batch[v]
    BY <1>1, <1>7 DEF CompleteDelivered, CompleteReplyLost, FailDelivered, Advance, Process,
      handlers, TypeOK
  <2>3. QED
    BY <1>6, <2>1, <2>2
<1>8. ASSUME NEW w \in Workers, CompleteDelayed(w) \/ FailDelayed(w) PROVE Forgotten(r)'
  <2>1. cur[w] # r
    BY <1>1, <1>8 DEF CompleteDelayed, FailDelayed, ReportsOnBatch
  <2>2. \A m \in late' : m \in late \/ m.req # r
    BY <1>8, <2>1 DEF CompleteDelayed, FailDelayed, Call
  <2>3. QED
    BY <1>1, <1>8, <2>2, ForgottenKept DEF CompleteDelayed, FailDelayed, Advance, Process, rows,
      handlers, TypeOK
<1>9. ASSUME NEW w \in Workers, NEW q \in Requests,
             \/ HandlerSucceeds(w, q) \/ BatchAbandoned(w, q)
             \/ HandlerRaises(w, q) \/ HandlerReturnsNone(w, q)
      PROVE  Forgotten(r)'
  BY <1>1, <1>9, ForgottenKept DEF HandlerSucceeds, BatchAbandoned, HandlerRaises,
    HandlerReturnsNone, Process, Advance, rows, handlers, TypeOK
<1>10. ASSUME NEW w \in Workers, PopAborted(w) \/ PopGiveUp(w) \/ Crash(w) PROVE Forgotten(r)'
  BY <1>1, <1>10, ForgottenKept DEF PopAborted, PopGiveUp, Crash, rows, handlers, TypeOK
\* requeued, it has an expires_at that is over
<1>11. CASE RequeueStale
  <2>1. CASE r \in Stale
    <3>1. /\ status'[r] = "pending" /\ assigned'[r] = NoAgent /\ expired'[r]
          /\ UNCHANGED <<batch, claims, late>>
      BY <1>11, <2>1 DEF RequeueStale, Stale, handlers, workerVars
    <3>2. \A m \in late : m.agent # NoAgent
      BY <1>1 DEF TypeOK
    <3>3. QED
      BY <1>1, <3>1, <3>2 DEF Forgotten
  <2>2. CASE r \notin Stale
    BY <1>1, <1>11, <2>2, ForgottenKept DEF RequeueStale, handlers, workerVars
  <2>3. QED
    BY <2>1, <2>2
\* a late call for it names an agent that does not have it
<1>12. ASSUME NEW m \in late, LateCall(m) PROVE Forgotten(r)'
  <2>1. m \in Calls /\ Outcome(m.op) \in Answered
    BY <1>1, OutcomeAnswers DEF TypeOK
  <2>2. status'[r] = status[r]
    BY <1>1, <1>12, <2>1, AnswerEffect DEF LateCall, Forgotten
  <2>3. QED
    BY <1>1, <1>12, <2>2, ForgottenKept DEF LateCall, handlers, workerVars
<1>13. QED
  BY <1>2, <1>3, <1>4, <1>5, <1>7, <1>8, <1>9, <1>10, <1>11, <1>12
    DEF Next, WorkerStep, FaultStep

\* ForgottenStaysForgotten: pop_requests filters on an expires_at that
\* requeue_stale_requests does not move, and complete_request and fail_request
\* on the agent, so whatever fails afterwards a claimed request that no worker
\* remembers is neither handed out nor answered, with the task or without it.
THEOREM ForgottenIsStuck == Spec => ForgottenStaysForgotten
<1>1. Init => ReportsOnBatch
  BY DEF Init, ReportsOnBatch
<1>2. QueueInv /\ ReportsOnBatch /\ [Next]_vars => ReportsOnBatch'
  BY ReportsOnBatchStep
<1>3. ASSUME QueueInv, ReportsOnBatch, [Next]_vars
      PROVE  [\A r \in Requests : Forgotten(r) => Forgotten(r)']_vars
  BY <1>3, ForgottenStep
<1>4. QED
  BY <1>1, <1>2, <1>3, QueueInvariant, PTL DEF Spec, ForgottenStaysForgotten

-----------------------------------------------------------------------------
(* Without lost calls and crashes.                                         *)

\* A worker waits for the answer to the pop that is handled, and has nothing
\* left of an earlier one.
PollsWait        == \A w \in popping : pc[w] = "waiting"
IdleHoldsNothing == \A w \in Workers : pc[w] \in {"idle", "waiting"} => batch[w] = {}

HeldInv == PollsWait /\ IdleHoldsNothing /\ ProcessingIsHeld

\* The steps that are left.
QuietNext ==
  \/ \E r \in Requests : Enqueue(r) \/ Expire(r)
  \/ RequeueStale
  \/ \E m \in late : LateCall(m)
  \/ \E w \in Workers :
       \/ PopRead(w) \/ PopDelivered(w)
       \/ \E r \in Requests : HandlerSucceeds(w, r) \/ HandlerRaises(w, r)
       \/ CompleteDelivered(w) \/ FailDelivered(w)

LEMMA WithoutLoss ==
  ASSUME Faults \subseteq {"raise"}, BadApi = {}, PollsWait, Next
  PROVE  QuietNext
<1>1. ~Fault("loss") /\ ~Fault("delay") /\ ~Fault("none") /\ ~Fault("crash")
  BY DEF Fault
<1>2. \A w \in Workers, r \in Requests : ~BatchAbandoned(w, r)
  BY DEF BatchAbandoned
<1>3. \A w \in Workers : ~PopReplyLost(w)
  BY <1>1 DEF PopReplyLost, Claim, PollsWait
<1>4. \A w \in Workers :
        /\ ~PopAborted(w) /\ ~PopGiveUp(w) /\ ~CompleteReplyLost(w) /\ ~CompleteDelayed(w)
        /\ ~FailDelayed(w) /\ ~Crash(w)
        /\ \A r \in Requests : ~HandlerReturnsNone(w, r)
  BY <1>1 DEF PopAborted, PopGiveUp, CompleteReplyLost, CompleteDelayed, FailDelayed, Crash,
    HandlerReturnsNone
<1>5. QED
  BY <1>2, <1>3, <1>4 DEF Next, WorkerStep, PopHandler, FaultStep, QuietNext

\* Of a worker's answer the row is no longer processing, or it was assigned to
\* another agent; so the worker may forget the request.
LEMMA AnswerReleases ==
  ASSUME QueueInv, ProcessingIsHeld, NEW w \in Workers, NEW outcome \in Answered,
         cur[w] \in Requests, Answer(cur[w], IdentityOf[w], outcome), Advance(w, cur[w]),
         UNCHANGED assigned
  PROVE  ProcessingIsHeld'
<1>1. SUFFICES ASSUME NEW r \in Requests, status'[r] = "processing"
               PROVE  \E v \in Workers : r \in batch'[v] /\ IdentityOf[v] = assigned[r]
  BY DEF ProcessingIsHeld
<1>2. status[r] = "processing" /\ (r = cur[w] => assigned[r] # IdentityOf[w])
  BY <1>1 DEF QueueInv, TypeOK, Answer, Accepted
<1>3. PICK v \in Workers : r \in batch[v] /\ IdentityOf[v] = assigned[r]
  BY <1>2 DEF ProcessingIsHeld
<1>4. r \in batch'[v]
  BY <1>2, <1>3 DEF QueueInv, TypeOK, Advance
<1>5. QED
  BY <1>3, <1>4

LEMMA HeldStep ==
  ASSUME Faults \subseteq {"raise"}, BadApi = {}, QueueInv, HeldInv, [Next]_vars
  PROVE  HeldInv'
<1> USE DEF HeldInv
<1>1. CASE UNCHANGED vars
  BY <1>1 DEF vars, rows, handlers, workerVars, PollsWait, IdleHoldsNothing, ProcessingIsHeld
<1>2. ASSUME NEW r \in Requests, Enqueue(r) \/ Expire(r) PROVE HeldInv'
  BY <1>2 DEF Enqueue, Insert, Expire, handlers, workerVars, QueueInv, TypeOK, PollsWait,
    IdleHoldsNothing, ProcessingIsHeld
<1>3. CASE RequeueStale
  BY <1>3 DEF RequeueStale, handlers, workerVars, QueueInv, TypeOK, PollsWait,
    IdleHoldsNothing, ProcessingIsHeld
<1>4. ASSUME NEW m \in late, LateCall(m) PROVE HeldInv'
  <2>1. m \in Calls
    BY DEF QueueInv, TypeOK
  <2>2. Outcome(m.op) \in Answered
    BY <2>1, OutcomeAnswers
  <2>3. \A r \in Requests : status'[r] = "processing" => status[r] = "processing"
    BY <1>4, <2>1, <2>2, AnswerEffect DEF LateCall, QueueInv
  <2>4. QED
    BY <1>4, <2>3 DEF LateCall, handlers, workerVars, PollsWait, IdleHoldsNothing,
      ProcessingIsHeld
<1>5. ASSUME NEW w \in Workers, PopRead(w) PROVE HeldInv'
  BY <1>5 DEF PopRead, rows, QueueInv, TypeOK, PollsWait, IdleHoldsNothing, ProcessingIsHeld
<1>6. ASSUME NEW w \in Workers, PopDelivered(w) PROVE HeldInv'
  <2>1. PollsWait' /\ IdleHoldsNothing'
    BY <1>6 DEF PopDelivered, Claim, QueueInv, TypeOK, PollsWait, IdleHoldsNothing
  <2>2. ASSUME NEW r \in Requests, status'[r] = "processing"
        PROVE  \E v \in Workers : r \in batch'[v] /\ IdentityOf[v] = assigned'[r]
    <3>1. CASE r \in claims[w]
      BY <1>6, <3>1 DEF PopDelivered, Claim, QueueInv, TypeOK
    <3>2. CASE r \notin claims[w]
      <4>1. status[r] = "processing" /\ assigned'[r] = assigned[r]
        BY <1>6, <2>2, <3>2 DEF PopDelivered, Claim
      <4>2. PICK v \in Workers : r \in batch[v] /\ IdentityOf[v] = assigned[r]
        BY <4>1 DEF ProcessingIsHeld
      <4>3. v # w
        BY <1>6, <4>2 DEF PopDelivered, IdleHoldsNothing
      <4>4. batch'[v] = batch[v]
        BY <1>6, <4>3 DEF PopDelivered, QueueInv, TypeOK
      <4>5. QED
        BY <4>1, <4>2, <4>4
    <3>3. QED
      BY <3>1, <3>2
  <2>3. QED
    BY <2>1, <2>2 DEF ProcessingIsHeld
<1>7. ASSUME NEW w \in Workers, NEW r \in Requests, HandlerSucceeds(w, r) \/ HandlerRaises(w, r)
      PROVE  HeldInv'
  BY <1>7 DEF HandlerSucceeds, HandlerRaises, Takes, Process, rows, handlers, QueueInv, TypeOK,
    PollsWait, IdleHoldsNothing, ProcessingIsHeld
<1>8. ASSUME NEW w \in Workers, CompleteDelivered(w) PROVE HeldInv'
  <2>1. cur[w] \in Requests /\ Answer(cur[w], IdentityOf[w], "completed") /\ UNCHANGED assigned
    BY <1>8 DEF CompleteDelivered, QueueInv, CompletingHandled
  <2>2. PollsWait' /\ IdleHoldsNothing'
    BY <1>8 DEF CompleteDelivered, Advance, Process, handlers, QueueInv, TypeOK, PollsWait,
      IdleHoldsNothing
  <2>3. CASE Advance(w, cur[w])
    BY <2>1, <2>2, <2>3, AnswerReleases
  <2>4. CASE Process(w, cur[w], "failing")
    <3>1. \A r \in Requests : status'[r] = "processing" => status[r] = "processing"
      BY <2>1, AnswerEffect DEF QueueInv
    <3>2. QED
      BY <2>1, <2>2, <2>4, <3>1 DEF Process, ProcessingIsHeld
  <2>5. QED
    BY <1>8, <2>3, <2>4 DEF CompleteDelivered
<1>9. ASSUME NEW w \in Workers, FailDelivered(w) PROVE HeldInv'
  <2>1. cur[w] \in Requests /\ Answer(cur[w], IdentityOf[w], "failed") /\ UNCHANGED assigned
    BY <1>9 DEF FailDelivered, QueueInv, FailingHasRequest
  <2>2. PollsWait' /\ IdleHoldsNothing'
    BY <1>9 DEF FailDelivered, Advance, handlers, QueueInv, TypeOK, PollsWait, IdleHoldsNothing
  <2>3. ProcessingIsHeld'
    BY <1>9, <2>1, AnswerReleases DEF FailDelivered
  <2>4. QED
    BY <2>2, <2>3
<1>10. QED
  BY <1>1, <1>2, <1>3, <1>4, <1>5, <1>6, <1>7, <1>8, <1>9, WithoutLoss DEF QuietNext

\* ProcessingIsHeld: where no call is lost or given up on, no agent dies and
\* every request names a known API, pop_requests leaves nothing processing that
\* is not in the batch of a worker of its agent, however claims overlap and
\* whatever handlers raise.
THEOREM ProcessingStaysHeld ==
  ASSUME Faults \subseteq {"raise"}, BadApi = {}
  PROVE  Spec => []ProcessingIsHeld
<1>1. Init => HeldInv
  BY DEF Init, HeldInv, PollsWait, IdleHoldsNothing, ProcessingIsHeld
<1>2. QueueInv /\ HeldInv /\ [Next]_vars => HeldInv'
  BY HeldStep
<1>3. HeldInv => ProcessingIsHeld
  BY DEF HeldInv
<1>4. QED
  BY <1>1, <1>2, <1>3, QueueInvariant, PTL DEF Spec

-----------------------------------------------------------------------------
(* Without any faults.                                                     *)

Existing == {r \in Requests : status[r] # "absent"}

\* An older request that w may pop as well, and what may have become of it.
Older(r, q, w) == status[r] # "absent" /\ Before(r, q) /\ LabelsMatch(r, w)
Settled(r, w) ==
  expired[r] \/ handled[r] # {} \/ \E v \in Workers \ {w} : r \in batch[v]

\* What a worker has read, holds or has handled is a row.
RowsExist ==
  /\ \A w \in Workers : claims[w] \cup batch[w] \subseteq Existing
  /\ \A r \in Requests : handled[r] # {} => r \in Existing

\* A worker that reports has run the handler, so an answered row was handled.
ReportsFollowHandlers ==
  /\ late = {}
  /\ \A w \in Workers : pc[w] = "failing" => w \in handled[cur[w]]
  /\ \A r \in Requests : status[r] \in Answered => handled[r] # {}

\* A worker claims and holds the older one too, unless it is settled.
ClaimsInOrder ==
  \A w \in Workers, r \in Requests : \A q \in claims[w] :
    Older(r, q, w) => Settled(r, w) \/ r \in claims[w]
BatchInOrder ==
  \A w \in Workers, r \in Requests : \A q \in batch[w] :
    Older(r, q, w) => Settled(r, w) \/ r \in batch[w]

OrderInv ==
  /\ RowsExist /\ ReportsFollowHandlers
  /\ ClaimsInOrder /\ BatchInOrder /\ HandledInOrder

\* The steps without a fault.
FaultlessNext ==
  \/ \E r \in Requests : Enqueue(r) \/ Expire(r)
  \/ RequeueStale
  \/ \E w \in Workers :
       \/ PopRead(w) \/ PopDelivered(w)
       \/ \E r \in Requests : HandlerSucceeds(w, r)
       \/ CompleteDelivered(w) \/ FailDelivered(w)

LEMMA WithoutFaults ==
  ASSUME Faults = {}, BadApi = {}, PollsWait, ReportsFollowHandlers, Next
  PROVE  FaultlessNext
<1>1. QuietNext
  BY WithoutLoss
<1>2. \A w \in Workers, r \in Requests : ~HandlerRaises(w, r)
  BY DEF HandlerRaises, Fault
<1>3. QED
  BY <1>1, <1>2 DEF QuietNext, FaultlessNext, ReportsFollowHandlers

\* What a step leaves of the rows, and that no worker drops what nobody handled.
Keeps ==
  /\ \A r \in Requests : status[r] # "absent" <=> status'[r] # "absent"
  /\ born' = born
  /\ \A r \in Requests : expired[r] => expired'[r]
  /\ \A r \in Requests : handled[r] \subseteq handled'[r]
  /\ \A w \in Workers, r \in Requests :
       r \in batch[w] /\ handled'[r] = {} => r \in batch'[w]

\* What is settled stays so.
LEMMA OrderStays ==
  ASSUME Keeps, NEW w \in Workers, NEW r \in Requests, NEW q \in Requests, Older(r, q, w)'
  PROVE  /\ Older(r, q, w)
         /\ Settled(r, w) \/ r \in batch[w] => Settled(r, w)' \/ r \in batch'[w]
         /\ Settled(r, w) => Settled(r, w)'
<1>1. Older(r, q, w)
  BY DEF Keeps, Older, Before, LabelsMatch
<1>2. ASSUME expired[r] \/ handled[r] # {} PROVE Settled(r, w)'
  BY <1>2 DEF Keeps, Settled
<1>3. ASSUME NEW v \in Workers, r \in batch[v]
      PROVE  r \in batch'[v] \/ handled'[r] # {}
  BY <1>3 DEF Keeps
<1>4. QED
  BY <1>1, <1>2, <1>3 DEF Settled

LEMMA RowsKept ==
  ASSUME RowsExist, Keeps,
         \A w \in Workers : claims'[w] \cup batch'[w] \subseteq Existing,
         \A r \in Requests : handled'[r] # {} => r \in Existing
  PROVE  RowsExist'
<1>1. Existing' = Existing /\ born' = born
  BY DEF Existing, Keeps
<1>2. QED
  BY <1>1 DEF RowsExist

\* Steps after which no worker has claims, batches or histories it had not.
LEMMA OrderKept ==
  ASSUME QueueInv, OrderInv, Keeps, UNCHANGED <<claims, handled>>,
         \A w \in Workers : batch'[w] \subseteq batch[w]
  PROVE  RowsExist' /\ ClaimsInOrder' /\ BatchInOrder' /\ HandledInOrder'
<1>1. \A w \in Workers : claims[w] \subseteq Requests /\ batch[w] \subseteq Requests
  BY DEF QueueInv, TypeOK
<1>2. RowsExist'
  BY RowsKept DEF OrderInv, RowsExist
<1>3. ClaimsInOrder'
  BY <1>1, OrderStays DEF OrderInv, ClaimsInOrder
<1>4. BatchInOrder'
  <2>1. SUFFICES ASSUME NEW w \in Workers, NEW r \in Requests, NEW q \in batch'[w],
                        Older(r, q, w)'
                 PROVE  Settled(r, w)' \/ r \in batch'[w]
    BY DEF BatchInOrder
  <2>2. q \in batch[w] /\ q \in Requests
    BY <1>1
  <2>3. Older(r, q, w)
    BY <2>1, <2>2, OrderStays
  <2>4. Settled(r, w) \/ r \in batch[w]
    BY <2>2, <2>3 DEF OrderInv, BatchInOrder
  <2>5. QED
    BY <2>1, <2>2, <2>4, OrderStays
<1>5. HandledInOrder'
  <2>1. SUFFICES ASSUME NEW w \in Workers, NEW r \in Requests, NEW q \in Requests,
                        w \in handled[q], Older(r, q, w)'
                 PROVE  Settled(r, w)'
    BY DEF HandledInOrder, Older, Settled, Before, LabelsMatch
  <2>2. Older(r, q, w)
    BY <2>1, OrderStays
  <2>3. Settled(r, w)
    BY <2>1, <2>2 DEF OrderInv, HandledInOrder, Older, Settled
  <2>4. QED
    BY <2>1, <2>3, OrderStays
<1>6. QED
  BY <1>2, <1>3, <1>4, <1>5

LEMMA EnqueueOrder ==
  ASSUME QueueInv, HeldInv, OrderInv, NEW n \in Requests, Enqueue(n)
  PROVE  OrderInv'
<1>1. /\ status[n] = "absent" /\ UNCHANGED <<expired, claims, batch, pc, cur, late, handled>>
      /\ \A r \in Requests \ {n} : status'[r] = status[r] /\ born'[r] = born[r]
      /\ status'[n] = "pending" /\ \A r \in Requests : born[r] <= born'[n]
  BY DEF Enqueue, Insert, handlers, workerVars, QueueInv, TypeOK
<1>2. n \notin Existing /\ Existing' = Existing \cup {n} /\ Existing \subseteq Requests
  BY <1>1 DEF Existing
<1>3. born \in [Requests -> Nat] /\ born'[n] \in Nat
  <2>1. Cardinality(Requests) \in Nat
    BY FS_CardinalityType
  <2>2. QED
    BY <2>1 DEF Enqueue, Insert, QueueInv, TypeOK
<1>4. RowsExist'
  BY <1>1, <1>2 DEF OrderInv, RowsExist
\* a row that was there is not younger than the new one
<1>5. ASSUME NEW w \in Workers, NEW r \in Requests, NEW q \in Existing, Older(r, q, w)'
      PROVE  Older(r, q, w) /\ (Settled(r, w) => Settled(r, w)')
  <2>1. born'[q] = born[q] /\ q # n
    BY <1>1, <1>2
  <2>2. r # n
    <3>1. born[q] <= born'[n] /\ born[q] \in Nat
      BY <1>1, <1>2, <1>3
    <3>2. born'[r] < born[q]
      BY <1>5, <2>1 DEF Older, Before
    <3>3. QED
      BY <1>3, <3>1, <3>2
  <2>3. QED
    BY <1>1, <1>5, <2>1, <2>2 DEF Older, Before, LabelsMatch, Settled
<1>6. ClaimsInOrder' /\ BatchInOrder'
  BY <1>1, <1>5 DEF OrderInv, RowsExist, ClaimsInOrder, BatchInOrder
<1>7. HandledInOrder'
  <2>1. SUFFICES ASSUME NEW w \in Workers, NEW r \in Requests, NEW q \in Requests,
                        w \in handled[q], Older(r, q, w)'
                 PROVE  Settled(r, w)'
    BY <1>1 DEF HandledInOrder, Older, Settled, Before, LabelsMatch
  <2>2. q \in Existing
    BY <2>1 DEF OrderInv, RowsExist
  <2>3. Settled(r, w)
    BY <1>5, <2>1, <2>2 DEF OrderInv, HandledInOrder, Older, Settled
  <2>4. QED
    BY <1>5, <2>1, <2>2, <2>3
<1>8. ReportsFollowHandlers'
  BY <1>1 DEF OrderInv, ReportsFollowHandlers
<1>9. QED
  BY <1>4, <1>6, <1>7, <1>8 DEF OrderInv

LEMMA PopReadOrder ==
  ASSUME QueueInv, HeldInv, OrderInv, NEW w \in Workers, PopRead(w)
  PROVE  OrderInv'
<1> PICK rs \in Matched(w) : claims' = [claims EXCEPT ![w] = rs]
  BY DEF PopRead
<1>1. /\ UNCHANGED <<status, born, expired, batch, cur, late, handled>>
      /\ pc[w] = "idle" /\ pc' = [pc EXCEPT ![w] = "waiting"]
  BY DEF PopRead, rows
<1>2. /\ claims'[w] = rs /\ \A v \in Workers \ {w} : claims'[v] = claims[v]
      /\ rs \subseteq Poppable /\ rs \subseteq Existing
  BY MatchedRows DEF QueueInv, TypeOK, Poppable, Existing
<1>3. \A v \in Workers, r, q \in Requests :
        /\ Older(r, q, v)' <=> Older(r, q, v)
        /\ Settled(r, v)' <=> Settled(r, v)
  BY <1>1 DEF Older, Before, LabelsMatch, Settled
<1>4. RowsExist'
  <2>1. Existing' = Existing
    BY <1>1 DEF Existing
  <2>2. \A v \in Workers : claims'[v] \cup batch'[v] \subseteq Existing
    BY <1>1, <1>2 DEF OrderInv, RowsExist
  <2>3. QED
    BY <1>1, <2>1, <2>2 DEF OrderInv, RowsExist
<1>5. ReportsFollowHandlers'
  BY <1>1 DEF OrderInv, ReportsFollowHandlers, QueueInv, TypeOK
<1>6. BatchInOrder' /\ HandledInOrder'
  BY <1>1 DEF OrderInv, BatchInOrder, HandledInOrder, Older, Before, LabelsMatch, Settled
<1>7. ASSUME NEW r \in Requests, NEW q \in rs, Older(r, q, w)
      PROVE  Settled(r, w) \/ r \in rs
  <2>1. CASE r \in Poppable
    BY <1>7, <2>1, MatchedRows DEF Older
  <2>2. CASE status[r] = "processing"
    <3>1. PICK v \in Workers : r \in batch[v]
      BY <2>2 DEF HeldInv, ProcessingIsHeld
    <3>2. v # w
      BY <1>1, <3>1 DEF HeldInv, IdleHoldsNothing
    <3>3. QED
      BY <3>1, <3>2 DEF Settled
  <2>3. CASE status[r] \in Answered
    BY <2>3 DEF OrderInv, ReportsFollowHandlers, Settled
  <2>4. CASE expired[r]
    BY <2>4 DEF Settled
  <2>5. QED
    BY <1>7, <2>1, <2>2, <2>3, <2>4 DEF Older, Poppable, QueueInv, TypeOK
<1>8. ClaimsInOrder'
  <2>1. SUFFICES ASSUME NEW v \in Workers, NEW r \in Requests, NEW q \in claims'[v],
                        Older(r, q, v)'
                 PROVE  Settled(r, v)' \/ r \in claims'[v]
    BY DEF ClaimsInOrder
  <2>2. q \in Requests
    BY <1>2 DEF QueueInv, TypeOK, Existing
  <2>3. Older(r, q, v)
    BY <1>3, <2>1, <2>2
  <2>4. CASE v = w
    BY <1>2, <1>3, <1>7, <2>3, <2>4
  <2>5. CASE v # w
    BY <1>2, <1>3, <2>3, <2>5 DEF OrderInv, ClaimsInOrder
  <2>6. QED
    BY <2>4, <2>5
<1>9. QED
  BY <1>4, <1>5, <1>6, <1>8 DEF OrderInv

LEMMA PopDeliveredOrder ==
  ASSUME QueueInv, HeldInv, OrderInv, NEW w \in Workers, PopDelivered(w)
  PROVE  OrderInv'
<1>1. /\ UNCHANGED <<born, expired, cur, late, handled>>
      /\ claims' = [claims EXCEPT ![w] = {}] /\ batch' = [batch EXCEPT ![w] = claims[w]]
      /\ \A r \in Requests : status'[r] = IF r \in claims[w] THEN "processing" ELSE status[r]
      /\ batch[w] = {}
  BY DEF PopDelivered, Claim, HeldInv, IdleHoldsNothing
<1>2. /\ claims'[w] = {} /\ \A v \in Workers \ {w} : claims'[v] = claims[v]
      /\ batch'[w] = claims[w] /\ \A v \in Workers \ {w} : batch'[v] = batch[v]
      /\ \A v \in Workers : claims[v] \subseteq Requests /\ batch[v] \subseteq Requests
  BY <1>1 DEF QueueInv, TypeOK
<1>3. Keeps
  BY <1>1, <1>2 DEF Keeps, OrderInv, RowsExist, Existing
<1>4. RowsExist'
  BY <1>1, <1>2, <1>3, RowsKept DEF OrderInv, RowsExist
<1>5. ReportsFollowHandlers'
  BY <1>1 DEF PopDelivered, OrderInv, ReportsFollowHandlers, QueueInv, TypeOK
<1>6. ClaimsInOrder'
  <2>1. SUFFICES ASSUME NEW v \in Workers, NEW r \in Requests, NEW q \in claims'[v],
                        Older(r, q, v)'
                 PROVE  Settled(r, v)' \/ r \in claims'[v]
    BY DEF ClaimsInOrder
  <2>2. v # w /\ q \in claims[v] /\ q \in Requests
    BY <1>2
  <2>3. QED
    BY <1>2, <1>3, <2>1, <2>2, OrderStays DEF OrderInv, ClaimsInOrder
<1>7. BatchInOrder'
  <2>1. SUFFICES ASSUME NEW v \in Workers, NEW r \in Requests, NEW q \in batch'[v],
                        Older(r, q, v)'
                 PROVE  Settled(r, v)' \/ r \in batch'[v]
    BY DEF BatchInOrder
  <2>2. q \in Requests
    BY <1>2
  <2>3. CASE v = w
    BY <1>2, <1>3, <2>1, <2>2, <2>3, OrderStays DEF OrderInv, ClaimsInOrder
  <2>4. CASE v # w
    BY <1>2, <1>3, <2>1, <2>2, <2>4, OrderStays DEF OrderInv, BatchInOrder
  <2>5. QED
    BY <2>3, <2>4
<1>8. HandledInOrder'
  <2>1. SUFFICES ASSUME NEW v \in Workers, NEW r \in Requests, NEW q \in Requests,
                        v \in handled[q], Older(r, q, v)'
                 PROVE  Settled(r, v)'
    BY <1>1 DEF HandledInOrder, Older, Settled, Before, LabelsMatch
  <2>2. Older(r, q, v)
    BY <1>3, <2>1, OrderStays
  <2>3. Settled(r, v)
    BY <2>1, <2>2 DEF OrderInv, HandledInOrder, Older, Settled
  <2>4. QED
    BY <1>3, <2>1, <2>3, OrderStays
<1>9. QED
  BY <1>4, <1>5, <1>6, <1>7, <1>8 DEF OrderInv

\* The batch is taken in order, so what is older is no longer in it.
LEMMA HandlerOrder ==
  ASSUME QueueInv, HeldInv, OrderInv, NEW w \in Workers, NEW n \in Requests,
         HandlerSucceeds(w, n)
  PROVE  OrderInv'
<1>1. /\ UNCHANGED <<status, born, expired, claims, batch, late>>
      /\ handled' = [handled EXCEPT ![n] = @ \cup {w}]
      /\ n \in batch[w] /\ \A r \in batch[w] : ~Before(r, n)
      /\ cur' = [cur EXCEPT ![w] = n] /\ pc' = [pc EXCEPT ![w] = "completing"]
  BY DEF HandlerSucceeds, Takes, Process, rows, handlers
<1>2. /\ handled'[n] = handled[n] \cup {w}
      /\ \A r \in Requests \ {n} : handled'[r] = handled[r]
      /\ \A v \in Workers : claims[v] \subseteq Requests /\ batch[v] \subseteq Requests
  BY <1>1 DEF QueueInv, TypeOK
<1>3. Keeps
  BY <1>1, <1>2 DEF Keeps
<1>4. RowsExist'
  BY <1>1, <1>2, <1>3, RowsKept DEF OrderInv, RowsExist
<1>5. ReportsFollowHandlers'
  BY <1>1, <1>2 DEF OrderInv, ReportsFollowHandlers, QueueInv, TypeOK, FailingHasRequest
<1>6. ClaimsInOrder' /\ BatchInOrder'
  BY <1>1, <1>2, <1>3, OrderStays DEF OrderInv, ClaimsInOrder, BatchInOrder
<1>7. HandledInOrder'
  <2>1. SUFFICES ASSUME NEW v \in Workers, NEW r \in Requests, NEW q \in Requests,
                        v \in handled'[q], Older(r, q, v)'
                 PROVE  Settled(r, v)'
    BY DEF HandledInOrder, Older, Settled, Before, LabelsMatch
  <2>2. Older(r, q, v)
    BY <1>3, <2>1, OrderStays
  <2>3. CASE v \in handled[q]
    <3>1. Settled(r, v)
      BY <2>2, <2>3 DEF OrderInv, HandledInOrder, Older, Settled
    <3>2. QED
      BY <1>3, <2>1, <3>1, OrderStays
  <2>4. CASE v = w /\ q = n
    <3>1. r \notin batch[w]
      BY <1>1, <2>2, <2>4 DEF Older
    <3>2. Settled(r, v)
      BY <1>1, <2>2, <2>4, <3>1 DEF OrderInv, BatchInOrder
    <3>3. QED
      BY <1>3, <2>1, <3>2, OrderStays
  <2>5. QED
    BY <1>2, <2>1, <2>3, <2>4
<1>8. QED
  BY <1>4, <1>5, <1>6, <1>7 DEF OrderInv

\* An answer, and the worker that goes on.
LEMMA AnswerOrder ==
  ASSUME QueueInv, HeldInv, OrderInv, NEW w \in Workers, CompleteDelivered(w) \/ FailDelivered(w)
  PROVE  OrderInv'
<1>1. cur[w] \in Requests /\ w \in handled[cur[w]]
  BY DEF CompleteDelivered, FailDelivered, QueueInv, CompletingHandled, FailingHasRequest,
    OrderInv, ReportsFollowHandlers
<1>2. PICK outcome \in Answered : Answer(cur[w], IdentityOf[w], outcome)
  BY DEF CompleteDelivered, FailDelivered
<1>3. UNCHANGED <<born, expired, claims, late, handled>>
  BY DEF CompleteDelivered, FailDelivered, handlers
<1>4. \A r \in Requests : status'[r] # status[r] =>
        r = cur[w] /\ assigned[r] = IdentityOf[w] /\ status'[r] = outcome
  BY <1>1, <1>2, AnswerEffect DEF QueueInv
<1>5. \A r \in Requests : status[r] # "absent" <=> status'[r] # "absent"
  <2>1. cur[w] \in Existing
    BY <1>1 DEF OrderInv, RowsExist
  <2>2. QED
    BY <1>4, <2>1 DEF Existing
<1>6. batch' = batch \/ batch' = [batch EXCEPT ![w] = @ \ {cur[w]}]
  BY DEF CompleteDelivered, FailDelivered, Advance, Process
<1>7. /\ \A v \in Workers : batch'[v] \subseteq batch[v]
      /\ \A v \in Workers : batch[v] \ {cur[w]} \subseteq batch'[v]
  BY <1>6 DEF QueueInv, TypeOK
<1>8. Keeps
  BY <1>1, <1>3, <1>5, <1>7 DEF Keeps
<1>9. RowsExist' /\ ClaimsInOrder' /\ BatchInOrder' /\ HandledInOrder'
  BY <1>3, <1>7, <1>8, OrderKept
<1>10. \A v \in Workers : pc'[v] = "failing" => cur'[v] = cur[v] /\ (v = w \/ pc[v] = "failing")
  BY DEF CompleteDelivered, FailDelivered, Advance, Process, QueueInv, TypeOK
<1>11. ReportsFollowHandlers'
  BY <1>1, <1>3, <1>4, <1>10 DEF OrderInv, ReportsFollowHandlers
<1>12. QED
  BY <1>9, <1>11 DEF OrderInv

LEMMA OrderStep ==
  ASSUME Faults = {}, BadApi = {}, QueueInv, HeldInv, OrderInv, [Next]_vars
  PROVE  OrderInv'
<1>1. ASSUME Keeps, UNCHANGED <<claims, batch, pc, cur, late, handled>>,
             \A r \in Requests : status'[r] \in Answered => status[r] \in Answered
      PROVE  OrderInv'
  BY <1>1, OrderKept DEF OrderInv, ReportsFollowHandlers
<1>2. ASSUME NEW r \in Requests, Expire(r) PROVE OrderInv'
  BY <1>1, <1>2 DEF Expire, Keeps, handlers, workerVars, QueueInv, TypeOK
<1>3. CASE RequeueStale
  BY <1>1, <1>3 DEF RequeueStale, Stale, Keeps, handlers, workerVars
<1>4. CASE UNCHANGED vars
  BY <1>1, <1>4 DEF vars, rows, handlers, workerVars, Keeps
<1>5. QED
  BY <1>2, <1>3, <1>4, EnqueueOrder, PopReadOrder, PopDeliveredOrder, HandlerOrder, AnswerOrder,
    WithoutFaults DEF FaultlessNext, HeldInv, OrderInv

\* HandledInOrder: where nothing fails and every request names a known API, the
\* ORDER BY of pop_requests, its over-fetch and the loop over the batch hand
\* each worker the requests it may pop in the order of their created_at.
THEOREM RequestsAreHandledInOrder ==
  ASSUME Faults = {}, BadApi = {}
  PROVE  Spec => []HandledInOrder
<1>1. Init => HeldInv
  BY DEF Init, HeldInv, PollsWait, IdleHoldsNothing, ProcessingIsHeld
<1>2. QueueInv /\ HeldInv /\ [Next]_vars => HeldInv'
  BY HeldStep
<1>3. Init => OrderInv
  BY DEF Init, OrderInv, RowsExist, ReportsFollowHandlers, ClaimsInOrder, BatchInOrder,
    HandledInOrder, Existing
<1>4. QueueInv /\ HeldInv /\ OrderInv /\ [Next]_vars => OrderInv'
  BY OrderStep
<1>5. OrderInv => HandledInOrder
  BY DEF OrderInv
<1>6. QED
  BY <1>1, <1>2, <1>3, <1>4, <1>5, QueueInvariant, PTL DEF Spec

-----------------------------------------------------------------------------
(* The daemon's side.                                                      *)

HIDE DEF Statuses, Answered, Calls

(***************************************************************************)
(* A word travels from a handler to the daemon through the worker, perhaps *)
(* a call on its way, the row, and the reply of the status endpoint.  The  *)
(* inductive invariant says of each place that the word there was said.    *)
(***************************************************************************)
Said(r, word) == \E s \in said[r] : s.response = word

SaidWasServed ==
  \A r \in Requests : \A s \in said[r] :
    s.response \in {"accepted", "alive"} /\ ApiOf[r] # "TERMINATE_RUN" => s.served

VerdictSaid ==
  \A w \in Workers : pc[w] = "completing" => Said(cur[w], verdict[w])

PendingSaid ==
  \A p \in pending :
    /\ p.call.op = "complete" => Said(p.call.req, p.response)
    /\ p.call.op = "fail" => p.response = "error"

BodySaid ==
  \A r \in Requests :
    /\ status[r] = "completed" => Said(r, body[r])
    /\ status[r] = "failed" => body[r] = "error"

SeenSaid ==
  \A r \in Requests :
    seen[r] # None /\ seen[r].status = "completed" => Said(r, seen[r].body)

ToldSaid ==
  \A r \in Requests :
    told[r] # None /\ told[r].status = "completed" => Said(r, told[r].body)

PendingTypeOK ==
  \A p \in pending : p.response \in Bodies

DaemonInv ==
  /\ QueueInv
  /\ DaemonTypeOK /\ PendingTypeOK
  /\ SaidWasServed
  /\ VerdictSaid /\ PendingSaid /\ BodySaid /\ SeenSaid /\ ToldSaid

USE DaemonAssumption

-----------------------------------------------------------------------------
(* Two steps of the daemon that are not steps of the queue on its own.     *)

LEMMA AskReplyLostQueueInv ==
  ASSUME QueueInv, NEW r \in Requests, AskReplyLost(r)
  PROVE  QueueInv'
<1> USE DEF QueueInv, Statuses, Answered
<1>1. TypeOK'
  <2>1. Cardinality(Requests) \in Nat
    BY FS_CardinalityType
  <2>2. born' \in [Requests -> Nat]
    BY <2>1 DEF AskReplyLost, Insert, TypeOK
  <2>3. QED
    BY <2>2 DEF AskReplyLost, Insert, Fault, TypeOK, handlers, workerVars
<1>2. QED
  BY <1>1 DEF AskReplyLost, Insert, TypeOK, handlers, workerVars,
    AssignmentMatchesStatus, CompletedWasHandled, CompletingHandled,
    FailingHasRequest, LateHandled

LEMMA PollLostQueueInv ==
  ASSUME QueueInv, NEW r \in Requests, PollLost(r)
  PROVE  QueueInv'
BY DEF PollLost, Fault, rows, handlers, workerVars, QueueInv, TypeOK,
  AssignmentMatchesStatus, CompletedWasHandled, CompletingHandled,
  FailingHasRequest, LateHandled

LEMMA EveryStepQueueInv ==
  ASSUME QueueInv, [DaemonNext]_allVars
  PROVE  QueueInv'
<1>1. CASE QueueStep
  <2>1. Next
    BY <1>1 DEF QueueStep, Next, WorkerStep, FaultStep
  <2>2. QED
    BY <2>1, NextInv
<1>2. ASSUME NEW w \in Workers,
             \/ \E r \in Requests : Handles(w, r)
             \/ Completes(w) \/ CompletesLate(w) \/ Fails(w) \/ FailsLate(w)
      PROVE  QueueInv'
  <2>1. Next
    BY <1>2 DEF Handles, Completes, CompletesLate, Fails, FailsLate, Next,
      WorkerStep, FaultStep
  <2>2. QED
    BY <2>1, NextInv
<1>3. ASSUME NEW p \in pending, CallArrivesLate(p) PROVE QueueInv'
  <2>1. LateCall(p.call) /\ p.call \in late
    BY <1>3 DEF CallArrivesLate, LateCall
  <2>2. Next
    BY <2>1 DEF Next
  <2>3. QED
    BY <2>2, NextInv
<1>4. ASSUME NEW r \in Requests, Ask(r) PROVE QueueInv'
  <2>1. Next
    BY <1>4 DEF Ask, Next
  <2>2. QED
    BY <2>1, NextInv
<1>5. ASSUME NEW r \in Requests, AskReplyLost(r) \/ PollLost(r) PROVE QueueInv'
  BY <1>5, AskReplyLostQueueInv, PollLostQueueInv
<1>6. ASSUME UNCHANGED vars PROVE QueueInv'
  BY <1>6, NextInv
<1>7. QED
  BY <1>1, <1>2, <1>3, <1>4, <1>5, <1>6 DEF DaemonNext, DaemonStep, Reload,
    AskRefused, Poll, Learn, TimeOut, allVars

-----------------------------------------------------------------------------
(* How words travel.                                                       *)

LEMMA ResponseType ==
  ASSUME NEW w \in Workers, NEW r \in Requests
  PROVE  Response(r, w) \in Responses
BY DEF Response, Responses

LEMMA ResponseServed ==
  ASSUME NEW w \in Workers, NEW r \in Requests,
         Response(r, w) \in {"accepted", "alive"}, ApiOf[r] # "TERMINATE_RUN"
  PROVE  w \in serves
BY DEF Response

\* Whatever was said stays said, so the places that keep their word keep it said.
LEMMA StillSaid ==
  ASSUME \A r \in Requests : said[r] \subseteq said'[r],
         NEW r \in Requests, NEW word, Said(r, word)
  PROVE  Said(r, word)'
BY DEF Said

\* The words of a completed row and of a complete call are responses.
LEMMA SaidIsResponse ==
  ASSUME DaemonTypeOK, NEW r \in Requests, NEW word, Said(r, word)
  PROVE  word \in Responses
BY DEF DaemonTypeOK, Said

\* An answer and the word stored with it.
LEMMA StoreBody ==
  ASSUME DaemonInv, NEW r \in Requests, NEW agent \in Identities,
         NEW outcome \in Answered, NEW word \in Bodies,
         Answer(r, agent, outcome), Store(r, agent, word), UNCHANGED said,
         outcome = "completed" => Said(r, word),
         outcome = "failed" => word = "error"
  PROVE  body' \in [Requests -> Bodies] /\ BodySaid'
<1>1. body' \in [Requests -> Bodies]
  BY DEF DaemonInv, DaemonTypeOK, Store
<1>2. ASSUME NEW q \in Requests
      PROVE  /\ status'[q] = "completed" => Said(q, body'[q])
             /\ status'[q] = "failed" => body'[q] = "error"
  <2>1. CASE q = r /\ Accepted(r, agent)
    <3>1. status'[q] = outcome /\ body'[q] = word
      BY <2>1 DEF Answer, Store, DaemonInv, QueueInv, TypeOK, DaemonTypeOK
    <3>2. QED
      BY <2>1, <3>1
  <2>2. CASE ~(q = r /\ Accepted(r, agent))
    <3>1. status'[q] = status[q] /\ body'[q] = body[q]
      BY <2>2 DEF Answer, Store, DaemonInv, QueueInv, TypeOK, DaemonTypeOK
    <3>2. QED
      BY <3>1 DEF DaemonInv, BodySaid
  <2>3. QED
    BY <2>1, <2>2
<1>3. BodySaid'
  BY <1>2 DEF BodySaid, Said
<1>4. QED
  BY <1>1, <1>3

Words ==
  /\ PendingTypeOK
  /\ SaidWasServed
  /\ VerdictSaid /\ PendingSaid /\ BodySaid /\ SeenSaid /\ ToldSaid

\* Steps that answer no row and report for no worker.
LEMMA WordsStay ==
  ASSUME DaemonInv, UNCHANGED <<body, verdict, pending, said, seen, told>>,
         \A r \in Requests : status'[r] \in Answered => status'[r] = status[r],
         \A w \in Workers : pc'[w] = "completing" => pc[w] = "completing" /\ cur'[w] = cur[w]
  PROVE  Words'
<1>1. PendingTypeOK' /\ SaidWasServed'
  BY DEF DaemonInv, PendingTypeOK, SaidWasServed
<1>2. VerdictSaid'
  BY DEF DaemonInv, VerdictSaid, Said
<1>3. PendingSaid' /\ SeenSaid' /\ ToldSaid'
  BY DEF DaemonInv, PendingSaid, SeenSaid, ToldSaid, Said
<1>4. BodySaid'
  BY DEF DaemonInv, BodySaid, Said, Answered
<1>5. QED
  BY <1>1, <1>2, <1>3, <1>4 DEF Words

\* The rest of the queue answers no row and makes no worker report.
LEMMA QueueStepIsQuiet ==
  ASSUME QueueInv, QueueStep
  PROVE  /\ \A r \in Requests : status'[r] \in Answered => status'[r] = status[r]
         /\ \A w \in Workers :
              pc'[w] = "completing" => pc[w] = "completing" /\ cur'[w] = cur[w]
         /\ late' = late
<1> DEFINE Quiet ==
  /\ \A r \in Requests : status'[r] \in Answered => status'[r] = status[r]
  /\ \A w \in Workers : pc'[w] = "completing" => pc[w] = "completing" /\ cur'[w] = cur[w]
  /\ late' = late
<1> USE DEF QueueInv, TypeOK, Answered
<1>1. CASE RequeueStale
  BY <1>1 DEF RequeueStale, workerVars
<1>2. ASSUME NEW r \in Requests, Expire(r) PROVE Quiet
  BY <1>2 DEF Expire, workerVars
<1>3. ASSUME NEW w \in Workers, PopRead(w) \/ PopAborted(w) \/ PopGiveUp(w) PROVE Quiet
  BY <1>3 DEF PopRead, PopAborted, PopGiveUp, rows
<1>4. ASSUME NEW w \in Workers, PopHandler(w) PROVE Quiet
  BY <1>4 DEF PopHandler, PopDelivered, PopReplyLost, Claim
<1>5. ASSUME NEW w \in Workers, Crash(w) PROVE Quiet
  BY <1>5 DEF Crash, rows
<1>6. ASSUME NEW w \in Workers, NEW r \in Requests,
             BatchAbandoned(w, r) \/ HandlerRaises(w, r) \/ HandlerReturnsNone(w, r)
      PROVE  Quiet
  BY <1>6 DEF BatchAbandoned, HandlerRaises, HandlerReturnsNone, Process, Advance, rows
<1>7. QED
  BY <1>1, <1>2, <1>3, <1>4, <1>5, <1>6 DEF QueueStep

LEMMA QueueStepInv ==
  ASSUME DaemonInv, QueueStep
  PROVE  DaemonTypeOK' /\ Words'
<1>1. UNCHANGED daemonVars
  BY DEF QueueStep
<1>2. QueueInv
  BY DEF DaemonInv
<1>3. late' = late
  BY <1>2, QueueStepIsQuiet
<1>4. DaemonTypeOK'
  BY <1>1, <1>3 DEF DaemonInv, DaemonTypeOK, daemonVars, waiting, responses, location
<1>5. Words'
  BY <1>1, <1>2, QueueStepIsQuiet, WordsStay DEF daemonVars, waiting, responses
<1>6. QED
  BY <1>4, <1>5

\* The daemon's own steps: what it reads from the row was said.
LEMMA WaitingInv ==
  ASSUME DaemonInv, NEW r \in Requests,
         \/ Ask(r) \/ AskReplyLost(r) \/ AskRefused(r)
         \/ DaemonStep(r) \/ PollLost(r) \/ TimeOut(r)
  PROVE  DaemonTypeOK' /\ Words'
<1> USE DEF DaemonInv
<1>1. ASSUME Ask(r) \/ AskReplyLost(r) \/ AskRefused(r) \/ TimeOut(r)
      PROVE  DaemonTypeOK' /\ Words'
  <2>1. DaemonTypeOK'
    BY <1>1 DEF Ask, AskReplyLost, AskRefused, TimeOut, Enqueue, Insert, Becomes, vars,
      responses, location, DaemonTypeOK
  <2>2. Words'
    <3>1. \A q \in Requests : status'[q] \in Answered => status'[q] = status[q]
      BY <1>1 DEF Ask, AskReplyLost, AskRefused, TimeOut, Enqueue, Insert, vars, rows,
        QueueInv, TypeOK, Answered
    <3>2. UNCHANGED <<pc, cur>>
      BY <1>1 DEF Ask, AskReplyLost, AskRefused, TimeOut, Enqueue, Insert, vars, workerVars
    <3>3. QED
      BY <1>1, <3>1, <3>2, WordsStay DEF Ask, AskReplyLost, AskRefused, TimeOut, responses
  <2>3. QED
    BY <2>1, <2>2
<1>2. ASSUME UNCHANGED <<rows, workerVars, late, daemon, responses, location>>,
             Poll(r) \/ Learn(r) \/ PollLost(r)
      PROVE  PendingTypeOK' /\ SaidWasServed' /\ VerdictSaid' /\ PendingSaid' /\ BodySaid'
  BY <1>2 DEF rows, workerVars, responses, location, PendingTypeOK, SaidWasServed,
    VerdictSaid, PendingSaid, BodySaid, Said
<1>3. CASE Poll(r)
  <2>1. UNCHANGED <<rows, workerVars, late, daemon, responses, location, told>>
    BY <1>3 DEF Poll, vars
  <2>2. StatusOf(r) \in Replies
    BY DEF StatusOf, Replies, QueueInv, TypeOK, DaemonTypeOK
  <2>3. DaemonTypeOK'
    BY <1>3, <2>1, <2>2 DEF Poll, Becomes, DaemonTypeOK, responses, location, Replies
  <2>4. SeenSaid'
    <3>1. status[r] = "completed" => Said(r, body[r])
      BY DEF BodySaid
    <3>2. SUFFICES ASSUME NEW q \in Requests, seen'[q] # None, seen'[q].status = "completed"
                   PROVE  Said(q, seen'[q].body)
      BY <2>1 DEF SeenSaid, Said, responses
    <3>3. CASE q = r
      BY <1>3, <3>1, <3>2, <3>3 DEF Poll, DaemonTypeOK, StatusOf, Denied
    <3>4. CASE q # r
      BY <1>3, <3>2, <3>4 DEF Poll, DaemonTypeOK, SeenSaid
    <3>5. QED
      BY <3>3, <3>4
  <2>5. ToldSaid'
    BY <2>1 DEF ToldSaid, Said, responses
  <2>6. QED
    BY <1>2, <1>3, <2>1, <2>3, <2>4, <2>5 DEF Words
<1>4. CASE Learn(r)
  <2>1. UNCHANGED <<rows, workerVars, late, daemon, responses, location>>
    BY <1>4 DEF Learn, vars
  <2>2. told' = [told EXCEPT ![r] = seen[r]] \/ UNCHANGED told
    BY <1>4 DEF Learn
  <2>3. seen' = [seen EXCEPT ![r] = None]
    BY <1>4 DEF Learn
  <2>4. DaemonTypeOK'
    BY <1>4, <2>1, <2>2, <2>3 DEF Learn, Becomes, DaemonTypeOK, responses, location
  <2>5. SeenSaid'
    BY <2>1, <2>3 DEF DaemonTypeOK, SeenSaid, Said, responses
  <2>6. ToldSaid'
    <3>1. SUFFICES ASSUME NEW q \in Requests, told'[q] # None, told'[q].status = "completed"
                   PROVE  Said(q, told'[q].body)
      BY <2>1 DEF ToldSaid, Said, responses
    <3>2. told'[q] \in {told[q], seen[q]}
      BY <2>2 DEF DaemonTypeOK
    <3>3. QED
      BY <3>1, <3>2 DEF SeenSaid, ToldSaid
  <2>7. QED
    BY <1>2, <1>4, <2>1, <2>4, <2>5, <2>6 DEF Words
<1>5. CASE PollLost(r)
  <2>1. UNCHANGED <<rows, workerVars, late, daemon, responses, location, told>>
    BY <1>5 DEF PollLost
  <2>2. seen' = [seen EXCEPT ![r] = None]
    BY <1>5 DEF PollLost
  <2>3. DaemonTypeOK'
    BY <1>5, <2>1, <2>2 DEF PollLost, Becomes, DaemonTypeOK, responses, location
  <2>4. SeenSaid' /\ ToldSaid'
    BY <2>1, <2>2 DEF DaemonTypeOK, SeenSaid, ToldSaid, Said, responses
  <2>5. QED
    BY <1>2, <1>5, <2>1, <2>3, <2>4 DEF Words
<1>6. QED
  BY <1>1, <1>3, <1>4, <1>5 DEF DaemonStep

-----------------------------------------------------------------------------
(* The agents' steps.                                                      *)

\* A handler ends: its word is added to what was said to the request.
LEMMA HandlerSays ==
  ASSUME DaemonInv, NEW w \in Workers, NEW r \in Requests, Handles(w, r)
  PROVE  \E word \in [by : Workers, response : Responses, served : BOOLEAN] :
           /\ word.response = Response(r, w)
           /\ word.served = (w \in serves)
           /\ said' = [said EXCEPT ![r] = said[r] \cup {word}]
<1> DEFINE word == [by |-> w, response |-> Response(r, w), served |-> w \in serves]
<1>1. Response(r, w) \in Responses
  BY ResponseType
<1>2. word \in [by : Workers, response : Responses, served : BOOLEAN]
  BY <1>1
<1>3. word.response = Response(r, w) /\ word.served = (w \in serves)
  OBVIOUS
<1>4. said' = [said EXCEPT ![r] = said[r] \cup {word}]
  BY DEF Handles
<1> HIDE DEF word
<1>5. QED
  BY <1>2, <1>3, <1>4

\* It is with the worker, and nowhere else yet.
LEMMA HandlesInv ==
  ASSUME DaemonInv, NEW w \in Workers, NEW r \in Requests, Handles(w, r)
  PROVE  DaemonTypeOK' /\ Words'
<1>1. Response(r, w) \in Responses
  BY ResponseType
<1>2. PICK word \in [by : Workers, response : Responses, served : BOOLEAN] :
        /\ word.response = Response(r, w)
        /\ word.served = (w \in serves)
        /\ said' = [said EXCEPT ![r] = said[r] \cup {word}]
  BY HandlerSays
<1>3. UNCHANGED <<waiting, body, pending, location, status, late>>
  BY DEF Handles, HandlerSucceeds, rows
<1>4. /\ pc' = [pc EXCEPT ![w] = "completing"]
      /\ cur' = [cur EXCEPT ![w] = r]
      /\ verdict' = [verdict EXCEPT ![w] = Response(r, w)]
  BY DEF Handles, HandlerSucceeds, Process
<1>5. /\ said \in [Requests -> SUBSET [by : Workers, response : Responses, served : BOOLEAN]]
      /\ \A q \in Requests : said'[q] = IF q = r THEN said[q] \cup {word} ELSE said[q]
  BY <1>2 DEF DaemonInv, DaemonTypeOK
<1>6. said' \in [Requests -> SUBSET [by : Workers, response : Responses, served : BOOLEAN]]
  BY <1>2, <1>5
<1>7. DaemonTypeOK'
  BY <1>1, <1>3, <1>4, <1>6 DEF DaemonInv, DaemonTypeOK, waiting, location
<1>8. \A q \in Requests : said[q] \subseteq said'[q]
  BY <1>5
<1>9. SaidWasServed'
  <2>1. SUFFICES ASSUME NEW q \in Requests, NEW s \in said'[q],
                        s.response \in {"accepted", "alive"}, ApiOf[q] # "TERMINATE_RUN"
                 PROVE  s.served
    BY DEF SaidWasServed
  <2>2. CASE s \in said[q]
    BY <2>1, <2>2 DEF DaemonInv, SaidWasServed
  <2>3. CASE q = r /\ s = word
    BY <1>2, <2>1, <2>3, ResponseServed
  <2>4. QED
    BY <1>5, <2>2, <2>3
<1>10. VerdictSaid'
  <2>1. SUFFICES ASSUME NEW v \in Workers, pc'[v] = "completing"
                 PROVE  Said(cur[v], verdict[v])'
    BY DEF VerdictSaid, Said
  <2>2. CASE v = w
    <3>1. cur'[v] = r /\ verdict'[v] = Response(r, w)
      BY <1>4, <2>2 DEF DaemonInv, DaemonTypeOK, QueueInv, TypeOK
    <3>2. word \in said'[r]
      BY <1>5
    <3>3. QED
      BY <1>2, <3>1, <3>2 DEF Said
  <2>3. CASE v # w
    <3>1. pc[v] = "completing" /\ cur'[v] = cur[v] /\ verdict'[v] = verdict[v]
      BY <1>4, <2>1, <2>3 DEF DaemonInv, DaemonTypeOK, QueueInv, TypeOK
    <3>2. Said(cur[v], verdict[v]) /\ cur[v] \in Requests
      BY <3>1 DEF DaemonInv, VerdictSaid, QueueInv, CompletingHandled
    <3>3. QED
      BY <1>8, <3>1, <3>2 DEF Said
  <2>4. QED
    BY <2>2, <2>3
<1>11. PendingSaid' /\ PendingTypeOK'
  <2>1. \A p \in pending : p.call \in Calls
    BY DEF DaemonInv, DaemonTypeOK, QueueInv, TypeOK
  <2>2. \A p \in pending : p.call.req \in Requests
    BY <2>1 DEF Calls
  <2>3. QED
    BY <1>3, <1>8, <2>2 DEF DaemonInv, PendingSaid, PendingTypeOK, Said
<1>12. BodySaid' /\ SeenSaid' /\ ToldSaid'
  BY <1>3, <1>8 DEF DaemonInv, BodySaid, SeenSaid, ToldSaid, Said, waiting
<1>13. QED
  BY <1>7, <1>9, <1>10, <1>11, <1>12 DEF Words

\* A report reaches the row, now or late; no worker is about to report more.
LEMMA StoredInv ==
  ASSUME DaemonInv, NEW r \in Requests, NEW agent \in Identities,
         NEW outcome \in Answered, NEW word \in Bodies,
         Answer(r, agent, outcome), Store(r, agent, word),
         outcome = "completed" => Said(r, word),
         outcome = "failed" => word = "error",
         UNCHANGED <<waiting, verdict, said, location>>,
         pending' \subseteq pending, late' = {p.call : p \in pending'},
         \A w \in Workers : pc'[w] = "completing" => pc[w] = "completing" /\ cur'[w] = cur[w]
  PROVE  DaemonTypeOK' /\ Words'
<1>1. body' \in [Requests -> Bodies] /\ BodySaid'
  BY StoreBody
<1>2. DaemonTypeOK'
  BY <1>1 DEF DaemonInv, DaemonTypeOK, waiting, location
<1>3. VerdictSaid'
  BY DEF DaemonInv, VerdictSaid, Said
<1>4. PendingTypeOK' /\ PendingSaid'
  BY DEF DaemonInv, PendingTypeOK, PendingSaid, Said
<1>5. SaidWasServed' /\ SeenSaid' /\ ToldSaid'
  BY DEF DaemonInv, SaidWasServed, SeenSaid, ToldSaid, Said, waiting
<1>6. QED
  BY <1>1, <1>2, <1>3, <1>4, <1>5 DEF Words

\* A report is on its way when its sender gives up on it.
LEMMA DelayedInv ==
  ASSUME DaemonInv, NEW w \in Workers, cur[w] \in Requests,
         NEW op \in {"complete", "fail"}, NEW word \in Bodies,
         pending' = pending \cup {[call |-> Call(op, w), response |-> word]},
         late' = late \cup {Call(op, w)},
         op = "complete" => Said(cur[w], word),
         op = "fail" => word = "error",
         UNCHANGED <<waiting, body, verdict, said, location, status>>,
         \A v \in Workers : pc'[v] = "completing" => pc[v] = "completing" /\ cur'[v] = cur[v]
  PROVE  DaemonTypeOK' /\ Words'
<1> DEFINE new == [call |-> Call(op, w), response |-> word]
<1>1. new.call.op = op /\ new.call.req = cur[w] /\ new.response = word
  BY DEF Call
<1>2. new.call = Call(op, w) /\ pending' = pending \cup {new}
  OBVIOUS
<1> HIDE DEF new
<1>3. {p.call : p \in pending'} = late'
  BY <1>2 DEF DaemonInv, DaemonTypeOK
<1>4. DaemonTypeOK'
  BY <1>3 DEF DaemonInv, DaemonTypeOK, waiting, location
<1>5. VerdictSaid'
  BY DEF DaemonInv, VerdictSaid, Said
<1>6. PendingTypeOK'
  BY <1>1, <1>2 DEF DaemonInv, PendingTypeOK
<1>7. PendingSaid'
  BY <1>1, <1>2 DEF DaemonInv, PendingSaid, Said
<1>8. SaidWasServed' /\ BodySaid' /\ SeenSaid' /\ ToldSaid'
  BY DEF DaemonInv, SaidWasServed, BodySaid, SeenSaid, ToldSaid, Said, waiting
<1>9. QED
  BY <1>4, <1>5, <1>6, <1>7, <1>8 DEF Words

LEMMA ReportInv ==
  ASSUME DaemonInv, NEW w \in Workers, Completes(w) \/ Fails(w)
  PROVE  DaemonTypeOK' /\ Words'
<1> USE DEF Answered
<1>1. /\ UNCHANGED <<waiting, verdict, said, location, pending, late>>
      /\ late = {p.call : p \in pending}
  BY DEF Completes, Fails, CompleteDelivered, CompleteReplyLost, FailDelivered,
    DaemonInv, DaemonTypeOK
<1>2. IdentityOf[w] \in Identities
  OBVIOUS
<1>3. CASE Completes(w)
  <2>1. pc[w] = "completing" /\ Answer(cur[w], IdentityOf[w], "completed")
    BY <1>3 DEF Completes, CompleteDelivered, CompleteReplyLost
  <2>2. cur[w] \in Requests /\ Said(cur[w], verdict[w])
    BY <2>1 DEF DaemonInv, QueueInv, CompletingHandled, VerdictSaid
  <2>3. verdict[w] \in Bodies
    BY <2>2, SaidIsResponse DEF DaemonInv, Bodies
  <2>4. \A v \in Workers : pc'[v] = "completing" => pc[v] = "completing" /\ cur'[v] = cur[v]
    BY <1>3 DEF Completes, CompleteDelivered, CompleteReplyLost, Advance, Process,
      DaemonInv, QueueInv, TypeOK
  <2>5. Store(cur[w], IdentityOf[w], verdict[w])
    BY <1>3 DEF Completes
  <2>6. QED
    BY <1>1, <1>2, <2>1, <2>2, <2>3, <2>4, <2>5, StoredInv
<1>4. CASE Fails(w)
  <2>1. pc[w] = "failing" /\ Answer(cur[w], IdentityOf[w], "failed")
    BY <1>4 DEF Fails, FailDelivered
  <2>2. cur[w] \in Requests
    BY <2>1 DEF DaemonInv, QueueInv, FailingHasRequest
  <2>3. \A v \in Workers : pc'[v] = "completing" => pc[v] = "completing" /\ cur'[v] = cur[v]
    BY <1>4 DEF Fails, FailDelivered, Advance, DaemonInv, QueueInv, TypeOK
  <2>4. Store(cur[w], IdentityOf[w], "error") /\ "error" \in Bodies
    BY <1>4 DEF Fails, Bodies
  <2>5. QED
    BY <1>1, <1>2, <2>1, <2>2, <2>3, <2>4, StoredInv
<1>5. QED
  BY <1>3, <1>4

LEMMA DelayedReportInv ==
  ASSUME DaemonInv, NEW w \in Workers, CompletesLate(w) \/ FailsLate(w)
  PROVE  DaemonTypeOK' /\ Words'
<1>1. UNCHANGED <<waiting, body, verdict, said, location, status>>
  BY DEF CompletesLate, FailsLate, CompleteDelayed, FailDelayed, rows
<1>2. CASE CompletesLate(w)
  <2>1. pc[w] = "completing"
    BY <1>2 DEF CompletesLate, CompleteDelayed
  <2>2. cur[w] \in Requests /\ Said(cur[w], verdict[w])
    BY <2>1 DEF DaemonInv, QueueInv, CompletingHandled, VerdictSaid
  <2>3. verdict[w] \in Bodies
    BY <2>2, SaidIsResponse DEF DaemonInv, Bodies
  <2>4. \A v \in Workers : pc'[v] = "completing" => pc[v] = "completing" /\ cur'[v] = cur[v]
    BY <1>2 DEF CompletesLate, CompleteDelayed, Process, DaemonInv, QueueInv, TypeOK
  <2>5. /\ pending' = pending \cup {[call |-> Call("complete", w), response |-> verdict[w]]}
        /\ late' = late \cup {Call("complete", w)}
    BY <1>2 DEF CompletesLate, CompleteDelayed
  <2>6. QED
    BY <1>1, <2>2, <2>3, <2>4, <2>5, DelayedInv
<1>3. CASE FailsLate(w)
  <2>1. pc[w] = "failing"
    BY <1>3 DEF FailsLate, FailDelayed
  <2>2. cur[w] \in Requests
    BY <2>1 DEF DaemonInv, QueueInv, FailingHasRequest
  <2>3. "error" \in Bodies
    BY DEF Bodies
  <2>4. \A v \in Workers : pc'[v] = "completing" => pc[v] = "completing" /\ cur'[v] = cur[v]
    BY <1>3 DEF FailsLate, FailDelayed, Advance, DaemonInv, QueueInv, TypeOK
  <2>5. /\ pending' = pending \cup {[call |-> Call("fail", w), response |-> "error"]}
        /\ late' = late \cup {Call("fail", w)}
    BY <1>3 DEF FailsLate, FailDelayed
  <2>6. QED
    BY <1>1, <2>2, <2>3, <2>4, <2>5, DelayedInv
<1>4. QED
  BY <1>2, <1>3

\* The call carries the word it was given when its sender gave up on it.
LEMMA CallArrivesLateInv ==
  ASSUME DaemonInv, NEW p \in pending, CallArrivesLate(p)
  PROVE  DaemonTypeOK' /\ Words'
<1>1. /\ late' = late \ {p.call}
      /\ Answer(p.call.req, p.call.agent, Outcome(p.call.op))
      /\ Store(p.call.req, p.call.agent, p.response)
      /\ pending' = {q \in pending : q.call # p.call}
      /\ UNCHANGED <<waiting, verdict, said, location, workerVars>>
  BY DEF CallArrivesLate, LateCall
<1>2. late = {q.call : q \in pending}
  BY DEF DaemonInv, DaemonTypeOK
<1>3. late' = {q.call : q \in pending'}
  BY <1>1, <1>2
<1>4. p.call \in Calls
  BY <1>2 DEF DaemonInv, QueueInv, TypeOK
<1>5. p.call.req \in Requests /\ p.call.agent \in Identities /\ p.call.op \in {"complete", "fail"}
  BY <1>4 DEF Calls
<1>6. Outcome(p.call.op) \in Answered
  BY <1>4, OutcomeAnswers
<1>7. /\ Outcome(p.call.op) = "completed" => Said(p.call.req, p.response)
      /\ Outcome(p.call.op) = "failed" => p.response = "error"
  BY <1>5 DEF DaemonInv, PendingSaid, Outcome
<1>8. p.response \in Bodies
  BY DEF DaemonInv, PendingTypeOK
<1>9. \A w \in Workers : pc'[w] = "completing" => pc[w] = "completing" /\ cur'[w] = cur[w]
  BY <1>1 DEF workerVars
<1>10. QED
  BY <1>1, <1>3, <1>5, <1>6, <1>7, <1>8, <1>9, StoredInv

-----------------------------------------------------------------------------
LEMMA DaemonInitInv == DaemonInit => DaemonInv
<1> SUFFICES ASSUME DaemonInit PROVE DaemonInv
  OBVIOUS
<1>1. QueueInv
  BY InitInv DEF DaemonInit
<1>2. DaemonTypeOK
  BY DEF DaemonInit, Init, DaemonTypeOK, Bodies
<1>3. PendingTypeOK /\ SaidWasServed /\ PendingSaid /\ SeenSaid /\ ToldSaid
  BY DEF DaemonInit, PendingTypeOK, SaidWasServed, PendingSaid, SeenSaid, ToldSaid
<1>4. VerdictSaid /\ BodySaid
  BY DEF DaemonInit, Init, VerdictSaid, BodySaid
<1>5. QED
  BY <1>1, <1>2, <1>3, <1>4 DEF DaemonInv

LEMMA DaemonNextInv == DaemonInv /\ [DaemonNext]_allVars => DaemonInv'
<1> SUFFICES ASSUME DaemonInv, [DaemonNext]_allVars PROVE DaemonInv'
  OBVIOUS
<1>1. QueueInv'
  BY EveryStepQueueInv DEF DaemonInv
<1>2. ASSUME NEW w \in Workers, Reload(w) PROVE DaemonTypeOK' /\ Words'
  <2>1. UNCHANGED <<vars, waiting, responses>> /\ serves' \subseteq Workers
    BY <1>2 DEF Reload, DaemonInv, DaemonTypeOK
  <2>2. DaemonTypeOK'
    BY <2>1 DEF DaemonInv, DaemonTypeOK, vars, waiting, responses
  <2>3. UNCHANGED <<status, pc, cur, body, verdict, pending, said, seen, told>>
    BY <2>1 DEF vars, rows, workerVars, waiting, responses
  <2>4. Words'
    BY <2>3, WordsStay
  <2>5. QED
    BY <2>2, <2>4
<1>3. ASSUME UNCHANGED allVars PROVE DaemonTypeOK' /\ Words'
  <2>1. UNCHANGED <<vars, waiting, responses, location>>
    BY <1>3 DEF allVars, daemonVars
  <2>2. DaemonTypeOK'
    BY <2>1 DEF DaemonInv, DaemonTypeOK, vars, waiting, responses, location
  <2>3. UNCHANGED <<status, pc, cur, body, verdict, pending, said, seen, told>>
    BY <2>1 DEF vars, rows, workerVars, waiting, responses
  <2>4. Words'
    BY <2>3, WordsStay
  <2>5. QED
    BY <2>2, <2>4
<1>4. DaemonTypeOK' /\ Words'
  <2>1. CASE QueueStep
    BY <2>1, QueueStepInv
  <2>2. CASE \E w \in Workers :
               \/ \E r \in Requests : Handles(w, r)
               \/ Completes(w) \/ CompletesLate(w) \/ Fails(w) \/ FailsLate(w) \/ Reload(w)
    BY <1>2, <2>2, HandlesInv, ReportInv, DelayedReportInv
  <2>3. CASE \E p \in pending : CallArrivesLate(p)
    BY <2>3, CallArrivesLateInv
  <2>4. CASE \E r \in Requests :
               \/ Ask(r) \/ AskReplyLost(r) \/ AskRefused(r)
               \/ DaemonStep(r) \/ PollLost(r) \/ TimeOut(r)
    BY <2>4, WaitingInv
  <2>5. QED
    BY <1>3, <2>1, <2>2, <2>3, <2>4 DEF DaemonNext
<1>5. QED
  BY <1>1, <1>4 DEF DaemonInv, Words

\* The inductive invariant of the queue with its daemon, of which the next
\* three are consequences.
THEOREM DaemonInvariant == DaemonSpec => []DaemonInv
<1>1. DaemonSpec => DaemonInit /\ [][DaemonNext]_allVars
  BY PTL DEF DaemonSpec
<1>2. QED
  BY <1>1, DaemonInitInv, DaemonNextInv, PTL

\* DaemonTypeOK: every variable of the daemon's side has a value of its kind,
\* and the calls on their way are those that carry a response.
THEOREM DaemonTypes == DaemonSpec => []DaemonTypeOK
<1>1. DaemonInv => DaemonTypeOK
  BY DEF DaemonInv
<1>2. QED
  BY <1>1, DaemonInvariant, PTL

\* StatusAndBodyAgree: whichever of complete_request and fail_request comes last,
\* late or twice, a completed row holds a handler's response and a failed one an
\* exception's text.  (Not the other way round: an answered row that is claimed
\* again keeps its body.)
THEOREM StatusGoesWithBody == DaemonSpec => []StatusAndBodyAgree
<1>1. ASSUME DaemonInv PROVE StatusAndBodyAgree
  BY <1>1, SaidIsResponse DEF DaemonInv, BodySaid, StatusAndBodyAgree
<1>2. QED
  BY <1>1, DaemonInvariant, PTL

\* ToldWhatAWorkerSaid: wait_for_response returns for a completed request what
\* a handler of an agent returned for it.
THEOREM ResultsWereSaid == DaemonSpec => []ToldWhatAWorkerSaid
<1>1. ASSUME DaemonInv PROVE ToldWhatAWorkerSaid
  BY <1>1 DEF DaemonInv, ToldSaid, SaidWasServed, Said, ToldWhatAWorkerSaid
<1>2. QED
  BY <1>1, DaemonInvariant, PTL

-----------------------------------------------------------------------------
(* Why requests fail.                                                      *)

\* As long as nothing has failed: a worker whose complete call was refused does
\* not have the request, so that its fail call is refused as well.
FaultFree ==
  /\ late = {} /\ PollsWait
  /\ \A w \in Workers : pc[w] = "failing" => assigned[cur[w]] # IdentityOf[w]
  /\ \A r \in Requests : status[r] # "failed"

FailuresAreErrors ==
  \A r \in Requests : \A reply \in {seen[r], told[r]} :
    reply # None /\ reply.status = "failed" => reply.body = "error" /\ faults > 0

CauseInv == (faults = 0 => FaultFree) /\ FailuresAreErrors

LEMMA FaultsGrow ==
  ASSUME QueueInv, [DaemonNext]_allVars
  PROVE  /\ faults \in Nat /\ faults' \in {faults, faults + 1}
         /\ faults' = faults => Next \/ UNCHANGED vars
<1>1. faults \in Nat
  BY DEF QueueInv, TypeOK
<1>2. ASSUME Next PROVE faults' \in {faults, faults + 1}
  <2>1. ASSUME NEW w \in Workers, FaultStep(w) PROVE faults' = faults + 1
    BY <2>1 DEF FaultStep, PopAborted, PopGiveUp, HandlerRaises, HandlerReturnsNone,
      CompleteReplyLost, CompleteDelayed, FailDelayed, Crash, Fault
  <2>2. ASSUME NEW w \in Workers, WorkerStep(w) PROVE faults' = faults
    BY <2>2 DEF WorkerStep, PopRead, HandlerSucceeds, BatchAbandoned, CompleteDelivered,
      FailDelivered
  <2>3. ASSUME NEW w \in Workers, PopHandler(w) PROVE faults' \in {faults, faults + 1}
    BY <2>3 DEF PopHandler, PopDelivered, PopReplyLost, Fault
  <2>4. ASSUME \/ \E r \in Requests : Enqueue(r) \/ Expire(r)
               \/ RequeueStale \/ \E m \in late : LateCall(m)
        PROVE  faults' = faults
    BY <2>4 DEF Enqueue, Expire, RequeueStale, LateCall
  <2>5. QED
    BY <1>2, <2>1, <2>2, <2>3, <2>4 DEF Next
<1>3. ASSUME NEW r \in Requests, AskReplyLost(r) \/ PollLost(r) PROVE faults' = faults + 1
  BY <1>3 DEF AskReplyLost, PollLost, Fault
<1>4. ASSUME DaemonNext, \A r \in Requests : ~AskReplyLost(r) /\ ~PollLost(r)
      PROVE  Next \/ UNCHANGED vars
  <2>1. CASE QueueStep
    BY <2>1 DEF QueueStep, Next, WorkerStep, FaultStep
  <2>2. ASSUME NEW w \in Workers,
               \/ \E r \in Requests : Handles(w, r)
               \/ Completes(w) \/ CompletesLate(w) \/ Fails(w) \/ FailsLate(w)
        PROVE  Next
    BY <2>2 DEF Handles, Completes, CompletesLate, Fails, FailsLate, Next, WorkerStep, FaultStep
  <2>3. ASSUME NEW p \in pending, CallArrivesLate(p) PROVE Next
    BY <2>3 DEF CallArrivesLate, LateCall, Next
  <2>4. ASSUME NEW r \in Requests, Ask(r) PROVE Next
    BY <2>4 DEF Ask, Next
  <2>5. ASSUME \/ \E w \in Workers : Reload(w)
               \/ \E r \in Requests : AskRefused(r) \/ DaemonStep(r) \/ TimeOut(r)
        PROVE  UNCHANGED vars
    BY <2>5 DEF Reload, AskRefused, DaemonStep, Poll, Learn, TimeOut
  <2>6. QED
    BY <1>4, <2>1, <2>2, <2>3, <2>4, <2>5 DEF DaemonNext
<1>5. UNCHANGED vars => faults' = faults
  BY DEF vars
<1>6. UNCHANGED allVars => UNCHANGED vars
  BY DEF allVars
<1>7. QED
  BY <1>1, <1>2, <1>3, <1>4, <1>5, <1>6

LEMMA FaultFreeNext ==
  ASSUME QueueInv, FaultFree, Next, faults' = faults
  PROVE  FaultlessNext \/ \E w \in Workers, r \in Requests : BatchAbandoned(w, r)
<1>1. ~Fault("loss") /\ ~Fault("delay") /\ ~Fault("none") /\ ~Fault("crash") /\ ~Fault("raise")
  BY DEF Fault, QueueInv, TypeOK
<1>2. \A w \in Workers : ~PopReplyLost(w) /\ ~FaultStep(w)
  BY <1>1 DEF PopReplyLost, Claim, FaultFree, PollsWait, FaultStep, PopAborted, PopGiveUp,
    HandlerRaises, HandlerReturnsNone, CompleteReplyLost, CompleteDelayed, FailDelayed, Crash
<1>3. QED
  BY <1>2 DEF Next, WorkerStep, PopHandler, FaultlessNext, FaultFree

\* Two agents that claim one request at the same time do not make it fail.
LEMMA FaultFreeStep ==
  ASSUME \A v, w \in Workers : IdentityOf[v] = IdentityOf[w] => v = w,
         QueueInv, FaultFree, Next, faults' = faults
  PROVE  FaultFree'
<1> USE DEF Answered
<1>1. ASSUME NEW r \in Requests, Enqueue(r) \/ Expire(r) PROVE FaultFree'
  BY <1>1 DEF Enqueue, Insert, Expire, handlers, workerVars, QueueInv, TypeOK, FaultFree,
    PollsWait
<1>2. CASE RequeueStale
  BY <1>2 DEF RequeueStale, Stale, handlers, workerVars, QueueInv, TypeOK, FailingHasRequest,
    FaultFree, PollsWait
<1>3. ASSUME NEW w \in Workers, PopRead(w) PROVE FaultFree'
  BY <1>3 DEF PopRead, rows, QueueInv, TypeOK, FaultFree, PollsWait
<1>4. ASSUME NEW w \in Workers, PopDelivered(w) PROVE FaultFree'
  <2>1. UNCHANGED <<cur, late>> /\ PollsWait' /\ \A r \in Requests : status'[r] # "failed"
    BY <1>4 DEF PopDelivered, Claim, QueueInv, TypeOK, FaultFree, PollsWait
  <2>2. ASSUME NEW v \in Workers, pc'[v] = "failing" PROVE assigned'[cur[v]] # IdentityOf[v]
    <3>1. v # w /\ pc[v] = "failing"
      BY <1>4, <2>2 DEF PopDelivered, QueueInv, TypeOK
    <3>2. cur[v] \in Requests /\ assigned[cur[v]] # IdentityOf[v]
      BY <3>1 DEF QueueInv, FailingHasRequest, FaultFree
    <3>3. assigned'[cur[v]] \in {assigned[cur[v]], IdentityOf[w]}
      BY <1>4, <3>2 DEF PopDelivered, Claim
    <3>4. IdentityOf[v] # IdentityOf[w]
      BY <3>1
    <3>5. QED
      BY <3>2, <3>3, <3>4
  <2>3. QED
    BY <2>1, <2>2 DEF FaultFree
<1>5. ASSUME NEW w \in Workers, NEW r \in Requests, HandlerSucceeds(w, r) \/ BatchAbandoned(w, r)
      PROVE  FaultFree'
  BY <1>5 DEF HandlerSucceeds, BatchAbandoned, Takes, Process, rows, handlers, QueueInv, TypeOK,
    FaultFree, PollsWait
<1>6. ASSUME NEW w \in Workers, CompleteDelivered(w) PROVE FaultFree'
  BY <1>6 DEF CompleteDelivered, Answer, Accepted, Advance, Process, handlers, QueueInv, TypeOK,
    CompletingHandled, FaultFree, PollsWait
<1>7. ASSUME NEW w \in Workers, FailDelivered(w) PROVE FaultFree'
  <2>1. UNCHANGED status
    BY <1>7 DEF FailDelivered, Answer, Accepted, FaultFree
  <2>2. QED
    BY <1>7, <2>1 DEF FailDelivered, Advance, handlers, QueueInv, TypeOK, FaultFree, PollsWait
<1>8. QED
  BY <1>1, <1>2, <1>3, <1>4, <1>5, <1>6, <1>7, FaultFreeNext DEF FaultlessNext

LEMMA CauseStep ==
  ASSUME \A v, w \in Workers : IdentityOf[v] = IdentityOf[w] => v = w,
         DaemonInv, CauseInv, [DaemonNext]_allVars
  PROVE  CauseInv'
<1>1. QueueInv /\ faults \in Nat /\ faults' \in {faults, faults + 1}
  BY FaultsGrow DEF DaemonInv
<1>2. ASSUME faults' = 0 PROVE FaultFree'
  <2>1. faults = 0 /\ faults' = faults /\ FaultFree
    BY <1>1, <1>2 DEF CauseInv
  <2>2. CASE Next
    BY <1>1, <2>1, <2>2, FaultFreeStep
  <2>3. CASE UNCHANGED vars
    BY <2>1, <2>3 DEF vars, rows, handlers, workerVars, FaultFree, PollsWait
  <2>4. QED
    BY <1>1, <2>1, <2>2, <2>3, FaultsGrow
<1>3. \A r \in Requests : status[r] = "failed" => body[r] = "error" /\ faults > 0
  BY <1>1 DEF CauseInv, FaultFree, DaemonInv, BodySaid
<1>4. ASSUME NEW r \in Requests,
             \/ seen'[r] \in {seen[r], None, Denied, StatusOf(r)} /\ told'[r] = told[r]
             \/ seen'[r] = None /\ told'[r] = seen[r]
      PROVE  \A reply \in {seen'[r], told'[r]} :
               reply # None /\ reply.status = "failed" => reply.body = "error" /\ faults' > 0
  BY <1>1, <1>3, <1>4 DEF CauseInv, FailuresAreErrors, Denied, StatusOf
<1>5. ASSUME NEW r \in Requests
      PROVE  \/ seen'[r] \in {seen[r], None, Denied, StatusOf(r)} /\ told'[r] = told[r]
             \/ seen'[r] = None /\ told'[r] = seen[r]
  <2>1. seen \in [Requests -> Replies \cup {None}] /\ told \in [Requests -> Replies \cup {None}]
    BY DEF DaemonInv, DaemonTypeOK
  <2>2. ASSUME NEW q \in Requests, Poll(q) \/ Learn(q) \/ PollLost(q)
        PROVE  \/ seen'[r] \in {seen[r], None, Denied, StatusOf(r)} /\ told'[r] = told[r]
               \/ seen'[r] = None /\ told'[r] = seen[r]
    BY <2>1, <2>2 DEF Poll, Learn, PollLost
  <2>3. ASSUME ~\E q \in Requests : Poll(q) \/ Learn(q) \/ PollLost(q)
        PROVE  UNCHANGED <<seen, told>>
    BY <2>3 DEF DaemonNext, allVars, daemonVars, waiting, QueueStep, Handles, Completes,
      CompletesLate, Fails, FailsLate, CallArrivesLate, Reload, Ask, AskReplyLost, AskRefused,
      DaemonStep, TimeOut
  <2>4. QED
    BY <2>2, <2>3
<1>6. FailuresAreErrors'
  BY <1>4, <1>5 DEF FailuresAreErrors
<1>7. QED
  BY <1>2, <1>6 DEF CauseInv

\* FailuresHaveACause: if every agent process has an API key of its own,
\* wait_for_response raises for a failed request only after a fault, and with
\* the text that fail_request stored; a request claimed twice does not fail.
THEOREM FailuresAreCaused ==
  ASSUME \A v, w \in Workers : IdentityOf[v] = IdentityOf[w] => v = w
  PROVE  DaemonSpec => []FailuresHaveACause
<1>1. DaemonSpec => DaemonInit /\ [][DaemonNext]_allVars
  BY PTL DEF DaemonSpec
<1>2. DaemonInit => CauseInv
  BY DEF DaemonInit, Init, CauseInv, FaultFree, PollsWait, FailuresAreErrors
<1>3. DaemonInv /\ CauseInv /\ [DaemonNext]_allVars => CauseInv'
  BY CauseStep
<1>4. CauseInv => FailuresHaveACause
  BY DEF CauseInv, FailuresAreErrors, FailuresHaveACause
<1>5. QED
  BY <1>1, <1>2, <1>3, <1>4, DaemonInvariant, PTL

=============================================================================
