-------------------------- MODULE Webhooks_proofs --------------------------
(***************************************************************************)
(* Theorems about Webhooks, for any endpoints, jobs, admins and limits.    *)
(***************************************************************************)
EXTENDS Webhooks, TLAPS

\* A job in the queue or running has an endpoint that was created, and a run
\* that holds the foreign-key lock has one that is still there.
TargetInv ==
    \A j \in Jobs :
       /\ job[j] # "free" => target[j] \in Endpoints /\ existence[target[j]] # "unborn"
       /\ job[j] \in {"posting", "answered"} => existence[target[j]] = "live"

\* A run's read of the counter is backed by failures committed before it.
CounterInv ==
    /\ \A e \in Endpoints : failures[e] <= failed[e]
    /\ \A j \in Jobs : job[j] \in Started => snapshot[j] <= failed[target[j]]

\* Rows are of attempts begun; a run in flight has none for its attempt yet.
LogInv ==
    \A j \in Jobs :
       /\ job[j] = "free" => deliveries[j] = {} /\ tries[j] = 0
       /\ job[j] \in Started => tries[j] > 0
       /\ answer[j] = "ok" => received[j] > 0
       /\ \A d \in deliveries[j] :
             /\ d.attempt <= tries[j]
             /\ job[j] \in Started => d.attempt < tries[j]
             /\ d.status = "success" =>
                   received[j] > 0 /\ job[j] = "delivered" /\ d.attempt = tries[j]
             /\ \A c \in deliveries[j] : c.attempt = d.attempt => c = d

IInv == TypeOK /\ TargetInv /\ CounterInv /\ LogInv

-----------------------------------------------------------------------------
(* Types.                                                                  *)

\* The initial state is well typed.
LEMMA InitTypeOK == Init => TypeOK
  BY WebhooksAssumption DEF WebhooksAssumption, Init, TypeOK, JobStates

\* Every step keeps the types.
LEMMA NextTypeOK == TypeOK /\ TargetInv /\ LogInv /\ [Next]_vars => TypeOK'
<1> SUFFICES ASSUME TypeOK, TargetInv, LogInv, [Next]_vars PROVE TypeOK'
  OBVIOUS
<1> USE WebhooksAssumption DEF WebhooksAssumption, TypeOK, JobStates, Started, Ended, endpointVars, jobVars, outcomeVars, adminVars
<1>1. ASSUME NEW e \in Endpoints, CreateWebhook(e) PROVE TypeOK'
  BY <1>1 DEF CreateWebhook
<1>2. ASSUME NEW a \in Admins, NEW e \in Endpoints, NEW op \in {"pause", "unpause", "delete"}, ReadEndpoint(a, e, op) PROVE TypeOK'
  <2>1. [op |-> op, endpoint |-> e, paused |-> paused[e], failures |-> failures[e]] \in Request
    BY DEF Request
  <2>2. request' \in [Admins -> Request \union {Idle}]
    BY <1>2, <2>1 DEF ReadEndpoint
  <2>3. requests' \in 0..MaxRequests
    BY <1>2 DEF ReadEndpoint
  <2>4. QED
    BY <1>2, <2>2, <2>3 DEF ReadEndpoint
<1>3. ASSUME NEW a \in Admins, CommitPause(a) PROVE TypeOK'
  BY <1>3 DEF CommitPause, EndRequest
<1>4. ASSUME NEW a \in Admins, CommitUnpause(a) PROVE TypeOK'
  BY <1>4 DEF CommitUnpause, EndRequest
<1>5. ASSUME NEW a \in Admins, UpdateFindsNoRow(a) PROVE TypeOK'
  BY <1>5 DEF UpdateFindsNoRow, EndRequest
<1>6. ASSUME NEW a \in Admins, CommitDelete(a) PROVE TypeOK'
  BY <1>6 DEF CommitDelete, EndRequest, Holds
<1>7. ASSUME NEW j \in Jobs, NEW e \in Endpoints, Enqueue(j, e) PROVE TypeOK'
  BY <1>7 DEF Enqueue
<1>8. ASSUME NEW j \in Jobs, StartRun(j) PROVE TypeOK'
  <2>1. target[j] \in Endpoints /\ tries[j] + 1 \in 0..ArqMaxTries
    BY <1>8 DEF StartRun, TargetInv
  <2>2. job' \in [Jobs -> JobStates] /\ tries' \in [Jobs -> 0..ArqMaxTries]
    BY <1>8, <2>1 DEF StartRun
  <2>3. snapshot' \in [Jobs -> Nat] /\ answer' \in [Jobs -> {"none", "ok", "error"}]
    BY <1>8, <2>1 DEF StartRun
  <2>4. QED
    BY <1>8, <2>2, <2>3 DEF StartRun
<1>9. ASSUME NEW j \in Jobs, Expire(j) PROVE TypeOK'
  BY <1>9 DEF Expire
<1>10. ASSUME NEW j \in Jobs, InsertDelivery(j) PROVE TypeOK'
  BY <1>10 DEF InsertDelivery
<1>11. ASSUME NEW j \in Jobs, NEW result \in {"ok", "error"}, NEW arrived \in BOOLEAN, Post(j, result, arrived) PROVE TypeOK'
  BY <1>11 DEF Post
<1>12. ASSUME NEW j \in Jobs, CommitSuccess(j) PROVE TypeOK'
  <2>1. target[j] \in Endpoints /\ tries[j] \in 1..ArqMaxTries
    BY <1>12 DEF CommitSuccess, TargetInv, LogInv
  <2>2. [attempt |-> tries[j], status |-> "success"] \in Delivery
    BY <2>1 DEF Delivery
  <2>3. deliveries' \in [Jobs -> SUBSET Delivery]
    BY <1>12, <2>2 DEF CommitSuccess, Logged
  <2>4. failures' \in [Endpoints -> Nat] /\ failed' \in [Endpoints -> Nat]
    BY <1>12, <2>1 DEF CommitSuccess
  <2>5. job' \in [Jobs -> JobStates] /\ paused' \in [Endpoints -> BOOLEAN]
    BY <1>12, <2>1 DEF CommitSuccess
  <2>6. QED
    BY <1>12, <2>3, <2>4, <2>5 DEF CommitSuccess
<1>13. ASSUME NEW j \in Jobs, CommitFailure(j) PROVE TypeOK'
  <2>1. target[j] \in Endpoints /\ tries[j] \in 1..ArqMaxTries
    BY <1>13 DEF CommitFailure, TargetInv, LogInv
  <2>2. [attempt |-> tries[j], status |-> "failed"] \in Delivery
    BY <2>1 DEF Delivery
  <2>3. deliveries' \in [Jobs -> SUBSET Delivery]
    BY <1>13, <2>2 DEF CommitFailure, Logged
  <2>4. failures' \in [Endpoints -> Nat] /\ failed' \in [Endpoints -> Nat]
    BY <1>13, <2>1 DEF CommitFailure
  <2>5. job' \in [Jobs -> JobStates] /\ paused' \in [Endpoints -> BOOLEAN]
    BY <1>13, <2>1 DEF CommitFailure
  <2>6. QED
    BY <1>13, <2>3, <2>4, <2>5 DEF CommitFailure
<1>14. ASSUME NEW j \in Jobs, NEW timeout \in BOOLEAN, RunFails(j, timeout) PROVE TypeOK'
  BY <1>14 DEF RunFails, Buried
<1>15. ASSUME NEW j \in Jobs, WorkerDies(j) PROVE TypeOK'
  BY <1>15 DEF WorkerDies
<1>16. CASE UNCHANGED vars
  BY <1>16 DEF vars
<1>17. QED
  BY <1>1, <1>2, <1>3, <1>4, <1>5, <1>6, <1>7, <1>8,
     <1>9, <1>10, <1>11, <1>12, <1>13, <1>14, <1>15, <1>16
     DEF Next, Surroundings, Serve, RunStep

-----------------------------------------------------------------------------
(* The inductive invariant.                                                *)

\* The initial state satisfies the inductive invariant.
LEMMA InitIInv == Init => IInv
  BY InitTypeOK DEF Init, IInv, TargetInv, CounterInv, LogInv, Started

\* A run in flight has its endpoint.
LEMMA NextTargetInv == IInv /\ [Next]_vars => TargetInv'
<1> SUFFICES ASSUME IInv, [Next]_vars PROVE TargetInv'
  OBVIOUS
<1> USE DEF IInv, TypeOK, JobStates, Started, Ended, endpointVars, jobVars, outcomeVars, adminVars, TargetInv
<1>1. ASSUME NEW e \in Endpoints, CreateWebhook(e) PROVE TargetInv'
  BY <1>1 DEF CreateWebhook
<1>2. ASSUME NEW a \in Admins, NEW e \in Endpoints, NEW op \in {"pause", "unpause", "delete"}, ReadEndpoint(a, e, op) PROVE TargetInv'
  BY <1>2 DEF ReadEndpoint
<1>3. ASSUME NEW a \in Admins, CommitPause(a) PROVE TargetInv'
  BY <1>3 DEF CommitPause, EndRequest
<1>4. ASSUME NEW a \in Admins, CommitUnpause(a) PROVE TargetInv'
  BY <1>4 DEF CommitUnpause, EndRequest
<1>5. ASSUME NEW a \in Admins, UpdateFindsNoRow(a) PROVE TargetInv'
  BY <1>5 DEF UpdateFindsNoRow, EndRequest
<1>6. ASSUME NEW a \in Admins, CommitDelete(a) PROVE TargetInv'
  BY <1>6 DEF CommitDelete, EndRequest, Holds
<1>7. ASSUME NEW j \in Jobs, NEW e \in Endpoints, Enqueue(j, e) PROVE TargetInv'
  BY <1>7 DEF Enqueue
<1>8. ASSUME NEW j \in Jobs, StartRun(j) PROVE TargetInv'
  BY <1>8 DEF StartRun
<1>9. ASSUME NEW j \in Jobs, Expire(j) PROVE TargetInv'
  BY <1>9 DEF Expire
<1>10. ASSUME NEW j \in Jobs, InsertDelivery(j) PROVE TargetInv'
  BY <1>10 DEF InsertDelivery
<1>11. ASSUME NEW j \in Jobs, NEW result \in {"ok", "error"}, NEW arrived \in BOOLEAN, Post(j, result, arrived) PROVE TargetInv'
  BY <1>11 DEF Post
<1>12. ASSUME NEW j \in Jobs, CommitSuccess(j) PROVE TargetInv'
  BY <1>12 DEF CommitSuccess, Logged
<1>13. ASSUME NEW j \in Jobs, CommitFailure(j) PROVE TargetInv'
  BY <1>13 DEF CommitFailure, Logged
<1>14. ASSUME NEW j \in Jobs, NEW timeout \in BOOLEAN, RunFails(j, timeout) PROVE TargetInv'
  BY <1>14 DEF RunFails, Buried
<1>15. ASSUME NEW j \in Jobs, WorkerDies(j) PROVE TargetInv'
  BY <1>15 DEF WorkerDies
<1>16. CASE UNCHANGED vars
  BY <1>16 DEF vars
<1>17. QED
  BY <1>1, <1>2, <1>3, <1>4, <1>5, <1>6, <1>7, <1>8,
     <1>9, <1>10, <1>11, <1>12, <1>13, <1>14, <1>15, <1>16
     DEF Next, Surroundings, Serve, RunStep

\* The counter is backed.
LEMMA NextCounterInv == IInv /\ [Next]_vars => CounterInv'
<1> SUFFICES ASSUME IInv, [Next]_vars PROVE CounterInv'
  OBVIOUS
<1> USE DEF IInv, TypeOK, JobStates, Started, Ended, endpointVars, jobVars, outcomeVars, adminVars, TargetInv, CounterInv
<1>1. ASSUME NEW e \in Endpoints, CreateWebhook(e) PROVE CounterInv'
  BY <1>1 DEF CreateWebhook
<1>2. ASSUME NEW a \in Admins, NEW e \in Endpoints, NEW op \in {"pause", "unpause", "delete"}, ReadEndpoint(a, e, op) PROVE CounterInv'
  BY <1>2 DEF ReadEndpoint
<1>3. ASSUME NEW a \in Admins, CommitPause(a) PROVE CounterInv'
  BY <1>3 DEF CommitPause, EndRequest
<1>4. ASSUME NEW a \in Admins, CommitUnpause(a) PROVE CounterInv'
  BY <1>4 DEF CommitUnpause, EndRequest
<1>5. ASSUME NEW a \in Admins, UpdateFindsNoRow(a) PROVE CounterInv'
  BY <1>5 DEF UpdateFindsNoRow, EndRequest
<1>6. ASSUME NEW a \in Admins, CommitDelete(a) PROVE CounterInv'
  BY <1>6 DEF CommitDelete, EndRequest, Holds
<1>7. ASSUME NEW j \in Jobs, NEW e \in Endpoints, Enqueue(j, e) PROVE CounterInv'
  BY <1>7 DEF Enqueue
<1>8. ASSUME NEW j \in Jobs, StartRun(j) PROVE CounterInv'
  BY <1>8 DEF StartRun
<1>9. ASSUME NEW j \in Jobs, Expire(j) PROVE CounterInv'
  BY <1>9 DEF Expire
<1>10. ASSUME NEW j \in Jobs, InsertDelivery(j) PROVE CounterInv'
  BY <1>10 DEF InsertDelivery
<1>11. ASSUME NEW j \in Jobs, NEW result \in {"ok", "error"}, NEW arrived \in BOOLEAN, Post(j, result, arrived) PROVE CounterInv'
  BY <1>11 DEF Post
<1>12. ASSUME NEW j \in Jobs, CommitSuccess(j) PROVE CounterInv'
  BY <1>12 DEF CommitSuccess, Logged
<1>13. ASSUME NEW j \in Jobs, CommitFailure(j) PROVE CounterInv'
  BY <1>13 DEF CommitFailure, Logged
<1>14. ASSUME NEW j \in Jobs, NEW timeout \in BOOLEAN, RunFails(j, timeout) PROVE CounterInv'
  BY <1>14 DEF RunFails, Buried
<1>15. ASSUME NEW j \in Jobs, WorkerDies(j) PROVE CounterInv'
  BY <1>15 DEF WorkerDies
<1>16. CASE UNCHANGED vars
  BY <1>16 DEF vars
<1>17. QED
  BY <1>1, <1>2, <1>3, <1>4, <1>5, <1>6, <1>7, <1>8,
     <1>9, <1>10, <1>11, <1>12, <1>13, <1>14, <1>15, <1>16
     DEF Next, Surroundings, Serve, RunStep

\* The log is sound.
LEMMA NextLogInv == IInv /\ [Next]_vars => LogInv'
<1> SUFFICES ASSUME IInv, [Next]_vars PROVE LogInv'
  OBVIOUS
<1> USE DEF IInv, TypeOK, JobStates, Started, Ended, endpointVars, jobVars, outcomeVars, adminVars, LogInv
<1>1. ASSUME NEW e \in Endpoints, CreateWebhook(e) PROVE LogInv'
  BY <1>1 DEF CreateWebhook
<1>2. ASSUME NEW a \in Admins, NEW e \in Endpoints, NEW op \in {"pause", "unpause", "delete"}, ReadEndpoint(a, e, op) PROVE LogInv'
  BY <1>2 DEF ReadEndpoint
<1>3. ASSUME NEW a \in Admins, CommitPause(a) PROVE LogInv'
  BY <1>3 DEF CommitPause, EndRequest
<1>4. ASSUME NEW a \in Admins, CommitUnpause(a) PROVE LogInv'
  BY <1>4 DEF CommitUnpause, EndRequest
<1>5. ASSUME NEW a \in Admins, UpdateFindsNoRow(a) PROVE LogInv'
  BY <1>5 DEF UpdateFindsNoRow, EndRequest
<1>6. ASSUME NEW a \in Admins, CommitDelete(a) PROVE LogInv'
  BY <1>6 DEF CommitDelete, EndRequest, Holds
<1>7. ASSUME NEW j \in Jobs, NEW e \in Endpoints, Enqueue(j, e) PROVE LogInv'
  BY <1>7 DEF Enqueue
<1>8. ASSUME NEW j \in Jobs, StartRun(j) PROVE LogInv'
  <2>1. target[j] \in Endpoints /\ tries' = [tries EXCEPT ![j] = @ + 1]
    BY <1>8 DEF StartRun, TargetInv
  <2>2. UNCHANGED <<deliveries, received>> /\ answer' = [answer EXCEPT ![j] = "none"]
    BY <1>8 DEF StartRun
  <2>3. job[j] = "queued" /\ job'[j] \in {"loaded", "skipped"}
    BY <1>8 DEF StartRun
  <2>4. \A i \in Jobs \ {j} : job'[i] = job[i] /\ tries'[i] = tries[i] /\ answer'[i] = answer[i]
    BY <1>8 DEF StartRun
  <2>5. \A d \in deliveries[j] : d.attempt \in Nat /\ d.attempt <= tries[j] /\ d.status # "success"
    BY <2>3 DEF Delivery
  <2>6. QED
    BY <2>1, <2>2, <2>3, <2>4, <2>5
<1>9. ASSUME NEW j \in Jobs, Expire(j) PROVE LogInv'
  BY <1>9 DEF Expire
<1>10. ASSUME NEW j \in Jobs, InsertDelivery(j) PROVE LogInv'
  BY <1>10 DEF InsertDelivery
<1>11. ASSUME NEW j \in Jobs, NEW result \in {"ok", "error"}, NEW arrived \in BOOLEAN, Post(j, result, arrived) PROVE LogInv'
  BY <1>11 DEF Post
<1>12. ASSUME NEW j \in Jobs, CommitSuccess(j) PROVE LogInv'
  BY <1>12 DEF CommitSuccess, Logged
<1>13. ASSUME NEW j \in Jobs, CommitFailure(j) PROVE LogInv'
  BY <1>13 DEF CommitFailure, Logged
<1>14. ASSUME NEW j \in Jobs, NEW timeout \in BOOLEAN, RunFails(j, timeout) PROVE LogInv'
  BY <1>14 DEF RunFails, Buried
<1>15. ASSUME NEW j \in Jobs, WorkerDies(j) PROVE LogInv'
  BY <1>15 DEF WorkerDies
<1>16. CASE UNCHANGED vars
  BY <1>16 DEF vars
<1>17. QED
  BY <1>1, <1>2, <1>3, <1>4, <1>5, <1>6, <1>7, <1>8,
     <1>9, <1>10, <1>11, <1>12, <1>13, <1>14, <1>15, <1>16
     DEF Next, Surroundings, Serve, RunStep

\* The inductive invariant holds in every behaviour.
LEMMA SpecIInv == Spec => []IInv
<1>1. IInv /\ [Next]_vars => IInv'
  BY NextTypeOK, NextTargetInv, NextCounterInv, NextLogInv DEF IInv
<1>2. QED
  BY InitIInv, <1>1, PTL DEF Spec

-----------------------------------------------------------------------------
(* The theorems.                                                           *)

\* Every state is well typed: no job runs more than ArqMaxTries times, crashes
\* included (deliver_webhook under arq).
THEOREM TypeCorrect == Spec => []TypeOK
<1>1. IInv => TypeOK
  BY DEF IInv
<1>2. QED
  BY SpecIInv, <1>1, PTL

\* A run that has inserted its delivery row finds the endpoint when it writes
\* the outcome, whatever the admins delete meanwhile.
THEOREM InFlightEndpointsExist == Spec => []InFlightEndpointExists
<1>1. IInv => InFlightEndpointExists
  BY DEF IInv, TargetInv, InFlightEndpointExists
<1>2. QED
  BY SpecIInv, <1>1, PTL

\* The delivery log has one row per attempt, and a success row is the last of
\* its job and of an event the receiver has.
THEOREM DeliveryLogIsSound == Spec => []DeliveryLogSound
<1>1. IInv => DeliveryLogSound
  BY DEF IInv, LogInv, DeliveryLogSound
<1>2. QED
  BY SpecIInv, <1>1, PTL

\* consecutive_failures never exceeds the failures committed for the endpoint,
\* with any number of runs and requests writing back what they read before.
THEOREM CounterIsBacked == Spec => []CounterBacked
<1>1. IInv => CounterBacked
  BY DEF IInv, CounterInv, CounterBacked
<1>2. QED
  BY SpecIInv, <1>1, PTL
=============================================================================
