------------------------------ MODULE Webhooks ------------------------------
(***************************************************************************)
(* Outgoing webhooks: the arq job `deliver_webhook` (app/worker/jobs.py)   *)
(* and the admin routes on endpoints (app/api/webhooks.py).                *)
(*                                                                         *)
(* A run of the job is one database transaction that stays open during the *)
(* HTTP request: it loads the endpoint, inserts a WebhookDelivery row,     *)
(* posts, and writes the outcome.  The endpoint row is read without a lock *)
(* and its counter is written back as the value read plus one.  The insert *)
(* takes a KEY SHARE lock on the endpoint (foreign key), so a DELETE waits *)
(* for the run, while an UPDATE by an admin or another run does not.       *)
(*                                                                         *)
(* arq 0.28 is external.  It counts the runs of a job and drops a job that *)
(* has had ArqMaxTries of them, re-queues one that raises Retry or whose   *)
(* worker died, and ends a job that raises anything else.                  *)
(***************************************************************************)
EXTENDS Integers, FiniteSets

CONSTANTS Endpoints, Jobs, Admins,
          WebhookMaxTries, \* _WEBHOOK_MAX_TRIES
          ArqMaxTries,     \* WorkerSettings.max_tries
          DlqTries,        \* dlq_wrap(deliver_webhook, max_tries=...)
          Threshold,       \* _WEBHOOK_AUTO_PAUSE_THRESHOLD
          MaxCrashes,      \* bound: workers that die during a run
          MaxRequests,     \* bound: requests of the admins
          NoEndpoint       \* a job that is not enqueued, an admin that is idle

ASSUME WebhooksAssumption ==
    /\ WebhookMaxTries \in Nat \ {0} /\ ArqMaxTries \in Nat \ {0}
    /\ DlqTries \in Nat \ {0} /\ Threshold \in Nat \ {0}
    /\ MaxCrashes \in Nat /\ MaxRequests \in Nat
    /\ NoEndpoint \notin Endpoints

VARIABLES
    existence,  \* of an endpoint's row: unborn, live or deleted
    paused,     \* paused_at is set
    failures,   \* consecutive_failures
    job,        \* where a deliver_webhook job stands
    target,     \* the endpoint it delivers to
    tries,      \* its job_try
    snapshot,   \* the consecutive_failures its current run has read
    answer,     \* what came of its current run's POST: none, ok or error
    deliveries, \* its committed WebhookDelivery rows
    dlq,        \* jobs pushed to arq:dead
    request,    \* an admin's PATCH or DELETE between its read and its commit
    received,   \* POSTs of the job that reached the receiver
    failed,     \* failed attempts committed for an endpoint, ever
    crashes, requests

endpointVars == <<existence, paused, failures>>
jobVars == <<job, target, tries, snapshot, answer>>
outcomeVars == <<deliveries, dlq, received, failed>>
adminVars == <<request, requests>>
vars == <<endpointVars, jobVars, outcomeVars, adminVars, crashes>>

Started == {"loaded", "posting", "answered"}
Ended == {"delivered", "skipped", "paused", "exhausted", "expired", "failed"}
JobStates == {"free", "queued"} \union Started \union Ended

Delivery == [attempt : 1..ArqMaxTries, status : {"success", "failed"}]
Idle == [op |-> "none", endpoint |-> NoEndpoint, paused |-> FALSE, failures |-> 0]
Request == [op : {"pause", "unpause", "delete"}, endpoint : Endpoints,
            paused : BOOLEAN, failures : Nat]

TypeOK ==
    /\ existence \in [Endpoints -> {"unborn", "live", "deleted"}]
    /\ paused \in [Endpoints -> BOOLEAN]
    /\ failures \in [Endpoints -> Nat]
    /\ job \in [Jobs -> JobStates]
    /\ target \in [Jobs -> Endpoints \union {NoEndpoint}]
    /\ tries \in [Jobs -> 0..ArqMaxTries]
    /\ snapshot \in [Jobs -> Nat]
    /\ answer \in [Jobs -> {"none", "ok", "error"}]
    /\ deliveries \in [Jobs -> SUBSET Delivery]
    /\ dlq \in SUBSET Jobs
    /\ request \in [Admins -> Request \union {Idle}]
    /\ received \in [Jobs -> Nat]
    /\ failed \in [Endpoints -> Nat]
    /\ crashes \in 0..MaxCrashes
    /\ requests \in 0..MaxRequests

Init ==
    /\ existence = [e \in Endpoints |-> "unborn"]
    /\ paused = [e \in Endpoints |-> FALSE]
    /\ failures = [e \in Endpoints |-> 0]
    /\ job = [j \in Jobs |-> "free"]
    /\ target = [j \in Jobs |-> NoEndpoint]
    /\ tries = [j \in Jobs |-> 0]
    /\ snapshot = [j \in Jobs |-> 0]
    /\ answer = [j \in Jobs |-> "none"]
    /\ deliveries = [j \in Jobs |-> {}]
    /\ dlq = {}
    /\ request = [a \in Admins |-> Idle]
    /\ received = [j \in Jobs |-> 0]
    /\ failed = [e \in Endpoints |-> 0]
    /\ crashes = 0
    /\ requests = 0

-----------------------------------------------------------------------------
(* The admin routes.                                                       *)

CreateWebhook(e) ==
    /\ existence[e] = "unborn"
    /\ existence' = [existence EXCEPT ![e] = "live"]
    /\ UNCHANGED <<paused, failures, jobVars, outcomeVars, adminVars, crashes>>

\* _get_or_404: the ORM object the rest of the request works on.
ReadEndpoint(a, e, op) ==
    /\ request[a] = Idle
    /\ requests < MaxRequests
    /\ existence[e] = "live"
    /\ request' = [request EXCEPT ![a] = [op |-> op, endpoint |-> e, paused |-> paused[e],
                                          failures |-> failures[e]]]
    /\ requests' = requests + 1
    /\ UNCHANGED <<endpointVars, jobVars, outcomeVars, crashes>>

EndRequest(a) ==
    /\ request' = [request EXCEPT ![a] = Idle]
    /\ UNCHANGED <<jobVars, dlq, received, failed, requests, crashes>>

CommitPause(a) ==
    LET e == request[a].endpoint IN
    /\ request[a].op = "pause"
    /\ existence[e] = "live"
    /\ paused' = [paused EXCEPT ![e] = TRUE]
    /\ EndRequest(a)
    /\ UNCHANGED <<existence, failures, deliveries>>

\* The ORM emits the columns whose value differs from the one it read.
CommitUnpause(a) ==
    LET e == request[a].endpoint IN
    /\ request[a].op = "unpause"
    /\ existence[e] = "live"
    /\ paused' = [paused EXCEPT ![e] = IF request[a].paused THEN FALSE ELSE @]
    /\ failures' = [failures EXCEPT ![e] = IF request[a].failures # 0 THEN 0 ELSE @]
    /\ EndRequest(a)
    /\ UNCHANGED <<existence, deliveries>>

\* The endpoint was deleted since the read: the UPDATE finds no row.
UpdateFindsNoRow(a) ==
    /\ request[a].op \in {"pause", "unpause"}
    /\ existence[request[a].endpoint] = "deleted"
    /\ EndRequest(a)
    /\ UNCHANGED <<endpointVars, deliveries>>

\* Runs that hold the foreign-key lock on the endpoint's row.
Holds(j, e) == target[j] = e /\ job[j] \in {"posting", "answered"}

\* Mutant: nothing makes the DELETE wait for the runs in flight.
DeleteWithoutLock(a) ==
    LET e == request[a].endpoint IN
    /\ request[a].op = "delete"
    /\ existence' = [existence EXCEPT ![e] = "deleted"]
    /\ deliveries' = [j \in Jobs |-> IF target[j] = e THEN {} ELSE deliveries[j]]
    /\ EndRequest(a)
    /\ UNCHANGED <<paused, failures>>

\* DELETE waits for those runs, and cascades to the delivery rows.
CommitDelete(a) ==
    LET e == request[a].endpoint IN
    /\ request[a].op = "delete"
    /\ \A j \in Jobs : ~Holds(j, e)
    /\ existence' = [existence EXCEPT ![e] = "deleted"]
    /\ deliveries' = [j \in Jobs |-> IF target[j] = e THEN {} ELSE deliveries[j]]
    /\ EndRequest(a)
    /\ UNCHANGED <<paused, failures>>

-----------------------------------------------------------------------------
(* The jobs.                                                               *)

\* _fanout_to_webhooks, for an endpoint it read as live some time ago.
Enqueue(j, e) ==
    /\ job[j] = "free"
    /\ existence[e] # "unborn"
    /\ job' = [job EXCEPT ![j] = "queued"]
    /\ target' = [target EXCEPT ![j] = e]
    /\ UNCHANGED <<endpointVars, tries, snapshot, answer, outcomeVars, adminVars, crashes>>

\* Mutant: a job waits for an endpoint that is gone or paused to come back.
StartRunPatient(j) ==
    LET e == target[j] IN
    /\ job[j] = "queued"
    /\ tries[j] < ArqMaxTries
    /\ existence[e] = "live" /\ ~paused[e]
    /\ tries' = [tries EXCEPT ![j] = @ + 1]
    /\ job' = [job EXCEPT ![j] = "loaded"]
    /\ snapshot' = [snapshot EXCEPT ![j] = failures[e]]
    /\ answer' = [answer EXCEPT ![j] = "none"]
    /\ UNCHANGED <<endpointVars, target, outcomeVars, adminVars, crashes>>

\* arq counts the run; the job loads its endpoint, or finds it gone or paused.
StartRun(j) ==
    LET e == target[j] IN
    /\ job[j] = "queued"
    /\ tries[j] < ArqMaxTries
    /\ tries' = [tries EXCEPT ![j] = @ + 1]
    /\ job' = [job EXCEPT ![j] = IF existence[e] = "live" /\ ~paused[e] THEN "loaded" ELSE "skipped"]
    /\ snapshot' = [snapshot EXCEPT ![j] = failures[e]]
    /\ answer' = [answer EXCEPT ![j] = "none"]
    /\ UNCHANGED <<endpointVars, target, outcomeVars, adminVars, crashes>>

\* arq: job_try would exceed max_tries, so the function is not called.
Expire(j) ==
    /\ job[j] = "queued"
    /\ tries[j] >= ArqMaxTries
    /\ job' = [job EXCEPT ![j] = "expired"]
    /\ UNCHANGED <<endpointVars, target, tries, snapshot, answer, outcomeVars, adminVars, crashes>>

\* INSERT INTO webhook_deliveries, flushed.
InsertDelivery(j) ==
    /\ job[j] = "loaded"
    /\ existence[target[j]] = "live"
    /\ job' = [job EXCEPT ![j] = "posting"]
    /\ UNCHANGED <<endpointVars, target, tries, snapshot, answer, outcomeVars, adminVars, crashes>>

\* The receiver answers 2xx, answers otherwise, or the request fails on either
\* side of the receiver's work.
Post(j, result, arrived) ==
    /\ job[j] = "posting"
    /\ result = "ok" => arrived
    /\ job' = [job EXCEPT ![j] = "answered"]
    /\ answer' = [answer EXCEPT ![j] = result]
    /\ received' = [received EXCEPT ![j] = IF arrived THEN @ + 1 ELSE @]
    /\ UNCHANGED <<endpointVars, target, tries, snapshot, deliveries, dlq, failed, adminVars, crashes>>

Logged(j, outcome) ==
    deliveries' = [deliveries EXCEPT ![j] = @ \union {[attempt |-> tries[j], status |-> outcome]}]

\* Mutant: arq re-queues a job whose success it has already recorded.
RequeueAfterSuccess(j) ==
    /\ job[j] = "answered"
    /\ answer[j] = "ok"
    /\ job' = [job EXCEPT ![j] = "queued"]
    /\ failures' = [failures EXCEPT ![target[j]] = IF snapshot[j] # 0 THEN 0 ELSE @]
    /\ Logged(j, "success")
    /\ UNCHANGED <<existence, paused, target, tries, snapshot, answer, dlq, received, failed,
                   adminVars, crashes>>

CommitSuccess(j) ==
    /\ job[j] = "answered"
    /\ answer[j] = "ok"
    /\ job' = [job EXCEPT ![j] = "delivered"]
    /\ failures' = [failures EXCEPT ![target[j]] = IF snapshot[j] # 0 THEN 0 ELSE @]
    /\ Logged(j, "success")
    /\ UNCHANGED <<existence, paused, target, tries, snapshot, answer, dlq, received, failed,
                   adminVars, crashes>>

\* Mutant: every failure counts twice.
CountTwice(j) ==
    LET e == target[j] IN
    /\ job[j] = "answered"
    /\ answer[j] = "error"
    /\ failures' = [failures EXCEPT ![e] = snapshot[j] + 2]
    /\ paused' = [paused EXCEPT ![e] = @ \/ snapshot[j] + 2 >= Threshold]
    /\ job' = [job EXCEPT ![j] = IF snapshot[j] + 2 >= Threshold THEN "paused"
                                 ELSE IF tries[j] < WebhookMaxTries THEN "queued"
                                 ELSE "exhausted"]
    /\ failed' = [failed EXCEPT ![e] = @ + 1]
    /\ Logged(j, "failed")
    /\ UNCHANGED <<existence, target, tries, snapshot, answer, dlq, received, adminVars, crashes>>

\* The counter becomes the value read plus one; at the threshold the endpoint
\* is paused and the job ends, otherwise it raises Retry while it has tries.
CommitFailure(j) ==
    LET e == target[j]
        count == snapshot[j] + 1 IN
    /\ job[j] = "answered"
    /\ answer[j] = "error"
    /\ failures' = [failures EXCEPT ![e] = count]
    /\ paused' = [paused EXCEPT ![e] = @ \/ count >= Threshold]
    /\ job' = [job EXCEPT ![j] = IF count >= Threshold THEN "paused"
                                 ELSE IF tries[j] < WebhookMaxTries THEN "queued"
                                 ELSE "exhausted"]
    /\ failed' = [failed EXCEPT ![e] = @ + 1]
    /\ Logged(j, "failed")
    /\ UNCHANGED <<existence, target, tries, snapshot, answer, dlq, received, adminVars, crashes>>

\* dlq_wrap pushes on an exception of the last try, and re-raises.
Buried(j) == IF tries[j] >= DlqTries THEN dlq \union {j} ELSE dlq

\* Another exception (the INSERT finds the endpoint deleted, a statement fails)
\* or, unseen by dlq_wrap, the job_timeout: rolled back, and arq ends the job.
RunFails(j, timeout) ==
    /\ job[j] \in Started
    /\ job' = [job EXCEPT ![j] = "failed"]
    /\ dlq' = IF timeout THEN dlq ELSE Buried(j)
    /\ UNCHANGED <<endpointVars, target, tries, snapshot, answer, deliveries, received, failed,
                   adminVars, crashes>>

\* The worker dies during the run: rolled back, and arq runs the job again.
WorkerDies(j) ==
    /\ job[j] \in Started
    /\ crashes < MaxCrashes
    /\ crashes' = crashes + 1
    /\ job' = [job EXCEPT ![j] = "queued"]
    /\ UNCHANGED <<endpointVars, target, tries, snapshot, answer, outcomeVars, adminVars>>

Serve(a) == CommitPause(a) \/ CommitUnpause(a) \/ UpdateFindsNoRow(a) \/ CommitDelete(a)

RunStep(j) ==
    \/ StartRun(j) \/ Expire(j) \/ InsertDelivery(j)
    \/ \E result \in {"ok", "error"}, arrived \in BOOLEAN : Post(j, result, arrived)
    \/ CommitSuccess(j) \/ CommitFailure(j)
    \/ \E timeout \in BOOLEAN : RunFails(j, timeout)

\* The routes, and the death of workers.
Surroundings ==
    \/ \E e \in Endpoints : CreateWebhook(e)
    \/ \E a \in Admins, e \in Endpoints, op \in {"pause", "unpause", "delete"} : ReadEndpoint(a, e, op)
    \/ \E a \in Admins : Serve(a)
    \/ \E j \in Jobs : WorkerDies(j)

Next ==
    \/ Surroundings
    \/ \E j \in Jobs, e \in Endpoints : Enqueue(j, e)
    \/ \E j \in Jobs : RunStep(j)

Spec == Init /\ [][Next]_vars

(* arq keeps polling its queue and every run ends (HTTP and job timeouts); *)
(* a request handler runs to its commit.                                   *)
Fairness == /\ \A j \in Jobs : WF_vars(RunStep(j))
            /\ \A a \in Admins : WF_vars(Serve(a))

FairSpec == Spec /\ Fairness

-----------------------------------------------------------------------------
(* Properties.                                                             *)

\* The transaction that reports an outcome always finds its endpoint's row: no
\* delivery row is orphaned and no UPDATE of the counter hits nothing, because
\* a DELETE waits for the runs in flight.
InFlightEndpointExists ==
    \A j \in Jobs : job[j] \in {"posting", "answered"} => existence[target[j]] = "live"

\* The delivery log tells the truth: one row per attempt, a success row only
\* for an event the receiver has, and none followed by another run of its job.
DeliveryLogSound ==
    \A j \in Jobs : \A d \in deliveries[j] :
       /\ \A c \in deliveries[j] : c.attempt = d.attempt => c = d
       /\ d.status = "success" => /\ received[j] > 0
                                  /\ job[j] = "delivered"
                                  /\ d.attempt = tries[j]

\* The counter of an endpoint never exceeds the failed attempts committed for
\* it, so none is auto-paused with fewer than Threshold failures in its life,
\* although runs write back stale reads and admins reset in between.
CounterBacked == \A e \in Endpoints : failures[e] <= failed[e]

\* A job that is enqueued ends: delivered, dropped or failed, never stuck.
JobsEnd == \A j \in Jobs : (job[j] = "queued") ~> (job[j] \in Ended)
=============================================================================
