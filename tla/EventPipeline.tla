---------------------------- MODULE EventPipeline ----------------------------
(***************************************************************************)
(* The outbox and the webhooks together.  The subscriber at position       *)
(* FanoutAt is `_fanout_to_webhooks` (app/events_dispatcher.py): it reads  *)
(* the organization's endpoints in a session of its own, then pushes one   *)
(* deliver_webhook job per match onto Redis, where the jobs stay whatever  *)
(* becomes of the sweep.  The subscribers after it (the automations) can   *)
(* still fail the row, and the next sweep then fans out once more.         *)
(***************************************************************************)
EXTENDS Integers, FiniteSets

CONSTANTS Events, Workers, NumSubscribers, Unknown, Unparsable, MaxAttempts,
          BatchSize, LastRecord, MaxTime, MaxLost, NoEvent
CONSTANTS Endpoints, Jobs, Admins, WebhookMaxTries, ArqMaxTries, DlqTries,
          Threshold, MaxCrashes, MaxRequests, NoEndpoint
CONSTANTS FanoutAt,   \* the fan-out's place among the subscribers
          Platform,   \* events without an organization
          Matching    \* endpoints of an event's organization that subscribe to its type

VARIABLES now, status, occurred, attempts, claimed, verdict, current, position,
          handled, dispatches, lost
VARIABLES existence, paused, failures, job, target, tries, snapshot, answer,
          deliveries, dlq, request, received, failed, crashes, requests
VARIABLES fanout,   \* of a sweep: whether its fan-out has read, and endpoints to do
          event     \* the event a job carries, NoEvent while it is free

O == INSTANCE Outbox
W == INSTANCE Webhooks

ASSUME PipelineAssumption ==
    /\ NumSubscribers \in Nat \ {0} /\ MaxAttempts \in Nat \ {0} /\ BatchSize \in Nat \ {0}
    /\ LastRecord \in Nat /\ MaxTime \in Nat /\ MaxLost \in Nat
    /\ Unknown \subseteq Events /\ Unparsable \subseteq Events
    /\ NoEvent \notin Events
    /\ WebhookMaxTries \in Nat \ {0} /\ ArqMaxTries \in Nat \ {0}
    /\ DlqTries \in Nat \ {0} /\ Threshold \in Nat \ {0}
    /\ MaxCrashes \in Nat /\ MaxRequests \in Nat
    /\ NoEndpoint \notin Endpoints
    /\ FanoutAt \in 1..NumSubscribers
    /\ Platform \subseteq Events
    /\ Matching \in [Events -> SUBSET Endpoints]

outboxVars == <<now, status, occurred, attempts, claimed, verdict, current, position,
                handled, dispatches, lost>>
webhookVars == <<existence, paused, failures, job, target, tries, snapshot, answer,
                 deliveries, dlq, request, received, failed, crashes, requests>>
linkVars == <<fanout, event>>
vars == <<outboxVars, webhookVars, linkVars>>

Unread == [read |-> FALSE, todo |-> {}]

Init ==
    /\ O!Init
    /\ W!Init
    /\ fanout = [w \in Workers |-> Unread]
    /\ event = [j \in Jobs |-> NoEvent]

-----------------------------------------------------------------------------
(* The fan-out of the row a sweep is dispatching.                          *)

FansOut(w) == current[w] # NoEvent /\ position[w] = FanoutAt

\* SELECT the endpoints that are not paused; a platform event has none.
ReadEndpoints(w) ==
    LET found == IF current[w] \in Platform THEN {}
                 ELSE {p \in Matching[current[w]] : existence[p] = "live" /\ ~paused[p]} IN
    /\ FansOut(w)
    /\ ~fanout[w].read
    /\ fanout' = [fanout EXCEPT ![w] = [read |-> TRUE, todo |-> found]]
    /\ UNCHANGED <<outboxVars, webhookVars, event>>

\* Mutant: an endpoint stays on the list after its job is pushed.
EnqueueAgain(w, p, j) ==
    /\ FansOut(w)
    /\ p \in fanout[w].todo
    /\ W!Enqueue(j, p)
    /\ event' = [event EXCEPT ![j] = current[w]]
    /\ UNCHANGED <<outboxVars, fanout>>

\* enqueue("deliver_webhook", ...) without a dedupe key.
EnqueueOne(w, p, j) ==
    /\ FansOut(w)
    /\ p \in fanout[w].todo
    /\ W!Enqueue(j, p)
    /\ fanout' = [fanout EXCEPT ![w].todo = @ \ {p}]
    /\ event' = [event EXCEPT ![j] = current[w]]
    /\ UNCHANGED outboxVars

ForgetFanout(w) == fanout' = [fanout EXCEPT ![w] = Unread]

\* Mutant: an enqueue that fails is swallowed, and the fan-out returns.
FanoutReturnsEarly(w) ==
    /\ FansOut(w)
    /\ fanout[w].read
    /\ O!HandlerReturns(w)
    /\ ForgetFanout(w)
    /\ UNCHANGED <<webhookVars, event>>

FanoutReturns(w) ==
    /\ FansOut(w)
    /\ fanout[w].read /\ fanout[w].todo = {}
    /\ O!HandlerReturns(w)
    /\ ForgetFanout(w)
    /\ UNCHANGED <<webhookVars, event>>

\* The read or an enqueue raises: what is enqueued already stays enqueued.
SubscriberRaises(w) ==
    /\ O!HandlerRaises(w)
    /\ ForgetFanout(w)
    /\ UNCHANGED <<webhookVars, event>>

SweepLost(w) ==
    /\ O!LoseSweep(w)
    /\ ForgetFanout(w)
    /\ UNCHANGED <<webhookVars, event>>

-----------------------------------------------------------------------------

\* The steps of the outbox that the webhooks have no part in.
PublishStep == O!Publish /\ UNCHANGED <<webhookVars, linkVars>>

TickStep == O!Tick /\ UNCHANGED <<webhookVars, linkVars>>

PlainSweepStep(w) ==
    /\ O!HandleRows(w) \/ (~FansOut(w) /\ O!HandlerReturns(w))
    /\ UNCHANGED <<webhookVars, linkVars>>

SweepStep(w) ==
    \/ PlainSweepStep(w)
    \/ ReadEndpoints(w)
    \/ \E p \in Endpoints, j \in Jobs : EnqueueOne(w, p, j)
    \/ FanoutReturns(w)
    \/ SubscriberRaises(w)

\* The steps of the webhooks that the outbox has no part in.
WebhookStep == W!Surroundings /\ UNCHANGED <<outboxVars, linkVars>>

JobStep(j) == W!RunStep(j) /\ UNCHANGED <<outboxVars, linkVars>>

Next ==
    \/ PublishStep
    \/ TickStep
    \/ \E w \in Workers : SweepStep(w) \/ SweepLost(w)
    \/ WebhookStep
    \/ \E j \in Jobs : JobStep(j)

Spec == Init /\ [][Next]_vars

(* As in Outbox and Webhooks: transactions end, the clock runs, sweeps and  *)
(* job runs that start come to an end.                                      *)
EndStep(e) == /\ O!EndMutation(e, "pending") \/ O!EndMutation(e, "aborted")
              /\ UNCHANGED <<webhookVars, linkVars>>

Fairness ==
    /\ WF_vars(TickStep)
    /\ \A e \in Events : WF_vars(EndStep(e))
    /\ \A w \in Workers : WF_vars(SweepStep(w))
    /\ \A j \in Jobs : WF_vars(JobStep(j))

FairSpec == Spec /\ Fairness

-----------------------------------------------------------------------------
(* Properties.                                                             *)

JobsFor(e, p) == {j \in Jobs : event[j] = e /\ target[j] = p}

\* Jobs are pushed to Redis before the sweep commits and without a key, so an
\* endpoint may get several for one event: at most one more than the attempts
\* counted as failed and the sweeps lost.
DuplicateJobsAccounted ==
    \A e \in Events, p \in Endpoints : Cardinality(JobsFor(e, p)) <= attempts[e] + lost + 1

\* No receiver hears of a mutation that is not committed.
OnlyCommittedPosted ==
    \A j \in Jobs : received[j] > 0 => status[event[j]] \in {"pending", "processed"}

Fit(p) == existence[p] = "live" /\ ~paused[p]

\* From some time on no sweep is lost: the premise of Outbox.
SweepsSurvive == <>[][\A w \in Workers : ~SweepLost(w)]_vars

\* An event that commits reaches the end of a delivery job of every matching
\* endpoint that was fit when its transaction wrote it and stays so, unless its
\* row is dead-lettered or sweeps are lost for ever.
EveryFitEndpointHears ==
    SweepsSurvive =>
       \A e \in Events : \A p \in Matching[e] :
          (status[e] = "open" /\ e \notin Platform /\ Fit(p))
             ~> \/ status[e] = "aborted" \/ O!Dead(e)
                \/ ~Fit(p)
                \/ \E j \in JobsFor(e, p) : job[j] \in W!Ended
=============================================================================
