------------------------ MODULE EventPipeline_proofs ------------------------
(***************************************************************************)
(* Theorems about EventPipeline.  The composition takes only steps that    *)
(* the outbox and the webhooks take on their own, so what is proved of     *)
(* them holds of it.  That no receiver hears of an uncommitted mutation    *)
(* needs both: a sweep claims committed rows only, and a job carries the   *)
(* event of a row that some sweep held when it was pushed.                 *)
(***************************************************************************)
EXTENDS EventPipeline, FiniteSetTheorems, TLAPS

\* Every step is a step of the outbox or leaves its state alone.
LEMMA NextOutbox == [Next]_vars => [O!Next]_O!vars
<1> SUFFICES ASSUME [Next]_vars PROVE [O!Next]_O!vars
  OBVIOUS
<1> USE DEF outboxVars, O!vars, O!rowVars, O!sweepVars, O!historyVars
<1>1. CASE PublishStep
  BY <1>1 DEF PublishStep, O!Next
<1>2. CASE TickStep
  BY <1>2 DEF TickStep, O!Next
<1>3. ASSUME NEW w \in Workers, SweepStep(w) PROVE [O!Next]_O!vars
  <2>1. CASE PlainSweepStep(w)
    BY <2>1 DEF PlainSweepStep, O!Next, O!SweepStep
  <2>2. CASE ReadEndpoints(w)
    BY <2>2 DEF ReadEndpoints
  <2>3. ASSUME NEW p \in Endpoints, NEW j \in Jobs, EnqueueOne(w, p, j) PROVE [O!Next]_O!vars
    BY <2>3 DEF EnqueueOne
  <2>4. CASE FanoutReturns(w)
    BY <2>4 DEF FanoutReturns, O!Next, O!SweepStep
  <2>5. CASE SubscriberRaises(w)
    BY <2>5 DEF SubscriberRaises, O!Next, O!SweepStep
  <2>6. QED
    BY <1>3, <2>1, <2>2, <2>3, <2>4, <2>5 DEF SweepStep
<1>4. ASSUME NEW w \in Workers, SweepLost(w) PROVE [O!Next]_O!vars
  BY <1>4 DEF SweepLost, O!Next
<1>5. CASE WebhookStep
  BY <1>5 DEF WebhookStep
<1>6. ASSUME NEW j \in Jobs, JobStep(j) PROVE [O!Next]_O!vars
  BY <1>6 DEF JobStep
<1>7. CASE UNCHANGED vars
  BY <1>7 DEF vars
<1>8. QED
  BY <1>1, <1>2, <1>3, <1>4, <1>5, <1>6, <1>7 DEF Next

\* Every step is a step of the webhooks or leaves their state alone.
LEMMA NextWebhooks == [Next]_vars => [W!Next]_W!vars
<1> SUFFICES ASSUME [Next]_vars PROVE [W!Next]_W!vars
  OBVIOUS
<1> USE DEF webhookVars, W!vars, W!endpointVars, W!jobVars, W!outcomeVars, W!adminVars
<1>1. CASE PublishStep
  BY <1>1 DEF PublishStep
<1>2. CASE TickStep
  BY <1>2 DEF TickStep
<1>3. ASSUME NEW w \in Workers, SweepStep(w) PROVE [W!Next]_W!vars
  <2>1. CASE PlainSweepStep(w)
    BY <2>1 DEF PlainSweepStep
  <2>2. CASE ReadEndpoints(w)
    BY <2>2 DEF ReadEndpoints
  <2>3. ASSUME NEW p \in Endpoints, NEW j \in Jobs, EnqueueOne(w, p, j) PROVE [W!Next]_W!vars
    BY <2>3 DEF EnqueueOne, W!Next
  <2>4. CASE FanoutReturns(w)
    BY <2>4 DEF FanoutReturns
  <2>5. CASE SubscriberRaises(w)
    BY <2>5 DEF SubscriberRaises
  <2>6. QED
    BY <1>3, <2>1, <2>2, <2>3, <2>4, <2>5 DEF SweepStep
<1>4. ASSUME NEW w \in Workers, SweepLost(w) PROVE [W!Next]_W!vars
  BY <1>4 DEF SweepLost
<1>5. CASE WebhookStep
  BY <1>5 DEF WebhookStep, W!Next
<1>6. ASSUME NEW j \in Jobs, JobStep(j) PROVE [W!Next]_W!vars
  BY <1>6 DEF JobStep, W!Next
<1>7. CASE UNCHANGED vars
  BY <1>7 DEF vars
<1>8. QED
  BY <1>1, <1>2, <1>3, <1>4, <1>5, <1>6, <1>7 DEF Next

\* The composition implements the outbox on its own.
THEOREM ImplementsOutbox == Spec => O!Spec
<1>1. Init => O!Init
  BY DEF Init
<1>2. QED
  BY <1>1, NextOutbox, PTL DEF Spec, O!Spec

\* The composition implements the webhooks on their own.
THEOREM ImplementsWebhooks == Spec => W!Spec
<1>1. Init => W!Init
  BY DEF Init
<1>2. QED
  BY <1>1, NextWebhooks, PTL DEF Spec, W!Spec

-----------------------------------------------------------------------------
(* The inductive invariant.                                                *)

Committed == {"pending", "processed"}

PipelineTypes ==
    /\ status \in [Events -> O!Statuses]
    /\ claimed \in [Workers -> SUBSET Events]
    /\ current \in [Workers -> Events \union {NoEvent}]
    /\ job \in [Jobs -> W!JobStates]
    /\ received \in [Jobs -> Nat]
    /\ event \in [Jobs -> Events \union {NoEvent}]

\* A sweep works on committed rows.
SweepsInv ==
    \A w \in Workers : /\ current[w] \in claimed[w] \union {NoEvent}
                       /\ \A e \in claimed[w] : status[e] \in Committed

\* A job that is not free carries a committed event, and a free one has posted nothing.
JobsInv ==
    \A j \in Jobs : IF job[j] = "free" THEN received[j] = 0
                    ELSE event[j] \in Events /\ status[event[j]] \in Committed

PInv == PipelineTypes /\ SweepsInv /\ JobsInv

LEMMA InitPInv == Init => PInv
  BY DEF Init, O!Init, W!Init, PInv, PipelineTypes, SweepsInv, JobsInv, O!Statuses, W!JobStates,
         W!Started, W!Ended

SweepTypes == /\ status \in [Events -> O!Statuses]
              /\ claimed \in [Workers -> SUBSET Events]
              /\ current \in [Workers -> Events \union {NoEvent}]

StatusKept == \A e \in Events : status[e] \in Committed => status'[e] \in Committed

\* What a step of the outbox leaves of a sweep's invariant, and of committed rows.
LEMMA OutboxSteps ==
    SweepTypes /\ SweepsInv /\ [O!Next]_O!vars => SweepTypes' /\ SweepsInv' /\ StatusKept
<1> SUFFICES ASSUME SweepTypes, SweepsInv, [O!Next]_O!vars
             PROVE  SweepTypes' /\ SweepsInv' /\ StatusKept
  OBVIOUS
<1> USE DEF SweepTypes, SweepsInv, StatusKept, Committed, O!Statuses
<1>1. CASE O!Publish
  <2>1. ASSUME NEW e \in Events, O!RecordEvent(e) PROVE SweepTypes' /\ SweepsInv' /\ StatusKept
    BY <2>1 DEF O!RecordEvent, O!sweepVars
  <2>2. ASSUME NEW e \in Events, NEW outcome \in {"pending", "aborted"}, O!EndMutation(e, outcome)
        PROVE  SweepTypes' /\ SweepsInv' /\ StatusKept
    BY <2>2 DEF O!EndMutation, O!sweepVars
  <2>3. QED
    BY <1>1, <2>1, <2>2 DEF O!Publish
<1>2. CASE O!Tick
  BY <1>2 DEF O!Tick, O!rowVars, O!sweepVars
<1>3. ASSUME NEW w \in Workers, O!SweepStep(w) PROVE SweepTypes' /\ SweepsInv' /\ StatusKept
  <2>1. CASE O!Claim(w)
    BY <2>1 DEF O!Claim, O!OldestClaimable, O!Claimable, O!rowVars
  <2>2. ASSUME NEW e \in Events, O!RejectPayload(w, e) \/ O!RejectType(w, e)
        PROVE  SweepTypes' /\ SweepsInv' /\ StatusKept
    BY <2>2 DEF O!RejectPayload, O!RejectType, O!rowVars
  <2>3. ASSUME NEW e \in Events, O!StartDispatch(w, e) PROVE SweepTypes' /\ SweepsInv' /\ StatusKept
    BY <2>3 DEF O!StartDispatch, O!NextRow, O!Todo, O!rowVars
  <2>4. CASE O!CommitSweep(w)
    BY <2>4 DEF O!CommitSweep, O!EndSweep
  <2>5. CASE O!HandlerReturns(w)
    BY <2>5 DEF O!HandlerReturns, O!rowVars
  <2>6. CASE O!HandlerRaises(w)
    BY <2>6 DEF O!HandlerRaises, O!rowVars
  <2>7. QED
    BY <1>3, <2>1, <2>2, <2>3, <2>4, <2>5, <2>6 DEF O!SweepStep, O!HandleRows
<1>4. ASSUME NEW w \in Workers, O!LoseSweep(w) PROVE SweepTypes' /\ SweepsInv' /\ StatusKept
  BY <1>4 DEF O!LoseSweep, O!EndSweep
<1>5. CASE UNCHANGED O!vars
  BY <1>5 DEF O!vars, O!rowVars, O!sweepVars
<1>6. QED
  BY <1>1, <1>2, <1>3, <1>4, <1>5 DEF O!Next

JobTypes == job \in [Jobs -> W!JobStates] /\ received \in [Jobs -> Nat]

\* Jobs neither become free nor cease to be, and free ones post nothing.
JobsKept == \A k \in Jobs : /\ job[k] = "free" <=> job'[k] = "free"
                            /\ job[k] = "free" => received'[k] = received[k]

\* A step of the webhooks other than an enqueue.
LEMMA WebhookSteps ==
    JobTypes /\ (W!Surroundings \/ \E j \in Jobs : W!RunStep(j)) => JobTypes' /\ JobsKept
<1> SUFFICES ASSUME JobTypes, W!Surroundings \/ \E j \in Jobs : W!RunStep(j)
             PROVE  JobTypes' /\ JobsKept
  OBVIOUS
<1> USE DEF JobTypes, JobsKept, W!JobStates, W!Started, W!Ended, W!jobVars, W!outcomeVars
<1>1. CASE W!Surroundings
  <2>1. ASSUME NEW e \in Endpoints, W!CreateWebhook(e) PROVE JobTypes' /\ JobsKept
    BY <2>1 DEF W!CreateWebhook
  <2>2. ASSUME NEW a \in Admins, NEW e \in Endpoints, NEW op \in {"pause", "unpause", "delete"},
               W!ReadEndpoint(a, e, op)
        PROVE  JobTypes' /\ JobsKept
    BY <2>2 DEF W!ReadEndpoint
  <2>3. ASSUME NEW a \in Admins, W!Serve(a) PROVE JobTypes' /\ JobsKept
    BY <2>3 DEF W!Serve, W!CommitPause, W!CommitUnpause, W!UpdateFindsNoRow, W!CommitDelete,
                W!EndRequest
  <2>4. ASSUME NEW j \in Jobs, W!WorkerDies(j) PROVE JobTypes' /\ JobsKept
    BY <2>4 DEF W!WorkerDies
  <2>5. QED
    BY <1>1, <2>1, <2>2, <2>3, <2>4 DEF W!Surroundings
<1>2. ASSUME NEW j \in Jobs, W!RunStep(j) PROVE JobTypes' /\ JobsKept
  <2>1. CASE W!StartRun(j) \/ W!Expire(j) \/ W!InsertDelivery(j)
    BY <2>1 DEF W!StartRun, W!Expire, W!InsertDelivery
  <2>2. ASSUME NEW result \in {"ok", "error"}, NEW arrived \in BOOLEAN, W!Post(j, result, arrived)
        PROVE  JobTypes' /\ JobsKept
    BY <2>2 DEF W!Post
  <2>3. CASE W!CommitSuccess(j)
    BY <2>3 DEF W!CommitSuccess
  <2>4. CASE W!CommitFailure(j)
    BY <2>4 DEF W!CommitFailure
  <2>5. ASSUME NEW timeout \in BOOLEAN, W!RunFails(j, timeout) PROVE JobTypes' /\ JobsKept
    BY <2>5 DEF W!RunFails
  <2>6. QED
    BY <1>2, <2>1, <2>2, <2>3, <2>4, <2>5 DEF W!RunStep
<1>3. QED
  BY <1>1, <1>2

LEMMA NextPInv == PInv /\ [Next]_vars => PInv'
<1> SUFFICES ASSUME PInv, [Next]_vars PROVE PInv'
  OBVIOUS
<1>1. SweepTypes' /\ SweepsInv' /\ StatusKept
  BY NextOutbox, OutboxSteps DEF PInv, PipelineTypes, SweepTypes
<1>2. ASSUME JobTypes', JobsKept, UNCHANGED event PROVE PInv'
  BY <1>1, <1>2 DEF PInv, PipelineTypes, SweepTypes, JobTypes, JobsKept, JobsInv, StatusKept
<1>3. ASSUME UNCHANGED <<webhookVars, event>> PROVE PInv'
  BY <1>2, <1>3 DEF PInv, PipelineTypes, JobTypes, JobsKept, webhookVars
<1>4. CASE PublishStep \/ TickStep
  BY <1>3, <1>4 DEF PublishStep, TickStep, linkVars
<1>5. ASSUME NEW w \in Workers, SweepStep(w) PROVE PInv'
  <2>1. CASE PlainSweepStep(w) \/ ReadEndpoints(w) \/ FanoutReturns(w) \/ SubscriberRaises(w)
    BY <1>3, <2>1 DEF PlainSweepStep, ReadEndpoints, FanoutReturns, SubscriberRaises, linkVars
  <2>2. ASSUME NEW p \in Endpoints, NEW j \in Jobs, EnqueueOne(w, p, j) PROVE PInv'
    <3>1. current[w] \in Events /\ status[current[w]] \in Committed
      BY <2>2 DEF EnqueueOne, FansOut, PInv, PipelineTypes, SweepsInv
    <3>2. event' = [event EXCEPT ![j] = current[w]] /\ UNCHANGED status
      BY <2>2 DEF EnqueueOne, outboxVars
    <3>3. job' = [job EXCEPT ![j] = "queued"] /\ UNCHANGED received
      BY <2>2 DEF EnqueueOne, W!Enqueue, W!outcomeVars
    <3>4. PipelineTypes'
      BY <1>1, <3>1, <3>2, <3>3 DEF PInv, PipelineTypes, SweepTypes, W!JobStates
    <3>5. JobsInv'
      BY <3>1, <3>2, <3>3 DEF PInv, PipelineTypes, JobsInv
    <3>6. QED
      BY <1>1, <3>4, <3>5 DEF PInv
  <2>3. QED
    BY <1>5, <2>1, <2>2 DEF SweepStep
<1>6. ASSUME NEW w \in Workers, SweepLost(w) PROVE PInv'
  BY <1>3, <1>6 DEF SweepLost
<1>7. CASE WebhookStep \/ \E j \in Jobs : JobStep(j)
  <2>1. JobTypes
    BY DEF PInv, PipelineTypes, JobTypes
  <2>2. JobTypes' /\ JobsKept
    BY <1>7, <2>1, WebhookSteps DEF WebhookStep, JobStep
  <2>3. UNCHANGED event
    BY <1>7 DEF WebhookStep, JobStep, linkVars
  <2>4. QED
    BY <1>2, <2>2, <2>3
<1>8. CASE UNCHANGED vars
  BY <1>3, <1>8 DEF vars, linkVars
<1>9. QED
  BY <1>4, <1>5, <1>6, <1>7, <1>8 DEF Next

\* No receiver ever hears of a mutation that is not committed: record_event's
\* row, the claim and the fan-out together keep the promise of the outbox.
THEOREM OnlyCommittedIsPosted == Spec => []OnlyCommittedPosted
<1>1. PInv => OnlyCommittedPosted
  BY DEF PInv, PipelineTypes, JobsInv, OnlyCommittedPosted, Committed
<1>2. QED
  BY <1>1, InitPInv, NextPInv, PTL DEF Spec

-----------------------------------------------------------------------------
(* How many jobs an event may leave at an endpoint.                        *)

\* What Outbox_proofs shows, for the outbox inside the pipeline.
OP == INSTANCE Outbox_proofs

LEMMA OutboxAssumed == OP!OutboxAssumption
  BY PipelineAssumption DEF PipelineAssumption, OP!OutboxAssumption

\* The two instances of Outbox are one.
LEMMA SameOutbox == /\ O!Init => OP!Init
                    /\ [O!Next]_O!vars => [OP!Next]_OP!vars
                    /\ OP!DispatchesAccounted => O!DispatchesAccounted
<1>1. O!Init => OP!Init
  BY DEF O!Init, OP!Init
<1>3. O!Publish \/ O!Tick => OP!Publish \/ OP!Tick
  BY DEF O!Publish, O!Tick, OP!Publish, OP!Tick, O!RecordEvent, OP!RecordEvent, O!EndMutation, OP!EndMutation,
         O!rowVars, OP!rowVars, O!sweepVars, OP!sweepVars, O!historyVars, OP!historyVars
<1>4. ASSUME NEW w \in Workers PROVE O!SweepStep(w) \/ O!LoseSweep(w) => OP!SweepStep(w) \/ OP!LoseSweep(w)
  <2> USE DEF O!rowVars, OP!rowVars, O!sweepVars, OP!sweepVars, O!historyVars, OP!historyVars
  <2>1. O!Claim(w) => OP!Claim(w)
    <3>1. \A e \in Events : O!Claimable(e) <=> OP!Claimable(e)
      BY DEF O!Claimable, OP!Claimable, O!Locked, OP!Locked
    <3>2. \A batch \in SUBSET Events : O!OldestClaimable(batch) => OP!OldestClaimable(batch)
      <4> SUFFICES ASSUME NEW batch \in SUBSET Events, O!OldestClaimable(batch) PROVE OP!OldestClaimable(batch)
        OBVIOUS
      <4>0. O!Cardinality(batch) = OP!Cardinality(batch)
        BY DEF O!Cardinality, OP!Cardinality
      <4>1. \A e \in batch : OP!Claimable(e)
        BY <3>1 DEF O!OldestClaimable
      <4>2. \A e \in Events \ batch : OP!Claimable(e) => /\ OP!Cardinality(batch) = BatchSize
                                                        /\ \A b \in batch : occurred[b] <= occurred[e]
        BY <3>1, <4>0 DEF O!OldestClaimable
      <4>3. OP!Cardinality(batch) <= BatchSize
        BY <4>0 DEF O!OldestClaimable
      <4> QED
        BY <4>1, <4>2, <4>3 DEF OP!OldestClaimable
    <3> QED
      BY <3>2 DEF O!Claim, OP!Claim
  <2>2. ASSUME NEW e \in Events
        PROVE  O!RejectPayload(w, e) \/ O!RejectType(w, e) \/ O!StartDispatch(w, e)
                 => OP!RejectPayload(w, e) \/ OP!RejectType(w, e) \/ OP!StartDispatch(w, e)
    BY DEF O!RejectPayload, OP!RejectPayload, O!RejectType, OP!RejectType, O!StartDispatch, OP!StartDispatch,
           O!NextRow, OP!NextRow, O!Todo, OP!Todo
  <2>3. O!CommitSweep(w) => OP!CommitSweep(w)
    BY DEF O!CommitSweep, OP!CommitSweep, O!Todo, OP!Todo, O!Judged, OP!Judged, O!EndSweep, OP!EndSweep
  <2>4. O!HandlerReturns(w) \/ O!HandlerRaises(w) => OP!HandlerReturns(w) \/ OP!HandlerRaises(w)
    BY DEF O!HandlerReturns, OP!HandlerReturns, O!HandlerRaises, OP!HandlerRaises
  <2>5. O!LoseSweep(w) => OP!LoseSweep(w)
    BY DEF O!LoseSweep, OP!LoseSweep, O!EndSweep, OP!EndSweep, O!Idle, OP!Idle, O!Todo, OP!Todo
  <2> QED
    BY <2>1, <2>2, <2>3, <2>4, <2>5 DEF O!SweepStep, OP!SweepStep, O!HandleRows, OP!HandleRows
<1>5. [O!Next]_O!vars => [OP!Next]_OP!vars
  <2>1. ASSUME NEW w \in Workers, O!SweepStep(w) \/ O!LoseSweep(w) PROVE OP!Next
    BY <1>4, <2>1 DEF OP!Next
  <2>2. O!Publish \/ O!Tick => OP!Next
    BY <1>3 DEF OP!Next
  <2>3. UNCHANGED O!vars => UNCHANGED OP!vars
    BY DEF O!vars, OP!vars, O!rowVars, OP!rowVars, O!sweepVars, OP!sweepVars, O!historyVars, OP!historyVars
  <2> QED
    BY <2>1, <2>2, <2>3 DEF O!Next
<1>6. OP!DispatchesAccounted => O!DispatchesAccounted
  BY DEF OP!DispatchesAccounted, O!DispatchesAccounted
<1> QED
  BY <1>1, <1>5, <1>6

\* A dispatch that still has to push a job to the endpoint p.
Owes(w, p) == \/ position[w] < FanoutAt
              \/ position[w] = FanoutAt /\ (~fanout[w].read \/ p \in fanout[w].todo)

\* Each dispatch of an event pushes one job to an endpoint, or owes it still.
PushInv ==
    \A e \in Events, p \in Endpoints :
       /\ IsFiniteSet(JobsFor(e, p))
       /\ Cardinality(JobsFor(e, p)) <= dispatches[e]
       /\ \A w \in Workers : current[w] = e /\ Owes(w, p) => Cardinality(JobsFor(e, p)) < dispatches[e]

\* Types, and that a sweep has endpoints to do only after it has read them.
LinkTypes == /\ target \in [Jobs -> Endpoints \union {NoEndpoint}]
             /\ event \in [Jobs -> Events \union {NoEvent}]
             /\ fanout \in [Workers -> [read : BOOLEAN, todo : SUBSET Endpoints]]
             /\ \A w \in Workers : ~fanout[w].read => fanout[w].todo = {}

PushIInv == LinkTypes /\ OP!IInv /\ PushInv

LEMMA InitPush == Init => PushIInv
<1> SUFFICES ASSUME Init PROVE PushIInv
  OBVIOUS
<1>1. OP!IInv
  BY OutboxAssumed, SameOutbox, OP!InitIInv DEF Init
<1>2. LinkTypes
  BY DEF Init, W!Init, LinkTypes, Unread
<1>3. \A e \in Events, p \in Endpoints : JobsFor(e, p) = {}
  BY PipelineAssumption DEF Init, JobsFor, PipelineAssumption
<1>4. \A e \in Events : dispatches[e] = 0 /\ \A w \in Workers : current[w] # e
  BY PipelineAssumption DEF Init, O!Init, PipelineAssumption
<1>5. PushInv
  BY <1>3, <1>4, FS_EmptySet DEF PushInv
<1> QED
  BY <1>1, <1>2, <1>5 DEF PushIInv

\* A step that pushes nothing, and by which no sweep comes to owe a job unless
\* it starts a dispatch.
LEMMA PushKept ==
  ASSUME PushIInv, UNCHANGED <<event, target>>,
         \A e \in Events : dispatches'[e] \in Nat /\ dispatches[e] <= dispatches'[e],
         \A w \in Workers, p \in Endpoints : current'[w] \in Events /\ Owes(w, p)' =>
            \/ current[w] = current'[w] /\ Owes(w, p)
            \/ dispatches[current'[w]] < dispatches'[current'[w]]
  PROVE  PushInv'
<1> SUFFICES ASSUME NEW e \in Events, NEW p \in Endpoints
             PROVE  /\ IsFiniteSet(JobsFor(e, p)')
                    /\ Cardinality(JobsFor(e, p)') <= dispatches'[e]
                    /\ \A w \in Workers : current'[w] = e /\ Owes(w, p)'
                                            => Cardinality(JobsFor(e, p)') < dispatches'[e]
  BY DEF PushInv
<1>1. JobsFor(e, p)' = JobsFor(e, p)
  BY DEF JobsFor
<1>2. /\ IsFiniteSet(JobsFor(e, p)) /\ Cardinality(JobsFor(e, p)) <= dispatches[e]
      /\ \A w \in Workers : current[w] = e /\ Owes(w, p) => Cardinality(JobsFor(e, p)) < dispatches[e]
  BY DEF PushIInv, PushInv
<1>3. Cardinality(JobsFor(e, p)) \in Nat /\ dispatches[e] \in Nat
  BY <1>2, FS_CardinalityType DEF PushIInv, OP!IInv, OP!TypeOK
<1> QED
  BY <1>1, <1>2, <1>3

\* The fan-out pushes what it owed.
LEMMA PushOne ==
  ASSUME PushIInv, NEW w \in Workers, NEW q \in Endpoints, NEW j \in Jobs, EnqueueOne(w, q, j)
  PROVE  LinkTypes' /\ PushInv'
<1>1. PICK c \in Events : c = current[w]
  BY DEF EnqueueOne, FansOut, PushIInv, OP!IInv, OP!TypeOK
<1>2. Owes(w, q) /\ position[w] = FanoutAt
  BY DEF EnqueueOne, FansOut, Owes
<1>3. \A v \in Workers \ {w} : current[v] # c
  BY <1>1, PipelineAssumption DEF PushIInv, OP!IInv, OP!ClaimsInv, OP!SweepInv, PipelineAssumption
<1>4. UNCHANGED outboxVars /\ fanout' = [fanout EXCEPT ![w].todo = @ \ {q}]
      /\ event' = [event EXCEPT ![j] = c] /\ target' = [target EXCEPT ![j] = q]
  BY <1>1 DEF EnqueueOne, W!Enqueue
<1>5. LinkTypes'
  BY <1>1, <1>4 DEF PushIInv, LinkTypes
<1>6. /\ \A v \in Workers, p \in Endpoints : Owes(v, p)' => Owes(v, p)
      /\ ~Owes(w, q)'
  <2>1. fanout[w].read
    BY DEF EnqueueOne, PushIInv, LinkTypes
  <2>2. PICK f \in [read : BOOLEAN, todo : SUBSET Endpoints] : f = fanout[w]
    BY DEF PushIInv, LinkTypes
  <2>3. fanout'[w] = [f EXCEPT !.todo = f.todo \ {q}] /\ \A v \in Workers \ {w} : fanout'[v] = fanout[v]
    BY <1>4, <2>2 DEF PushIInv, LinkTypes
  <2>4. fanout'[w].read = fanout[w].read /\ fanout'[w].todo = fanout[w].todo \ {q}
    BY <2>2, <2>3
  <2>5. \A v \in Workers, p \in Endpoints : Owes(v, p)' => Owes(v, p)
    BY <1>4, <2>3, <2>4 DEF Owes, outboxVars
  <2>6. position'[w] = FanoutAt /\ FanoutAt \in Nat
    BY <1>2, <1>4, PipelineAssumption DEF outboxVars, PipelineAssumption
  <2> QED
    BY <2>1, <2>4, <2>5, <2>6 DEF Owes
<1> SUFFICES ASSUME NEW e \in Events, NEW p \in Endpoints
             PROVE  /\ IsFiniteSet(JobsFor(e, p)')
                    /\ Cardinality(JobsFor(e, p)') <= dispatches'[e]
                    /\ \A v \in Workers : current'[v] = e /\ Owes(v, p)'
                                            => Cardinality(JobsFor(e, p)') < dispatches'[e]
  BY <1>5 DEF PushInv
<1>7. /\ IsFiniteSet(JobsFor(e, p)) /\ Cardinality(JobsFor(e, p)) <= dispatches[e]
      /\ \A v \in Workers : current[v] = e /\ Owes(v, p) => Cardinality(JobsFor(e, p)) < dispatches[e]
  BY DEF PushIInv, PushInv
<1>8. Cardinality(JobsFor(e, p)) \in Nat /\ dispatches[e] \in Nat /\ dispatches'[e] = dispatches[e]
  BY <1>4, <1>7, FS_CardinalityType DEF PushIInv, OP!IInv, OP!TypeOK, outboxVars
<1>9. CASE e = c /\ p = q
  <2>1. JobsFor(e, p)' \subseteq JobsFor(e, p) \union {j}
    BY <1>4, <1>9 DEF JobsFor, PushIInv, LinkTypes
  <2>2. /\ IsFiniteSet(JobsFor(e, p) \union {j})
        /\ Cardinality(JobsFor(e, p) \union {j}) <= Cardinality(JobsFor(e, p)) + 1
        /\ Cardinality(JobsFor(e, p) \union {j}) \in Nat
    <3>1. /\ IsFiniteSet(JobsFor(e, p) \union {j})
          /\ \/ Cardinality(JobsFor(e, p) \union {j}) = Cardinality(JobsFor(e, p))
             \/ Cardinality(JobsFor(e, p) \union {j}) = Cardinality(JobsFor(e, p)) + 1
      BY <1>7, FS_AddElement
    <3> QED
      BY <1>8, <3>1
  <2>3. /\ IsFiniteSet(JobsFor(e, p)') /\ Cardinality(JobsFor(e, p)') \in Nat
        /\ Cardinality(JobsFor(e, p)') <= Cardinality(JobsFor(e, p) \union {j})
    BY <2>1, <2>2, FS_Subset, FS_CardinalityType
  <2>4. Cardinality(JobsFor(e, p)) < dispatches[e]
    BY <1>1, <1>2, <1>7, <1>9
  <2>5. \A v \in Workers : ~(current'[v] = e /\ Owes(v, p)')
    BY <1>1, <1>3, <1>4, <1>6, <1>9 DEF outboxVars
  <2> QED
    BY <1>8, <2>2, <2>3, <2>4, <2>5
<1>10. CASE ~(e = c /\ p = q)
  <2>1. JobsFor(e, p)' \subseteq JobsFor(e, p)
    BY <1>4, <1>10 DEF JobsFor, PushIInv, LinkTypes
  <2>2. /\ IsFiniteSet(JobsFor(e, p)') /\ Cardinality(JobsFor(e, p)') \in Nat
        /\ Cardinality(JobsFor(e, p)') <= Cardinality(JobsFor(e, p))
    BY <1>7, <2>1, FS_Subset, FS_CardinalityType
  <2> QED
    BY <1>4, <1>6, <1>7, <1>8, <2>2 DEF outboxVars
<1> QED
  BY <1>9, <1>10

\* A step of a sweep other than a push.
LEMMA PushSweep ==
  ASSUME PushIInv, PushIInv => OP!IInv', NEW w \in Workers,
         \/ PlainSweepStep(w) \/ ReadEndpoints(w) \/ FanoutReturns(w)
         \/ SubscriberRaises(w) \/ SweepLost(w)
  PROVE  LinkTypes' /\ PushInv'
<1> USE DEF PushIInv, LinkTypes, Unread, ForgetFanout, linkVars, OP!IInv, OP!TypeOK
<1>1. UNCHANGED <<event, target>>
  BY DEF PlainSweepStep, ReadEndpoints, FanoutReturns, SubscriberRaises, SweepLost, webhookVars
<1>2. \A e \in Events : dispatches[e] \in Nat /\ dispatches'[e] \in Nat
  OBVIOUS
<1>3. CASE PlainSweepStep(w)
  <2>1. UNCHANGED fanout
    BY <1>3 DEF PlainSweepStep
  <2>2. ASSUME NEW e \in Events, O!StartDispatch(w, e)
        PROVE  PushInv'
    BY <1>1, <1>2, <2>1, <2>2, PushKept DEF O!StartDispatch, Owes
  <2>3. ASSUME O!HandlerReturns(w), ~FansOut(w) PROVE PushInv'
    <3>1. position[w] \in Nat /\ FanoutAt \in Nat /\ position[w] # FanoutAt
      BY <2>3, PipelineAssumption DEF FansOut, O!HandlerReturns, PipelineAssumption, OP!Subscribers
    <3>2. UNCHANGED dispatches /\ \A v \in Workers \ {w} : current'[v] = current[v] /\ position'[v] = position[v]
      BY <2>3 DEF O!HandlerReturns
    <3>3. current'[w] = NoEvent \/ (current'[w] = current[w] /\ position'[w] = position[w] + 1)
      <4>1. CASE position[w] < NumSubscribers
        BY <2>3, <4>1 DEF O!HandlerReturns
      <4>2. CASE ~(position[w] < NumSubscribers)
        BY <2>3, <4>2 DEF O!HandlerReturns
      <4> QED
        BY <4>1, <4>2
    <3>4. NoEvent \notin Events
      BY PipelineAssumption DEF PipelineAssumption
    <3> QED
      BY <1>1, <1>2, <2>1, <3>1, <3>2, <3>3, <3>4, PushKept DEF Owes
  <2>4. ASSUME NEW e \in Events, O!RejectPayload(w, e) \/ O!RejectType(w, e) PROVE PushInv'
    BY <1>1, <1>2, <2>1, <2>4, PushKept DEF O!RejectPayload, O!RejectType, O!historyVars, Owes
  <2>5. CASE O!Claim(w)
    BY <1>1, <1>2, <2>1, <2>5, PushKept DEF O!Claim, O!historyVars, Owes
  <2>6. CASE O!CommitSweep(w)
    <3>1. NoEvent \notin Events
      BY PipelineAssumption DEF PipelineAssumption
    <3> QED
      BY <1>1, <1>2, <2>1, <2>6, <3>1, PushKept DEF O!CommitSweep, O!EndSweep, O!historyVars, Owes
  <2> QED
    BY <1>1, <1>3, <2>1, <2>2, <2>3, <2>4, <2>5, <2>6 DEF PlainSweepStep, O!HandleRows
<1>4. CASE ReadEndpoints(w)
  <2>1. PICK found \in SUBSET Endpoints : fanout' = [fanout EXCEPT ![w] = [read |-> TRUE, todo |-> found]]
    BY <1>4, PipelineAssumption DEF ReadEndpoints, FansOut, PipelineAssumption
  <2>2. UNCHANGED <<dispatches, current, position>> /\ ~fanout[w].read
    BY <1>4 DEF ReadEndpoints, outboxVars
  <2>3. \A v \in Workers, p \in Endpoints : Owes(v, p)' => Owes(v, p)
    BY <2>1, <2>2 DEF Owes
  <2>4. PushInv'
    BY <1>1, <1>2, <2>2, <2>3, PushKept
  <2> QED
    BY <1>1, <2>1, <2>4
<1>5. CASE FanoutReturns(w) \/ SubscriberRaises(w) \/ SweepLost(w)
  <2>1. fanout' = [fanout EXCEPT ![w] = [read |-> FALSE, todo |-> {}]]
    BY <1>5 DEF FanoutReturns, SubscriberRaises, SweepLost
  <2>2. UNCHANGED dispatches /\ \A v \in Workers \ {w} : current'[v] = current[v] /\ position'[v] = position[v]
    BY <1>5 DEF FanoutReturns, SubscriberRaises, SweepLost, O!HandlerReturns, O!HandlerRaises,
                O!LoseSweep, O!EndSweep, O!historyVars
  <2>3. current'[w] = NoEvent \/ position'[w] = FanoutAt + 1
    BY <1>5 DEF FanoutReturns, FansOut, SubscriberRaises, SweepLost, O!HandlerReturns, O!HandlerRaises,
                O!LoseSweep, O!EndSweep
  <2>4. NoEvent \notin Events /\ FanoutAt \in Nat
    BY PipelineAssumption DEF PipelineAssumption
  <2>5. PushInv'
    BY <1>1, <1>2, <2>1, <2>2, <2>3, <2>4, PushKept DEF Owes
  <2> QED
    BY <1>1, <2>1, <2>5
<1> QED
  BY <1>3, <1>4, <1>5

\* The webhooks leave the targets of their jobs alone.
LEMMA TargetsKept == W!Surroundings \/ (\E j \in Jobs : W!RunStep(j)) => UNCHANGED target
<1> USE DEF W!jobVars
<1>1. ASSUME NEW e \in Endpoints, W!CreateWebhook(e) PROVE UNCHANGED target
  BY <1>1 DEF W!CreateWebhook
<1>2. ASSUME NEW a \in Admins, NEW e \in Endpoints, NEW op \in {"pause", "unpause", "delete"},
             W!ReadEndpoint(a, e, op)
      PROVE  UNCHANGED target
  BY <1>2 DEF W!ReadEndpoint
<1>3. ASSUME NEW a \in Admins, W!Serve(a) PROVE UNCHANGED target
  BY <1>3 DEF W!Serve, W!CommitPause, W!CommitUnpause, W!UpdateFindsNoRow, W!CommitDelete, W!EndRequest
<1>4. ASSUME NEW j \in Jobs, W!WorkerDies(j) \/ W!RunStep(j) PROVE UNCHANGED target
  BY <1>4 DEF W!WorkerDies, W!RunStep, W!StartRun, W!Expire, W!InsertDelivery, W!Post, W!CommitSuccess,
              W!CommitFailure, W!RunFails
<1> QED
  BY <1>1, <1>2, <1>3, <1>4 DEF W!Surroundings

LEMMA NextPush == PushIInv /\ [Next]_vars => PushIInv'
<1> SUFFICES ASSUME PushIInv, [Next]_vars PROVE PushIInv'
  OBVIOUS
<1>1. OP!IInv'
  <2>1. [OP!Next]_OP!vars /\ OP!IInv
    BY NextOutbox, SameOutbox DEF PushIInv
  <2> QED
    BY <2>1, OutboxAssumed, OP!NextTypeOK, OP!NextClaimsInv, OP!NextSweepInv, OP!NextHandledInv,
       OP!NextDispatchInv DEF OP!IInv
<1> SUFFICES LinkTypes' /\ PushInv'
  BY <1>1 DEF PushIInv
<1>2. ASSUME UNCHANGED <<event, target, fanout, dispatches, current, position>>
      PROVE  LinkTypes' /\ PushInv'
  <2>1. \A e \in Events : dispatches[e] \in Nat
    BY DEF PushIInv, OP!IInv, OP!TypeOK
  <2>2. PushInv'
    BY <1>2, <2>1, PushKept DEF Owes
  <2> QED
    BY <1>2, <2>2 DEF PushIInv, LinkTypes
<1>3. CASE PublishStep \/ TickStep
  BY <1>2, <1>3 DEF PublishStep, TickStep, O!Publish, O!RecordEvent, O!EndMutation, O!Tick, O!sweepVars,
                    O!historyVars, webhookVars, linkVars
<1>4. ASSUME NEW w \in Workers, SweepStep(w) \/ SweepLost(w) PROVE LinkTypes' /\ PushInv'
  BY <1>1, <1>4, PushOne, PushSweep DEF SweepStep
<1>5. CASE WebhookStep \/ \E j \in Jobs : JobStep(j)
  BY <1>2, <1>5, TargetsKept DEF WebhookStep, JobStep, outboxVars, linkVars
<1>6. CASE UNCHANGED vars
  BY <1>2, <1>6 DEF vars, outboxVars, webhookVars, linkVars
<1> QED
  BY <1>3, <1>4, <1>5, <1>6 DEF Next

\* The fan-out pushes before its sweep commits and without a dedupe key: what
\* an endpoint gets twice for one event is accounted for by the attempts
\* counted as failed and the sweeps lost.
THEOREM DuplicatesAreAccounted == Spec => []DuplicateJobsAccounted
<1>1. PushIInv => DuplicateJobsAccounted
  <2> SUFFICES ASSUME PushIInv, NEW e \in Events, NEW p \in Endpoints
               PROVE  Cardinality(JobsFor(e, p)) <= attempts[e] + lost + 1
    BY DEF DuplicateJobsAccounted
  <2>1. IsFiniteSet(JobsFor(e, p)) /\ Cardinality(JobsFor(e, p)) <= dispatches[e]
    BY DEF PushIInv, PushInv
  <2>2. dispatches[e] <= attempts[e] + lost + 1 /\ dispatches[e] \in Nat /\ attempts[e] \in Nat /\ lost \in Nat
    BY PipelineAssumption DEF PushIInv, OP!IInv, OP!TypeOK, OP!DispatchInv, PipelineAssumption
  <2>3. Cardinality(JobsFor(e, p)) \in Nat
    BY <2>1, FS_CardinalityType
  <2> QED
    BY <2>1, <2>2, <2>3
<1> QED
  BY <1>1, InitPush, NextPush, PTL DEF Spec

LEMMA SameDelivery == OP!DeliverySpec => O!DeliverySpec
<1>1. OP!Phase = O!Phase /\ OP!Phase' = O!Phase' /\ OP!Subscribers = O!Subscribers
  BY DEF OP!Phase, O!Phase, OP!Dead, O!Dead, OP!Subscribers, O!Subscribers
<1>2. OP!Delivery!Init => O!Delivery!Init
  BY <1>1 DEF OP!Delivery!Init, O!Delivery!Init
<1>3. [OP!Delivery!Next]_(OP!Delivery!vars) => [O!Delivery!Next]_(O!Delivery!vars)
  BY <1>1 DEF OP!Delivery!Next, O!Delivery!Next, OP!Delivery!vars, O!Delivery!vars, OP!Delivery!Publish,
     O!Delivery!Publish, OP!Delivery!Handle, O!Delivery!Handle, OP!Delivery!Settle, O!Delivery!Settle
<1> QED
  BY <1>2, <1>3, PTL DEF OP!DeliverySpec, O!DeliverySpec, OP!Delivery!Spec, O!Delivery!Spec

\* With the webhooks behind it the outbox still keeps the promise of
\* EventDelivery: jobs pushed, posted, lost and repeated change nothing of it.
THEOREM PipelineRefinesDelivery == Spec => O!DeliverySpec
<1>1. O!Spec => OP!Spec
  BY SameOutbox, PTL DEF O!Spec, OP!Spec
<1>2. OP!Spec => OP!DeliverySpec
  BY OutboxAssumed, OP!OutboxRefinesDelivery
<1> QED
  BY <1>1, <1>2, ImplementsOutbox, SameDelivery, PTL

-----------------------------------------------------------------------------
(* No endpoint that is fit is passed over.                                 *)

Fed(e, p) == JobsFor(e, p) # {}

\* A fan-out that has read is at its place in a dispatch; a free job is nobody's.
LinkInv == /\ \A w \in Workers : fanout[w].read => FansOut(w)
           /\ \A j \in Jobs : job[j] = "free" => event[j] = NoEvent

LEMMA InitLink == Init => LinkInv
  BY DEF Init, W!Init, LinkInv, Unread

\* Where a dispatch of e owes nothing to p any more, p has its job.
FedInv(e, p) ==
    /\ status[e] = "processed" => Fed(e, p)
    /\ \A w \in Workers : /\ verdict[w][e] = "ok" => Fed(e, p)
                          /\ current[w] = e /\ ~Owes(w, p) => Fed(e, p)

\* Jobs that carry an event to an endpoint go on doing so.
LEMMA LinksKept ==
  ASSUME PushIInv, PInv, LinkInv, [Next]_vars
  PROVE  LinkInv' /\ \A e \in Events, p \in Endpoints : Fed(e, p) => Fed(e, p)'
<1> USE DEF Fed, JobsFor, LinkInv, FansOut
<1>0. /\ fanout \in [Workers -> [read : BOOLEAN, todo : SUBSET Endpoints]]
      /\ event \in [Jobs -> Events \union {NoEvent}] /\ NoEvent \notin Events
      /\ target \in [Jobs -> Endpoints \union {NoEndpoint}]
      /\ job \in [Jobs -> W!JobStates]
      /\ position \in [Workers -> OP!Subscribers] /\ current \in [Workers -> Events \union {NoEvent}]
  BY PipelineAssumption DEF PipelineAssumption, PushIInv, LinkTypes, OP!IInv, OP!TypeOK, PInv, PipelineTypes
<1>1. ASSUME UNCHANGED <<webhookVars, linkVars, current, position>>
      PROVE  LinkInv' /\ \A e \in Events, p \in Endpoints : Fed(e, p) => Fed(e, p)'
  BY <1>1 DEF webhookVars, linkVars
<1>2. CASE PublishStep \/ TickStep
  BY <1>1, <1>2 DEF PublishStep, TickStep, O!Publish, O!RecordEvent, O!EndMutation, O!Tick, O!sweepVars
<1>3. ASSUME NEW w \in Workers, PlainSweepStep(w)
      PROVE  LinkInv' /\ \A e \in Events, p \in Endpoints : Fed(e, p) => Fed(e, p)'
  <2>1. \A v \in Workers \ {w} : current'[v] = current[v] /\ position'[v] = position[v]
    BY <1>0, <1>3 DEF PlainSweepStep, O!HandleRows, O!Claim, O!RejectPayload, O!RejectType, O!StartDispatch,
                O!CommitSweep, O!EndSweep, O!HandlerReturns
  <2>2. FansOut(w) => FansOut(w)'
    <3>1. CASE O!CommitSweep(w)
      BY <3>1 DEF O!CommitSweep, O!Todo, PushIInv, OP!IInv, OP!SweepInv
    <3> QED
      BY <1>3, <3>1 DEF PlainSweepStep, O!HandleRows, O!Claim, O!RejectPayload, O!RejectType,
                        O!StartDispatch, O!NextRow
  <2> QED
    BY <1>3, <2>1, <2>2 DEF PlainSweepStep, webhookVars, linkVars
<1>4. ASSUME NEW w \in Workers, ReadEndpoints(w)
      PROVE  LinkInv' /\ \A e \in Events, p \in Endpoints : Fed(e, p) => Fed(e, p)'
  BY <1>0, <1>4 DEF ReadEndpoints, outboxVars, webhookVars
<1>5. ASSUME NEW w \in Workers, NEW q \in Endpoints, NEW j \in Jobs, EnqueueOne(w, q, j)
      PROVE  LinkInv' /\ \A e \in Events, p \in Endpoints : Fed(e, p) => Fed(e, p)'
  <2>1. /\ job[j] = "free" /\ job' = [job EXCEPT ![j] = "queued"] /\ target' = [target EXCEPT ![j] = q]
        /\ event' = [event EXCEPT ![j] = current[w]] /\ fanout' = [fanout EXCEPT ![w].todo = @ \ {q}]
        /\ UNCHANGED outboxVars
    BY <1>5 DEF EnqueueOne, W!Enqueue
  <2>2. \A v \in Workers : fanout'[v].read = fanout[v].read
    BY <1>0, <2>1
  <2> QED
    BY <1>0, <2>1, <2>2 DEF outboxVars
<1>6. ASSUME NEW w \in Workers, FanoutReturns(w) \/ SubscriberRaises(w) \/ SweepLost(w)
      PROVE  LinkInv' /\ \A e \in Events, p \in Endpoints : Fed(e, p) => Fed(e, p)'
  <2>1. /\ fanout' = [fanout EXCEPT ![w] = Unread] /\ UNCHANGED <<webhookVars, event>>
        /\ \A v \in Workers \ {w} : current'[v] = current[v] /\ position'[v] = position[v]
    BY <1>0, <1>6 DEF FanoutReturns, SubscriberRaises, SweepLost, ForgetFanout, O!HandlerReturns,
                O!HandlerRaises, O!LoseSweep, O!EndSweep
  <2> QED
    BY <1>0, <2>1 DEF webhookVars, Unread
<1>7. CASE WebhookStep \/ \E j \in Jobs : JobStep(j)
  <2>1. JobsKept
    BY <1>7, WebhookSteps DEF WebhookStep, JobStep, JobTypes, PInv, PipelineTypes
  <2>2. UNCHANGED <<target, outboxVars, linkVars>>
    BY <1>7, TargetsKept DEF WebhookStep, JobStep
  <2> QED
    BY <2>1, <2>2 DEF JobsKept, outboxVars, linkVars
<1>8. CASE UNCHANGED vars
  BY <1>1, <1>8 DEF vars, outboxVars
<1> QED
  BY <1>2, <1>3, <1>4, <1>5, <1>6, <1>7, <1>8 DEF Next, SweepStep

\* As long as the endpoint is fit, every step keeps it fed.
LEMMA FedKept ==
  ASSUME PushIInv, PInv, LinkInv, [Next]_vars, NEW e \in Events \ Platform, NEW p \in Matching[e],
         Fit(p), FedInv(e, p)
  PROVE  FedInv(e, p)'
<1>0. /\ fanout \in [Workers -> [read : BOOLEAN, todo : SUBSET Endpoints]]
      /\ event \in [Jobs -> Events \union {NoEvent}] /\ NoEvent \notin Events
      /\ target \in [Jobs -> Endpoints \union {NoEndpoint}]
      /\ status \in [Events -> O!Statuses]
      /\ verdict \in [Workers -> [Events -> OP!Verdicts]]
      /\ position \in [Workers -> OP!Subscribers] /\ current \in [Workers -> Events \union {NoEvent}]
      /\ NumSubscribers \in Nat /\ FanoutAt \in 1..NumSubscribers /\ p \in Endpoints
  BY PipelineAssumption DEF PipelineAssumption, PushIInv, LinkTypes, OP!IInv, OP!TypeOK, PInv, PipelineTypes
<1>1. Fed(e, p) => Fed(e, p)'
  BY <1>0, LinksKept
\* What is enough: nothing new is settled or owed up without a job.
<1>2. ASSUME status'[e] = "processed" => status[e] = "processed" \/ Fed(e, p)',
             \A w \in Workers :
                /\ verdict'[w][e] = "ok" => verdict[w][e] = "ok" \/ Fed(e, p)'
                /\ current'[w] = e /\ ~Owes(w, p)' => (current[w] = e /\ ~Owes(w, p)) \/ Fed(e, p)'
      PROVE  FedInv(e, p)'
  BY <1>1, <1>2 DEF FedInv
<1>3. CASE PublishStep \/ TickStep
  BY <1>0, <1>2, <1>3 DEF PublishStep, TickStep, O!Publish, O!RecordEvent, O!EndMutation, O!Tick, O!sweepVars,
                    O!rowVars, linkVars, Owes
<1>4. ASSUME NEW w \in Workers, PlainSweepStep(w) PROVE FedInv(e, p)'
  <2>1. UNCHANGED fanout
    BY <1>4 DEF PlainSweepStep, linkVars
  <2>2. CASE O!Claim(w)
    BY <1>2, <2>1, <2>2 DEF O!Claim, O!rowVars, Owes
  <2>3. ASSUME NEW f \in Events, O!RejectPayload(w, f) \/ O!RejectType(w, f) PROVE FedInv(e, p)'
    BY <1>0, <1>2, <2>1, <2>3 DEF O!RejectPayload, O!RejectType, O!rowVars, Owes
  <2>4. ASSUME NEW f \in Events, O!StartDispatch(w, f) PROVE FedInv(e, p)'
    <3>1. Owes(w, p)'
      BY <1>0, <2>1, <2>4 DEF O!StartDispatch, O!NextRow, LinkInv, FansOut, Owes
    <3> QED
      BY <1>0, <1>2, <2>1, <2>4, <3>1 DEF O!StartDispatch, O!rowVars, Owes
  <2>5. CASE O!CommitSweep(w)
    <3>1. status'[e] = "processed" => status[e] = "processed" \/ verdict[w][e] = "ok"
      BY <2>5 DEF O!CommitSweep, O!Judged
    <3>2. \A v \in Workers : /\ verdict'[v][e] = "ok" => verdict[v][e] = "ok"
                            /\ current'[v] = e => current[v] = e
      BY <1>0, <2>5 DEF O!CommitSweep, O!EndSweep
    <3> QED
      BY <1>1, <1>2, <2>1, <2>5, <3>1, <3>2 DEF O!CommitSweep, O!EndSweep, FedInv, Owes
  <2>6. CASE ~FansOut(w) /\ O!HandlerReturns(w)
    <3>1. position[w] # FanoutAt /\ ~fanout[w].read
      BY <2>6 DEF FansOut, O!HandlerReturns, LinkInv
    <3>2. CASE position[w] < NumSubscribers
      <4>1. /\ position' = [position EXCEPT ![w] = @ + 1] /\ UNCHANGED <<verdict, current, status>>
        BY <2>6, <3>2 DEF O!HandlerReturns, O!rowVars
      <4>2. Owes(w, p) => Owes(w, p)'
        BY <1>0, <2>1, <3>1, <4>1 DEF Owes, OP!Subscribers
      <4> QED
        BY <1>0, <1>2, <2>1, <4>1, <4>2 DEF Owes
    <3>3. CASE ~(position[w] < NumSubscribers)
      <4>1. /\ verdict' = [verdict EXCEPT ![w][current[w]] = "ok"]
            /\ current' = [current EXCEPT ![w] = NoEvent] /\ UNCHANGED <<position, status>>
        BY <2>6, <3>3 DEF O!HandlerReturns, O!rowVars
      <4>2. ~Owes(w, p)
        BY <1>0, <3>1, <3>3 DEF Owes, OP!Subscribers
      <4>3. \A v \in Workers : verdict'[v][e] = "ok" => verdict[v][e] = "ok" \/ (v = w /\ current[w] = e)
        BY <1>0, <4>1
      <4> QED
        BY <1>0, <1>1, <1>2, <2>1, <4>1, <4>2, <4>3 DEF FedInv, Owes
    <3> QED
      BY <3>2, <3>3
  <2> QED
    BY <1>4, <2>2, <2>3, <2>4, <2>5, <2>6 DEF PlainSweepStep, O!HandleRows
<1>5. ASSUME NEW w \in Workers, ReadEndpoints(w) PROVE FedInv(e, p)'
  <2>1. UNCHANGED <<status, verdict, current, position>>
    BY <1>5 DEF ReadEndpoints, outboxVars
  <2>2. \A v \in Workers : current[v] = e /\ Owes(v, p) => Owes(v, p)'
    BY <1>0, <1>5, <2>1 DEF ReadEndpoints, FansOut, Fit, Owes
  <2> QED
    BY <1>2, <2>1, <2>2
<1>6. ASSUME NEW w \in Workers, NEW q \in Endpoints, NEW j \in Jobs, EnqueueOne(w, q, j)
      PROVE  FedInv(e, p)'
  <2>1. /\ target' = [target EXCEPT ![j] = q] /\ event' = [event EXCEPT ![j] = current[w]]
        /\ fanout' = [fanout EXCEPT ![w].todo = @ \ {q}]
        /\ UNCHANGED <<status, verdict, current, position>>
    BY <1>6 DEF EnqueueOne, W!Enqueue, outboxVars
  <2>2. CASE current[w] = e /\ q = p
    <3>1. j \in JobsFor(e, p)'
      BY <1>0, <2>1, <2>2 DEF JobsFor
    <3> QED
      BY <1>2, <2>1, <3>1 DEF Fed
  <2>3. CASE ~(current[w] = e /\ q = p)
    <3>1. \A v \in Workers : current[v] = e /\ Owes(v, p) => Owes(v, p)'
      BY <1>0, <2>1, <2>3 DEF Owes
    <3> QED
      BY <1>2, <2>1, <3>1
  <2> QED
    BY <2>2, <2>3
<1>7. ASSUME NEW w \in Workers, FanoutReturns(w) PROVE FedInv(e, p)'
  <2>1. /\ O!HandlerReturns(w) /\ ~Owes(w, p) /\ position[w] = FanoutAt
        /\ fanout' = [fanout EXCEPT ![w] = Unread]
    BY <1>0, <1>7 DEF FanoutReturns, FansOut, ForgetFanout, Owes
  <2>2. \A v \in Workers \ {w} : /\ verdict'[v] = verdict[v] /\ current'[v] = current[v]
                                /\ position'[v] = position[v] /\ fanout'[v] = fanout[v]
    BY <1>0, <2>1 DEF O!HandlerReturns
  <2>3. UNCHANGED status /\ (current'[w] = e => current[w] = e)
        /\ (verdict'[w][e] = "ok" => verdict[w][e] = "ok" \/ current[w] = e)
    BY <1>0, <2>1 DEF O!HandlerReturns, O!rowVars
  <2>4. current[w] = e => Fed(e, p)'
    BY <1>1, <2>1 DEF FedInv
  <2> QED
    BY <1>2, <2>2, <2>3, <2>4 DEF Owes
<1>8. ASSUME NEW w \in Workers, SubscriberRaises(w) \/ SweepLost(w) PROVE FedInv(e, p)'
  <2>1. /\ UNCHANGED status /\ current'[w] = NoEvent
        /\ verdict'[w][e] = "ok" => verdict[w][e] = "ok"
        /\ \A v \in Workers \ {w} : /\ verdict'[v] = verdict[v] /\ current'[v] = current[v]
                                    /\ position'[v] = position[v] /\ fanout'[v] = fanout[v]
    BY <1>0, <1>8 DEF SubscriberRaises, SweepLost, ForgetFanout, O!HandlerRaises, O!LoseSweep, O!EndSweep,
                      O!rowVars
  <2> QED
    BY <1>0, <1>2, <2>1 DEF Owes
<1>9. CASE WebhookStep \/ \E j \in Jobs : JobStep(j)
  BY <1>2, <1>9 DEF WebhookStep, JobStep, outboxVars, linkVars, Owes
<1>10. CASE UNCHANGED vars
  BY <1>2, <1>10 DEF vars, outboxVars, linkVars, Owes
<1> QED
  BY <1>3, <1>4, <1>5, <1>6, <1>7, <1>8, <1>9, <1>10 DEF Next, SweepStep

\* _fanout_to_webhooks in its place among the subscribers, with the sweep's
\* verdicts and commits around it: a row that reads processed has left a job
\* for every matching endpoint that was fit when the row was written and has
\* stayed so, however often its dispatch failed, was lost or began again.
THEOREM FitEndpointsAreFed ==
  ASSUME NEW e \in Events \ Platform, NEW p \in Matching[e]
  PROVE  Spec => []((status[e] = "open" /\ []Fit(p))
                      => [](status[e] = "processed" => JobsFor(e, p) # {}))
<1> DEFINE Inv == PushIInv /\ PInv /\ LinkInv
           Q == status[e] = "processed" => JobsFor(e, p) # {}
           Open == status[e] = "open"
<1>1. Init => Inv
  BY InitPush, InitPInv, InitLink
<1>2. Inv /\ [Next]_vars => Inv'
  BY NextPush, NextPInv, LinksKept
<1>3. Inv /\ Open => FedInv(e, p)
  BY PipelineAssumption DEF PipelineAssumption, FedInv, PushIInv, OP!IInv, OP!ClaimsInv, OP!SweepInv
<1>4. Inv /\ FedInv(e, p) /\ Fit(p) /\ [Next]_vars => FedInv(e, p)'
  BY FedKept
<1>5. FedInv(e, p) => Q
  BY DEF FedInv, Fed
<1> HIDE DEF Inv, Q, Open
<1>6. Spec => []((Open /\ []Fit(p)) => []Q)
  BY <1>1, <1>2, <1>3, <1>4, <1>5, PTL DEF Spec
<1> QED
  BY <1>6 DEF Q, Open
=============================================================================
