------------------------------- MODULE Outbox -------------------------------
(***************************************************************************)
(* The transactional outbox: `record_event` (app/events.py) appends a row  *)
(* in the transaction of the domain mutation, the cron job `drain_outbox`  *)
(* (app/worker/jobs.py) claims a batch of rows FOR UPDATE SKIP LOCKED and  *)
(* hands each one to `dispatch_event` (app/events_dispatcher.py), which    *)
(* runs the subscribers in registration order.  A sweep is ONE database    *)
(* transaction: the verdicts on its rows take effect together when it      *)
(* commits, and all of them are lost when it dies first, while what the    *)
(* subscribers did (their own sessions, Redis) stays done.                 *)
(*                                                                         *)
(* A member of Workers is a sweep that may be running: cron's `unique`     *)
(* keeps one tick from starting twice, but a sweep that lasts longer than  *)
(* the five seconds between ticks overlaps with the next one.              *)
(***************************************************************************)
EXTENDS Integers, FiniteSets

CONSTANTS Events,         \* rows that domain transactions may append
          Workers,        \* sweeps that may overlap
          NumSubscribers, \* handlers registered for an event, run in this order
          Unknown,        \* events whose type this build's EventType lacks
          Unparsable,     \* rows whose payload json.loads refuses
          MaxAttempts,    \* OUTBOX_MAX_ATTEMPTS
          BatchSize,      \* _OUTBOX_BATCH_SIZE
          LastRecord,     \* bound: no transaction opens after this instant
          MaxTime,        \* bound: the clock stops here
          MaxLost,        \* bound: sweeps that die with work done on their rows
          NoEvent         \* a sweep that is between two rows

ASSUME OutboxAssumption ==
    /\ NumSubscribers \in Nat \ {0}
    /\ MaxAttempts \in Nat \ {0}
    /\ BatchSize \in Nat \ {0}
    /\ LastRecord \in Nat /\ MaxTime \in Nat /\ MaxLost \in Nat
    /\ Unknown \subseteq Events /\ Unparsable \subseteq Events
    /\ NoEvent \notin Events

VARIABLES
    now,        \* the database clock, in units of the backoff's first second
    status,     \* absent, open (flushed, not committed), aborted, pending or processed
    occurred,   \* occurred_at: now() of the transaction that appended the row
    attempts,   \* the committed attempt_count
    claimed,    \* the rows a sweep's transaction holds locked
    verdict,    \* what a sweep's transaction has written on a row: todo, ok, fail, bad
    current,    \* the row a sweep is dispatching
    position,   \* the subscriber it is running for that row
    handled,    \* subscribers that have returned normally for the event, ever
    dispatches, \* how often dispatch_event reached the event's subscribers
    lost        \* sweeps that died with work done on their rows

rowVars == <<status, occurred, attempts>>
sweepVars == <<claimed, verdict, current, position>>
historyVars == <<handled, dispatches>>
vars == <<now, rowVars, sweepVars, historyVars, lost>>

Subscribers == 1..NumSubscribers

Statuses == {"absent", "open", "aborted", "pending", "processed"}
Verdicts == {"todo", "ok", "fail", "bad"}

TypeOK ==
    /\ now \in 0..MaxTime
    /\ status \in [Events -> Statuses]
    /\ occurred \in [Events -> 0..MaxTime]
    /\ attempts \in [Events -> 0..MaxAttempts]
    /\ claimed \in [Workers -> SUBSET Events]
    /\ verdict \in [Workers -> [Events -> Verdicts]]
    /\ current \in [Workers -> Events \union {NoEvent}]
    /\ position \in [Workers -> Subscribers]
    /\ handled \in [Events -> SUBSET Subscribers]
    /\ dispatches \in [Events -> Nat]
    /\ lost \in 0..MaxLost

Init ==
    /\ now = 0
    /\ status = [e \in Events |-> "absent"]
    /\ occurred = [e \in Events |-> 0]
    /\ attempts = [e \in Events |-> 0]
    /\ claimed = [w \in Workers |-> {}]
    /\ verdict = [w \in Workers |-> [e \in Events |-> "todo"]]
    /\ current = [w \in Workers |-> NoEvent]
    /\ position = [w \in Workers |-> 1]
    /\ handled = [e \in Events |-> {}]
    /\ dispatches = [e \in Events |-> 0]
    /\ lost = 0

-----------------------------------------------------------------------------
(* The request that publishes.                                             *)

\* record_event: INSERT and flush in the caller's transaction, no commit.
RecordEvent(e) ==
    /\ status[e] = "absent"
    /\ now <= LastRecord
    /\ status' = [status EXCEPT ![e] = "open"]
    /\ occurred' = [occurred EXCEPT ![e] = now]
    /\ UNCHANGED <<now, attempts, sweepVars, historyVars, lost>>

\* The caller's transaction ends: mutation and event commit, or neither does.
EndMutation(e, outcome) ==
    /\ status[e] = "open"
    /\ status' = [status EXCEPT ![e] = outcome]
    /\ UNCHANGED <<now, occurred, attempts, sweepVars, historyVars, lost>>

Tick ==
    /\ now < MaxTime
    /\ now' = now + 1
    /\ UNCHANGED <<rowVars, sweepVars, historyVars, lost>>

-----------------------------------------------------------------------------
(* One sweep.                                                              *)

Locked == UNION {claimed[w] : w \in Workers}

\* Mutant: plain SELECT, without FOR UPDATE SKIP LOCKED.
ClaimableWithoutLock(e) ==
    /\ status[e] = "pending"
    /\ attempts[e] < MaxAttempts
    /\ occurred[e] + 2^attempts[e] <= now

\* Mutant: the claim forgets `processed_at IS NULL`.
ClaimableProcessed(e) ==
    /\ status[e] \in {"pending", "processed"}
    /\ attempts[e] < MaxAttempts
    /\ occurred[e] + 2^attempts[e] <= now
    /\ e \notin Locked

\* Mutant: the sweep reads rows whose transaction has not committed.
ClaimableUncommitted(e) ==
    /\ status[e] \in {"open", "pending"}
    /\ attempts[e] < MaxAttempts
    /\ occurred[e] + 2^attempts[e] <= now
    /\ e \notin Locked

\* The WHERE clause of the claim; SKIP LOCKED leaves out other sweeps' rows.
Claimable(e) ==
    /\ status[e] = "pending"
    /\ attempts[e] < MaxAttempts
    /\ occurred[e] + 2^attempts[e] <= now
    /\ e \notin Locked

\* ORDER BY occurred_at LIMIT :batch, with ties in any order.
OldestClaimable(batch) ==
    /\ \A e \in batch : Claimable(e)
    /\ Cardinality(batch) <= BatchSize
    /\ \A e \in Events \ batch :
          Claimable(e) => /\ Cardinality(batch) = BatchSize
                          /\ \A b \in batch : occurred[b] <= occurred[e]

Claim(w) ==
    /\ claimed[w] = {}
    /\ \E batch \in (SUBSET Events) \ {{}} :
          /\ OldestClaimable(batch)
          /\ claimed' = [claimed EXCEPT ![w] = batch]
    /\ UNCHANGED <<now, rowVars, verdict, current, position, historyVars, lost>>

Todo(w) == {e \in claimed[w] : verdict[w][e] = "todo"}

\* The loop takes the claimed rows in the order the claim returned them.
NextRow(w, e) ==
    /\ current[w] = NoEvent
    /\ e \in Todo(w)
    /\ \A f \in Todo(w) : occurred[e] <= occurred[f]

\* json.loads raises: attempt_count = OUTBOX_MAX_ATTEMPTS, no dispatch.
RejectPayload(w, e) ==
    /\ NextRow(w, e)
    /\ e \in Unparsable
    /\ verdict' = [verdict EXCEPT ![w][e] = "bad"]
    /\ UNCHANGED <<now, rowVars, claimed, current, position, historyVars, lost>>

\* dispatch_event raises RuntimeError before any handler runs.
RejectType(w, e) ==
    /\ NextRow(w, e)
    /\ e \in Unknown \ Unparsable
    /\ verdict' = [verdict EXCEPT ![w][e] = "fail"]
    /\ UNCHANGED <<now, rowVars, claimed, current, position, historyVars, lost>>

StartDispatch(w, e) ==
    /\ NextRow(w, e)
    /\ e \notin Unknown \union Unparsable
    /\ current' = [current EXCEPT ![w] = e]
    /\ position' = [position EXCEPT ![w] = 1]
    /\ dispatches' = [dispatches EXCEPT ![e] = @ + 1]
    /\ UNCHANGED <<now, rowVars, claimed, verdict, handled, lost>>

\* A handler returns; after the last one the row is marked processed.
HandlerReturns(w) ==
    /\ current[w] # NoEvent
    /\ handled' = [handled EXCEPT ![current[w]] = @ \union {position[w]}]
    /\ IF position[w] < NumSubscribers
         THEN /\ position' = [position EXCEPT ![w] = @ + 1]
              /\ UNCHANGED <<verdict, current>>
         ELSE /\ verdict' = [verdict EXCEPT ![w][current[w]] = "ok"]
              /\ current' = [current EXCEPT ![w] = NoEvent]
              /\ UNCHANGED position
    /\ UNCHANGED <<now, rowVars, claimed, dispatches, lost>>

\* Mutant: an exception of a handler is swallowed and the row counts as handled.
SwallowHandlerError(w) ==
    /\ current[w] # NoEvent
    /\ verdict' = [verdict EXCEPT ![w][current[w]] = "ok"]
    /\ current' = [current EXCEPT ![w] = NoEvent]
    /\ UNCHANGED <<now, rowVars, claimed, position, historyVars, lost>>

\* A handler raises: the ones after it are skipped and the row has failed once more.
HandlerRaises(w) ==
    /\ current[w] # NoEvent
    /\ verdict' = [verdict EXCEPT ![w][current[w]] = "fail"]
    /\ current' = [current EXCEPT ![w] = NoEvent]
    /\ UNCHANGED <<now, rowVars, claimed, position, historyVars, lost>>

\* The sweep's transaction ends and its row locks go with it.
EndSweep(w) ==
    /\ claimed' = [claimed EXCEPT ![w] = {}]
    /\ verdict' = [verdict EXCEPT ![w] = [e \in Events |-> "todo"]]
    /\ current' = [current EXCEPT ![w] = NoEvent]
    /\ UNCHANGED <<now, occurred, position, historyVars>>

Judged(w, v) == {e \in claimed[w] : verdict[w][e] = v}

\* Mutant: a failed row keeps its attempt_count.
CommitWithoutCount(w) ==
    /\ claimed[w] # {}
    /\ Todo(w) = {}
    /\ status' = [e \in Events |-> IF e \in Judged(w, "ok") THEN "processed" ELSE status[e]]
    /\ attempts' = [e \in Events |-> IF e \in Judged(w, "bad") THEN MaxAttempts
                                     ELSE attempts[e]]
    /\ EndSweep(w)
    /\ UNCHANGED lost

CommitSweep(w) ==
    /\ claimed[w] # {}
    /\ Todo(w) = {}
    /\ status' = [e \in Events |-> IF e \in Judged(w, "ok") THEN "processed" ELSE status[e]]
    /\ attempts' = [e \in Events |-> IF e \in Judged(w, "fail") THEN attempts[e] + 1
                                     ELSE IF e \in Judged(w, "bad") THEN MaxAttempts
                                     ELSE attempts[e]]
    /\ EndSweep(w)
    /\ UNCHANGED lost

\* The sweep has claimed its rows and done nothing about them yet.
Idle(w) == current[w] = NoEvent /\ Todo(w) = claimed[w]

\* The worker dies, job_timeout cancels the sweep, or a statement of its own
\* transaction fails: everything it wrote is rolled back, and no attempt is
\* counted.  Nothing in the code limits how often this happens to a row; the
\* bound is on sweeps that had begun with their rows, for these leave effects.
LoseSweep(w) ==
    /\ claimed[w] # {}
    /\ \/ Idle(w) /\ UNCHANGED lost
       \/ ~Idle(w) /\ lost < MaxLost /\ lost' = lost + 1
    /\ EndSweep(w)
    /\ UNCHANGED <<status, attempts>>

Publish ==
    \/ \E e \in Events : RecordEvent(e)
    \/ \E e \in Events, outcome \in {"pending", "aborted"} : EndMutation(e, outcome)

\* The steps of a sweep around its handlers.
HandleRows(w) ==
    \/ Claim(w)
    \/ \E e \in Events : RejectPayload(w, e) \/ RejectType(w, e) \/ StartDispatch(w, e)
    \/ CommitSweep(w)

SweepStep(w) == HandleRows(w) \/ HandlerReturns(w) \/ HandlerRaises(w)

Next ==
    \/ Publish
    \/ Tick
    \/ \E w \in Workers : SweepStep(w) \/ LoseSweep(w)

Spec == Init /\ [][Next]_vars

(* The clock advances, a request's transaction ends one way or the other   *)
(* (get_db closes the session), and cron starts a sweep every five seconds *)
(* whose next step comes unless it is lost.                                *)
Fairness ==
    /\ WF_vars(Tick)
    /\ \A e \in Events : WF_vars(EndMutation(e, "pending") \/ EndMutation(e, "aborted"))
    /\ \A w \in Workers : WF_vars(SweepStep(w))

FairSpec == Spec /\ Fairness

-----------------------------------------------------------------------------
(* Properties.                                                             *)

Dead(e) == status[e] = "pending" /\ attempts[e] = MaxAttempts
Settled(e) == status[e] = "processed" \/ Dead(e)

\* A row is marked processed only after every subscriber of its event has
\* returned normally for it, in one dispatch or over several: what
\* dispatch_event skipped on a failed attempt is made up before the mark.
ProcessedMeansHandled == \A e \in Events : status[e] = "processed" => handled[e] = Subscribers

\* The effects of a dispatch precede the commit that records it, so an event
\* may be dispatched again; but only after a counted failure or a lost sweep,
\* however the sweeps overlap.
DispatchesAccounted == \A e \in Events : dispatches[e] <= attempts[e] + lost + 1

\* No subscriber hears of a mutation that is not committed, or never will be.
OnlyCommittedHandled ==
    \A e \in Events : status[e] \in {"absent", "open", "aborted"} => dispatches[e] = 0

\* A row that is processed or dead-lettered is never dispatched, counted or
\* reopened again, not even by a sweep that was already running.
SettledUntouched ==
    \A e \in Events : Settled(e) => /\ status'[e] = status[e]
                                    /\ attempts'[e] = attempts[e]
                                    /\ dispatches'[e] = dispatches[e]
SettledIsFinal == [][SettledUntouched]_vars

\* From some time on no sweep is lost.  A premise: the code does not see to it,
\* for a lost sweep counts no attempt, and a batch that always outlasts
\* job_timeout is claimed again by every tick.
SweepsSurvive == <>[][\A w \in Workers : ~LoseSweep(w)]_vars

\* Every committed event is processed or dead-lettered in the end, once sweeps
\* are no longer lost: neither failing rows, nor unknown types, nor rows that
\* wait for another sweep's locks wedge the queue.
EventuallySettled ==
    SweepsSurvive => \A e \in Events : (status[e] = "pending") ~> Settled(e)

\* The outbox keeps the promise of EventDelivery.
Phase == [e \in Events |-> IF status[e] = "processed" THEN "done"
                            ELSE IF Dead(e) THEN "dead"
                            ELSE IF status[e] = "pending" THEN "pending"
                            ELSE "absent"]

Delivery == INSTANCE EventDelivery WITH phase <- Phase
DeliverySpec == Delivery!Spec
=============================================================================
