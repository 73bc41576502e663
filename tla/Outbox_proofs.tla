--------------------------- MODULE Outbox_proofs ---------------------------
(***************************************************************************)
(* Theorems about Outbox, for any events, sweeps, subscribers and bounds.  *)
(* The argument: a claimed row is locked by one sweep and stays pending,   *)
(* so only that sweep can judge it; the verdict it will commit agrees with *)
(* what the subscribers have done.                                         *)
(***************************************************************************)
EXTENDS Outbox, TLAPS

\* A row is claimed by one sweep at most, and is pending with attempts left.
ClaimsInv ==
    /\ \A w, v \in Workers : w # v => claimed[w] \cap claimed[v] = {}
    /\ \A w \in Workers : \A e \in claimed[w] : status[e] = "pending" /\ attempts[e] < MaxAttempts

\* A sweep writes on the rows it claimed only, and dispatches one it has not judged.
SweepInv ==
    \A w \in Workers :
       /\ \A e \in Events \ claimed[w] : verdict[w][e] = "todo"
       /\ current[w] # NoEvent => /\ current[w] \in claimed[w]
                                  /\ verdict[w][current[w]] = "todo"

\* The subscribers before the current one have handled the row, and all of
\* them have handled a row that is judged ok or processed.
HandledInv ==
    /\ \A w \in Workers : current[w] # NoEvent => 1..(position[w] - 1) \subseteq handled[current[w]]
    /\ \A w \in Workers, e \in Events : verdict[w][e] = "ok" => handled[e] = Subscribers
    /\ \A e \in Events : status[e] = "processed" => handled[e] = Subscribers

\* A dispatch of e whose outcome is not in attempts[e] yet.
Uncounted(e) ==
    \/ status[e] = "processed"
    \/ \E w \in Workers : current[w] = e \/ verdict[w][e] \in {"ok", "fail"}

\* Every dispatch was counted as a failure, lost with its sweep, or is
\* uncounted, and a row that is not committed has seen none.
DispatchInv ==
    \A e \in Events :
       /\ dispatches[e] <= attempts[e] + lost + (IF Uncounted(e) THEN 1 ELSE 0)
       /\ status[e] \in {"absent", "open", "aborted"} => dispatches[e] = 0 /\ attempts[e] = 0

IInv == TypeOK /\ ClaimsInv /\ SweepInv /\ HandledInv /\ DispatchInv

-----------------------------------------------------------------------------
(* Types.                                                                  *)

\* The initial state is well typed.
LEMMA InitTypeOK == Init => TypeOK
  BY OutboxAssumption DEF OutboxAssumption, Init, TypeOK, Statuses, Verdicts, Subscribers

\* Writing a verdict on a row keeps the type of the verdicts.
LEMMA JudgeType ==
    ASSUME NEW w \in Workers, NEW e \in Events, NEW v \in Verdicts,
           verdict \in [Workers -> [Events -> Verdicts]]
    PROVE  [verdict EXCEPT ![w][e] = v] \in [Workers -> [Events -> Verdicts]]
  OBVIOUS

\* Every step keeps the types.
LEMMA NextTypeOK == TypeOK /\ ClaimsInv /\ [Next]_vars => TypeOK'
<1> SUFFICES ASSUME TypeOK, ClaimsInv, [Next]_vars PROVE TypeOK'
  OBVIOUS
<1> USE OutboxAssumption DEF OutboxAssumption, TypeOK, Statuses, Verdicts, Subscribers, rowVars, sweepVars, historyVars
<1>1. ASSUME NEW e \in Events, RecordEvent(e) PROVE TypeOK'
  BY <1>1 DEF RecordEvent
<1>2. ASSUME NEW e \in Events, NEW outcome \in {"pending", "aborted"}, EndMutation(e, outcome)
      PROVE TypeOK'
  BY <1>2 DEF EndMutation
<1>3. CASE Tick
  BY <1>3 DEF Tick
<1>4. ASSUME NEW w \in Workers, Claim(w) PROVE TypeOK'
  BY <1>4 DEF Claim
<1>5. ASSUME NEW w \in Workers, NEW e \in Events, RejectPayload(w, e) PROVE TypeOK'
  BY <1>5 DEF RejectPayload
<1>6. ASSUME NEW w \in Workers, NEW e \in Events, RejectType(w, e) PROVE TypeOK'
  BY <1>6 DEF RejectType
<1>7. ASSUME NEW w \in Workers, NEW e \in Events, StartDispatch(w, e) PROVE TypeOK'
  BY <1>7 DEF StartDispatch
<1>8. ASSUME NEW w \in Workers, HandlerReturns(w) PROVE TypeOK'
  <2>1. current[w] \in Events /\ position[w] \in Subscribers
    BY <1>8 DEF HandlerReturns
  <2>2. handled' \in [Events -> SUBSET Subscribers]
    BY <1>8, <2>1 DEF HandlerReturns
  <2>3. CASE position[w] < NumSubscribers
    <3>1. position' \in [Workers -> Subscribers]
      BY <1>8, <2>1, <2>3 DEF HandlerReturns
    <3>2. QED
      BY <1>8, <2>2, <2>3, <3>1 DEF HandlerReturns
  <2>4. CASE ~(position[w] < NumSubscribers)
    <3>1. verdict' \in [Workers -> [Events -> Verdicts]]
      <4>1. verdict' = [verdict EXCEPT ![w][current[w]] = "ok"]
        BY <1>8, <2>4 DEF HandlerReturns
      <4>2. QED
        BY <4>1, <2>1, JudgeType
    <3>2. current' \in [Workers -> Events \union {NoEvent}]
      BY <1>8, <2>1, <2>4 DEF HandlerReturns
    <3>3. UNCHANGED <<now, rowVars, claimed, position, dispatches, lost>>
      BY <1>8, <2>4 DEF HandlerReturns
    <3>4. QED
      BY <2>2, <3>1, <3>2, <3>3
  <2>5. QED
    BY <2>3, <2>4
<1>9. ASSUME NEW w \in Workers, HandlerRaises(w) PROVE TypeOK'
  BY <1>9 DEF HandlerRaises
<1>10. ASSUME NEW w \in Workers, CommitSweep(w) PROVE TypeOK'
  BY <1>10 DEF CommitSweep, EndSweep, Judged, ClaimsInv
<1>11. ASSUME NEW w \in Workers, LoseSweep(w) PROVE TypeOK'
  BY <1>11 DEF LoseSweep, EndSweep
<1>12. CASE UNCHANGED vars
  BY <1>12 DEF vars
<1>13. QED
  BY <1>1, <1>2, <1>3, <1>4, <1>5, <1>6, <1>7, <1>8, <1>9, <1>10, <1>11, <1>12 DEF Next, Publish, SweepStep, HandleRows

-----------------------------------------------------------------------------
(* The inductive invariant.                                                *)

\* The initial state satisfies the inductive invariant.
LEMMA InitIInv == Init => IInv
<1> SUFFICES ASSUME Init PROVE IInv
  OBVIOUS
<1>1. TypeOK
  BY InitTypeOK
<1>2. ClaimsInv /\ SweepInv
  BY DEF Init, ClaimsInv, SweepInv
<1>3. HandledInv /\ DispatchInv
  BY DEF Init, HandledInv, DispatchInv
<1>4. QED
  BY <1>1, <1>2, <1>3 DEF IInv

\* Sweeps never hold the same row, and hold pending rows only.
LEMMA NextClaimsInv == IInv /\ [Next]_vars => ClaimsInv'
<1> SUFFICES ASSUME IInv, [Next]_vars PROVE ClaimsInv'
  OBVIOUS
<1> USE DEF IInv, TypeOK, ClaimsInv, rowVars, sweepVars, historyVars
<1>1. ASSUME NEW e \in Events, RecordEvent(e) PROVE ClaimsInv'
  BY <1>1 DEF RecordEvent
<1>2. ASSUME NEW e \in Events, NEW outcome \in {"pending", "aborted"}, EndMutation(e, outcome) PROVE ClaimsInv'
  BY <1>2 DEF EndMutation
<1>3. CASE Tick
  BY <1>3 DEF Tick
<1>4. ASSUME NEW w \in Workers, Claim(w) PROVE ClaimsInv'
  BY <1>4 DEF Claim, OldestClaimable, Claimable, Locked
<1>5. ASSUME NEW w \in Workers, NEW e \in Events, RejectPayload(w, e) PROVE ClaimsInv'
  BY <1>5 DEF RejectPayload, NextRow, Todo
<1>6. ASSUME NEW w \in Workers, NEW e \in Events, RejectType(w, e) PROVE ClaimsInv'
  BY <1>6 DEF RejectType, NextRow, Todo
<1>7. ASSUME NEW w \in Workers, NEW e \in Events, StartDispatch(w, e) PROVE ClaimsInv'
  BY <1>7 DEF StartDispatch, NextRow, Todo
<1>8. ASSUME NEW w \in Workers, HandlerReturns(w) PROVE ClaimsInv'
  BY <1>8 DEF HandlerReturns
<1>9. ASSUME NEW w \in Workers, HandlerRaises(w) PROVE ClaimsInv'
  BY <1>9 DEF HandlerRaises
<1>10. ASSUME NEW w \in Workers, CommitSweep(w) PROVE ClaimsInv'
  BY <1>10 DEF CommitSweep, EndSweep, Judged, Todo
<1>11. ASSUME NEW w \in Workers, LoseSweep(w) PROVE ClaimsInv'
  BY <1>11 DEF LoseSweep, EndSweep
<1>12. CASE UNCHANGED vars
  BY <1>12 DEF vars
<1>13. QED
  BY <1>1, <1>2, <1>3, <1>4, <1>5, <1>6, <1>7, <1>8, <1>9, <1>10, <1>11, <1>12 DEF Next, Publish, SweepStep, HandleRows

\* What a sweep has written concerns the rows it holds.
LEMMA NextSweepInv == IInv /\ [Next]_vars => SweepInv'
<1> SUFFICES ASSUME IInv, [Next]_vars PROVE SweepInv'
  OBVIOUS
<1> USE DEF IInv, TypeOK, SweepInv, rowVars, sweepVars, historyVars
<1>1. ASSUME NEW e \in Events, RecordEvent(e) PROVE SweepInv'
  BY <1>1 DEF RecordEvent
<1>2. ASSUME NEW e \in Events, NEW outcome \in {"pending", "aborted"}, EndMutation(e, outcome) PROVE SweepInv'
  BY <1>2 DEF EndMutation
<1>3. CASE Tick
  BY <1>3 DEF Tick
<1>4. ASSUME NEW w \in Workers, Claim(w) PROVE SweepInv'
  BY <1>4 DEF Claim, OldestClaimable, Claimable, Locked
<1>5. ASSUME NEW w \in Workers, NEW e \in Events, RejectPayload(w, e) PROVE SweepInv'
  BY <1>5 DEF RejectPayload, NextRow, Todo
<1>6. ASSUME NEW w \in Workers, NEW e \in Events, RejectType(w, e) PROVE SweepInv'
  BY <1>6 DEF RejectType, NextRow, Todo
<1>7. ASSUME NEW w \in Workers, NEW e \in Events, StartDispatch(w, e) PROVE SweepInv'
  BY <1>7 DEF StartDispatch, NextRow, Todo
<1>8. ASSUME NEW w \in Workers, HandlerReturns(w) PROVE SweepInv'
  BY <1>8 DEF HandlerReturns
<1>9. ASSUME NEW w \in Workers, HandlerRaises(w) PROVE SweepInv'
  BY <1>9 DEF HandlerRaises
<1>10. ASSUME NEW w \in Workers, CommitSweep(w) PROVE SweepInv'
  BY <1>10 DEF CommitSweep, EndSweep, Judged, Todo
<1>11. ASSUME NEW w \in Workers, LoseSweep(w) PROVE SweepInv'
  BY <1>11 DEF LoseSweep, EndSweep
<1>12. CASE UNCHANGED vars
  BY <1>12 DEF vars
<1>13. QED
  BY <1>1, <1>2, <1>3, <1>4, <1>5, <1>6, <1>7, <1>8, <1>9, <1>10, <1>11, <1>12 DEF Next, Publish, SweepStep, HandleRows

\* The subscribers a sweep counts as done have handled the event.
LEMMA NextHandledInv == IInv /\ [Next]_vars => HandledInv'
<1> SUFFICES ASSUME IInv, [Next]_vars PROVE HandledInv'
  OBVIOUS
<1> USE OutboxAssumption DEF OutboxAssumption, IInv, TypeOK, HandledInv, Subscribers, rowVars, sweepVars, historyVars
<1>1. ASSUME NEW e \in Events, RecordEvent(e) PROVE HandledInv'
  BY <1>1 DEF RecordEvent
<1>2. ASSUME NEW e \in Events, NEW outcome \in {"pending", "aborted"}, EndMutation(e, outcome) PROVE HandledInv'
  BY <1>2 DEF EndMutation
<1>3. CASE Tick
  BY <1>3 DEF Tick
<1>4. ASSUME NEW w \in Workers, Claim(w) PROVE HandledInv'
  BY <1>4 DEF Claim
<1>5. ASSUME NEW w \in Workers, NEW e \in Events, RejectPayload(w, e) PROVE HandledInv'
  BY <1>5 DEF RejectPayload, NextRow, Todo
<1>6. ASSUME NEW w \in Workers, NEW e \in Events, RejectType(w, e) PROVE HandledInv'
  BY <1>6 DEF RejectType, NextRow, Todo
<1>7. ASSUME NEW w \in Workers, NEW e \in Events, StartDispatch(w, e) PROVE HandledInv'
  BY <1>7 DEF StartDispatch, NextRow, Todo
<1>8. ASSUME NEW w \in Workers, HandlerReturns(w) PROVE HandledInv'
  <2>1. current[w] \in Events /\ position[w] \in Subscribers
    BY <1>8 DEF HandlerReturns
  <2>2. handled' = [handled EXCEPT ![current[w]] = @ \union {position[w]}]
    BY <1>8 DEF HandlerReturns
  <2>3. 1..position[w] \subseteq handled'[current[w]] /\ handled'[current[w]] \subseteq Subscribers
    BY <1>8, <2>1, <2>2 DEF HandlerReturns
  <2>4. \A e \in Events : handled[e] \subseteq handled'[e] /\ handled'[e] \subseteq Subscribers
    BY <2>1, <2>2
  <2>5. UNCHANGED status
    BY <1>8 DEF HandlerReturns
  <2>6. \A e \in Events : handled[e] = Subscribers => handled'[e] = Subscribers
    BY <2>4
  <2>7. CASE position[w] < NumSubscribers
    <3>1. UNCHANGED <<current, verdict>> /\ position' = [position EXCEPT ![w] = @ + 1]
      BY <1>8, <2>7 DEF HandlerReturns
    <3>2. ASSUME NEW v \in Workers, current'[v] # NoEvent
          PROVE  1..(position'[v] - 1) \subseteq handled'[current'[v]]
      <4>1. CASE v = w
        BY <2>1, <2>3, <3>1, <4>1
      <4>2. CASE v # w
        BY <2>4, <3>1, <3>2, <4>2
      <4>3. QED
        BY <4>1, <4>2
    <3>3. QED
      BY <2>5, <2>6, <3>1, <3>2
  <2>8. CASE ~(position[w] < NumSubscribers)
    <3>1. handled'[current[w]] = Subscribers
      <4>1. position[w] = NumSubscribers
        BY <2>1, <2>8
      <4>2. QED
        BY <2>3, <4>1
    <3>2. /\ verdict' = [verdict EXCEPT ![w][current[w]] = "ok"]
          /\ current' = [current EXCEPT ![w] = NoEvent]
          /\ UNCHANGED position
      BY <1>8, <2>8 DEF HandlerReturns
    <3>3. ASSUME NEW v \in Workers, current'[v] # NoEvent
          PROVE  1..(position'[v] - 1) \subseteq handled'[current'[v]]
      <4>1. v # w
        BY <3>2, <3>3
      <4>2. current'[v] = current[v] /\ position'[v] = position[v]
        BY <3>2, <4>1
      <4>3. current[v] \in Events /\ 1..(position[v] - 1) \subseteq handled[current[v]]
        BY <3>3, <4>2
      <4>4. QED
        BY <2>4, <4>2, <4>3
    <3>4. ASSUME NEW v \in Workers, NEW e \in Events, verdict'[v][e] = "ok"
          PROVE  handled'[e] = Subscribers
      <4>1. e = current[w] \/ verdict[v][e] = "ok"
        BY <2>1, <3>2, <3>4
      <4>2. QED
        BY <2>6, <3>1, <4>1
    <3>5. QED
      BY <2>5, <2>6, <3>3, <3>4
  <2>9. QED
    BY <2>7, <2>8
<1>9. ASSUME NEW w \in Workers, HandlerRaises(w) PROVE HandledInv'
  BY <1>9 DEF HandlerRaises
<1>10. ASSUME NEW w \in Workers, CommitSweep(w) PROVE HandledInv'
  BY <1>10 DEF CommitSweep, EndSweep, Judged, Todo
<1>11. ASSUME NEW w \in Workers, LoseSweep(w) PROVE HandledInv'
  BY <1>11 DEF LoseSweep, EndSweep
<1>12. CASE UNCHANGED vars
  BY <1>12 DEF vars
<1>13. QED
  BY <1>1, <1>2, <1>3, <1>4, <1>5, <1>6, <1>7, <1>8, <1>9, <1>10, <1>11, <1>12 DEF Next, Publish, SweepStep, HandleRows

\* Every dispatch is accounted for.
LEMMA NextDispatchInv == IInv /\ [Next]_vars => DispatchInv'
<1> SUFFICES ASSUME IInv, [Next]_vars PROVE DispatchInv'
  OBVIOUS
<1> DEFINE Balanced(e) == dispatches[e] <= attempts[e] + lost + (IF Uncounted(e) THEN 1 ELSE 0)
<1> USE DEF IInv, TypeOK, DispatchInv, rowVars, sweepVars, historyVars
<1>1. ASSUME NEW e \in Events, RecordEvent(e) PROVE DispatchInv'
  BY <1>1 DEF RecordEvent, Uncounted
<1>2. ASSUME NEW e \in Events, NEW outcome \in {"pending", "aborted"}, EndMutation(e, outcome) PROVE DispatchInv'
  BY <1>2 DEF EndMutation, Uncounted
<1>3. CASE Tick
  BY <1>3 DEF Tick, Uncounted
<1>4. ASSUME NEW w \in Workers, Claim(w) PROVE DispatchInv'
  BY <1>4 DEF Claim, Uncounted
<1>5. ASSUME NEW w \in Workers, NEW e \in Events, RejectPayload(w, e) PROVE DispatchInv'
  BY <1>5 DEF RejectPayload, NextRow, Todo, Uncounted
<1>6. ASSUME NEW w \in Workers, NEW e \in Events, RejectType(w, e) PROVE DispatchInv'
  BY <1>6 DEF RejectType, NextRow, Todo, Uncounted
<1>7. ASSUME NEW w \in Workers, NEW e \in Events, StartDispatch(w, e) PROVE DispatchInv'
  <2>1. e \in claimed[w] /\ verdict[w][e] = "todo" /\ current[w] = NoEvent /\ status[e] = "pending"
    BY <1>7 DEF StartDispatch, NextRow, Todo, ClaimsInv
  <2>2. ~Uncounted(e)
    BY <2>1, OutboxAssumption DEF Uncounted, ClaimsInv, SweepInv, OutboxAssumption
  <2>3. \A f \in Events : Uncounted(f) => Uncounted(f)'
    BY <1>7, <2>1, OutboxAssumption DEF StartDispatch, Uncounted, OutboxAssumption
  <2>4. Uncounted(e)'
    BY <1>7 DEF StartDispatch, Uncounted
  <2>5. /\ dispatches'[e] = dispatches[e] + 1
        /\ \A f \in Events \ {e} : dispatches'[f] = dispatches[f]
        /\ UNCHANGED <<attempts, lost, status>>
    BY <1>7 DEF StartDispatch
  <2>6. QED
    BY <2>1, <2>2, <2>3, <2>4, <2>5
<1>8. ASSUME NEW w \in Workers, HandlerReturns(w) PROVE DispatchInv'
  <2>1. \A f \in Events : Uncounted(f) => Uncounted(f)'
    BY <1>8 DEF HandlerReturns, Uncounted
  <2>2. UNCHANGED <<dispatches, attempts, lost, status>>
    BY <1>8 DEF HandlerReturns
  <2>3. QED
    BY <2>1, <2>2
<1>9. ASSUME NEW w \in Workers, HandlerRaises(w) PROVE DispatchInv'
  <2>1. \A f \in Events : Uncounted(f) => Uncounted(f)'
    BY <1>9 DEF HandlerRaises, Uncounted
  <2>2. UNCHANGED <<dispatches, attempts, lost, status>>
    BY <1>9 DEF HandlerRaises
  <2>3. QED
    BY <2>1, <2>2
<1>10. ASSUME NEW w \in Workers, CommitSweep(w) PROVE DispatchInv'
  <2> SUFFICES ASSUME NEW f \in Events
               PROVE  /\ Balanced(f)'
                      /\ status'[f] \in {"absent", "open", "aborted"} => dispatches'[f] = 0 /\ attempts'[f] = 0
    BY DEF Balanced
  <2>1. UNCHANGED <<dispatches, lost>>
    BY <1>10 DEF CommitSweep, EndSweep
  <2>2. CASE f \notin claimed[w]
    <3>1. attempts'[f] = attempts[f] /\ status'[f] = status[f]
      BY <1>10, <2>2 DEF CommitSweep, Judged
    <3>2. Uncounted(f) => Uncounted(f)'
      BY <1>10, <2>2, <3>1, OutboxAssumption
         DEF CommitSweep, EndSweep, Uncounted, SweepInv, OutboxAssumption
    <3>3. QED
      BY <2>1, <3>1, <3>2
  <2>3. CASE f \in Judged(w, "ok")
    <3>1. status'[f] = "processed" /\ attempts'[f] = attempts[f]
      BY <1>10, <2>3 DEF CommitSweep, Judged
    <3>2. QED
      BY <2>1, <3>1 DEF Uncounted
  <2>4. CASE f \in Judged(w, "fail")
    <3>1. attempts'[f] = attempts[f] + 1 /\ status'[f] = "pending"
      BY <1>10, <2>4 DEF CommitSweep, Judged, ClaimsInv
    <3>2. QED
      BY <2>1, <3>1
  <2>5. CASE f \in Judged(w, "bad")
    <3>1. attempts'[f] = MaxAttempts /\ attempts[f] < MaxAttempts /\ status'[f] = "pending"
      BY <1>10, <2>5 DEF CommitSweep, Judged, ClaimsInv
    <3>2. ~Uncounted(f)
      BY <2>5, OutboxAssumption
         DEF Uncounted, Judged, ClaimsInv, SweepInv, OutboxAssumption
    <3>3. QED
      BY <2>1, <3>1, <3>2, OutboxAssumption DEF OutboxAssumption
  <2>6. f \in claimed[w] => f \in Judged(w, "ok") \union Judged(w, "fail") \union Judged(w, "bad")
    BY <1>10 DEF CommitSweep, Todo, Judged, Verdicts
  <2>7. QED
    BY <2>2, <2>3, <2>4, <2>5, <2>6
<1>11. ASSUME NEW w \in Workers, LoseSweep(w) PROVE DispatchInv'
  <2>1. UNCHANGED <<dispatches, attempts, status>>
    BY <1>11 DEF LoseSweep, EndSweep
  <2>2. CASE Idle(w) /\ UNCHANGED lost
    <3>1. \A f \in Events : Uncounted(f) => Uncounted(f)'
      BY <1>11, <2>2, OutboxAssumption
         DEF LoseSweep, EndSweep, Idle, Todo, Uncounted, SweepInv, OutboxAssumption
    <3>2. QED
      BY <2>1, <2>2, <3>1
  <2>3. CASE lost' = lost + 1
    BY <2>1, <2>3, OutboxAssumption DEF OutboxAssumption
  <2>4. QED
    BY <1>11, <2>2, <2>3 DEF LoseSweep
<1>12. CASE UNCHANGED vars
  BY <1>12 DEF vars, Uncounted
<1> HIDE DEF IInv, TypeOK, DispatchInv, rowVars, sweepVars, historyVars
<1>13. QED
  BY <1>1, <1>2, <1>3, <1>4, <1>5, <1>6, <1>7, <1>8, <1>9, <1>10, <1>11, <1>12 DEF Next, Publish, SweepStep, HandleRows

\* The inductive invariant holds in every behaviour.
LEMMA SpecIInv == Spec => []IInv
<1>1. IInv /\ [Next]_vars => IInv'
  BY NextTypeOK, NextClaimsInv, NextSweepInv, NextHandledInv, NextDispatchInv DEF IInv
<1>2. QED
  BY InitIInv, <1>1, PTL DEF Spec

-----------------------------------------------------------------------------
(* The theorems.                                                           *)

\* Every state of every behaviour is well typed: attempt_count stays within
\* OUTBOX_MAX_ATTEMPTS whatever sweeps overlap, fail or are lost.
THEOREM TypeCorrect == Spec => []TypeOK
<1>1. IInv => TypeOK
  BY DEF IInv
<1>2. QED
  BY SpecIInv, <1>1, PTL

\* A processed row has been handled by every subscriber (drain_outbox and
\* dispatch_event).
THEOREM ProcessedRowsAreHandled == Spec => []ProcessedMeansHandled
<1>1. IInv => ProcessedMeansHandled
  BY DEF IInv, HandledInv, ProcessedMeansHandled
<1>2. QED
  BY SpecIInv, <1>1, PTL

\* An event is dispatched once, plus once per counted failure and lost sweep:
\* SKIP LOCKED and the row locks exclude any other repetition.
THEOREM DispatchesAreAccounted == Spec => []DispatchesAccounted
<1>1. IInv => DispatchesAccounted
  BY OutboxAssumption DEF OutboxAssumption, IInv, TypeOK, DispatchInv, DispatchesAccounted
<1>2. QED
  BY SpecIInv, <1>1, PTL

\* Subscribers hear of committed mutations only (record_event writes in the
\* caller's transaction).
THEOREM OnlyCommittedIsHandled == Spec => []OnlyCommittedHandled
<1>1. IInv => OnlyCommittedHandled
  BY DEF IInv, DispatchInv, OnlyCommittedHandled
<1>2. QED
  BY SpecIInv, <1>1, PTL

\* No step touches a row that is processed or dead-lettered.
LEMMA NextSettled ==
    ASSUME IInv, [Next]_vars, NEW f \in Events, Settled(f)
    PROVE  status'[f] = status[f] /\ attempts'[f] = attempts[f] /\ dispatches'[f] = dispatches[f]
<1> DEFINE Final == status'[f] = status[f] /\ attempts'[f] = attempts[f] /\ dispatches'[f] = dispatches[f]
<1> USE OutboxAssumption DEF OutboxAssumption, IInv, TypeOK, Settled, Dead, rowVars, sweepVars, historyVars
<1>1. ASSUME NEW e \in Events, RecordEvent(e) PROVE Final
  BY <1>1 DEF RecordEvent
<1>2. ASSUME NEW e \in Events, NEW outcome \in {"pending", "aborted"}, EndMutation(e, outcome) PROVE Final
  BY <1>2 DEF EndMutation
<1>3. CASE Tick
  BY <1>3 DEF Tick
<1>4. ASSUME NEW w \in Workers, Claim(w) PROVE Final
  BY <1>4 DEF Claim
<1>5. ASSUME NEW w \in Workers, NEW e \in Events, RejectPayload(w, e) PROVE Final
  BY <1>5 DEF RejectPayload
<1>6. ASSUME NEW w \in Workers, NEW e \in Events, RejectType(w, e) PROVE Final
  BY <1>6 DEF RejectType
<1>7. ASSUME NEW w \in Workers, NEW e \in Events, StartDispatch(w, e) PROVE Final
  BY <1>7 DEF StartDispatch, NextRow, Todo, ClaimsInv
<1>8. ASSUME NEW w \in Workers, HandlerReturns(w) PROVE Final
  BY <1>8 DEF HandlerReturns
<1>9. ASSUME NEW w \in Workers, HandlerRaises(w) PROVE Final
  BY <1>9 DEF HandlerRaises
<1>10. ASSUME NEW w \in Workers, CommitSweep(w) PROVE Final
  BY <1>10 DEF CommitSweep, EndSweep, Judged, ClaimsInv
<1>11. ASSUME NEW w \in Workers, LoseSweep(w) PROVE Final
  BY <1>11 DEF LoseSweep, EndSweep
<1>12. CASE UNCHANGED vars
  BY <1>12 DEF vars
<1>13. QED
  BY <1>1, <1>2, <1>3, <1>4, <1>5, <1>6, <1>7, <1>8, <1>9, <1>10, <1>11, <1>12 DEF Next, Publish, SweepStep, HandleRows

\* A verdict is final: no sweep dispatches, counts or reopens a settled row.
THEOREM SettledRowsAreFinal == Spec => SettledIsFinal
<1>1. IInv /\ [Next]_vars => [SettledUntouched]_vars
  BY NextSettled DEF SettledUntouched
<1>2. QED
  BY SpecIInv, <1>1, PTL DEF Spec, SettledIsFinal

-----------------------------------------------------------------------------
(* The refinement of EventDelivery.                                        *)

\* The outbox starts where the abstract delivery does.
LEMMA InitRefines == Init => Delivery!Init
  BY DEF Init, Delivery!Init, Phase, Dead

\* Every step of the outbox is a step of the abstract delivery or leaves it alone.
LEMMA NextRefines == IInv /\ IInv' /\ [Next]_vars => [Delivery!Next]_Delivery!vars
<1> SUFFICES ASSUME IInv, IInv', [Next]_vars PROVE [Delivery!Next]_Delivery!vars
  OBVIOUS
<1> USE OutboxAssumption DEF OutboxAssumption, IInv, TypeOK, Phase, Dead, Delivery!vars, rowVars, sweepVars, historyVars
<1>1. ASSUME NEW e \in Events, RecordEvent(e) PROVE [Delivery!Next]_Delivery!vars
  BY <1>1 DEF RecordEvent
<1>2. ASSUME NEW e \in Events, NEW outcome \in {"pending", "aborted"}, EndMutation(e, outcome) PROVE [Delivery!Next]_Delivery!vars
  <2>1. CASE outcome = "pending"
    <3>1. status' = [status EXCEPT ![e] = "pending"] /\ UNCHANGED <<attempts, handled>>
      BY <1>2, <2>1 DEF EndMutation
    <3>2. attempts[e] = 0 /\ status[e] = "open"
      BY <1>2 DEF EndMutation, DispatchInv
    <3>3. Phase[e] = "absent" /\ Phase' = [Phase EXCEPT ![e] = "pending"]
      BY <3>1, <3>2
    <3>4. Delivery!Publish(e)
      BY <3>1, <3>3 DEF Delivery!Publish
    <3>5. QED
      BY <3>4 DEF Delivery!Next
  <2>2. CASE outcome = "aborted"
    BY <1>2, <2>2 DEF EndMutation
  <2>3. QED
    BY <2>1, <2>2
<1>3. CASE Tick
  BY <1>3 DEF Tick
<1>4. ASSUME NEW w \in Workers, Claim(w) PROVE [Delivery!Next]_Delivery!vars
  BY <1>4 DEF Claim
<1>5. ASSUME NEW w \in Workers, NEW e \in Events, RejectPayload(w, e) PROVE [Delivery!Next]_Delivery!vars
  BY <1>5 DEF RejectPayload
<1>6. ASSUME NEW w \in Workers, NEW e \in Events, RejectType(w, e) PROVE [Delivery!Next]_Delivery!vars
  BY <1>6 DEF RejectType
<1>7. ASSUME NEW w \in Workers, NEW e \in Events, StartDispatch(w, e) PROVE [Delivery!Next]_Delivery!vars
  BY <1>7 DEF StartDispatch
<1>8. ASSUME NEW w \in Workers, HandlerReturns(w) PROVE [Delivery!Next]_Delivery!vars
  <2>1. current[w] \in Events /\ current[w] \in claimed[w] /\ position[w] \in Subscribers
    BY <1>8 DEF HandlerReturns, SweepInv
  <2>2. Phase[current[w]] = "pending"
    BY <2>1 DEF ClaimsInv
  <2>3. UNCHANGED <<status, attempts>> /\ handled' = [handled EXCEPT ![current[w]] = @ \union {position[w]}]
    BY <1>8 DEF HandlerReturns
  <2>4. Delivery!Handle(current[w], position[w])
    BY <2>2, <2>3 DEF Delivery!Handle
  <2>5. QED
    BY <2>1, <2>4 DEF Delivery!Next
<1>9. ASSUME NEW w \in Workers, HandlerRaises(w) PROVE [Delivery!Next]_Delivery!vars
  BY <1>9 DEF HandlerRaises
<1>10. ASSUME NEW w \in Workers, CommitSweep(w) PROVE [Delivery!Next]_Delivery!vars
  <2> DEFINE finished == Judged(w, "ok")
             dropped == {e \in Events : Phase[e] = "pending" /\ Phase'[e] = "dead"}
  <2>1. finished \in SUBSET Events /\ dropped \in SUBSET Events
    BY DEF Judged
  <2>2. \A e \in finished : Phase[e] = "pending" /\ Subscribers \subseteq handled[e]
    BY DEF Judged, ClaimsInv, HandledInv
  <2>3. UNCHANGED handled
    BY <1>10 DEF CommitSweep, EndSweep
  <2>4. \A e \in Events : Phase'[e] = IF e \in finished THEN "done"
                                      ELSE IF e \in dropped THEN "dead" ELSE Phase[e]
    BY <1>10 DEF CommitSweep, Judged, ClaimsInv
  <2>5. Phase' = [e \in Events |-> IF e \in finished THEN "done"
                                   ELSE IF e \in dropped THEN "dead" ELSE Phase[e]]
    BY <2>4
  <2>6. \A e \in dropped : Phase[e] = "pending"
    OBVIOUS
  <2> HIDE DEF Phase, finished, dropped
  <2>7. Delivery!Settle(finished, dropped)
    BY <2>2, <2>3, <2>5, <2>6 DEF Delivery!Settle
  <2>8. QED
    BY <2>1, <2>7 DEF Delivery!Next
<1>11. ASSUME NEW w \in Workers, LoseSweep(w) PROVE [Delivery!Next]_Delivery!vars
  BY <1>11 DEF LoseSweep, EndSweep
<1>12. CASE UNCHANGED vars
  BY <1>12 DEF vars
<1>13. QED
  BY <1>1, <1>2, <1>3, <1>4, <1>5, <1>6, <1>7, <1>8, <1>9, <1>10, <1>11, <1>12 DEF Next, Publish, SweepStep, HandleRows

\* The outbox implements EventDelivery: at-least-once for every subscriber of
\* a processed event, and no verdict before its time.
THEOREM OutboxRefinesDelivery == Spec => DeliverySpec
<1>1. QED
  BY InitRefines, NextRefines, SpecIInv, PTL DEF Spec, DeliverySpec, Delivery!Spec
=============================================================================
