---------------------------- MODULE EventDelivery ----------------------------
(***************************************************************************)
(* What the transactional outbox promises (ADR-007, the OutboxEvent class  *)
(* of models.py): an event that its transaction published is either        *)
(* settled, and then every subscriber has handled it at least once, or it  *)
(* is given up and stays visible as a dead letter.  Nothing is handled     *)
(* that was not published, and a verdict is final.                         *)
(***************************************************************************)
EXTENDS Naturals

CONSTANTS Events, Subscribers

VARIABLES phase,    \* where an event stands: absent, pending, done or dead
          handled   \* the subscribers that handled the event at least once

vars == <<phase, handled>>

Init == /\ phase = [e \in Events |-> "absent"]
        /\ handled = [e \in Events |-> {}]

Publish(e) == /\ phase[e] = "absent"
              /\ phase' = [phase EXCEPT ![e] = "pending"]
              /\ UNCHANGED handled

Handle(e, s) == /\ phase[e] = "pending"
                /\ handled' = [handled EXCEPT ![e] = @ \union {s}]
                /\ UNCHANGED phase

\* One sweep settles the events of `finished` and gives up those of `dropped`.
Settle(finished, dropped) ==
    /\ \A e \in finished : phase[e] = "pending" /\ Subscribers \subseteq handled[e]
    /\ \A e \in dropped : phase[e] = "pending"
    /\ phase' = [e \in Events |-> IF e \in finished THEN "done"
                                  ELSE IF e \in dropped THEN "dead"
                                  ELSE phase[e]]
    /\ UNCHANGED handled

Next == \/ \E e \in Events : Publish(e)
        \/ \E e \in Events, s \in Subscribers : Handle(e, s)
        \/ \E finished, dropped \in SUBSET Events : Settle(finished, dropped)

Spec == Init /\ [][Next]_vars
=============================================================================
