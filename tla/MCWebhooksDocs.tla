--------------------------- MODULE MCWebhooksDocs ---------------------------
(***************************************************************************)
(* What models.py says in words of the health counter of an endpoint.      *)
(***************************************************************************)
EXTENDS MCWebhooks

\* Failures committed for the endpoint since its last success or its last reset.
VARIABLE streak

FailureCommitted(e) == failed'[e] > failed[e]
SuccessCommitted(e) == \E j \in Jobs : target[j] = e /\ job[j] # "delivered" /\ job'[j] = "delivered"
UnpauseCommitted(e) == \E a \in Admins : /\ request[a].op = "unpause" /\ request[a].endpoint = e
                                         /\ request'[a] = Idle

DocsInit == Init /\ streak = [e \in Endpoints |-> 0]

DocsNext == /\ Next
            /\ streak' = [e \in Endpoints |-> IF FailureCommitted(e) THEN streak[e] + 1
                                              ELSE IF SuccessCommitted(e) \/ UnpauseCommitted(e) THEN 0
                                              ELSE streak[e]]

DocsSpec == DocsInit /\ [][DocsNext]_<<vars, streak>>

\* "consecutive_failures auto-increments per failed delivery and resets on
\* success. When it crosses WEBHOOK_AUTO_PAUSE_THRESHOLD (10), paused_at is set
\* automatically" (WebhookEndpoint): Threshold failures in a row do pause.
StreakPauses ==
    \A e \in Endpoints : existence[e] = "live" /\ streak[e] >= Threshold => paused[e]
=============================================================================
