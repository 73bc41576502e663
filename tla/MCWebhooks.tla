----------------------------- MODULE MCWebhooks -----------------------------
(* Webhooks for TLC: the small sets its configurations give the constants.  *)
EXTENDS Webhooks

CONSTANTS p1, j1, j2, a1, a2

OneEndpoint == {p1}
TwoJobs == {j1, j2}
TwoAdmins == {a1, a2}
NoAdmin == {}

\* Jobs are alike: j1 is the first to be enqueued.  One admin pauses and
\* unpauses, the other deletes.
Roles ==
    /\ job[j2] # "free" => job[j1] # "free"
    /\ request[a1].op # "delete" /\ request[a2].op \in {"none", "delete"}
=============================================================================
