----------------------------- MODULE MCPipeline -----------------------------
(* EventPipeline for TLC: the small sets its configurations name.           *)
EXTENDS EventPipeline

CONSTANTS e1, w1, p1, j1, j2, j3

OneEvent == {e1}
OneSweep == {w1}
OneEndpoint == {p1}
ThreeJobs == {j1, j2, j3}
Nobody == {}
AllMatch == [e \in Events |-> Endpoints]
=============================================================================
