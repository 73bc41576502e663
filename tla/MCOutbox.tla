------------------------------ MODULE MCOutbox ------------------------------
(* Outbox for TLC: the small sets its configurations give the constants.    *)
EXTENDS Outbox

CONSTANTS e1, e2, e3, w1, w2

OneEvent == {e1}
TwoEvents == {e1, e2}
ThreeEvents == {e1, e2, e3}
OneSweep == {w1}
TwoSweeps == {w1, w2}
NoEvents == {}
JustE2 == {e2}
JustE3 == {e3}
=============================================================================
