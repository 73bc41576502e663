----------------------------- MODULE MCSessions -----------------------------
(* Sessions for TLC: one browser with two tabs.                             *)
EXTENDS Sessions, TLC

CONSTANTS b1, t1, t2

OneBrowser == {b1}
TwoTabs == {t1, t2}
Together == [t \in TwoTabs |-> b1]
=============================================================================
