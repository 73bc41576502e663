----------------------------- MODULE MCRecords -----------------------------
(* Records for TLC: one row, and one or two tabs.                           *)
EXTENDS Records

CONSTANTS r1, t1, t2, sys

OneRow == {r1}
OneTab == {t1}
TwoTabs == {t1, t2}
\* One tab on any page, or two people on the form of one product.
Alone == [{t1} -> Kinds]
SameForm == [{t1, t2} -> {"product_edit"}]
AloneOrSameForm == Alone \union SameForm
=============================================================================
