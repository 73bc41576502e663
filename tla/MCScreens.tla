----------------------------- MODULE MCScreens -----------------------------
(* Every screen for TLC, with two rows and two filters.                     *)
EXTENDS Screens, SettingsScreens, PanelScreens, WorkScreens, PublicScreens, TLC

CONSTANTS r1, r2, p1, p2

TwoRows == {r1, r2}
TwoParams == {p1, p2}

\* Rows are interchangeable.
Swaps == Permutations(TwoRows)

\* The name of a flag does not matter if there is one.
Named(o) ==
  IF Cardinality({op.lock : op \in o} \ {"none"}) = 1
    THEN {[op EXCEPT !.lock = IF @ = "none" THEN @ ELSE "saving",
                     !.needs = IF @ = {} THEN @ ELSE {"saving"}] : op \in o}
    ELSE o

\* A user who works with one of a screen's controls, or with any two.
OneOrTwo(p) ==
  {[p EXCEPT !.ops = Named(u)] : u \in
     {o \in SUBSET p.ops : Cardinality(o) \in 1..2 \/ p.ops = {}}}
AllPages ==
  UNION {OneOrTwo(p) :
           p \in SettingsPages \union PanelPages \union WorkPages \union PublicPages}

\* A screen with a filter, a timer or a Load more has enough to do with one of
\* its controls; a row that is not there yet matters only if one can be created.
WorthIt ==
  /\ page = [Card(page.ops) EXCEPT !.lists = page.lists, !.fails = page.fails]
     \/ acts + Cardinality(page.ops) <= 4
  /\ (\E r \in Rows : server.ver[r] = 0) => \E op \in page.ops : op.kind = "create"
=============================================================================
