--------------------------- MODULE MCDocumentsDocs ---------------------------
(***************************************************************************)
(* What the docstrings of app/api/quotes.py and app/api/contracts.py say   *)
(* of the status machines, for TLC to hold against the code's steps.       *)
(***************************************************************************)
EXTENDS Documents

\* "State machine (the ONLY legal transitions; anything else -> 409)": the
\* status column of a document moves along the arrows of its machine, so that
\* accepted and declined are terminal (quotes.py 3-8, contracts.py 3-9).
OnlyLegalTransitions ==
    [][\A d \in Docs : Exists(d) /\ status'[d] # status[d] =>
          <<status[d], status'[d]>> \in Moves(d)]_docVars
=============================================================================
