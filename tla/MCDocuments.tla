----------------------------- MODULE MCDocuments -----------------------------
EXTENDS Documents, TLC

\* Rows of a table are interchangeable, and so are handlers.
Swaps == Permutations(Quotes) \union Permutations(Contracts) \union Permutations(Handlers)
=============================================================================
