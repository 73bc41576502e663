---------------------------- MODULE MCSignatures -----------------------------
EXTENDS Signatures, TLC

\* Rows of a table are interchangeable, and so are concurrent requests.
Swaps == Permutations(Requests) \union Permutations(Clerks) \union Permutations(Handlers)
=============================================================================
