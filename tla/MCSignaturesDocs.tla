-------------------------- MODULE MCSignaturesDocs ---------------------------
(***************************************************************************)
(* What the docstring of app/api/signatures.py says of the signature       *)
(* requests, for TLC to hold against the code's steps.                     *)
(***************************************************************************)
EXTENDS Signatures

\* "signed (terminal)", "declined (terminal)", "cancelled (terminal)": a
\* request that got there stays there (signatures.py 5-8).
TerminalStays ==
    [][\A r \in Requests : envelope[r] \in {"signed", "declined", "cancelled"} =>
          envelope'[r] = envelope[r]]_vars
=============================================================================
