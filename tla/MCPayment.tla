------------------------------ MODULE MCPayment ------------------------------
(***************************************************************************)
(* Small instances of Payment for TLC.                                     *)
(***************************************************************************)
EXTENDS Payment, TLC

\* Requests, rows and tokens are interchangeable.
Symm == Permutations(Attempts) \cup Permutations(Rows) \cup Permutations(Tokens)
=============================================================================
