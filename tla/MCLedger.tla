------------------------------ MODULE MCLedger ------------------------------
(***************************************************************************)
(* Small instances of Ledger for TLC.                                      *)
(***************************************************************************)
EXTENDS Ledger, TLC

\* Calls of one kind are interchangeable, and so are rows, tokens and keys
\* where the instance gives them the same start.
Symm ==
    Permutations(DebitCalls) \cup Permutations(CreditCalls)
        \cup Permutations(Tokens) \cup Permutations(DepositKeys)
=============================================================================
