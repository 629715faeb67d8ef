-------------------------- MODULE MCDepositConsumer --------------------------
(***************************************************************************)
(* Small instances of DepositConsumer for TLC.                             *)
(***************************************************************************)
EXTENDS DepositConsumer, TLC

\* Core instances, users and chain transactions are interchangeable.
Symm == Permutations(Consumers) \cup Permutations(Rows) \cup Permutations(DepositKeys)
=============================================================================
