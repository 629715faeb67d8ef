------------------------ MODULE MCWalletProvisioning ------------------------
(***************************************************************************)
(* Small instances of WalletProvisioning for TLC.                          *)
(***************************************************************************)
EXTENDS WalletProvisioning, TLC

TwoCurrencies == <<"SOL", "ETH">>

\* Core instances and users are interchangeable.
Symm == Permutations(Consumers) \cup Permutations(Users)
=============================================================================
