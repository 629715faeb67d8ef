---------------------------- MODULE MCOracleFeed ----------------------------
(***************************************************************************)
(* Small instances of OracleFeed for TLC, in units of five seconds.        *)
(***************************************************************************)
EXTENDS OracleFeed, TLC

\* The markets are interchangeable.
Symm == Permutations(Currencies)
=============================================================================
