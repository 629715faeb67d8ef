---------------------------- MODULE MCPosTerminal ----------------------------
(***************************************************************************)
(* Small instances of PosTerminal for TLC.                                 *)
(***************************************************************************)
EXTENDS PosTerminal

CONSTANTS a1, alice

\* The customers are interchangeable: the first attempt is alice's.
MCInit == PosInit /\ Row(a1) = alice

MCSpec == MCInit /\ [][PosNext]_posVars /\ PosFairness
=============================================================================
