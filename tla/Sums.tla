-------------------------------- MODULE Sums --------------------------------
(***************************************************************************)
(* Sums of the amounts of records, as cardinalities: a record counts as    *)
(* amount coins of its own, so that a sum needs no recursion.              *)
(***************************************************************************)
EXTENDS Integers, FiniteSets

Coins(T) == UNION {{t} \X (1 .. t.amount) : t \in T}

Total(T) == Cardinality(Coins(T))
=============================================================================
