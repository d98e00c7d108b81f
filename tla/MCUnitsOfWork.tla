---------------------------- MODULE MCUnitsOfWork ----------------------------
(* Small instances of UnitsOfWork. *)
EXTENDS UnitsOfWork, TLC

AnyOrder == Permutations(Txs)
AnyNames == SUBSET Names
=============================================================================
