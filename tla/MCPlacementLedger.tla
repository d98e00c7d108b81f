-------------------------- MODULE MCPlacementLedger --------------------------
(* Small instances of PlacementLedger. *)
EXTENDS PlacementLedger, TLC

AnyOrder == Permutations(Txs) \cup Permutations(Areas)
=============================================================================
