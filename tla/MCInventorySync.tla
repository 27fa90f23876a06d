-------------------------- MODULE MCInventorySync --------------------------
(* Small instances of InventorySync.                                        *)
EXTENDS InventorySync, TLC

CONSTANTS h1, h2, h3, r1, r2, r3

HandlerSymmetry == Permutations(Handlers)
=============================================================================
