---------------------------- MODULE MCModelsCache ---------------------------
(* A small instance of ModelsCache for TLC. *)
EXTENDS ModelsCache
CONSTANTS r1, r2, c1, c2
=============================================================================
