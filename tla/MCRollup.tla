------------------------------ MODULE MCRollup ------------------------------
(* An instance of Rollup for TLC. *)
EXTENDS Rollup
=============================================================================
