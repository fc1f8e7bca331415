----------------------------- MODULE MCRotation -----------------------------
(* An instance of Rotation for TLC. *)
EXTENDS Rotation
=============================================================================
