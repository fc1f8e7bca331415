---------------------------- MODULE MCAuditWriter ---------------------------
(* A small instance of AuditWriter for TLC. *)
EXTENDS AuditWriter
CONSTANTS s1, s2
=============================================================================
