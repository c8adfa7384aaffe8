----------------------------- MODULE MCColdStart -----------------------------
(* Small instances of ColdStart for TLC. *)
EXTENDS ColdStart

CONSTANTS s1, s2, s3

=============================================================================
