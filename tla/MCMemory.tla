------------------------------ MODULE MCMemory ------------------------------
(* Small instances of Memory for TLC. *)
EXTENDS Memory, TLC

CONSTANTS t1, t2

AnyTask == Permutations({t1, t2})

=============================================================================
