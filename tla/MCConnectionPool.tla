-------------------------- MODULE MCConnectionPool --------------------------
(* Small instances of ConnectionPool for TLC. *)
EXTENDS ConnectionPool

CONSTANTS a, b, x1, x2, x3, x4, t1, t2, t3, none

(* Connections, tasks and rows are interchangeable. *)
Symmetry == Permutations({a, b} \cap Conns) \cup Permutations({x1, x2, x3, x4} \cap Rows)
                \cup Permutations({t1, t2, t3} \cap Tasks)

=============================================================================
