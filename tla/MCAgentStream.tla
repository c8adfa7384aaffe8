--------------------------- MODULE MCAgentStream ---------------------------
(* Small instances of AgentStream for TLC. *)
EXTENDS AgentStream, TLC

CONSTANTS t1, t2, g1, g2, g3, s1, s2, u1, u2, noUser, noTask, noSession

(* Tasks, streams, sessions and users are interchangeable. *)
Symmetry == Permutations(Tasks) \cup Permutations(Streams) \cup Permutations(Sessions)
                \cup Permutations(Users)

=============================================================================
