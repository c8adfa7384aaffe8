----------------------------- MODULE MCAgentRun -----------------------------
(* Small instances of AgentRun for TLC. *)
EXTENDS AgentRun, TLC

CONSTANTS r1, r2, r3, s1, s2, u1, u2, nobody, nowhere

(* Calls, sessions and users are interchangeable. *)
Symmetry == Permutations({r1, r2, r3} \cap Runs) \cup Permutations({s1, s2} \cap Sessions)
                \cup Permutations({u1, u2} \cap Users)

(* Calls on one session at once have an input, but for those that are      *)
(* resumed, as RecoveryManager.auto_resume does, which may have none.      *)
Given == \A t \in Runs :
    pc'[t] # "idle" => run'[t].inputs > 0 \/ run'[t].mode = "resume"

(* For liveness TLC cannot use a symmetry set; of two calls that are alike *)
(* r1 is the one that is started first.                                    *)
InOrder == pc'[r2] # "idle" => pc'[r1] # "idle"

=============================================================================
