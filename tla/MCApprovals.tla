---------------------------- MODULE MCApprovals ----------------------------
(* Small instances of Approvals for TLC. *)
EXTENDS Approvals, TLC

CONSTANTS w1, w2, d1, d2, s1, s2, u1, u2, plainTool

OneOwnerEach == s1 :> u1 @@ s2 :> u2

DeclaresNothing == plainTool :> "auto"

(* No rule that matches, and a wildcard besides a laxer rule of the tool. *)
SomeRuleSets == {{},
                 {[tool |-> AnyTool, policy |-> "admin_signoff"],
                  [tool |-> plainTool, policy |-> "human_approval"]}}

(* Waiters and deciders are interchangeable. *)
Symmetry == Permutations({w1, w2}) \cup Permutations({d1, d2})

=============================================================================
