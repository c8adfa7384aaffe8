---------------------------- MODULE MCDurability ----------------------------
(* Small instances of Durability for TLC. *)
EXTENDS Durability, TLC

CONSTANTS w1, w2, s1, s2, u1, u2, k1, k2, k3

OneOwnerEach == s1 :> u1 @@ s2 :> u2

=============================================================================
