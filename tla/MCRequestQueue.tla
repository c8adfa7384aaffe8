--------------------------- MODULE MCRequestQueue ---------------------------
(* Small instances of RequestQueue for TLC. *)
EXTENDS RequestQueue

CONSTANTS q1, q2, k1, k2, w1, w2, w3, w4, none

(* One request is urgent, the others are of one priority. *)
OneUrgent == [r \in Requests |-> IF r = q1 THEN 0 ELSE 1]

=============================================================================
