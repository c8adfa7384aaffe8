------------------------------ MODULE StepLog -------------------------------
(***************************************************************************)
(* What the steps table promises about a session, whoever runs it: a log   *)
(* of steps numbered 1, 2, 3, ... without gaps, that grows at the end,     *)
(* whose entries go from pending to completed, and that goes away only as  *)
(* a whole, with its session.                                              *)
(***************************************************************************)
EXTENDS Naturals, Sequences

CONSTANT Sessions

VARIABLE log

Init == log = [s \in Sessions |-> <<>>]

Begin(s) == log' = [log EXCEPT ![s] = Append(@, "pending")]

Finish(s, n) ==
    /\ n \in DOMAIN log[s]
    /\ log[s][n] = "pending"
    /\ log' = [log EXCEPT ![s][n] = "completed"]

Drop(s) == log' = [log EXCEPT ![s] = <<>>]

Next == \E s \in Sessions :
    \/ Begin(s)
    \/ \E n \in DOMAIN log[s] : Finish(s, n)
    \/ Drop(s)

Spec == Init /\ [][Next]_log

=============================================================================
