----------------------------- MODULE OneOutcome -----------------------------
(* What the asynchronous requests of the library promise their owner: a     *)
(* request that was started ends once, completed or cancelled, and whoever  *)
(* ended it first has the last word: no completion is reported after a      *)
(* cancel, none twice, and no request ends that was never started.  One for *)
(* which there is nothing to do is over when create() returns.              *)

VARIABLE outcome

Init == outcome = "none"

Start == outcome = "none" /\ outcome' = "pending"

StartAndComplete == outcome = "none" /\ outcome' = "completed"

Complete == outcome = "pending" /\ outcome' = "completed"

Cancel == outcome = "pending" /\ outcome' = "cancelled"

Next == Start \/ StartAndComplete \/ Complete \/ Cancel

Spec == Init /\ [][Next]_outcome

=============================================================================
