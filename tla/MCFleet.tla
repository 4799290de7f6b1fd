------------------------------ MODULE MCFleet ------------------------------
(* Small fleets for TLC: two or three instances, named 1, 2 (, 3). *)
EXTENDS FleetInvariant

Two   == 1 .. 2
Three == 1 .. 3

(* The behaviours from nothing, or from a cluster that has lost a process. *)
EitherFairSpec == (Init \/ MinorityDown) /\ [][Next]_vars /\ Fairness
=============================================================================
