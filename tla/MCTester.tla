------------------------------ MODULE MCTester ------------------------------
(* One test of each kind, in the order of testCases. *)
EXTENDS Tester

OneOfEach == <<"leader", "slave", "majority", "all">>
=============================================================================
