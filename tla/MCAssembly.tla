----------------------------- MODULE MCAssembly ------------------------------
(* Instance of Assembly for TLC. *)
EXTENDS Assembly, TLC

CONSTANTS ibm, spy, tsla

SecuritySet == {ibm, spy, tsla}
Interchangeable == Permutations(SecuritySet)
=============================================================================
