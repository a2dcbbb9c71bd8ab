------------------------------ MODULE MCTcEdt ------------------------------
(* The CPUs of an instance are interchangeable.                               *)
EXTENDS TcEdt, TLC

Symmetry == Permutations(CPUs)
=============================================================================
