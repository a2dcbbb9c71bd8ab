--------------------------- MODULE MCDaemonFlows ---------------------------
(* A flow and a flow of port 0, one for each direction, over one flow id, and *)
(* sandboxes that may get the address of either.                              *)
EXTENDS DaemonFlows, TLC

CONSTANTS a1, a2

Flows == { [direct |-> "ingress", ip |-> a1, port |-> 7],
           [direct |-> "egress", ip |-> a2, port |-> 0] }

\* The names of sandboxes carry no meaning.
Symmetry == Permutations(ContainerIds)
=============================================================================
