---------------------------- MODULE MCBwmDaemon ----------------------------
(* Instances of BwmDaemon for TLC: containers and addresses are model values. *)
EXTENDS BwmDaemon, TLC

\* The names of containers and of addresses carry no meaning.
Symmetry == Permutations(ContainerIds) \union Permutations(Ips)
=============================================================================
