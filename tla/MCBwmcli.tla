------------------------------ MODULE MCBwmcli ------------------------------
(* Two devices: both bwmcli's to take, one of them though it should not be, or *)
(* both somebody else's.                                                       *)
EXTENDS Bwmcli, TLC

Plain == [root |-> "default", clsact |-> FALSE, filters |-> {}, virtual |-> FALSE]

MCHosts ==
    {<<[Plain EXCEPT !.root = "similar"], [Plain EXCEPT !.virtual = TRUE]>>,
     <<[Plain EXCEPT !.root = "other"], [Plain EXCEPT !.clsact = TRUE, !.filters = {"other"}]>>}

Symmetry == Permutations(Processes)
=============================================================================
