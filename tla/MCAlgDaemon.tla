---------------------------- MODULE MCAlgDaemon ----------------------------
(* Requests of bwm-daemon for TLC: one object of each priority in question.    *)
EXTENDS AlgDaemon

MCRequests == { [priority |-> 0, request |-> 4], [priority |-> 2, request |-> 8] }
=============================================================================
