---------------------------- MODULE DaemonFlows ----------------------------
(***************************************************************************)
(* The two halves of bwm-daemon's gRPC service in one process: the flow    *)
(* handlers of FlowServer and the pod handlers of BwmDaemon share the id   *)
(* manager, whose podIdMap both enter ids in, and the four pinned maps.    *)
(* One run of the daemon: neither crashes nor timed out CNI calls.         *)
(***************************************************************************)
EXTENDS BwmDaemon, FlowServer

flowOnlyVars == <<flowHandlerVars, flowSuccess>>
podOnlyVars == <<handlerVars, faultVars, nodeVars>>
daemonVars == <<idManagerVars, edtVars, flowOnlyVars, podOnlyVars>>

DaemonInit == Init /\ FlowInit

\* A step of a handler of either half.
DaemonNext ==
    \/ Next /\ UNCHANGED flowOnlyVars
    \/ FlowNext /\ UNCHANGED podOnlyVars

DaemonSpec == DaemonInit /\ [][DaemonNext]_daemonVars
=============================================================================
