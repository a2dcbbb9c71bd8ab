----------------------------- MODULE FlowServer -----------------------------
(***************************************************************************)
(* The flow half of bwm-daemon's gRPC service: SetFlow and UnSetFlow       *)
(* (cmd/daemon/rpcserver/ctlrpcserver.go), called by bwmctl for one        *)
(* direction of one address and port.  As in BwmDaemon a handler is a      *)
(* sequence of atomic steps and handlers interleave; the calls for one     *)
(* flow follow each other, as when one operator types them.                *)
(*                                                                         *)
(* A process id, "direct:ip:port" in the code, is a record of its parts.   *)
(***************************************************************************)
EXTENDS EdtMaps

ASSUME FlowAssumption ==
    ProcessIds \subseteq [direct : Dirs, ip : Ips, port : Ports]

VARIABLES
    flowSetPc,     \* next call of the SetFlow handler of a flow
    flowSetId,     \* the id it was given
    flowUnsetPc,   \* next call of the UnSetFlow handler
    flowUnsetId,   \* the id its lookup found
    flowSuccess    \* has SetFlow reported flowSuccess, and no UnSetFlow come since?

flowHandlerVars == <<flowSetPc, flowSetId, flowUnsetPc, flowUnsetId>>
flowVars == <<idManagerVars, edtVars, flowHandlerVars, flowSuccess>>

FlowKey(p) == <<p.ip, p.port>>

FlowTypeOK ==
    /\ IDManagerTypeOK
    /\ EdtMapsTypeOK
    /\ flowSetPc \in [ProcessIds -> {"idle", "updateId", "addConfig", "insert"}]
    /\ flowSetId \in [ProcessIds -> FlowIds \union {None}]
    /\ flowUnsetPc \in [ProcessIds -> {"idle", "clear", "deleteId", "release"}]
    /\ flowUnsetId \in [ProcessIds -> FlowIds \union {None}]
    /\ flowSuccess \in [ProcessIds -> BOOLEAN]

FlowInit ==
    /\ NewPodIDManager
    /\ EdtMapsInit
    /\ flowSetPc = [p \in ProcessIds |-> "idle"]
    /\ flowSetId = [p \in ProcessIds |-> None]
    /\ flowUnsetPc = [p \in ProcessIds |-> "idle"]
    /\ flowUnsetId = [p \in ProcessIds |-> None]
    /\ flowSuccess = [p \in ProcessIds |-> FALSE]

Idle(p) == flowSetPc[p] = "idle" /\ flowUnsetPc[p] = "idle"

-----------------------------------------------------------------------------
(* SetFlow.  An exhausted id range leaves everything as it is.             *)

SetFlowAllocate(p) ==
    /\ Idle(p)
    /\ \E id \in FlowIds :
         /\ AllocateProcessId(p, id)
         /\ flowSetId' = [flowSetId EXCEPT ![p] = id]
    /\ flowSetPc' = [flowSetPc EXCEPT ![p] = "updateId"]
    /\ UNCHANGED <<edtVars, flowUnsetPc, flowUnsetId, flowSuccess>>

SetFlowTo(p, pc) ==
    /\ flowSetPc' = [flowSetPc EXCEPT ![p] = pc]
    /\ UNCHANGED <<flowSetId, flowUnsetPc, flowUnsetId>>

\* The error of the update is dropped: the test below it looks at the error of
\* AllocateProcessId, which is nil here.
SetFlowUpdateThrottleId(p) ==
    /\ flowSetPc[p] = "updateId"
    /\ \/ UpdateThrottleId(p.direct, FlowKey(p), GenerateClassId(p, flowSetId[p]))
       \/ UNCHANGED edtVars
    /\ SetFlowTo(p, "addConfig")
    /\ UNCHANGED <<idManagerVars, flowSuccess>>

SetFlowAddConfig(p) ==
    /\ flowSetPc[p] = "addConfig"
    /\ AddConfig(p.direct, flowSetId[p], p)
    /\ SetFlowTo(p, "insert")
    /\ UNCHANGED <<idManagerVars, flowSuccess>>

SetFlowInsertProcessInfo(p) ==
    /\ flowSetPc[p] = "insert"
    /\ InsertProcessInfo(p, flowSetId[p])
    /\ flowSetPc' = [flowSetPc EXCEPT ![p] = "idle"]
    /\ flowSetId' = [flowSetId EXCEPT ![p] = None]
    /\ flowSuccess' = [flowSuccess EXCEPT ![p] = TRUE]
    /\ UNCHANGED <<edtVars, flowUnsetPc, flowUnsetId>>

SetFlow(p) ==
    \/ SetFlowAllocate(p) \/ SetFlowUpdateThrottleId(p)
    \/ SetFlowAddConfig(p) \/ SetFlowInsertProcessInfo(p)

-----------------------------------------------------------------------------
(* UnSetFlow.                                                              *)

UnSetFlowLookup(p) ==
    /\ Idle(p)
    /\ flowUnsetId' = [flowUnsetId EXCEPT ![p] = processIdMap[p]]
    /\ flowUnsetPc' = [flowUnsetPc EXCEPT
                     ![p] = IF processIdMap[p] = None THEN "release" ELSE "clear"]
    /\ flowSuccess' = [flowSuccess EXCEPT ![p] = FALSE]
    /\ UNCHANGED <<idManagerVars, edtVars, flowSetPc, flowSetId>>

UnSetFlowTo(p, pc) ==
    /\ flowUnsetPc' = [flowUnsetPc EXCEPT ![p] = pc]
    /\ UNCHANGED <<idManagerVars, flowSetPc, flowSetId, flowUnsetId, flowSuccess>>

UnSetFlowClearsEgress(p) ==
    /\ flowUnsetPc[p] = "clear"
    /\ SingleWriteThrottleCfg("egress", flowUnsetId[p], None)
    /\ UnSetFlowTo(p, "deleteId")

UnSetFlowClear(p) ==
    /\ flowUnsetPc[p] = "clear"
    /\ SingleWriteThrottleCfg(p.direct, flowUnsetId[p], None)
    /\ UnSetFlowTo(p, "deleteId")

UnSetFlowDeletesAddress(p) ==
    /\ flowUnsetPc[p] = "deleteId"
    /\ DeleteThrottleId(p.direct, PodKey(p.ip))
    /\ UnSetFlowTo(p, "release")

UnSetFlowDeleteThrottleId(p) ==
    /\ flowUnsetPc[p] = "deleteId"
    /\ DeleteThrottleId(p.direct, FlowKey(p))
    /\ UnSetFlowTo(p, "release")

UnSetFlowRelease(p) ==
    /\ flowUnsetPc[p] = "release"
    /\ ReleaseProcessInfo(p)
    /\ flowUnsetPc' = [flowUnsetPc EXCEPT ![p] = "idle"]
    /\ flowUnsetId' = [flowUnsetId EXCEPT ![p] = None]
    /\ UNCHANGED <<edtVars, flowSetPc, flowSetId, flowSuccess>>

UnSetFlow(p) ==
    \/ UnSetFlowLookup(p) \/ UnSetFlowClear(p)
    \/ UnSetFlowDeleteThrottleId(p) \/ UnSetFlowRelease(p)

FlowNext == \E p \in ProcessIds : SetFlow(p) \/ UnSetFlow(p)

FlowSpec == FlowInit /\ [][FlowNext]_flowVars

-----------------------------------------------------------------------------
\* A flow that bwmctl was told is set holds an id no other flow holds and finds
\* its own configuration under it in its direction.  Its key leads to that id or,
\* after a failed update, to none, never to another flow's; and unless the update
\* has failed, or the address is a pod's, the data path counts every packet at the
\* flow's end as the flow's, whichever flow is set for the other end.  Of the key
\* of a flow of port 0, which is a pod's, nothing is promised.
FlowInForce ==
    \A p \in ProcessIds : flowSuccess[p] =>
      /\ processIdMap[p] # None
      /\ p.port # PodPort => throttleId[p.direct][FlowKey(p)]
           \in {GenerateClassId(p, processIdMap[p]), None}
      /\ throttleId[p.direct][FlowKey(p)] # None /\ throttleId[p.direct][PodKey(p.ip)] = None =>
           \A packet \in Packets : LocalEnd(p.direct, packet) = FlowKey(p) =>
             Classify(p.direct, packet) = GenerateClassId(p, processIdMap[p])
      /\ throttleCfg[p.direct][processIdMap[p]] = p
      /\ \A q \in ProcessIds \ {p} : processIdMap[q] # processIdMap[p]

\* UnSetFlow leaves nothing behind: a free flow id has zero configurations in
\* both directions, and a key whose flows are all released has no class id, again
\* but for port 0.
FlowNoResidue ==
    /\ \A id \in FlowIds : flowIdMap[id] = None
                             => \A d \in Dirs : throttleCfg[d][id] = None
    /\ \A p \in ProcessIds : processIdMap[p] = None /\ p.port # PodPort
                               => throttleId[p.direct][FlowKey(p)] = None
=============================================================================
