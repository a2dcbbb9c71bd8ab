------------------------- MODULE DaemonFlowsProofs -------------------------
(***************************************************************************)
(* The flow handlers, alone (FlowSpec) and together with the pod handlers, *)
(* for any number of flows, pods, addresses, ports and ids.                *)
(*                                                                         *)
(* Alone: a flow that was set stays in force, and UnSetFlow leaves nothing *)
(* behind.  Neither invariant is inductive: both rest on flowIdMap and     *)
(* processIdMap agreeing (FlowChain), on a handler's local id staying the  *)
(* one the id manager holds for its flow (HandlersHold), and on every      *)
(* entry of the BPF maps being owed to the holder of its id (FlowKeys,     *)
(* FlowConfigs).                                                           *)
(*                                                                         *)
(* Together, both halves of bwm-daemon keep what each promises alone.  A   *)
(* step of one half keeps the other's inductive invariant because it       *)
(* writes elsewhere: pods and flows have ids of their own ranges (so the   *)
(* process ids that flows leave in podIdMap are under no pod's id), and    *)
(* only the key of a flow of port 0 is a pod's; for the class id of such   *)
(* a contested address neither half promises anything.                     *)
(***************************************************************************)
EXTENDS DaemonFlows, BwmDaemonProofs

-----------------------------------------------------------------------------
(* The flow handlers alone.                                                *)

\* The two maps of the id manager agree on who holds a flow id.
FlowChain ==
    /\ \A p \in ProcessIds : processIdMap[p] # None => flowIdMap[processIdMap[p]] = p
    /\ \A id \in FlowIds : flowIdMap[id] # None => processIdMap[flowIdMap[id]] = id

\* While a handler runs, its local id is the flow's, and it is the flow's only one.
HandlersHold ==
    \A p \in ProcessIds :
      /\ flowSetPc[p] # "idle" =>
           processIdMap[p] # None /\ flowSetId[p] = processIdMap[p] /\ flowUnsetPc[p] = "idle"
      /\ flowUnsetPc[p] # "idle" => flowUnsetId[p] = processIdMap[p] /\ ~ flowSuccess[p]
      /\ flowUnsetPc[p] \in {"clear", "deleteId"} => processIdMap[p] # None

\* A key in an id map is there for a flow that holds the id it leads to, and that
\* UnSetFlow has not come to delete yet.  The key of port 0 is the pod's.
FlowKeys ==
    \A p \in ProcessIds : p.port # PodPort /\ throttleId[p.direct][FlowKey(p)] # None =>
      /\ processIdMap[p] # None
      /\ throttleId[p.direct][FlowKey(p)] = GenerateClassId(p, processIdMap[p])
      /\ flowUnsetPc[p] # "release"

\* Likewise a configuration.
FlowConfigs ==
    \A d \in Dirs, id \in FlowIds : throttleCfg[d][id] # None =>
      /\ flowIdMap[id] # None /\ throttleCfg[d][id] = flowIdMap[id]
      /\ flowIdMap[id].direct = d
      /\ flowUnsetPc[flowIdMap[id]] \notin {"deleteId", "release"}

\* A flow whose SetFlow has written it, in this call or before, has its
\* configuration.
FlowDone ==
    \A p \in ProcessIds : flowSuccess[p] \/ flowSetPc[p] = "insert" =>
      /\ processIdMap[p] # None
      /\ throttleCfg[p.direct][processIdMap[p]] = p

FlowInv == FlowTypeOK /\ FlowChain /\ HandlersHold
FlowMapsInv == FlowKeys /\ FlowConfigs /\ FlowDone
-----------------------------------------------------------------------------
(* The types.                                                              *)

\* A flow's parts, its key, and the ids it may hold.
LEMMA FlowParts ==
  ASSUME NEW p \in ProcessIds
  PROVE  /\ p.direct \in Dirs /\ p.ip \in Ips /\ p.port \in Ports
         /\ p = [direct |-> p.direct, ip |-> p.ip, port |-> p.port]
         /\ FlowKey(p) \in TcEdtIdKey
         /\ \A id \in FlowIds : GenerateClassId(p, id) \in ClassIds
         /\ p \in Holders /\ p # None
  <1>1. p \in [direct : Dirs, ip : Ips, port : Ports]
    BY FlowAssumption
  <1>2. p \in Holders /\ p # None
    BY NoneAssumption DEF Holders
  <1>3. QED
    BY <1>1, <1>2 DEF FlowKey, TcEdtIdKey, GenerateClassId, ClassIds, LocalIds

\* A flow is told from all others by its direction and its key.
LEMMA FlowsApart ==
  ASSUME NEW p \in ProcessIds, NEW q \in ProcessIds,
         p.direct = q.direct, FlowKey(p) = FlowKey(q)
  PROVE  p = q
  <1>1. p = [direct |-> p.direct, ip |-> p.ip, port |-> p.port]
        /\ q = [direct |-> q.direct, ip |-> q.ip, port |-> q.port]
    BY FlowParts
  <1>2. p.ip = q.ip /\ p.port = q.port
    BY DEF FlowKey
  <1>3. QED
    BY <1>1, <1>2

\* A flow id is an id, and none of the missing ones.
LEMMA FlowIdsLocal == FlowIds \subseteq LocalIds /\ None \notin FlowIds
  BY NoneAssumption DEF LocalIds

\* Writes keep the types of the BPF maps.
LEMMA FlowKeyType ==
  ASSUME EdtMapsTypeOK, NEW d \in Dirs, NEW key \in TcEdtIdKey,
         NEW class \in ClassIds \union {None},
         throttleId' = [throttleId EXCEPT ![d][key] = class], UNCHANGED throttleCfg
  PROVE  EdtMapsTypeOK'
  BY DEF EdtMapsTypeOK

LEMMA FlowConfigType ==
  ASSUME EdtMapsTypeOK, NEW d \in Dirs, NEW id \in LocalIds,
         NEW h \in Holders \union {None}, SingleWriteThrottleCfg(d, id, h)
  PROVE  EdtMapsTypeOK'
  BY DEF EdtMapsTypeOK, SingleWriteThrottleCfg

\* The handlers start with nothing.
LEMMA FlowInvInit == FlowInit => FlowInv
  <1> SUFFICES ASSUME FlowInit PROVE FlowInv
    OBVIOUS
  <1>1. IDManagerTypeOK
    BY DEF FlowInit, NewPodIDManager, IDManagerTypeOK
  <1>2. EdtMapsTypeOK
    BY DEF FlowInit, EdtMapsInit, EdtMapsTypeOK
  <1>3. FlowTypeOK
    BY <1>1, <1>2 DEF FlowInit, FlowTypeOK
  <1>4. FlowChain /\ HandlersHold
    BY DEF FlowInit, NewPodIDManager, FlowChain, HandlersHold
  <1>5. QED
    BY <1>3, <1>4 DEF FlowInv

\* The id manager's methods keep the types of its maps.
LEMMA AllocateFlowType ==
  ASSUME IDManagerTypeOK, NEW p \in ProcessIds, NEW id \in FlowIds, AllocateProcessId(p, id)
  PROVE  IDManagerTypeOK'
  <1>1. CASE UNCHANGED flowMaps
    BY <1>1 DEF AllocateProcessId, IDManagerTypeOK, podMaps, flowMaps
  <1>2. CASE /\ flowIdMap' = [flowIdMap EXCEPT ![id] = p]
             /\ processIdMap' = [processIdMap EXCEPT ![p] = id]
    BY <1>2 DEF AllocateProcessId, IDManagerTypeOK, podMaps
  <1>3. QED
    BY <1>1, <1>2 DEF AllocateProcessId

LEMMA InsertFlowType ==
  ASSUME IDManagerTypeOK, NEW p \in ProcessIds, NEW id \in FlowIds, InsertProcessInfo(p, id)
  PROVE  IDManagerTypeOK'
  BY FlowIdsLocal DEF InsertProcessInfo, IDManagerTypeOK, Holders

LEMMA ReleaseFlowType ==
  ASSUME IDManagerTypeOK, NEW p \in ProcessIds, ReleaseProcessInfo(p)
  PROVE  IDManagerTypeOK'
  <1>1. CASE processIdMap[p] # None
    BY <1>1 DEF ReleaseProcessInfo, IDManagerTypeOK, podMaps
  <1>2. CASE processIdMap[p] = None
    BY <1>2 DEF ReleaseProcessInfo, IDManagerTypeOK, podMaps, flowMaps
  <1>3. QED
    BY <1>1, <1>2

\* A running handler has an id.
LEMMA HandlerId ==
  ASSUME FlowInv, NEW p \in ProcessIds
  PROVE  /\ flowSetPc[p] # "idle" => flowSetId[p] \in FlowIds /\ flowSetId[p] = processIdMap[p]
         /\ flowUnsetPc[p] \in {"clear", "deleteId"} =>
              flowUnsetId[p] \in FlowIds /\ flowUnsetId[p] = processIdMap[p]
  <1>1. processIdMap[p] \in FlowIds \union {None}
    BY DEF FlowInv, FlowTypeOK, IDManagerTypeOK
  <1>2. QED
    BY <1>1 DEF FlowInv, HandlersHold

\* Every step of a flow handler keeps the types.
LEMMA FlowStepType ==
  ASSUME FlowInv, NEW p \in ProcessIds, SetFlow(p) \/ UnSetFlow(p)
  PROVE  FlowTypeOK'
  <1> USE DEF FlowInv, FlowTypeOK
  <1>1. CASE SetFlowAllocate(p)
    <2>1. PICK id \in FlowIds : AllocateProcessId(p, id) /\ flowSetId' = [flowSetId EXCEPT ![p] = id]
      BY <1>1 DEF SetFlowAllocate
    <2>2. IDManagerTypeOK'
      BY <2>1, AllocateFlowType
    <2>3. EdtMapsTypeOK'
      BY <1>1 DEF SetFlowAllocate, edtVars, EdtMapsTypeOK
    <2>4. QED
      BY <1>1, <2>1, <2>2, <2>3 DEF SetFlowAllocate
  <1>2. CASE SetFlowUpdateThrottleId(p)
    <2>1. IDManagerTypeOK'
      BY <1>2 DEF SetFlowUpdateThrottleId, idManagerVars, IDManagerTypeOK
    <2>2. flowSetId[p] \in FlowIds
      BY <1>2, HandlerId DEF SetFlowUpdateThrottleId
    <2>3. EdtMapsTypeOK'
      <3>1. CASE UNCHANGED edtVars
        BY <3>1 DEF edtVars, EdtMapsTypeOK
      <3>2. CASE UpdateThrottleId(p.direct, FlowKey(p), GenerateClassId(p, flowSetId[p]))
        BY <2>2, <3>2, FlowParts, FlowKeyType DEF UpdateThrottleId
      <3>3. QED
        BY <1>2, <3>1, <3>2 DEF SetFlowUpdateThrottleId
    <2>4. QED
      BY <1>2, <2>1, <2>3 DEF SetFlowUpdateThrottleId, SetFlowTo
  <1>3. CASE SetFlowAddConfig(p)
    <2>1. IDManagerTypeOK'
      BY <1>3 DEF SetFlowAddConfig, idManagerVars, IDManagerTypeOK
    <2>2. flowSetId[p] \in LocalIds
      BY <1>3, HandlerId, FlowIdsLocal DEF SetFlowAddConfig
    <2>3. EdtMapsTypeOK'
      BY <1>3, <2>2, FlowParts, FlowConfigType DEF SetFlowAddConfig, AddConfig
    <2>4. QED
      BY <1>3, <2>1, <2>3 DEF SetFlowAddConfig, SetFlowTo
  <1>4. CASE SetFlowInsertProcessInfo(p)
    <2>1. flowSetId[p] \in FlowIds
      BY <1>4, HandlerId DEF SetFlowInsertProcessInfo
    <2>2. IDManagerTypeOK'
      BY <1>4, <2>1, InsertFlowType DEF SetFlowInsertProcessInfo
    <2>3. EdtMapsTypeOK'
      BY <1>4 DEF SetFlowInsertProcessInfo, edtVars, EdtMapsTypeOK
    <2>4. QED
      BY <1>4, <2>2, <2>3 DEF SetFlowInsertProcessInfo
  <1>5. CASE UnSetFlowLookup(p)
    <2>1. IDManagerTypeOK'
      BY <1>5 DEF UnSetFlowLookup, idManagerVars, IDManagerTypeOK
    <2>2. EdtMapsTypeOK'
      BY <1>5 DEF UnSetFlowLookup, edtVars, EdtMapsTypeOK
    <2>3. processIdMap[p] \in FlowIds \union {None}
      BY DEF IDManagerTypeOK
    <2>4. QED
      BY <1>5, <2>1, <2>2, <2>3 DEF UnSetFlowLookup
  <1>6. CASE UnSetFlowClear(p)
    <2>1. IDManagerTypeOK'
      BY <1>6 DEF UnSetFlowClear, UnSetFlowTo, idManagerVars, IDManagerTypeOK
    <2>2. flowUnsetId[p] \in LocalIds
      BY <1>6, HandlerId, FlowIdsLocal DEF UnSetFlowClear
    <2>3. EdtMapsTypeOK'
      BY <1>6, <2>2, FlowParts, FlowConfigType DEF UnSetFlowClear
    <2>4. QED
      BY <1>6, <2>1, <2>3 DEF UnSetFlowClear, UnSetFlowTo
  <1>7. CASE UnSetFlowDeleteThrottleId(p)
    <2>1. IDManagerTypeOK'
      BY <1>7 DEF UnSetFlowDeleteThrottleId, UnSetFlowTo, idManagerVars, IDManagerTypeOK
    <2>2. EdtMapsTypeOK'
      BY <1>7, FlowParts, FlowKeyType DEF UnSetFlowDeleteThrottleId, DeleteThrottleId
    <2>3. QED
      BY <1>7, <2>1, <2>2 DEF UnSetFlowDeleteThrottleId, UnSetFlowTo
  <1>8. CASE UnSetFlowRelease(p)
    <2>1. IDManagerTypeOK'
      BY <1>8, ReleaseFlowType DEF UnSetFlowRelease
    <2>2. EdtMapsTypeOK'
      BY <1>8 DEF UnSetFlowRelease, edtVars, EdtMapsTypeOK
    <2>3. QED
      BY <1>8, <2>1, <2>2 DEF UnSetFlowRelease
  <1>9. QED
    BY <1>1, <1>2, <1>3, <1>4, <1>5, <1>6, <1>7, <1>8 DEF SetFlow, UnSetFlow
-----------------------------------------------------------------------------
(* The ids.                                                                *)

\* Every step of a flow handler keeps the two maps in agreement, and the ids that
\* the handlers remember.
LEMMA FlowStepIds ==
  ASSUME FlowInv, NEW p \in ProcessIds, SetFlow(p) \/ UnSetFlow(p)
  PROVE  FlowChain' /\ HandlersHold'
  <1> USE DEF FlowInv
  <1>0. /\ processIdMap \in [ProcessIds -> FlowIds \union {None}]
        /\ flowIdMap \in [FlowIds -> ProcessIds \union {None}]
        /\ flowSetPc \in [ProcessIds -> {"idle", "updateId", "addConfig", "insert"}]
        /\ flowUnsetPc \in [ProcessIds -> {"idle", "clear", "deleteId", "release"}]
        /\ flowSetId \in [ProcessIds -> FlowIds \union {None}]
        /\ flowUnsetId \in [ProcessIds -> FlowIds \union {None}]
        /\ flowSuccess \in [ProcessIds -> BOOLEAN]
        /\ None \notin FlowIds /\ None \notin ProcessIds
    BY FlowIdsLocal, NoneAssumption DEF FlowTypeOK, IDManagerTypeOK, Holders
  <1>1. CASE SetFlowAllocate(p)
    <2>1. PICK id \in FlowIds : AllocateProcessId(p, id) /\ flowSetId' = [flowSetId EXCEPT ![p] = id]
      BY <1>1 DEF SetFlowAllocate
    <2>2. CASE processIdMap[p] # None /\ id = processIdMap[p] /\ UNCHANGED flowMaps
      <3>1. FlowChain'
        BY <2>2 DEF FlowChain, flowMaps
      <3>2. HandlersHold'
        BY <1>0, <1>1, <2>1, <2>2 DEF HandlersHold, flowMaps, SetFlowAllocate, Idle
      <3>3. QED
        BY <3>1, <3>2
    <2>3. CASE /\ processIdMap[p] = None
               /\ IsFirstFree(flowIdMap, FlowIds, id)
               /\ flowIdMap' = [flowIdMap EXCEPT ![id] = p]
               /\ processIdMap' = [processIdMap EXCEPT ![p] = id]
      <3>1. flowIdMap[id] = None
        BY <2>3 DEF IsFirstFree
      <3>2. FlowChain'
        BY <1>0, <2>3, <3>1 DEF FlowChain
      <3>3. HandlersHold'
        BY <1>0, <1>1, <2>1, <2>3 DEF HandlersHold, SetFlowAllocate, Idle
      <3>4. QED
        BY <3>2, <3>3
    <2>4. QED
      BY <2>1, <2>2, <2>3 DEF AllocateProcessId
  <1>2. CASE SetFlowUpdateThrottleId(p) \/ SetFlowAddConfig(p)
    <2>1. FlowChain'
      BY <1>2 DEF SetFlowUpdateThrottleId, SetFlowAddConfig, idManagerVars, FlowChain
    <2>2. HandlersHold'
      BY <1>0, <1>2 DEF SetFlowUpdateThrottleId, SetFlowAddConfig, SetFlowTo, idManagerVars,
                        HandlersHold
    <2>3. QED
      BY <2>1, <2>2
  <1>3. CASE SetFlowInsertProcessInfo(p)
    <2>1. flowSetId[p] = processIdMap[p] /\ flowUnsetPc[p] = "idle"
      BY <1>3 DEF SetFlowInsertProcessInfo, HandlersHold
    <2>2. UNCHANGED flowMaps
      BY <1>0, <1>3, <2>1 DEF SetFlowInsertProcessInfo, InsertProcessInfo, flowMaps
    <2>3. FlowChain'
      BY <2>2 DEF FlowChain, flowMaps
    <2>4. HandlersHold'
      BY <1>0, <1>3, <2>1, <2>2 DEF SetFlowInsertProcessInfo, HandlersHold, flowMaps
    <2>5. QED
      BY <2>3, <2>4
  <1>4. CASE UnSetFlowLookup(p)
    <2>1. FlowChain'
      BY <1>4 DEF UnSetFlowLookup, idManagerVars, FlowChain
    <2>2. HandlersHold'
      BY <1>0, <1>4 DEF UnSetFlowLookup, Idle, idManagerVars, HandlersHold
    <2>3. QED
      BY <2>1, <2>2
  <1>5. CASE UnSetFlowClear(p) \/ UnSetFlowDeleteThrottleId(p)
    <2>1. FlowChain'
      BY <1>5 DEF UnSetFlowClear, UnSetFlowDeleteThrottleId, UnSetFlowTo, idManagerVars, FlowChain
    <2>2. HandlersHold'
      BY <1>0, <1>5 DEF UnSetFlowClear, UnSetFlowDeleteThrottleId, UnSetFlowTo, idManagerVars,
                        HandlersHold
    <2>3. QED
      BY <2>1, <2>2
  <1>6. CASE UnSetFlowRelease(p)
    <2>1. CASE processIdMap[p] # None
      <3>1. /\ flowIdMap' = [flowIdMap EXCEPT ![processIdMap[p]] = None]
            /\ processIdMap' = [processIdMap EXCEPT ![p] = None]
        BY <1>6, <2>1 DEF UnSetFlowRelease, ReleaseProcessInfo
      <3>2. FlowChain'
        BY <1>0, <2>1, <3>1 DEF FlowChain
      <3>3. HandlersHold'
        BY <1>0, <1>6, <3>1 DEF UnSetFlowRelease, HandlersHold
      <3>4. QED
        BY <3>2, <3>3
    <2>2. CASE processIdMap[p] = None
      <3>1. UNCHANGED flowMaps
        BY <1>6, <2>2 DEF UnSetFlowRelease, ReleaseProcessInfo
      <3>2. FlowChain'
        BY <3>1 DEF FlowChain, flowMaps
      <3>3. HandlersHold'
        BY <1>0, <1>6, <3>1 DEF UnSetFlowRelease, HandlersHold, flowMaps
      <3>4. QED
        BY <3>2, <3>3
    <2>3. QED
      BY <2>1, <2>2
  <1>7. QED
    BY <1>1, <1>2, <1>3, <1>4, <1>5, <1>6 DEF SetFlow, UnSetFlow

\* FlowInv is an invariant.
LEMMA FlowInvariant == FlowSpec => []FlowInv
  <1>1. FlowInit => FlowInv
    BY FlowInvInit
  <1>2. FlowInv /\ [FlowNext]_flowVars => FlowInv'
    <2> SUFFICES ASSUME FlowInv, [FlowNext]_flowVars PROVE FlowInv'
      OBVIOUS
    <2>1. CASE FlowNext
      <3>1. PICK p \in ProcessIds : SetFlow(p) \/ UnSetFlow(p)
        BY <2>1 DEF FlowNext
      <3>2. QED
        BY <3>1, FlowStepType, FlowStepIds DEF FlowInv
    <2>2. CASE UNCHANGED flowVars
      BY <2>2 DEF flowVars, flowHandlerVars, idManagerVars, edtVars, FlowInv, FlowTypeOK, IDManagerTypeOK,
                  EdtMapsTypeOK, FlowChain, HandlersHold
    <2>3. QED
      BY <2>1, <2>2
  <1>3. QED
    BY <1>1, <1>2, PTL DEF FlowSpec

\* The flow handlers keep the types of all state, whatever interleaves: no handler
\* writes under an id that it has not got.
THEOREM FlowTypeCorrect == FlowSpec => []FlowTypeOK
  <1>1. FlowInv => FlowTypeOK
    BY DEF FlowInv
  <1>2. QED
    BY <1>1, FlowInvariant, PTL
-----------------------------------------------------------------------------
(* The BPF maps.  The arrays have an entry for every flow id.              *)

\* Every flow id has a configuration.
LEMMA FlowIdsIndex ==
  ASSUME MaxFlowID < MapSize
  PROVE  \A id \in FlowIds : id \in CfgIndexes /\ id < MapSize
  BY IdRangesAssumption, MapSizeAssumption DEF FlowIds, CfgIndexes, LocalIds

\* At first the maps are empty.
LEMMA FlowMapsInit == ASSUME MaxFlowID < MapSize, FlowInit PROVE FlowMapsInv
  <1>1. FlowKeys
    BY FlowParts DEF FlowInit, EdtMapsInit, FlowKeys
  <1>2. FlowConfigs
    BY FlowIdsIndex DEF FlowInit, EdtMapsInit, FlowConfigs
  <1>3. FlowDone
    BY DEF FlowInit, FlowDone
  <1>4. QED
    BY <1>1, <1>2, <1>3 DEF FlowMapsInv

\* A step of a flow handler leaves every entry of the id maps owed to the flow
\* that holds its id.
LEMMA FlowStepKeys ==
  ASSUME FlowInv, FlowKeys, NEW p \in ProcessIds, SetFlow(p) \/ UnSetFlow(p)
  PROVE  FlowKeys'
  <1> USE DEF FlowInv
  <1>0. /\ processIdMap \in [ProcessIds -> FlowIds \union {None}]
        /\ throttleId \in [Dirs -> [TcEdtIdKey -> ClassIds \union {None}]]
        /\ flowSetPc \in [ProcessIds -> {"idle", "updateId", "addConfig", "insert"}]
        /\ flowUnsetPc \in [ProcessIds -> {"idle", "clear", "deleteId", "release"}]
    BY DEF FlowTypeOK, IDManagerTypeOK, EdtMapsTypeOK
  <1> SUFFICES ASSUME NEW q \in ProcessIds, q.port # PodPort,
                      throttleId'[q.direct][FlowKey(q)] # None
               PROVE  /\ processIdMap'[q] # None
                      /\ throttleId'[q.direct][FlowKey(q)] = GenerateClassId(q, processIdMap'[q])
                      /\ flowUnsetPc'[q] # "release"
    BY DEF FlowKeys
  <1>a. q.direct \in Dirs /\ FlowKey(q) \in TcEdtIdKey /\ p.direct \in Dirs /\ FlowKey(p) \in TcEdtIdKey
    BY FlowParts
  <1>b. p # q => ~ (p.direct = q.direct /\ FlowKey(p) = FlowKey(q))
    BY FlowsApart
  <1>1. CASE SetFlowAllocate(p)
    <2>1. UNCHANGED <<throttleId, flowUnsetPc>>
      BY <1>1 DEF SetFlowAllocate, edtVars
    <2>2. PICK id \in FlowIds : AllocateProcessId(p, id)
      BY <1>1 DEF SetFlowAllocate
    <2>3. processIdMap[q] # None => processIdMap'[q] = processIdMap[q]
      BY <1>0, <2>2 DEF AllocateProcessId, flowMaps
    <2>4. QED
      BY <2>1, <2>3 DEF FlowKeys
  <1>2. CASE SetFlowUpdateThrottleId(p)
    <2>1. UNCHANGED <<processIdMap, flowUnsetPc>>
      BY <1>2 DEF SetFlowUpdateThrottleId, SetFlowTo, idManagerVars
    <2>2. flowSetId[p] = processIdMap[p] /\ processIdMap[p] # None /\ flowUnsetPc[p] = "idle"
      BY <1>2 DEF SetFlowUpdateThrottleId, HandlersHold
    <2>3. CASE UNCHANGED edtVars
      BY <2>1, <2>3 DEF edtVars, FlowKeys
    <2>4. CASE throttleId' = [throttleId EXCEPT
                                ![p.direct][FlowKey(p)] = GenerateClassId(p, flowSetId[p])]
      <3>1. CASE p = q
        BY <1>0, <1>a, <2>1, <2>2, <2>4, <3>1
      <3>2. CASE p # q
        <4>1. throttleId'[q.direct][FlowKey(q)] = throttleId[q.direct][FlowKey(q)]
          BY <1>0, <1>a, <1>b, <2>4, <3>2
        <4>2. QED
          BY <2>1, <4>1 DEF FlowKeys
      <3>3. QED
        BY <3>1, <3>2
    <2>5. QED
      BY <1>2, <2>3, <2>4 DEF SetFlowUpdateThrottleId, UpdateThrottleId
  <1>3. CASE SetFlowAddConfig(p)
    <2>1. UNCHANGED <<throttleId, processIdMap, flowUnsetPc>>
      BY <1>3 DEF SetFlowAddConfig, AddConfig, SingleWriteThrottleCfg, SetFlowTo, idManagerVars
    <2>2. QED
      BY <2>1 DEF FlowKeys
  <1>4. CASE SetFlowInsertProcessInfo(p)
    <2>1. UNCHANGED <<throttleId, flowUnsetPc>>
      BY <1>4 DEF SetFlowInsertProcessInfo, edtVars
    <2>2. flowSetId[p] = processIdMap[p]
      BY <1>4 DEF SetFlowInsertProcessInfo, HandlersHold
    <2>3. UNCHANGED processIdMap
      BY <1>0, <1>4, <2>2 DEF SetFlowInsertProcessInfo, InsertProcessInfo
    <2>4. QED
      BY <2>1, <2>3 DEF FlowKeys
  <1>5. CASE UnSetFlowLookup(p)
    <2>1. UNCHANGED <<throttleId, processIdMap>>
      BY <1>5 DEF UnSetFlowLookup, edtVars, idManagerVars
    <2>2. processIdMap[q] # None /\ flowUnsetPc[q] # "release"
      BY <2>1 DEF FlowKeys
    <2>3. flowUnsetPc'[q] # "release"
      BY <1>0, <1>5, <2>2 DEF UnSetFlowLookup
    <2>4. QED
      BY <2>1, <2>3 DEF FlowKeys
  <1>6. CASE UnSetFlowClear(p)
    <2>1. UNCHANGED <<throttleId, processIdMap>>
      BY <1>6 DEF UnSetFlowClear, UnSetFlowTo, SingleWriteThrottleCfg, idManagerVars
    <2>2. flowUnsetPc[q] # "release"
      BY <2>1 DEF FlowKeys
    <2>3. flowUnsetPc'[q] # "release"
      BY <1>0, <1>6, <2>2 DEF UnSetFlowClear, UnSetFlowTo
    <2>4. QED
      BY <2>1, <2>3 DEF FlowKeys
  <1>7. CASE UnSetFlowDeleteThrottleId(p)
    <2>1. /\ throttleId' = [throttleId EXCEPT ![p.direct][FlowKey(p)] = None]
          /\ UNCHANGED processIdMap
      BY <1>7 DEF UnSetFlowDeleteThrottleId, UnSetFlowTo, DeleteThrottleId, idManagerVars
    <2>2. p # q
      BY <1>0, <1>a, <2>1
    <2>3. throttleId'[q.direct][FlowKey(q)] = throttleId[q.direct][FlowKey(q)]
      BY <1>0, <1>a, <1>b, <2>1, <2>2
    <2>4. flowUnsetPc'[q] = flowUnsetPc[q]
      BY <1>0, <1>7, <2>2 DEF UnSetFlowDeleteThrottleId, UnSetFlowTo
    <2>5. QED
      BY <2>1, <2>3, <2>4 DEF FlowKeys
  <1>8. CASE UnSetFlowRelease(p)
    <2>1. UNCHANGED throttleId
      BY <1>8 DEF UnSetFlowRelease, edtVars
    <2>2. p # q
      BY <1>8, <2>1 DEF UnSetFlowRelease, FlowKeys
    <2>3. processIdMap'[q] = processIdMap[q] /\ flowUnsetPc'[q] = flowUnsetPc[q]
      BY <1>0, <1>8, <2>2 DEF UnSetFlowRelease, ReleaseProcessInfo, flowMaps
    <2>4. QED
      BY <2>1, <2>3 DEF FlowKeys
  <1>9. QED
    BY <1>1, <1>2, <1>3, <1>4, <1>5, <1>6, <1>7, <1>8 DEF SetFlow, UnSetFlow

\* A step of a flow handler leaves every configuration under a flow id owed to
\* the flow that holds the id.
LEMMA FlowStepConfigs ==
  ASSUME MaxFlowID < MapSize, FlowInv, FlowConfigs, NEW p \in ProcessIds, SetFlow(p) \/ UnSetFlow(p)
  PROVE  FlowConfigs'
  <1> USE DEF FlowInv
  <1>0. /\ processIdMap \in [ProcessIds -> FlowIds \union {None}]
        /\ flowIdMap \in [FlowIds -> ProcessIds \union {None}]
        /\ throttleCfg \in [Dirs -> [CfgIndexes -> Holders \union {None}]]
        /\ flowUnsetPc \in [ProcessIds -> {"idle", "clear", "deleteId", "release"}]
        /\ p.direct \in Dirs /\ p # None
    BY FlowParts DEF FlowTypeOK, IDManagerTypeOK, EdtMapsTypeOK
  <1> SUFFICES ASSUME NEW d \in Dirs, NEW id \in FlowIds, throttleCfg'[d][id] # None
               PROVE  /\ flowIdMap'[id] # None /\ throttleCfg'[d][id] = flowIdMap'[id]
                      /\ flowIdMap'[id].direct = d
                      /\ flowUnsetPc'[flowIdMap'[id]] \notin {"deleteId", "release"}
    BY DEF FlowConfigs
  <1>a. id \in CfgIndexes /\ id < MapSize
    BY FlowIdsIndex
  <1>b. flowIdMap[id] # None => flowIdMap[id] \in ProcessIds /\ processIdMap[flowIdMap[id]] = id
    BY <1>0 DEF FlowChain
  <1>c. processIdMap[p] # None => processIdMap[p] \in FlowIds /\ flowIdMap[processIdMap[p]] = p
    BY <1>0 DEF FlowChain
  <1>1. CASE SetFlowAllocate(p)
    <2>1. UNCHANGED <<throttleCfg, flowUnsetPc>>
      BY <1>1 DEF SetFlowAllocate, edtVars
    <2>2. PICK i \in FlowIds : AllocateProcessId(p, i)
      BY <1>1 DEF SetFlowAllocate
    <2>3. flowIdMap[id] # None => flowIdMap'[id] = flowIdMap[id]
      BY <1>0, <2>2 DEF AllocateProcessId, IsFirstFree, flowMaps
    <2>4. QED
      BY <2>1, <2>3 DEF FlowConfigs
  <1>2. CASE SetFlowUpdateThrottleId(p)
    <2>1. UNCHANGED <<throttleCfg, flowIdMap, flowUnsetPc>>
      BY <1>2 DEF SetFlowUpdateThrottleId, UpdateThrottleId, SetFlowTo, edtVars, idManagerVars
    <2>2. QED
      BY <2>1 DEF FlowConfigs
  <1>3. CASE SetFlowAddConfig(p)
    <2>1. UNCHANGED <<flowIdMap, flowUnsetPc>>
      BY <1>3 DEF SetFlowAddConfig, SetFlowTo, idManagerVars
    <2>2. /\ flowSetId[p] = processIdMap[p] /\ processIdMap[p] # None
          /\ processIdMap[p] \in FlowIds /\ flowUnsetPc[p] = "idle"
      BY <1>0, <1>3 DEF SetFlowAddConfig, HandlersHold
    <2>3. throttleCfg' = [throttleCfg EXCEPT ![p.direct][processIdMap[p]] = p]
      BY <1>3, <2>2, FlowIdsIndex DEF SetFlowAddConfig, AddConfig, SingleWriteThrottleCfg
    <2>4. CASE d = p.direct /\ id = processIdMap[p]
      BY <1>0, <1>a, <1>c, <2>1, <2>2, <2>3, <2>4
    <2>5. CASE ~ (d = p.direct /\ id = processIdMap[p])
      <3>1. throttleCfg'[d][id] = throttleCfg[d][id]
        BY <1>0, <1>a, <2>3, <2>5
      <3>2. QED
        BY <2>1, <3>1 DEF FlowConfigs
    <2>6. QED
      BY <2>4, <2>5
  <1>4. CASE SetFlowInsertProcessInfo(p)
    <2>1. UNCHANGED <<throttleCfg, flowIdMap, flowUnsetPc>>
      BY <1>4 DEF SetFlowInsertProcessInfo, InsertProcessInfo, edtVars
    <2>2. QED
      BY <2>1 DEF FlowConfigs
  <1>5. CASE UnSetFlowLookup(p)
    <2>1. UNCHANGED <<throttleCfg, flowIdMap>>
      BY <1>5 DEF UnSetFlowLookup, edtVars, idManagerVars
    <2>2. /\ flowIdMap[id] # None /\ throttleCfg[d][id] = flowIdMap[id] /\ flowIdMap[id].direct = d
          /\ flowUnsetPc[flowIdMap[id]] \notin {"deleteId", "release"}
      BY <2>1 DEF FlowConfigs
    <2>3. flowIdMap[id] = p => processIdMap[p] # None
      BY <1>0, <1>b, <2>2, FlowIdsLocal
    <2>4. flowUnsetPc'[flowIdMap[id]] \notin {"deleteId", "release"}
      BY <1>0, <1>b, <1>5, <2>2, <2>3 DEF UnSetFlowLookup
    <2>5. QED
      BY <2>1, <2>2, <2>4
  <1>6. CASE UnSetFlowClear(p)
    <2>1. UNCHANGED flowIdMap
      BY <1>6 DEF UnSetFlowClear, UnSetFlowTo, idManagerVars
    <2>2. flowUnsetId[p] = processIdMap[p] /\ processIdMap[p] \in FlowIds /\ flowUnsetPc[p] = "clear"
      BY <1>0, <1>6 DEF UnSetFlowClear, HandlersHold
    <2>3. throttleCfg' = [throttleCfg EXCEPT ![p.direct][processIdMap[p]] = None]
      BY <1>6, <2>2, FlowIdsIndex DEF UnSetFlowClear, SingleWriteThrottleCfg
    <2>4. ~ (d = p.direct /\ id = processIdMap[p])
      BY <1>0, <1>a, <2>3
    <2>5. throttleCfg'[d][id] = throttleCfg[d][id]
      BY <1>0, <1>a, <2>3, <2>4
    <2>6. /\ flowIdMap[id] # None /\ throttleCfg[d][id] = flowIdMap[id] /\ flowIdMap[id].direct = d
          /\ flowUnsetPc[flowIdMap[id]] \notin {"deleteId", "release"}
      BY <2>5 DEF FlowConfigs
    <2>7. flowIdMap[id] # p
      BY <1>b, <2>4, <2>6
    <2>8. flowUnsetPc'[flowIdMap[id]] = flowUnsetPc[flowIdMap[id]]
      BY <1>0, <1>b, <1>6, <2>6, <2>7 DEF UnSetFlowClear, UnSetFlowTo
    <2>9. QED
      BY <2>1, <2>5, <2>6, <2>8
  <1>7. CASE UnSetFlowDeleteThrottleId(p)
    <2>1. UNCHANGED <<throttleCfg, flowIdMap>>
      BY <1>7 DEF UnSetFlowDeleteThrottleId, DeleteThrottleId, UnSetFlowTo, idManagerVars
    <2>2. /\ flowIdMap[id] # None /\ throttleCfg[d][id] = flowIdMap[id] /\ flowIdMap[id].direct = d
          /\ flowUnsetPc[flowIdMap[id]] \notin {"deleteId", "release"}
      BY <2>1 DEF FlowConfigs
    <2>3. flowIdMap[id] # p
      BY <1>7, <2>2 DEF UnSetFlowDeleteThrottleId
    <2>4. flowUnsetPc'[flowIdMap[id]] = flowUnsetPc[flowIdMap[id]]
      BY <1>0, <1>b, <1>7, <2>2, <2>3 DEF UnSetFlowDeleteThrottleId, UnSetFlowTo
    <2>5. QED
      BY <2>1, <2>2, <2>4
  <1>8. CASE UnSetFlowRelease(p)
    <2>1. UNCHANGED throttleCfg
      BY <1>8 DEF UnSetFlowRelease, edtVars
    <2>2. /\ flowIdMap[id] # None /\ throttleCfg[d][id] = flowIdMap[id] /\ flowIdMap[id].direct = d
          /\ flowUnsetPc[flowIdMap[id]] \notin {"deleteId", "release"}
      BY <2>1 DEF FlowConfigs
    <2>3. flowIdMap[id] # p
      BY <1>8, <2>2 DEF UnSetFlowRelease
    <2>4. flowIdMap'[id] = flowIdMap[id]
      BY <1>0, <1>c, <1>8, <2>3 DEF UnSetFlowRelease, ReleaseProcessInfo, flowMaps
    <2>5. flowUnsetPc'[flowIdMap[id]] = flowUnsetPc[flowIdMap[id]]
      BY <1>0, <1>b, <1>8, <2>2, <2>3 DEF UnSetFlowRelease
    <2>6. QED
      BY <2>1, <2>2, <2>4, <2>5
  <1>9. QED
    BY <1>1, <1>2, <1>3, <1>4, <1>5, <1>6, <1>7, <1>8 DEF SetFlow, UnSetFlow

\* A flow that is set, or about to be reported set, keeps its configuration.
LEMMA FlowStepDone ==
  ASSUME MaxFlowID < MapSize, FlowInv, FlowDone, NEW p \in ProcessIds, SetFlow(p) \/ UnSetFlow(p)
  PROVE  FlowDone'
  <1> USE DEF FlowInv
  <1>0. /\ processIdMap \in [ProcessIds -> FlowIds \union {None}]
        /\ throttleCfg \in [Dirs -> [CfgIndexes -> Holders \union {None}]]
        /\ flowSetPc \in [ProcessIds -> {"idle", "updateId", "addConfig", "insert"}]
        /\ flowSuccess \in [ProcessIds -> BOOLEAN]
        /\ p.direct \in Dirs /\ p # None
    BY FlowParts DEF FlowTypeOK, IDManagerTypeOK, EdtMapsTypeOK
  <1> SUFFICES ASSUME NEW q \in ProcessIds, flowSuccess'[q] \/ flowSetPc'[q] = "insert"
               PROVE  /\ processIdMap'[q] # None
                      /\ throttleCfg'[q.direct][processIdMap'[q]] = q
    BY DEF FlowDone
  <1>a. q.direct \in Dirs
    BY FlowParts
  <1>b. processIdMap[q] # None => processIdMap[q] \in CfgIndexes /\ processIdMap[q] \in FlowIds
    BY <1>0, FlowIdsIndex
  <1>c. p # q /\ processIdMap[p] # None => processIdMap[q] # processIdMap[p]
    BY <1>0 DEF FlowChain
  <1>1. CASE SetFlowAllocate(p)
    <2>1. UNCHANGED <<throttleCfg, flowSuccess>> /\ flowSetPc' = [flowSetPc EXCEPT ![p] = "updateId"]
      BY <1>1 DEF SetFlowAllocate, edtVars
    <2>2. flowSuccess[q] \/ flowSetPc[q] = "insert"
      BY <1>0, <2>1
    <2>3. PICK i \in FlowIds : AllocateProcessId(p, i)
      BY <1>1 DEF SetFlowAllocate
    <2>4. processIdMap[q] # None => processIdMap'[q] = processIdMap[q]
      BY <1>0, <2>3 DEF AllocateProcessId, flowMaps
    <2>5. QED
      BY <2>1, <2>2, <2>4 DEF FlowDone
  <1>2. CASE SetFlowUpdateThrottleId(p)
    <2>1. UNCHANGED <<throttleCfg, processIdMap, flowSuccess>> /\ flowSetPc' = [flowSetPc EXCEPT ![p] = "addConfig"]
      BY <1>2 DEF SetFlowUpdateThrottleId, UpdateThrottleId, SetFlowTo, edtVars, idManagerVars
    <2>2. flowSuccess[q] \/ flowSetPc[q] = "insert"
      BY <1>0, <2>1
    <2>3. QED
      BY <2>1, <2>2 DEF FlowDone
  <1>3. CASE SetFlowAddConfig(p)
    <2>1. UNCHANGED <<processIdMap, flowSuccess>> /\ flowSetPc' = [flowSetPc EXCEPT ![p] = "insert"]
      BY <1>3 DEF SetFlowAddConfig, SetFlowTo, idManagerVars
    <2>2. flowSetId[p] = processIdMap[p] /\ processIdMap[p] # None /\ processIdMap[p] \in FlowIds
      BY <1>0, <1>3 DEF SetFlowAddConfig, HandlersHold
    <2>3. throttleCfg' = [throttleCfg EXCEPT ![p.direct][processIdMap[p]] = p]
      BY <1>3, <2>2, FlowIdsIndex DEF SetFlowAddConfig, AddConfig, SingleWriteThrottleCfg
    <2>4. CASE p = q
      BY <1>0, <1>b, <2>1, <2>2, <2>3, <2>4
    <2>5. CASE p # q
      <3>1. flowSuccess[q] \/ flowSetPc[q] = "insert"
        BY <1>0, <2>1, <2>5
      <3>2. processIdMap[q] # None /\ throttleCfg[q.direct][processIdMap[q]] = q
        BY <3>1 DEF FlowDone
      <3>3. throttleCfg'[q.direct][processIdMap[q]] = throttleCfg[q.direct][processIdMap[q]]
        BY <1>0, <1>a, <1>b, <1>c, <2>2, <2>3, <2>5, <3>2
      <3>4. QED
        BY <2>1, <3>2, <3>3
    <2>6. QED
      BY <2>4, <2>5
  <1>4. CASE SetFlowInsertProcessInfo(p)
    <2>1. flowSetId[p] = processIdMap[p] /\ flowSetPc[p] = "insert"
      BY <1>4 DEF SetFlowInsertProcessInfo, HandlersHold
    <2>2. UNCHANGED <<throttleCfg, processIdMap>>
      BY <1>0, <1>4, <2>1 DEF SetFlowInsertProcessInfo, InsertProcessInfo, edtVars
    <2>3. flowSuccess[q] \/ flowSetPc[q] = "insert"
      BY <1>0, <1>4, <2>1 DEF SetFlowInsertProcessInfo
    <2>4. QED
      BY <2>2, <2>3 DEF FlowDone
  <1>5. CASE UnSetFlowLookup(p)
    <2>1. UNCHANGED <<throttleCfg, processIdMap, flowSetPc>> /\ flowSuccess' = [flowSuccess EXCEPT ![p] = FALSE]
      BY <1>5 DEF UnSetFlowLookup, edtVars, idManagerVars
    <2>2. flowSuccess[q] \/ flowSetPc[q] = "insert"
      BY <1>0, <2>1
    <2>3. QED
      BY <2>1, <2>2 DEF FlowDone
  <1>6. CASE UnSetFlowClear(p)
    <2>1. UNCHANGED <<processIdMap, flowSetPc, flowSuccess>>
      BY <1>6 DEF UnSetFlowClear, UnSetFlowTo, idManagerVars
    <2>2. flowUnsetId[p] = processIdMap[p] /\ processIdMap[p] # None /\ processIdMap[p] \in FlowIds
      BY <1>0, <1>6 DEF UnSetFlowClear, HandlersHold
    <2>3. throttleCfg' = [throttleCfg EXCEPT ![p.direct][processIdMap[p]] = None]
      BY <1>6, <2>2, FlowIdsIndex DEF UnSetFlowClear, SingleWriteThrottleCfg
    <2>4. ~ flowSuccess[p] /\ flowSetPc[p] = "idle"
      BY <1>0, <1>6 DEF UnSetFlowClear, HandlersHold
    <2>5. p # q
      BY <2>1, <2>4
    <2>6. processIdMap[q] # None /\ throttleCfg[q.direct][processIdMap[q]] = q
      BY <2>1 DEF FlowDone
    <2>7. throttleCfg'[q.direct][processIdMap[q]] = throttleCfg[q.direct][processIdMap[q]]
      BY <1>0, <1>a, <1>b, <1>c, <2>2, <2>3, <2>5, <2>6
    <2>8. QED
      BY <2>1, <2>6, <2>7
  <1>7. CASE UnSetFlowDeleteThrottleId(p)
    <2>1. UNCHANGED <<throttleCfg, processIdMap, flowSetPc, flowSuccess>>
      BY <1>7 DEF UnSetFlowDeleteThrottleId, DeleteThrottleId, UnSetFlowTo, idManagerVars
    <2>2. QED
      BY <2>1 DEF FlowDone
  <1>8. CASE UnSetFlowRelease(p)
    <2>1. UNCHANGED <<throttleCfg, flowSetPc, flowSuccess>>
      BY <1>8 DEF UnSetFlowRelease, edtVars
    <2>2. ~ flowSuccess[p] /\ flowSetPc[p] = "idle"
      BY <1>0, <1>8 DEF UnSetFlowRelease, HandlersHold
    <2>3. p # q
      BY <2>1, <2>2
    <2>4. processIdMap'[q] = processIdMap[q]
      BY <1>0, <1>8, <2>3 DEF UnSetFlowRelease, ReleaseProcessInfo, flowMaps
    <2>5. QED
      BY <2>1, <2>4 DEF FlowDone
  <1>9. QED
    BY <1>1, <1>2, <1>3, <1>4, <1>5, <1>6, <1>7, <1>8 DEF SetFlow, UnSetFlow
-----------------------------------------------------------------------------
(* The theorems.                                                           *)

\* The invariant of the maps, under steps of the flow handlers.
LEMMA FlowMapsStep ==
  ASSUME MaxFlowID < MapSize, FlowInv, FlowMapsInv, [FlowNext]_flowVars
  PROVE  FlowInv' /\ FlowMapsInv'
  <1>1. CASE FlowNext
    <2>1. PICK p \in ProcessIds : SetFlow(p) \/ UnSetFlow(p)
      BY <1>1 DEF FlowNext
    <2>2. FlowTypeOK'
      BY <2>1, FlowStepType
    <2>3. FlowChain' /\ HandlersHold'
      BY <2>1, FlowStepIds
    <2>4. FlowKeys'
      BY <2>1, FlowStepKeys DEF FlowMapsInv
    <2>5. FlowConfigs'
      BY <2>1, FlowStepConfigs DEF FlowMapsInv
    <2>6. FlowDone'
      BY <2>1, FlowStepDone DEF FlowMapsInv
    <2>7. QED
      BY <2>2, <2>3, <2>4, <2>5, <2>6 DEF FlowInv, FlowMapsInv
  <1>2. CASE UNCHANGED flowVars
    <2> USE <1>2 DEF flowVars, flowHandlerVars, idManagerVars, edtVars
    <2>1. FlowInv'
      BY DEF FlowInv, FlowTypeOK, IDManagerTypeOK, EdtMapsTypeOK, FlowChain, HandlersHold
    <2>2. FlowMapsInv'
      BY DEF FlowMapsInv, FlowKeys, FlowConfigs, FlowDone
    <2>3. QED
      BY <2>1, <2>2
  <1>3. QED
    BY <1>1, <1>2

\* What the invariant says of the data path: a packet at the flow's end, when the
\* address is no pod's, is looked up by the flow's key.
LEMMA FlowServed ==
  ASSUME NEW p \in ProcessIds, NEW packet \in Packets,
         LocalEnd(p.direct, packet) = FlowKey(p),
         throttleId[p.direct][FlowKey(p)] # None,
         throttleId[p.direct][PodKey(p.ip)] = None
  PROVE  Classify(p.direct, packet) = throttleId[p.direct][FlowKey(p)]
  <1>1. LocalEnd(p.direct, packet)[1] = p.ip
    BY DEF FlowKey
  <1>2. QED
    BY <1>1 DEF Classify

LEMMA FlowInvInForce == FlowInv /\ FlowMapsInv => FlowInForce
  <1> SUFFICES ASSUME FlowInv, FlowMapsInv, NEW p \in ProcessIds, flowSuccess[p]
               PROVE  /\ processIdMap[p] # None
                      /\ p.port # PodPort => throttleId[p.direct][FlowKey(p)]
                           \in {GenerateClassId(p, processIdMap[p]), None}
                      /\ throttleId[p.direct][FlowKey(p)] # None
                           /\ throttleId[p.direct][PodKey(p.ip)] = None =>
                           \A packet \in Packets : LocalEnd(p.direct, packet) = FlowKey(p) =>
                             Classify(p.direct, packet) = GenerateClassId(p, processIdMap[p])
                      /\ throttleCfg[p.direct][processIdMap[p]] = p
                      /\ \A q \in ProcessIds \ {p} : processIdMap[q] # processIdMap[p]
    BY DEF FlowInForce
  <1>1. processIdMap[p] # None /\ throttleCfg[p.direct][processIdMap[p]] = p
    BY DEF FlowMapsInv, FlowDone
  <1>2. p.port # PodPort =>
          throttleId[p.direct][FlowKey(p)] \in {GenerateClassId(p, processIdMap[p]), None}
    BY DEF FlowMapsInv, FlowKeys
  <1>3. ASSUME throttleId[p.direct][FlowKey(p)] # None, throttleId[p.direct][PodKey(p.ip)] = None,
               NEW packet \in Packets, LocalEnd(p.direct, packet) = FlowKey(p)
        PROVE  Classify(p.direct, packet) = GenerateClassId(p, processIdMap[p])
    <2>1. p.port # PodPort
      BY <1>3 DEF FlowKey, PodKey
    <2>2. QED
      BY <1>2, <1>3, <2>1, FlowServed
  <1>4. ASSUME NEW q \in ProcessIds \ {p} PROVE processIdMap[q] # processIdMap[p]
    BY <1>1 DEF FlowInv, FlowChain
  <1>5. QED
    BY <1>1, <1>2, <1>3, <1>4

LEMMA FlowInvNoResidue == FlowInv /\ FlowMapsInv => FlowNoResidue
  BY DEF FlowMapsInv, FlowKeys, FlowConfigs, FlowNoResidue

\* When the arrays have an entry for every flow id (999 < 5000 in the code), a flow
\* that bwmctl was told is set has an id and a configuration of its own and is
\* never taken for another flow, and UnSetFlow leaves nothing behind, for any
\* number of flows whose handlers interleave.
THEOREM FlowsStayInForce ==
  ASSUME MaxFlowID < MapSize
  PROVE  FlowSpec => [](FlowInForce /\ FlowNoResidue)
  <1>1. FlowInit => FlowInv /\ FlowMapsInv
    BY FlowInvInit, FlowMapsInit
  <1>2. FlowInv /\ FlowMapsInv /\ [FlowNext]_flowVars => FlowInv' /\ FlowMapsInv'
    BY FlowMapsStep
  <1>3. FlowInv /\ FlowMapsInv => FlowInForce /\ FlowNoResidue
    BY FlowInvInForce, FlowInvNoResidue
  <1>4. QED
    BY <1>1, <1>2, <1>3, PTL DEF FlowSpec

-----------------------------------------------------------------------------
(* Both halves together.                                                   *)

DaemonInv == FullInv /\ FlowInv /\ FlowMapsInv

-----------------------------------------------------------------------------
(* What a step of one half leaves as it is.                                *)

\* What the flow handlers go by.
FlowView ==
    /\ UNCHANGED <<flowIdMap, processIdMap, flowHandlerVars, flowSuccess>>
    /\ \A p \in ProcessIds : p.port # PodPort =>
         throttleId'[p.direct][FlowKey(p)] = throttleId[p.direct][FlowKey(p)]
    /\ \A d \in Dirs, id \in FlowIds : throttleCfg'[d][id] = throttleCfg[d][id]

\* What the pod handlers go by.
PodView ==
    /\ UNCHANGED <<containerIdMap, podOnlyVars>>
    /\ \A id \in PodIds : podIdMap'[id] = podIdMap[id]
    /\ \A d \in Dirs, a \in Ips : MarkAt(throttleId', d, a) = MarkAt(throttleId, d, a)
    /\ \A d \in Dirs, id \in PodIds : CfgAt(throttleCfg', d, id) = CfgAt(throttleCfg, d, id)

\* Ids and keys of the two halves differ, but for contested addresses.
LEMMA HalvesApart ==
  ASSUME MaxFlowID < MapSize
  PROVE  /\ \A id \in PodIds : id \notin FlowIds /\ id \in LocalIds
         /\ \A id \in FlowIds : id \in CfgIndexes /\ id \in LocalIds /\ id < MapSize
         /\ \A p \in ProcessIds : p.port # PodPort => \A a : FlowKey(p) # PodKey(a)
         /\ \A p \in ProcessIds : \A a \in Ips : FlowKey(p) = PodKey(a) => a \in Contested
  <1>1. \A id \in PodIds : id \notin FlowIds /\ id \in LocalIds
    BY IdRangesAssumption DEF PodIds, FlowIds, LocalIds
  <1>2. \A id \in FlowIds : id \in CfgIndexes /\ id \in LocalIds /\ id < MapSize
    BY FlowIdsIndex, FlowIdsLocal
  <1>3. \A p \in ProcessIds : \A a : FlowKey(p) = PodKey(a) => p.ip = a /\ p.port = PodPort
    BY DEF FlowKey, PodKey
  <1>4. QED
    BY <1>1, <1>2, <1>3 DEF Contested

\* A step that leaves what the flow handlers go by keeps their invariant.
LEMMA FlowsKept ==
  ASSUME FlowInv, FlowMapsInv, FlowView, IDManagerTypeOK', EdtMapsTypeOK'
  PROVE  FlowInv' /\ FlowMapsInv'
  <1> USE DEF FlowView, flowHandlerVars
  <1>1. FlowTypeOK'
    BY DEF FlowInv, FlowTypeOK
  <1>2. FlowChain' /\ HandlersHold'
    BY DEF FlowInv, FlowChain, HandlersHold
  <1>3. FlowKeys'
    BY DEF FlowMapsInv, FlowKeys
  <1>4. FlowConfigs'
    BY DEF FlowMapsInv, FlowConfigs
  <1>5. FlowDone'
    <2> SUFFICES ASSUME NEW p \in ProcessIds, flowSuccess[p] \/ flowSetPc[p] = "insert"
                 PROVE  /\ processIdMap[p] # None
                        /\ throttleCfg'[p.direct][processIdMap[p]] = p
      BY DEF FlowDone
    <2>1. processIdMap[p] # None /\ throttleCfg[p.direct][processIdMap[p]] = p
      BY DEF FlowMapsInv, FlowDone
    <2>2. processIdMap[p] \in FlowIds /\ p.direct \in Dirs
      BY <2>1, FlowParts DEF FlowInv, FlowTypeOK, IDManagerTypeOK
    <2>3. QED
      BY <2>1, <2>2
  <1>6. QED
    BY <1>1, <1>2, <1>3, <1>4, <1>5 DEF FlowInv, FlowMapsInv

\* A step that leaves what the pod handlers go by keeps theirs.
LEMMA PodsKept ==
  ASSUME FullInv, PodView, IDManagerTypeOK', EdtMapsTypeOK'
  PROVE  FullInv'
  <1> USE DEF PodView, podOnlyVars, handlerVars, faultVars, startVars, lateVars, nodeVars
  <1>0. IdInv
    BY DEF FullInv, IndInv
  <1>a. \A c \in ContainerIds : containerIdMap[c] # None =>
          /\ containerIdMap[c].LocalId \in PodIds /\ ip[c] \in Ips
          /\ containerIdMap[c].VethIpv4 = ip[c]
    BY <1>0, Holds
  <1>1. TypeOK'
    BY <1>0 DEF IdInv, TypeOK
  <1>2. AddressesApart' /\ SetQosHolds' /\ UnSetQosHolds'
    BY <1>0 DEF IdInv, AddressesApart, SetQosHolds, UnSetQosHolds
  <1>3. PodChain'
    BY <1>0, <1>a DEF IdInv, PodChain
  <1>b. ASSUME NEW c \in ContainerIds, NEW d \in Dirs, containerIdMap[c] # None
        PROVE  /\ Classified(c, d)' <=> Classified(c, d)
               /\ Configured(c, d)' <=> Configured(c, d)
               /\ MarkAt(throttleId', d, ip[c]) = MarkAt(throttleId, d, ip[c])
               /\ CfgAt(throttleCfg', d, containerIdMap[c].LocalId)
                    = CfgAt(throttleCfg, d, containerIdMap[c].LocalId)
    <2>1. containerIdMap[c].LocalId \in PodIds /\ ip[c] \in Ips
      BY <1>a, <1>b
    <2>2. /\ MarkAt(throttleId', d, ip[c]) = MarkAt(throttleId, d, ip[c])
          /\ CfgAt(throttleCfg', d, containerIdMap[c].LocalId)
               = CfgAt(throttleCfg, d, containerIdMap[c].LocalId)
      BY <2>1
    <2>3. QED
      BY <2>2 DEF Classified, Configured, PodKey, GenerateClassId, MarkAt, CfgAt
  <1>4. SetQosDone' /\ Succeeded'
    <2>1. "egress" \in Dirs /\ "ingress" \in Dirs
      BY DEF Dirs
    <2>2. \A c \in ContainerIds : setPc[c] # "idle" => containerIdMap[c] # None
      BY <1>0 DEF IdInv, SetQosHolds
    <2>3. SetQosDone'
      BY <1>b, <2>1, <2>2 DEF FullInv, IndInv, SetQosDone
    <2>4. Succeeded'
      BY <1>b DEF FullInv, IndInv, Succeeded
    <2>5. QED
      BY <2>3, <2>4
  <1>5. IdChain'
    BY DEF FullInv, ResidueInv, IdChain
  <1>6. Configs'
    BY DEF FullInv, ResidueInv, Configs, CfgAt
  <1>7. Marks'
    <2>1. \A c \in ContainerIds : ip[c] # None => ip[c] \in Ips
      BY <1>0, Typed
    <2> SUFFICES ASSUME NEW d \in Dirs
                 PROVE  /\ \A a \in Ips : (\A c \in ContainerIds : ip[c] # a)
                             => MarkAt(throttleId', d, a) = None
                        /\ \A c \in ContainerIds :
                             ip[c] # None /\ MarkAt(throttleId', d, ip[c]) # None =>
                               containerIdMap[c] # None /\ Classified(c, d)'
      BY DEF Marks, MarkAt, PodKey
    <2>2. QED
      BY <1>b, <2>1 DEF FullInv, ResidueInv, Marks
  <1>8. Cleared'
    <2>1. "egress" \in Dirs /\ "ingress" \in Dirs
      BY DEF Dirs
    <2>2. QED
      BY <1>b, <2>1 DEF FullInv, ResidueInv, Cleared, PodKey, MarkAt, CfgAt
  <1>9. QED
    BY <1>1, <1>2, <1>3, <1>4, <1>5, <1>6, <1>7, <1>8
       DEF FullInv, IndInv, IdInv, ResidueInv
-----------------------------------------------------------------------------
(* The flow handlers write elsewhere.                                      *)

LEMMA FlowStepLeavesPods ==
  ASSUME MaxFlowID < MapSize, FlowInv, FlowNext, UNCHANGED podOnlyVars
  PROVE  PodView
  <1>1. PICK p \in ProcessIds : SetFlow(p) \/ UnSetFlow(p)
    BY DEF FlowNext
  <1>2. /\ podIdMap \in [LocalIds -> Holders \union {None}]
        /\ throttleId \in [Dirs -> [TcEdtIdKey -> ClassIds \union {None}]]
        /\ throttleCfg \in [Dirs -> [CfgIndexes -> Holders \union {None}]]
    BY DEF FlowInv, FlowTypeOK, IDManagerTypeOK, EdtMapsTypeOK
  <1>3. p.direct \in Dirs /\ FlowKey(p) \in TcEdtIdKey /\ \A a \in Ips : PodKey(a) \in TcEdtIdKey
    BY FlowParts, PodKeyType
  <1>4. flowSetPc[p] # "idle" => flowSetId[p] \in FlowIds
    BY HandlerId
  <1>5. flowUnsetPc[p] = "clear" => flowUnsetId[p] \in FlowIds
    BY HandlerId
  <1>6. UNCHANGED containerIdMap
    <2>1. CASE SetFlowAllocate(p)
      BY <2>1 DEF SetFlowAllocate, AllocateProcessId, podMaps
    <2>2. CASE ~ SetFlowAllocate(p)
      BY <1>1, <2>2 DEF SetFlow, UnSetFlow, SetFlowUpdateThrottleId, SetFlowAddConfig,
           SetFlowInsertProcessInfo, InsertProcessInfo, UnSetFlowLookup, UnSetFlowClear,
           UnSetFlowDeleteThrottleId, UnSetFlowTo, UnSetFlowRelease, ReleaseProcessInfo,
           podMaps, idManagerVars
    <2>3. QED
      BY <2>1, <2>2
  <1>7. \A id \in PodIds : podIdMap'[id] = podIdMap[id]
    <2>1. CASE SetFlowInsertProcessInfo(p)
      <3>1. podIdMap' = [podIdMap EXCEPT ![flowSetId[p]] = p] /\ flowSetId[p] \in FlowIds
        BY <1>4, <2>1 DEF SetFlowInsertProcessInfo, InsertProcessInfo
      <3>2. QED
        BY <1>2, <3>1, HalvesApart
    <2>2. CASE ~ SetFlowInsertProcessInfo(p)
      <3>1. UNCHANGED podIdMap
        BY <1>1, <2>2 DEF SetFlow, UnSetFlow, SetFlowAllocate, AllocateProcessId,
             SetFlowUpdateThrottleId, SetFlowAddConfig, UnSetFlowLookup, UnSetFlowClear,
             UnSetFlowDeleteThrottleId, UnSetFlowTo, UnSetFlowRelease, ReleaseProcessInfo,
             podMaps, idManagerVars
      <3>2. QED
        BY <3>1
    <2>3. QED
      BY <2>1, <2>2
  <1>8. \A d \in Dirs, a \in Ips : MarkAt(throttleId', d, a) = MarkAt(throttleId, d, a)
    <2>1. ASSUME NEW class, throttleId' = [throttleId EXCEPT ![p.direct][FlowKey(p)] = class],
                 NEW d \in Dirs, NEW a \in Ips
          PROVE  MarkAt(throttleId', d, a) = MarkAt(throttleId, d, a)
      BY <1>2, <1>3, <2>1, HalvesApart DEF MarkAt
    <2>2. CASE UnSetFlowDeleteThrottleId(p)
      BY <2>1, <2>2 DEF UnSetFlowDeleteThrottleId, DeleteThrottleId
    <2>3. CASE SetFlowUpdateThrottleId(p)
      BY <2>1, <2>3 DEF SetFlowUpdateThrottleId, UpdateThrottleId, edtVars, MarkAt
    <2>4. CASE ~ UnSetFlowDeleteThrottleId(p) /\ ~ SetFlowUpdateThrottleId(p)
      <3>1. UNCHANGED throttleId
        BY <1>1, <2>4 DEF SetFlow, UnSetFlow, SetFlowAllocate, SetFlowAddConfig, AddConfig,
             SingleWriteThrottleCfg, SetFlowInsertProcessInfo, UnSetFlowLookup, UnSetFlowClear,
             UnSetFlowRelease, edtVars
      <3>2. QED
        BY <3>1 DEF MarkAt
    <2>5. QED
      BY <2>2, <2>3, <2>4
  <1>9. \A d \in Dirs, id \in PodIds : CfgAt(throttleCfg', d, id) = CfgAt(throttleCfg, d, id)
    <2>1. ASSUME NEW i \in FlowIds, NEW h, SingleWriteThrottleCfg(p.direct, i, h),
                 NEW d \in Dirs, NEW id \in PodIds
          PROVE  CfgAt(throttleCfg', d, id) = CfgAt(throttleCfg, d, id)
      BY <1>2, <1>3, <2>1, HalvesApart DEF SingleWriteThrottleCfg, CfgAt
    <2>2. CASE SetFlowAddConfig(p)
      BY <1>4, <2>1, <2>2 DEF SetFlowAddConfig, AddConfig
    <2>3. CASE UnSetFlowClear(p)
      BY <1>5, <2>1, <2>3 DEF UnSetFlowClear
    <2>4. CASE ~ SetFlowAddConfig(p) /\ ~ UnSetFlowClear(p)
      <3>1. UNCHANGED throttleCfg
        BY <1>1, <2>4 DEF SetFlow, UnSetFlow, SetFlowAllocate, SetFlowUpdateThrottleId,
             UpdateThrottleId, SetFlowInsertProcessInfo, UnSetFlowLookup,
             UnSetFlowDeleteThrottleId, DeleteThrottleId, UnSetFlowRelease, edtVars
      <3>2. QED
        BY <3>1 DEF CfgAt
    <2>5. QED
      BY <2>2, <2>3, <2>4
  <1>10. QED
    BY <1>6, <1>7, <1>8, <1>9 DEF PodView

-----------------------------------------------------------------------------
(* So do the pod handlers.                                                 *)

LEMMA PodStepLeavesFlows ==
  ASSUME MaxFlowID < MapSize, FullInv, Next, UNCHANGED flowOnlyVars
  PROVE  FlowView
  <1>0. IdInv
    BY DEF FullInv, IndInv
  <1>1. PICK c \in ContainerIds : Node(c) \/ SetQos(c) \/ UnSetQos(c)
    BY DEF Next
  <1>2. /\ throttleId \in [Dirs -> [TcEdtIdKey -> ClassIds \union {None}]]
        /\ throttleCfg \in [Dirs -> [CfgIndexes -> Holders \union {None}]]
        /\ \A p \in ProcessIds : p.direct \in Dirs /\ FlowKey(p) \in TcEdtIdKey
        /\ \A a \in Ips : PodKey(a) \in TcEdtIdKey
    BY <1>0, Typed, FlowParts
  <1>3. setPc[c] # "idle" => setInfo[c].LocalId \in PodIds /\ setInfo[c].VethIpv4 \in Ips
    BY <1>0, SetInfoType, IdInvBase
  <1>4. unsetPc[c] \notin {"idle", "release"} =>
          unsetInfo[c].LocalId \in PodIds /\ unsetInfo[c].VethIpv4 \in Ips
    BY <1>0, UnsetInfoType, IdInvBase
  <1>5. ASSUME NEW d \in Dirs, NEW a \in Ips, NEW class,
               throttleId' = [throttleId EXCEPT ![d][PodKey(a)] = class],
               NEW p \in ProcessIds, p.port # PodPort
        PROVE  throttleId'[p.direct][FlowKey(p)] = throttleId[p.direct][FlowKey(p)]
    BY <1>2, <1>5, HalvesApart
  <1>6. ASSUME NEW d \in Dirs, NEW i \in PodIds, NEW h, SingleWriteThrottleCfg(d, i, h),
               NEW e \in Dirs, NEW id \in FlowIds
        PROVE  throttleCfg'[e][id] = throttleCfg[e][id]
    BY <1>2, <1>6, HalvesApart DEF SingleWriteThrottleCfg
  <1>d. "egress" \in Dirs /\ "ingress" \in Dirs
    BY DEF Dirs
  <1>7. CASE Node(c)
    <2>1. UNCHANGED <<idManagerVars, edtVars>>
      BY <1>7 DEF Node, RunPodSandbox, PodStarted, PodRemoved
    <2>2. QED
      BY <2>1 DEF FlowView, flowOnlyVars, idManagerVars, edtVars
  <1>8. CASE SetQos(c)
    <2>1. UNCHANGED flowMaps
      BY <1>8 DEF SetQos, SetQosAllocate, AllocatePodId, SetQosPatch, SetQosPatchFails,
           SetQosUpdateEgressThrottleId, SetQosUpdateIngressThrottleId, SetQosUpdateFails,
           SetQosAddEgressConfig, SetQosAddIngressConfig, SetQosInsertPodInfo, InsertPodInfo,
           idManagerVars, flowMaps
    <2>2. CASE UNCHANGED edtVars
      BY <2>1, <2>2 DEF FlowView, flowOnlyVars, flowMaps, edtVars
    <2>3. CASE SetQosUpdateEgressThrottleId(c) \/ SetQosUpdateIngressThrottleId(c)
      <3>1. PICK d \in Dirs : SetQosUpdateThrottleId(c, d)
        BY <1>d, <2>3 DEF SetQosUpdateEgressThrottleId, SetQosUpdateIngressThrottleId
      <3>2. setInfo[c].VethIpv4 \in Ips
        BY <1>3, <2>3 DEF SetQosUpdateEgressThrottleId, SetQosUpdateIngressThrottleId
      <3>3. /\ UNCHANGED throttleCfg
            /\ throttleId' = [throttleId EXCEPT ![d][PodKey(setInfo[c].VethIpv4)] =
                                GenerateClassId(c, setInfo[c].LocalId)]
        BY <3>1 DEF SetQosUpdateThrottleId, UpdateThrottleId
      <3>4. \A p \in ProcessIds : p.port # PodPort =>
              throttleId'[p.direct][FlowKey(p)] = throttleId[p.direct][FlowKey(p)]
        BY <1>5, <3>2, <3>3
      <3>5. QED
        BY <2>1, <3>3, <3>4 DEF FlowView, flowOnlyVars, flowMaps
    <2>4. CASE SetQosAddEgressConfig(c) \/ SetQosAddIngressConfig(c)
      <3>1. PICK d \in Dirs : SingleWriteThrottleCfg(d, setInfo[c].LocalId, c)
        BY <1>d, <2>4 DEF SetQosAddEgressConfig, SetQosAddIngressConfig, AddConfig
      <3>2. setInfo[c].LocalId \in PodIds
        BY <1>3, <2>4 DEF SetQosAddEgressConfig, SetQosAddIngressConfig
      <3>3. \A e \in Dirs, id \in FlowIds : throttleCfg'[e][id] = throttleCfg[e][id]
        BY <1>6, <3>1, <3>2
      <3>4. UNCHANGED throttleId
        BY <3>1 DEF SingleWriteThrottleCfg
      <3>5. QED
        BY <2>1, <3>3, <3>4 DEF FlowView, flowOnlyVars, flowMaps
    <2>5. QED
      BY <1>8, <2>2, <2>3, <2>4 DEF SetQos, SetQosAllocate, SetQosPatch, SetQosPatchFails,
           SetQosUpdateFails, SetQosInsertPodInfo
  <1>9. CASE UnSetQos(c)
    <2>1. UNCHANGED flowMaps
      BY <1>9 DEF UnSetQos, UnSetQosLookup, UnSetQosStart, UnSetQosClearEgress,
           UnSetQosClearIngress, UnSetQosDeleteEgressThrottleId,
           UnSetQosDeleteIngressThrottleId, UnSetQosTo, UnSetQosRelease,
           ReleasePodIdByContainerId, idManagerVars, flowMaps
    <2>2. CASE UNCHANGED edtVars
      BY <2>1, <2>2 DEF FlowView, flowOnlyVars, flowMaps, edtVars
    <2>3. CASE UnSetQosDeleteEgressThrottleId(c) \/ UnSetQosDeleteIngressThrottleId(c)
      <3>1. PICK d \in Dirs : DeleteThrottleId(d, PodKey(unsetInfo[c].VethIpv4))
        BY <1>d, <2>3 DEF UnSetQosDeleteEgressThrottleId, UnSetQosDeleteIngressThrottleId
      <3>2. unsetInfo[c].VethIpv4 \in Ips
        BY <1>4, <2>3 DEF UnSetQosDeleteEgressThrottleId, UnSetQosDeleteIngressThrottleId
      <3>3. /\ UNCHANGED throttleCfg
            /\ throttleId' = [throttleId EXCEPT ![d][PodKey(unsetInfo[c].VethIpv4)] = None]
        BY <3>1 DEF DeleteThrottleId
      <3>4. \A p \in ProcessIds : p.port # PodPort =>
              throttleId'[p.direct][FlowKey(p)] = throttleId[p.direct][FlowKey(p)]
        BY <1>5, <3>2, <3>3
      <3>5. QED
        BY <2>1, <3>3, <3>4 DEF FlowView, flowOnlyVars, flowMaps
    <2>4. CASE UnSetQosClearEgress(c) \/ UnSetQosClearIngress(c)
      <3>1. PICK d \in Dirs : SingleWriteThrottleCfg(d, unsetInfo[c].LocalId, None)
        BY <1>d, <2>4 DEF UnSetQosClearEgress, UnSetQosClearIngress
      <3>2. unsetInfo[c].LocalId \in PodIds
        BY <1>4, <2>4 DEF UnSetQosClearEgress, UnSetQosClearIngress
      <3>3. \A e \in Dirs, id \in FlowIds : throttleCfg'[e][id] = throttleCfg[e][id]
        BY <1>6, <3>1, <3>2
      <3>4. UNCHANGED throttleId
        BY <3>1 DEF SingleWriteThrottleCfg
      <3>5. QED
        BY <2>1, <3>3, <3>4 DEF FlowView, flowOnlyVars, flowMaps
    <2>5. QED
      BY <1>9, <2>2, <2>3, <2>4 DEF UnSetQos, UnSetQosLookup, UnSetQosStart, UnSetQosRelease
  <1>10. QED
    BY <1>1, <1>7, <1>8, <1>9
-----------------------------------------------------------------------------
(* The daemon as a whole.                                                  *)

LEMMA DaemonStep == ASSUME MaxFlowID < MapSize, DaemonInv, [DaemonNext]_daemonVars PROVE DaemonInv'
  <1>1. CASE Next /\ UNCHANGED flowOnlyVars
    <2>1. FullInv'
      BY <1>1, FullStep DEF DaemonInv
    <2>2. IDManagerTypeOK' /\ EdtMapsTypeOK'
      BY <2>1 DEF FullInv, IndInv, IdInv, TypeOK
    <2>3. FlowView
      BY <1>1, PodStepLeavesFlows DEF DaemonInv
    <2>4. QED
      BY <2>1, <2>2, <2>3, FlowsKept DEF DaemonInv
  <1>2. CASE FlowNext /\ UNCHANGED podOnlyVars
    <2>1. FlowInv' /\ FlowMapsInv'
      BY <1>2, FlowMapsStep DEF DaemonInv
    <2>2. IDManagerTypeOK' /\ EdtMapsTypeOK'
      BY <2>1 DEF FlowInv, FlowTypeOK
    <2>3. PodView
      BY <1>2, FlowStepLeavesPods DEF DaemonInv
    <2>4. QED
      BY <2>1, <2>2, <2>3, PodsKept DEF DaemonInv
  <1>3. CASE UNCHANGED daemonVars
    <2>1. UNCHANGED vars /\ UNCHANGED flowVars
      BY <1>3 DEF daemonVars, vars, flowVars, flowOnlyVars, podOnlyVars
    <2>2. QED
      BY <2>1, FullStep, FlowMapsStep DEF DaemonInv
  <1>4. QED
    BY <1>1, <1>2, <1>3 DEF DaemonNext

LEMMA DaemonInvariant == ASSUME MaxFlowID < MapSize PROVE DaemonSpec => []DaemonInv
  <1>1. DaemonInit => DaemonInv
    BY InitFull, FlowInvInit, FlowMapsInit DEF DaemonInit, DaemonInv
  <1>2. DaemonInv /\ [DaemonNext]_daemonVars => DaemonInv'
    BY DaemonStep
  <1>3. QED
    BY <1>1, <1>2, PTL DEF DaemonSpec

\* Whatever flows are set and unset, also for the addresses of pods, a pod whose
\* SetQos has succeeded keeps its QoS and a deleted one leaves nothing behind, for
\* any number of pods and flows.  A flow set for port 0 takes a pod's address away
\* from this promise as far as the class id goes, and no further.
THEOREM PodsStayUndisturbed ==
  ASSUME MaxFlowID < MapSize PROVE DaemonSpec => [](QosInForce /\ NoResidue)
  <1>1. DaemonInv => QosInForce /\ NoResidue
    BY IndInvInForce, FullInvNoResidue DEF DaemonInv, FullInv
  <1>2. QED
    BY <1>1, DaemonInvariant, PTL

\* Nor do pods disturb flows: a flow that is set has an id and a configuration of
\* its own among all the daemon serves, its key leads to no other, and it leaves
\* nothing behind when unset; of the key of port 0 nothing is promised.
THEOREM FlowsStayInForceAmongPods ==
  ASSUME MaxFlowID < MapSize PROVE DaemonSpec => [](FlowInForce /\ FlowNoResidue)
  <1>1. DaemonInv => FlowInForce /\ FlowNoResidue
    BY FlowInvInForce, FlowInvNoResidue DEF DaemonInv
  <1>2. QED
    BY <1>1, DaemonInvariant, PTL

\* A step of a flow handler changes nothing that the service shows of a pod.
LEMMA FlowStepUnseen ==
  ASSUME FullInv, PodView
  PROVE  UNCHANGED Service!serviceVars
  <1>0. IdInv
    BY DEF FullInv, IndInv
  <1>1. UNCHANGED <<sandbox, ip, success>>
    BY DEF PodView, podOnlyVars, nodeVars
  <1>2. ASSUME NEW d \in Dirs, NEW a \in PodIps
        PROVE  StreamOf(d, a)' = StreamOf(d, a) /\ LimitOf(d, a)' = LimitOf(d, a)
    <2>1. MarkAt(throttleId', d, a) = MarkAt(throttleId, d, a)
      BY DEF PodView, PodIps
    <2>2. CASE MarkAt(throttleId, d, a) = None
      BY <2>1, <2>2, ViewIs, ViewIsNext
    <2>3. CASE MarkAt(throttleId, d, a) # None
      <3>1. PICK o \in ContainerIds : ip[o] = a
        BY <2>3 DEF FullInv, ResidueInv, Marks, PodIps
      <3>2. containerIdMap[o] # None /\ Classified(o, d)
        BY <2>3, <3>1, NoneAssumption DEF FullInv, ResidueInv, Marks, PodIps
      <3>3. containerIdMap[o].LocalId \in PodIds
        BY <1>0, <3>2, Holds
      <3>4. MarkAt(throttleId, d, a).id = containerIdMap[o].LocalId
        BY <3>1, <3>2 DEF Classified, GenerateClassId, MarkAt, PodIps
      <3>5. CfgAt(throttleCfg', d, MarkAt(throttleId, d, a).id)
              = CfgAt(throttleCfg, d, MarkAt(throttleId, d, a).id)
        BY <3>3, <3>4 DEF PodView
      <3>6. QED
        BY <2>1, <2>3, <3>5, ViewIs, ViewIsNext
    <2>4. QED
      BY <2>2, <2>3
  <1>3. UNCHANGED <<Streams, Limits>>
    BY <1>2 DEF Streams, Limits
  <1>4. QED
    BY <1>1, <1>3 DEF Service!serviceVars

\* The daemon with both its halves implements the service it promises the pods.
THEOREM DaemonImplementsService ==
  ASSUME MaxFlowID < MapSize PROVE DaemonSpec => ImplementsService
  <1>1. DaemonInit => Service!ServiceInit
    BY ServiceStart DEF DaemonInit
  <1>2. ASSUME DaemonInv, DaemonInv', [DaemonNext]_daemonVars
        PROVE  [Service!ServiceNext]_Service!serviceVars
    <2>1. CASE Next \/ UNCHANGED daemonVars
      <3>1. [Next]_vars
        BY <2>1 DEF daemonVars, vars, podOnlyVars
      <3>2. QED
        BY <1>2, <3>1, ServiceStep DEF DaemonInv
    <2>2. CASE FlowNext /\ UNCHANGED podOnlyVars
      BY <1>2, <2>2, FlowStepLeavesPods, FlowStepUnseen DEF DaemonInv
    <2>3. QED
      BY <1>2, <2>1, <2>2 DEF DaemonNext
  <1>3. QED
    BY <1>1, <1>2, DaemonInvariant, PTL DEF DaemonSpec, ImplementsService, Service!ServiceSpec
=============================================================================
